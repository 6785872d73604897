------------------------------- MODULE MCMds -------------------------------
(* MdsSession with two servers and up to three requests.                    *)
EXTENDS MdsSession

\* The two servers' states and addresses; server 1 exports to server 0.
MCMap(e, st, addr, max, laggy) ==
  [epoch |-> e, st |-> [m \in MDS |-> st[m + 1]], addr |-> [m \in MDS |-> addr[m + 1]],
   max |-> max, laggy |-> laggy, targets |-> [m \in MDS |-> IF m = 1 THEN {0} ELSE {}]]

Steady == <<MCMap(1, <<ACTIVE, ACTIVE>>, <<1, 1>>, 2, {})>>
Restart == Steady \o <<MCMap(2, <<REPLAY, ACTIVE>>, <<2, 1>>, 2, {}),
                       MCMap(3, <<RECONNECT, ACTIVE>>, <<2, 1>>, 2, {}),
                       MCMap(4, <<ACTIVE, ACTIVE>>, <<2, 1>>, 2, {})>>

\* The same without a map of its replay phase.
Reboot == Steady \o <<MCMap(2, <<RECONNECT, ACTIVE>>, <<2, 1>>, 2, {}),
                      MCMap(3, <<ACTIVE, ACTIVE>>, <<2, 1>>, 2, {})>>

Req(w, mode, dist, auth) ==
  [write |-> w, mode |-> mode, dist |-> dist, auth |-> auth, cap |-> NoMds]
Write(m) == Req(TRUE, "auth", NoMds, m)
Scenario(maps, reqs, ch) == [maps |-> maps, reqs |-> reqs, chances |-> ch,
                             late |-> {}, lateReply |-> {}]

\* Rank 1 leaves; it is laggy.
Shrink == Steady \o <<MCMap(2, <<ACTIVE, DNE>>, <<1, 0>>, 1, {})>>
Laggy == Steady \o <<MCMap(2, <<ACTIVE, ACTIVE>>, <<1, 1>>, 2, {1})>>

\* Sent to a replica unless told otherwise; to any server.
Read(m) == Req(FALSE, "any", 1 - m, m)
Random == Req(TRUE, "random", NoMds, NoMds)

\* A restart (with every way to miss maps) under a write and a sync, under two
\* requests, with a failed allocation, with a mount that times out and is undone,
\* with a signal and a corrupt reply; then, with the servers up, all that they may
\* answer; three writes under a sync; evictions; an unmount; ranks that leave or lag; the timer.
MCScenarios ==
  {Scenario(Restart, <<Write(0)>>, {"nomem"})}
  \cup {Scenario(Reboot, <<Write(0)>>, ch) : ch \in {{"sync"}, {"timeout"}, {"signal", "corrupt"}}}
  \cup {Scenario(Reboot, <<Read(1), Write(0)>>, {})}
  \cup {Scenario(Steady, <<Write(0), Read(0)>>, {"forward", "signal"}),
        Scenario(Steady, <<Read(0), Write(0)>>, {"estale", "forward", "corrupt", "sync"}),
        Scenario(Steady, <<Write(0), Write(1)>>, {"sync", "signal"}),
        Scenario(Steady, <<Write(0), Write(0), Write(1)>>, {"sync"}),
        Scenario(Steady, <<Write(0)>>, {"evict", "sync", "signal"}),
        Scenario(Steady, <<Write(0), Read(1)>>, {"evict", "nomem", "umount"}),
        Scenario(Steady, <<Write(0)>>, {"umount", "signal", "tick"}),
        Scenario(Shrink, <<Random>>, {"signal", "nomem", "leave"}),
        Scenario(Laggy, <<Write(1)>>, {"tick"}),
        Scenario(Laggy, <<Write(1)>>, {"stale", "flushmsg"})}

\* A restart whose reconnect phase the client may miss.
DeniedScenarios == {Scenario(Restart, <<Write(0)>>, {})}
============================================================================
