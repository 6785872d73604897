----------------------------- MODULE MonSession -----------------------------
(***************************************************************************)
(* The monitor client with the monitors, the network and the clock.  They  *)
(* are external: a monitor ignores what a session sends before it has      *)
(* authenticated, answers in the order it is asked, and sends the next     *)
(* osdmap once per subscription; a silent one (out of quorum) accepts the  *)
(* connection and never answers; a fault loses all that is on the way.     *)
(* The timer runs in tens of seconds: it fires when nothing is on the way, *)
(* and earlier only as the event "rush".                                   *)
(***************************************************************************)
EXTENDS MonClient

CONSTANTS
  Silent,     \* the monitors that do not answer
  Scenarios   \* the authentication protocol, the requests that are made and the
              \* events that may happen, once each

Events == {"fault", "fault again", "nomem", "rush", "reject", "bad", "signal", "age", "lapse",
           "renew", "publish", "next", "validate", "timeout", "stop"}

ASSUME SessionAssumption ==
  /\ InitMons \ Silent # {}
  /\ \A w \in Scenarios :
       w.kind \in {"x", "none"} /\ w.reqs \subseteq Reqs /\ w.chances \subseteq Events

VARIABLES
  latest,     \* the epoch of the current osdmap
  chances,    \* the events still to happen
  astray,     \* history: a message was handled after its session was closed
  lost        \* history: requests whose reply could not be decoded

envVars == <<latest, chances, astray, lost>>
vars == <<clientVars, envVars>>

Happens(e) == e \in chances /\ chances' = chances \ {e}

\* ceph_monc_init()
Init ==
  /\ \E w \in Scenarios :
       /\ monc = [cur_mon |-> NoMon, hunting |-> TRUE, pending_auth |-> FALSE,
                   sub_sent |-> FALSE, expired |-> TRUE, want |-> 1, have |-> 0,
                   monmap |-> InitMons, got_monmap |-> FALSE, last_tid |-> 0,
                   tid |-> [r \in Reqs |-> 0], tree |-> {}, done |-> {},
                   timer |-> FALSE, auth_err |-> FALSE, wedged |-> FALSE, con |-> "closed",
                   out |-> <<>>, in |-> <<>>, peer |-> NewPeer,
                   auth |-> [kind |-> w.kind, protocol |-> FALSE, negotiating |-> TRUE,
                              starting |-> FALSE, have |-> {}, old |-> {}]]
       /\ chances = w.chances
       /\ caller = [r \in Reqs |-> IF r \in w.reqs THEN "new" ELSE "unused"]
  /\ worker = Idle
  /\ mount = "no" /\ stopping = "no"
  /\ latest = 1 /\ astray = FALSE /\ lost = {}

----------------------------------------------------------------------------
(* The monitor at the other end.                                            *)

\* The answer to the message m of a session in state p.
Answer(p, m) ==
  LET kind == monc.auth.kind
      reply(q, t) == [peer |-> q, in |-> t]
      refuse == reply(p, <<Msg("reject", 1)>>)
  IN  CASE m.t = "hello" /\ kind = "x" ->
             reply([p EXCEPT !.auth = "hello"], <<Msg("challenge", 0)>>)
        [] m.t = "hello" /\ kind = "none" ->
             reply([p EXCEPT !.auth = "yes"], <<Msg("ok", 0)>>)
        [] m.t = "getkey" /\ p.auth # "no" ->
             reply([p EXCEPT !.auth = "yes"], <<Msg("key", 0)>>)
        [] m.t = "getsvc" /\ p.auth = "yes" -> reply(p, <<Msg("svc", 0)>>)
        [] m.t = "sub" /\ p.auth = "yes" ->
             reply([p EXCEPT !.sub = IF m.x >= 0 THEN m.x ELSE @],
                    <<Msg("monmap", 0), Msg("ack", 0)>>)
        [] m.t = "req" /\ p.auth = "yes" -> reply([p EXCEPT !.pend = @ \cup {m.x}], <<>>)
        [] m.t \in {"sub", "req", "keepalive"} -> reply(p, <<>>)
        [] OTHER -> refuse

MonTakes ==
  /\ monc.con = "open" /\ monc.out # <<>> /\ monc.cur_mon \notin Silent
  /\ LET a == Answer(monc.peer, Head(monc.out)) IN
     monc' = [monc EXCEPT !.out = Tail(@), !.peer = a.peer, !.in = @ \o a.in]
  /\ UNCHANGED <<worker, caller, mount, stopping, envVars>>

MonIgnores ==
  /\ monc.con = "open" /\ monc.out # <<>> /\ monc.cur_mon \in Silent
  /\ monc' = [monc EXCEPT !.out = Tail(@)]
  /\ UNCHANGED <<worker, caller, mount, stopping, envVars>>

MonRejects ==
  /\ monc.con = "open" /\ monc.out # <<>> /\ Head(monc.out) \in AuthMsgs
  /\ monc.cur_mon \notin Silent /\ Happens("reject")
  /\ \E p \in {0, 1} : monc' = [monc EXCEPT !.out = Tail(@), !.in = Append(@, Msg("reject", p))]
  /\ UNCHANGED <<worker, caller, mount, stopping, latest, astray, lost>>

\* A request has been executed; its reply may be one the client cannot decode.
Reply(t, tid) ==
  monc' = [monc EXCEPT !.peer.pend = @ \ {tid}, !.in = Append(@, Msg(t, tid))]

MonReplies ==
  /\ monc.con = "open"
  /\ \E tid \in monc.peer.pend : Reply("reply", tid)
  /\ UNCHANGED <<worker, caller, mount, stopping, envVars>>

MonGarbles ==
  /\ monc.con = "open" /\ Happens("bad")
  /\ \E tid \in monc.peer.pend : Reply("bad", tid) /\ lost' = lost \cup {tid}
  /\ UNCHANGED <<worker, caller, mount, stopping, latest, astray>>

MonSendsMap ==
  /\ monc.con = "open" /\ monc.peer.sub >= 0 /\ monc.peer.sub < latest
  /\ monc' = [monc EXCEPT !.peer.sub = -1, !.in = Append(@, Msg("map", latest))]
  /\ UNCHANGED <<worker, caller, mount, stopping, envVars>>

Publish ==
  /\ Happens("publish") /\ latest' = latest + 1
  /\ UNCHANGED <<clientVars, astray, lost>>

----------------------------------------------------------------------------
(* The network and the clock.                                               *)

\* The connection breaks; con_fault() will call mon_fault().
Fault ==
  /\ monc.con = "open" /\ worker = Idle
  /\ Happens("fault") \/ Happens("fault again")
  /\ Broken
  /\ UNCHANGED <<caller, mount, stopping, latest, astray, lost>>

\* Tickets pass their renew_after, or expire; the subscription is due again.
TicketsAge ==
  /\ Happens("age") /\ monc.auth.have # {}
  /\ \E K \in SUBSET monc.auth.have \ {{}} : monc' = [monc EXCEPT !.auth.old = @ \cup K]
  /\ UNCHANGED <<worker, caller, mount, stopping, latest, astray, lost>>

TicketsLapse ==
  /\ Happens("lapse") /\ monc.auth.have # {}
  /\ \E K \in SUBSET monc.auth.have \ {{}} :
       monc' = [monc EXCEPT !.auth.have = @ \ K, !.auth.old = @ \ K]
  /\ UNCHANGED <<worker, caller, mount, stopping, latest, astray, lost>>

SubExpires ==
  /\ Happens("renew") /\ ~monc.expired
  /\ monc' = [monc EXCEPT !.expired = TRUE]
  /\ UNCHANGED <<worker, caller, mount, stopping, latest, astray, lost>>

Quiet == /\ worker = Idle /\ monc.in = <<>>
         /\ monc.con = "open" => monc.out = <<>> /\ monc.peer.pend = {}

TimerFires ==
  /\ \E m \in monc.monmap : DelayedWork(m)
  /\ \/ Quiet /\ UNCHANGED chances
     \/ ~Quiet /\ Happens("rush")
  /\ UNCHANGED <<latest, astray, lost>>

\* The random choice falls on a monitor that answers.
TimerFindsMon == TimerFires /\ monc'.cur_mon \notin Silent

----------------------------------------------------------------------------
(* The client's other steps.                                                *)

\* The osd client wants the next map; an authorizer was refused.
OsdWantsMap ==
  /\ mount = "ok" /\ stopping = "no" /\ Happens("next")
  /\ monc' = RequestNextOsdmap(monc)
  /\ UNCHANGED <<worker, caller, mount, stopping, latest, astray, lost>>

OsdRefused ==
  /\ mount = "ok" /\ stopping = "no" /\ Happens("validate")
  /\ monc' = ValidateAuth(monc)
  /\ UNCHANGED <<worker, caller, mount, stopping, latest, astray, lost>>

Signal(r) ==
  /\ EndGenericRequest(r, "signal") /\ Happens("signal")
  /\ UNCHANGED <<latest, astray, lost>>

NoMemory == AllocFails /\ Happens("nomem") /\ UNCHANGED <<latest, astray, lost>>

MountTimeout == MountGivesUp /\ Happens("timeout") /\ UNCHANGED <<latest, astray, lost>>

Stop == StopCancel /\ Happens("stop") /\ UNCHANGED <<latest, astray, lost>>

Handled == astray' = (astray \/ worker.old) /\ UNCHANGED <<latest, chances, lost>>

Next ==
  \/ Mount /\ UNCHANGED envVars
  \/ MountWait /\ UNCHANGED envVars
  \/ MountTimeout
  \/ \E r \in Reqs : DoGenericRequest(r) /\ UNCHANGED envVars
  \/ \E r \in Reqs : EndGenericRequest(r, "done") /\ UNCHANGED envVars
  \/ \E r \in Reqs : Signal(r)
  \/ TimerFires
  \/ Stop
  \/ StopClose /\ UNCHANGED envVars
  \/ StopFlush /\ UNCHANGED envVars
  \/ AllocMsg /\ UNCHANGED envVars
  \/ NoMemory
  \/ HandleAuthReply /\ Handled
  \/ HandleSubscribeAck /\ Handled
  \/ HandleGenericReply /\ Handled
  \/ HandleCorruptReply /\ Handled
  \/ HandleMonMap /\ Handled
  \/ HandleOsdMap /\ Handled
  \/ \E m \in monc.monmap : MonFault(m) /\ Handled
  \/ OsdWantsMap
  \/ OsdRefused
  \/ MonTakes
  \/ MonIgnores
  \/ MonRejects
  \/ MonReplies
  \/ MonGarbles
  \/ MonSendsMap
  \/ Publish
  \/ Fault
  \/ TicketsAge
  \/ TicketsLapse
  \/ SubExpires

\* The messenger's worker.
Worker ==
  \/ AllocMsg /\ UNCHANGED envVars
  \/ (HandleAuthReply \/ HandleSubscribeAck \/ HandleGenericReply \/ HandleCorruptReply) /\ Handled
  \/ (HandleMonMap \/ HandleOsdMap \/ \E m \in monc.monmap : MonFault(m)) /\ Handled

\* The threads that wait, the worker and the monitors take their steps sooner or
\* later; the timer is rescheduled by its own work, and get_random_bytes() does not
\* avoid the answering monitors for ever.
Fairness ==
  /\ WF_vars((Mount \/ MountWait) /\ UNCHANGED envVars)
  /\ \A r \in Reqs : WF_vars(EndGenericRequest(r, "done") /\ UNCHANGED envVars)
  /\ WF_vars(Worker)
  /\ WF_vars(MonTakes \/ MonIgnores) /\ WF_vars(MonReplies \/ MonSendsMap)
  /\ WF_vars(TimerFires) /\ SF_vars(TimerFindsMon)

Spec == Init /\ [][Next]_vars /\ Fairness

----------------------------------------------------------------------------
(* Properties.                                                              *)

\* "session established" (handle_subscribe_ack() ends the hunt) is true: the
\* monitor of the present session has authenticated us and acked a subscription.
\* The exception is an ack handled after delayed_work() closed its session.  And
\* whenever the timer or an osd or mds session may call __validate_auth() there
\* is a protocol, so that ceph_build_auth() never waits for a mutex it holds.
EstablishedIsReal ==
  /\ ~monc.hunting /\ monc.con = "open" => monc.peer.auth = "yes" \/ astray
  /\ ~monc.wedged /\ (~monc.hunting \/ mount = "ok" => monc.auth.protocol)

\* "We maintain an open, active session with a monitor at all times": a hunt ends
\* in a session a monitor answers, after faults, rejections, silent monitors and
\* subscriptions sent too early.
HuntEnds ==
  (mount # "no" /\ monc.hunting) ~>
    ((~monc.hunting /\ monc.peer.auth = "yes") \/ stopping # "no" \/ astray)

\* A thread in __do_generic_request() returns, across any number of sessions,
\* unless its reply was corrupt.
RequestsEnd ==
  \A r \in Reqs : caller[r] = "waiting" ~>
    (caller[r] # "waiting" \/ monc.tid[r] \in lost \/ astray)

\* The osdmap asked for arrives once a newer one is published.
WantedMapArrives ==
  (mount # "no" /\ monc.want > 0 /\ monc.have < latest) ~>
    (monc.want = 0 \/ stopping # "no" \/ astray)

\* ceph_monc_stop() flushes the messenger "to ensure that any work that references
\* our embedded con is finished": when it returns the connection is closed, no
\* callback runs and the timer is off, for the client is freed next.
StopQuiesces ==
  stopping = "stopped" => monc.con = "closed" /\ worker = Idle /\ ~monc.timer
=============================================================================
