---------------------------- MODULE MdsSession -----------------------------
(***************************************************************************)
(* The threads of the metadata client and the servers it talks to.         *)
(*                                                                         *)
(* caller[t] runs ceph_mdsc_do_request(); worker[s] is the work item of a  *)
(* session's connection, which calls dispatch() and peer_reset() with      *)
(* con->mutex dropped, so it may hold a message of a connection that was   *)
(* closed in the meantime; mapper runs ceph_mdsc_handle_map() for the      *)
(* monitor's connection, timer delayed_work(); syncer runs                 *)
(* ceph_mdsc_sync() and umount ceph_mdsc_pre_umount() and                  *)
(* ceph_mdsc_close_sessions().  A step is one                              *)
(* critical section of mdsc->mutex, or of an s_mutex alone; owner of a     *)
(* session is who holds its s_mutex from one step to the next.             *)
(*                                                                         *)
(* The servers are external.  A server executes a request once per session *)
(* (durable survives its crash, applied does not), may answer before it is *)
(* durable, takes a reconnect only in its reconnect phase, and denies any  *)
(* other with a close.                                                     *)
(***************************************************************************)
EXTENDS MdsClient

CONSTANTS
  Scenarios,     \* maps, requests, and what may go wrong
  MaxSessions    \* bound on the ceph_mds_sessions of a behaviour

VARIABLES c, worker, mapper, caller, syncer, umount, timer, mds, cluster, env

vars == <<c, worker, mapper, caller, syncer, umount, timer, mds, cluster, env>>

Can(x) == x \in env.chances
Sessions == DOMAIN c.sess
Tids == DOMAIN env.reqs
WorkerIdle == [pc |-> "idle", msg |-> Msg("none", 0, 0), addr |-> 0]
Oracles ==
  [rnd : MDS,
   nomem : {"none"} \cup IF Can("nomem") THEN {"session", "message", "request"} ELSE {}]
Map(e) == env.maps[e]

Spend(x) == env' = [env EXCEPT !.chances = @ \ {x}]
Left(o) == IF o.nomem # "none" THEN env.chances \ {"nomem"} ELSE env.chances
Draw(o) == env' = [env EXCEPT !.chances = Left(o)]
Running == umount.pc # "done"

Init ==
  /\ env \in Scenarios
  /\ c = [map |-> env.maps[1], sessions |-> [m \in MDS |-> 0], sess |-> <<>>, reqs |-> <<>>,
          waiting_for_map |-> <<>>, stopping |-> FALSE, safe_umount |-> FALSE, bug |-> {}]
  /\ worker = [s \in 1..MaxSessions |-> WorkerIdle]
  /\ mapper = [pc |-> "idle", s |-> 0, old |-> env.maps[1]]
  /\ caller = [t \in DOMAIN env.reqs |-> "none"]
  /\ syncer = [pc |-> "none", req |-> 0, next |-> 0, want |-> 0]
  /\ umount = [pc |-> "no", m |-> 0, s |-> 0]
  /\ timer = [pc |-> "idle", m |-> 0, s |-> 0, renew |-> FALSE]
  /\ mds = [m \in MDS |-> [sess |-> 0, replays |-> {}, applied |-> {}, durable |-> {}]]
  /\ cluster = 1

----------------------------------------------------------------------------
(* Callers.                                                                 *)

Submit(t, o) ==
  LET d == DoRequest(RegisterRequest(c, env.reqs[t]), t, o)
      early == d.reqs[t].err # "no"
  IN  /\ caller[t] = "none" /\ t = Len(c.reqs) + 1 /\ umount.pc = "no"
      /\ c' = IF early THEN UnregisterRequest(d, t) ELSE d
      /\ caller' = [caller EXCEPT ![t] = IF early THEN d.reqs[t].err ELSE "waiting"]
      /\ Draw(o)
      /\ UNCHANGED <<worker, mapper, syncer, umount, timer, mds, cluster>>

\* The wait ended with the completion.
Completed(t) ==
  /\ caller[t] = "waiting" /\ c.reqs[t].done
  /\ caller' = [caller EXCEPT ![t] =
                  IF c.reqs[t].result # "no" THEN c.reqs[t].result ELSE c.reqs[t].err]
  /\ UNCHANGED <<c, worker, mapper, syncer, umount, timer, mds, cluster, env>>

\* A signal, or r_timeout of the mount's request, ends it.
Killed(t) ==
  /\ caller[t] = "waiting" /\ ~c.reqs[t].done /\ Can("signal")
  /\ caller' = [caller EXCEPT ![t] = "killed"] /\ Spend("signal")
  /\ UNCHANGED <<c, worker, mapper, syncer, umount, timer, mds, cluster>>

Expires(t) ==
  /\ caller[t] = "waiting" /\ ~c.reqs[t].done /\ Can("timeout")
  /\ caller' = [caller EXCEPT ![t] = "killed"] /\ Spend("timeout")
  /\ c' = [c EXCEPT !.reqs[t].expired = TRUE]
  /\ UNCHANGED <<worker, mapper, syncer, umount, timer, mds, cluster>>

Aborts(t) ==
  LET r == c.reqs[t]
  IN  /\ caller[t] = "killed"
      /\ c' = IF r.result # "no" THEN c
              ELSE [c EXCEPT !.reqs[t].err = "aborted", !.reqs[t].aborted = TRUE]
      /\ caller' = [caller EXCEPT ![t] = IF r.result # "no" THEN r.result ELSE "aborted"]
      /\ UNCHANGED <<worker, mapper, syncer, umount, timer, mds, cluster, env>>

----------------------------------------------------------------------------
(* The worker of a connection.                                              *)

WorkerGoes(s, pc) == worker' = [worker EXCEPT ![s].pc = pc]
WorkerRests(s) == worker' = [worker EXCEPT ![s] = WorkerIdle]
Goes(s, pc) == IF pc = "idle" THEN WorkerRests(s) ELSE WorkerGoes(s, pc)

Dispatch(s) ==
  LET m == Head(c.sess[s].in)
  IN  /\ Running /\ worker[s].pc = "idle" /\ c.sess[s].in # <<>>
      /\ c' = [c EXCEPT !.sess[s].in = Tail(@)]
      /\ worker' = IF m.t # "reset" /\ ~VerifyRegistered(c, s) THEN worker
                   ELSE [worker EXCEPT ![s] =
                           [pc |-> IF m.t = "reset" THEN "reconnect" ELSE "handle",
                            msg |-> m, addr |-> c.sess[s].addr]]
      /\ UNCHANGED <<mapper, caller, syncer, umount, timer, mds, cluster, env>>

\* Another thread closed the connection after dispatch() had let the message in.
Late(s) == worker[s].addr # c.sess[s].addr

WorkerReply(s, o) ==
  /\ worker[s].pc = "handle" /\ worker[s].msg.t \in {"safe", "unsafe"}
  /\ \E r \in {HandleReply(c, s, worker[s].msg, o)} : c' = r.c /\ Goes(s, r.pc)
  /\ env' = [env EXCEPT !.lateReply = IF Late(s) THEN @ \cup {worker[s].msg.x} ELSE @,
                        !.chances = Left(o)]
  /\ UNCHANGED <<mapper, caller, syncer, umount, timer, mds, cluster>>

WorkerReplyEnds(s, ok) ==
  /\ worker[s].pc = "reply" /\ c.sess[s].owner = "none"
  /\ c' = FinishReply(c, worker[s].msg.x, worker[s].msg, ok) /\ WorkerRests(s)
  /\ IF ok THEN UNCHANGED env ELSE Can("corrupt") /\ Spend("corrupt")
  /\ UNCHANGED <<mapper, caller, syncer, umount, timer, mds, cluster>>

WorkerForward(s, o) ==
  /\ worker[s].pc = "handle" /\ worker[s].msg.t = "forward"
  /\ c' = HandleForward(c, worker[s].msg, o) /\ WorkerRests(s) /\ Draw(o)
  /\ UNCHANGED <<mapper, caller, syncer, umount, timer, mds, cluster>>

SessionMsgs == {"opened", "closed", "renewed", "stale", "flushmsg"}

\* BUG_ON() ends the thread.
WorkerSession(s) ==
  LET d == SessionFirst(c, s, worker[s].msg)
  IN  /\ worker[s].pc = "handle" /\ worker[s].msg.t \in SessionMsgs
      /\ c' = d /\ WorkerGoes(s, IF d.bug = c.bug THEN "second" ELSE "dead")
      /\ env' = [env EXCEPT !.late = IF Late(s) THEN @ \cup {s} ELSE @]
      /\ UNCHANGED <<mapper, caller, syncer, umount, timer, mds, cluster>>

WorkerSecond(s, o) ==
  /\ worker[s].pc = "second" /\ c.sess[s].owner = "none"
  /\ c' = SessionSecond(c, s, worker[s].msg, o)
  /\ Goes(s, IF SessionWakes(worker[s].msg) THEN "third" ELSE "idle")
  /\ env' = [env EXCEPT !.late = IF Late(s) /\ worker[s].msg.t # "closed" THEN @ \cup {s} ELSE @,
                        !.chances = Left(o)]
  /\ UNCHANGED <<mapper, caller, syncer, umount, timer, mds, cluster>>

WorkerThird(s, o) ==
  /\ worker[s].pc = "third"
  /\ c' = SessionThird(c, s, worker[s].msg, o) /\ WorkerRests(s) /\ Draw(o)
  /\ UNCHANGED <<mapper, caller, syncer, umount, timer, mds, cluster>>

----------------------------------------------------------------------------
(* send_mds_reconnect(), on a worker after a reset or on the mapper.        *)

Starved(d, s) == [d EXCEPT !.sess[s].starved = TRUE]

\* Without memory for its message it returns, and nothing tries again.
Reconnecting(s, who, o) ==
  /\ c.sess[s].owner = "none"
  /\ c' = IF o.nomem = "message" THEN Starved(c, s)
          ELSE [ReconnectBegins(c, s) EXCEPT !.sess[s].owner = who]

\* The unsafe requests are replayed, then the caps encoded, which may fail.
ReconnectMessage(s, o) ==
  LET d == [ReplayUnsafe(c, s, o) EXCEPT !.sess[s].owner = "none"]
  IN  c' = IF o.nomem = "message" THEN Starved(d, s) ELSE ReconnectSends(d, s)

WorkerReconnects(s, o) ==
  /\ worker[s].pc = "reconnect" /\ Reconnecting(s, "worker", o) /\ Draw(o)
  /\ Goes(s, IF o.nomem = "message" THEN "idle" ELSE "replay")
  /\ UNCHANGED <<mapper, caller, syncer, umount, timer, mds, cluster>>

WorkerReplays(s, o) ==
  /\ worker[s].pc = "replay" /\ ReconnectMessage(s, o) /\ Draw(o)
  /\ Goes(s, IF o.nomem = "message" THEN "idle" ELSE "wake")
  /\ UNCHANGED <<mapper, caller, syncer, umount, timer, mds, cluster>>

WorkerWakes(s, o) ==
  /\ worker[s].pc = "wake" /\ c' = WakeSession(c, s, o) /\ WorkerRests(s) /\ Draw(o)
  /\ UNCHANGED <<mapper, caller, syncer, umount, timer, mds, cluster>>

----------------------------------------------------------------------------
(* ceph_mdsc_handle_map() with a map newer than the one in use.             *)

MapperAt(step, old) ==
  \E r \in {step} : c' = r.c /\ mapper' = [pc |-> r.pc, s |-> r.s, old |-> old]

HandleMap(e, o) ==
  LET d == [c EXCEPT !.map = Map(e)]
  IN  /\ Running /\ mapper.pc = "idle" /\ e <= cluster /\ e > c.map.epoch
      /\ MapperAt(CheckNewMap(d, 0, c.map, o), c.map) /\ Draw(o)
      /\ UNCHANGED <<worker, caller, syncer, umount, timer, mds, cluster>>

MapperCloses(o) ==
  /\ mapper.pc = "close" /\ c.sess[mapper.s].owner = "none"
  /\ MapperAt(CloseAndRestart(c, mapper.s, mapper.old, o), mapper.old) /\ Draw(o)
  /\ UNCHANGED <<worker, caller, syncer, umount, timer, mds, cluster>>

MapperReconnects(o) ==
  /\ mapper.pc = "reconnect" /\ Reconnecting(mapper.s, "mapper", o) /\ Draw(o)
  /\ mapper' = [mapper EXCEPT !.pc = IF o.nomem = "message" THEN "active" ELSE "replay"]
  /\ UNCHANGED <<worker, caller, syncer, umount, timer, mds, cluster>>

MapperReplays(o) ==
  /\ mapper.pc = "replay" /\ ReconnectMessage(mapper.s, o) /\ Draw(o)
  /\ mapper' = [mapper EXCEPT !.pc = IF o.nomem = "message" THEN "active" ELSE "wake"]
  /\ UNCHANGED <<worker, caller, syncer, umount, timer, mds, cluster>>

MapperWakes(o) ==
  /\ mapper.pc = "wake" /\ c' = WakeSession(c, mapper.s, o) /\ Draw(o)
  /\ mapper' = [mapper EXCEPT !.pc = "active"]
  /\ UNCHANGED <<worker, caller, syncer, umount, timer, mds, cluster>>

MapperActive(o) ==
  /\ mapper.pc = "active"
  /\ MapperAt(CheckActive(c, mapper.s, mapper.old, o), mapper.old) /\ Draw(o)
  /\ UNCHANGED <<worker, caller, syncer, umount, timer, mds, cluster>>

----------------------------------------------------------------------------
(* delayed_work().                                                          *)

TimerWalks(m, ttl, renew, o) ==
  \E r \in {DelayedWork(c, m, ttl, o)} :
    c' = r.c /\ timer' = [pc |-> r.pc, m |-> m, s |-> r.s, renew |-> renew /\ r.s # 0]

Timer(ttl, renew) ==
  /\ Running /\ timer.pc = "idle" /\ Can("tick") /\ Spend("tick")
  /\ TimerWalks(0, ttl, renew, [rnd |-> 0, nomem |-> "none"])
  /\ UNCHANGED <<worker, mapper, caller, syncer, umount, mds, cluster>>

TimerRenews(o) ==
  /\ timer.pc = "renew" /\ c.sess[timer.s].owner = "none"
  /\ c' = DelayedSession(c, timer.s, timer.renew, o) /\ Draw(o)
  /\ timer' = [timer EXCEPT !.pc = "look", !.m = c.sess[timer.s].mds + 1, !.s = 0]
  /\ UNCHANGED <<worker, mapper, caller, syncer, umount, mds, cluster>>

TimerContinues(ttl, o) ==
  /\ timer.pc = "look" /\ TimerWalks(timer.m, ttl, timer.renew, o) /\ Draw(o)
  /\ UNCHANGED <<worker, mapper, caller, syncer, umount, mds, cluster>>

----------------------------------------------------------------------------
(* ceph_mdsc_sync(): wait_unsafe_requests() for the writes issued so far.   *)

NextAfter(d, t) == LET n == {u \in InTree(d) : u > t}
                   IN  IF n = {} THEN 0 ELSE CHOOSE u \in n : \A v \in n : u <= v

\* The first write from t on (0: none is left) that is not past want.
FirstWrite(d, t, want) ==
  LET n == {u \in InTree(d) : u >= t /\ u <= want /\ d.reqs[u].write}
  IN  IF n = {} THEN 0 ELSE CHOOSE u \in n : \A v \in n : u <= v

SyncAt(t, want) ==
  LET r == FirstWrite(c, t, want)
  IN  syncer' = IF r = 0 THEN [pc |-> "done", req |-> 0, next |-> 0, want |-> want]
                ELSE [pc |-> "wait", req |-> r, next |-> NextAfter(c, r), want |-> want]

SyncStarts ==
  /\ syncer.pc = "none" /\ umount.pc = "no" /\ Can("sync") /\ Spend("sync")
  /\ SyncAt(1, Len(c.reqs))
  /\ UNCHANGED <<c, worker, mapper, caller, umount, timer, mds, cluster>>

\* Mutant: it waits for r_completion, which the unsafe reply completes.
SyncOnReply ==
  /\ syncer.pc = "wait" /\ c.reqs[syncer.req].done
  /\ IF syncer.next = 0 THEN syncer' = [syncer EXCEPT !.pc = "done"]
     ELSE SyncAt(IF c.reqs[syncer.next].tree THEN syncer.next ELSE 1, syncer.want)
  /\ UNCHANGED <<c, worker, mapper, caller, umount, timer, mds, cluster, env>>

\* The safe completion came.  If the next request left the tree, start over.
SyncContinues ==
  /\ syncer.pc = "wait" /\ ~c.reqs[syncer.req].tree
  /\ IF syncer.next = 0 THEN syncer' = [syncer EXCEPT !.pc = "done"]
     ELSE SyncAt(IF c.reqs[syncer.next].tree THEN syncer.next ELSE 1, syncer.want)
  /\ UNCHANGED <<c, worker, mapper, caller, umount, timer, mds, cluster, env>>

----------------------------------------------------------------------------
(* Unmounting: no caller is left, the requests in the tree are those whose  *)
(* caller gave up and those whose safe reply is due.                        *)

PreUmount ==
  /\ umount.pc = "no" /\ Can("umount") /\ Spend("umount") /\ syncer.pc # "wait"
  /\ \A t \in Tids : caller[t] \notin {"waiting", "killed"}
  /\ c' = [c EXCEPT !.stopping = TRUE]
  /\ umount' = [umount EXCEPT !.pc = IF InTree(c) = {} THEN "flush" ELSE "requests"]
  /\ UNCHANGED <<worker, mapper, caller, syncer, timer, mds, cluster>>

\* safe_umount_waiters, or mount_timeout: what is left is torn down.
WaitRequests ==
  /\ umount.pc = "requests" /\ umount' = [umount EXCEPT !.pc = "flush"]
  /\ c' = FoldLeft(UnregisterRequest, c, [t \in DOMAIN c.reqs |-> t])
  /\ UNCHANGED <<worker, mapper, caller, syncer, timer, mds, cluster, env>>

\* ceph_msgr_flush() waited for the work items.
Flushed ==
  /\ umount.pc = "flush" /\ umount' = [umount EXCEPT !.pc = "look"]
  /\ \A s \in Sessions : worker[s].pc = "idle"
  /\ UNCHANGED <<c, worker, mapper, caller, syncer, timer, mds, cluster, env>>

\* The sessions from rank m on.
Registered(m) == {n \in MDS : n >= m /\ HaveSession(c, n)}
Lowest(S) == CHOOSE m \in S : \A n \in S : m <= n

\* mdsc->mutex is dropped to take the s_mutex of each session.
CloseLooks ==
  LET rest == Registered(umount.m)
  IN  /\ umount.pc = "look"
      /\ umount' = IF rest = {} THEN [pc |-> "closing", m |-> 0, s |-> 0]
                   ELSE [pc |-> "close", m |-> Lowest(rest), s |-> c.sessions[Lowest(rest)]]
      /\ UNCHANGED <<c, worker, mapper, caller, syncer, timer, mds, cluster, env>>

CloseSessions(o) ==
  /\ umount.pc = "close" /\ c.sess[umount.s].owner = "none"
  /\ c' = CloseSession(c, umount.s, o) /\ Draw(o)
  /\ umount' = [pc |-> "look", m |-> umount.m + 1, s |-> 0]
  /\ UNCHANGED <<worker, mapper, caller, syncer, timer, mds, cluster>>

\* done_closing_sessions(), or mount_timeout: what is left is torn down, with
\* mdsc->mutex dropped after each.
TearDown ==
  LET rest == Registered(umount.m)
  IN  /\ umount.pc \in {"closing", "tear"}
      /\ umount' = IF rest = {} THEN [pc |-> "done", m |-> 0, s |-> 0]
                   ELSE [pc |-> "tear", m |-> Lowest(rest) + 1, s |-> 0]
      /\ c' = IF rest = {} THEN c ELSE UnregisterSession(c, c.sessions[Lowest(rest)])
      /\ UNCHANGED <<worker, mapper, caller, syncer, timer, mds, cluster, env>>

----------------------------------------------------------------------------
(* The servers.                                                             *)

MdsState(m) == GetState(Map(cluster), m)

\* The next message of session s, if its connection reaches the server.
Arrives(s, t) ==
  LET v == c.sess[s]
  IN  /\ v.out # <<>> /\ Head(v.out).t = t /\ MdsState(v.mds) > 0
      /\ v.addr # 0 /\ v.addr = GetAddr(Map(cluster), v.mds)
Taken(s) == [c EXCEPT !.sess[s].out = Tail(@)]
Answered(s, m) == [c EXCEPT !.sess[s].out = Tail(@), !.sess[s].in = Append(@, m)]
Knows(s) == mds[c.sess[s].mds].sess = s
ServerOnly == UNCHANGED <<worker, mapper, caller, syncer, umount, timer, cluster>>

\* A rank that is to leave the map first ends its sessions, with nothing left to
\* commit, and opens no more.
Leaves(m) == cluster < Len(env.maps) /\ GetAddr(Map(cluster + 1), m) = 0

MdsOpens(s) ==
  /\ Leaves(c.sess[s].mds) => Can("leave")
  /\ Arrives(s, "open") /\ MdsState(c.sess[s].mds) = ACTIVE
  /\ c' = Answered(s, Msg("opened", 0, 0))
  /\ mds' = [mds EXCEPT ![c.sess[s].mds].sess = s]
  /\ ServerOnly /\ UNCHANGED env

MdsCloses(s) ==
  /\ Arrives(s, "close")
  /\ c' = IF Knows(s) THEN Answered(s, Msg("closed", 0, 0)) ELSE Taken(s)
  /\ mds' = IF Knows(s) THEN [mds EXCEPT ![c.sess[s].mds].sess = 0] ELSE mds
  /\ ServerOnly /\ UNCHANGED env

MdsRenews(s) ==
  /\ Arrives(s, "renew")
  /\ c' = IF Knows(s) THEN Answered(s, Msg("renewed", Head(c.sess[s].out).x, 0)) ELSE Taken(s)
  /\ ServerOnly /\ UNCHANGED <<mds, env>>

MdsTakesAck(s) ==
  /\ Arrives(s, "flushack") /\ c' = Taken(s) /\ ServerOnly /\ UNCHANGED <<mds, env>>

MdsReconnects(s) ==
  LET accepts == MdsState(c.sess[s].mds) = RECONNECT
  IN  /\ Arrives(s, "reconnect")
      /\ c' = Answered(s, Msg(IF accepts THEN "opened" ELSE "closed", 0, 0))
      /\ mds' = [mds EXCEPT ![c.sess[s].mds] =
                   IF accepts THEN [@ EXCEPT !.sess = s] ELSE [@ EXCEPT !.replays = {}]]
      /\ ServerOnly /\ UNCHANGED env

\* A request of a session it does not know is dropped.  Replays come before the
\* reconnect that makes the session known: they are kept until it has come.
Gets(s, t) ==
  /\ Arrives(s, "req") /\ Head(c.sess[s].out) = Msg("req", t, Head(c.sess[s].out).y)
  /\ Head(c.sess[s].out).y # -1 /\ MdsState(c.sess[s].mds) = ACTIVE /\ Knows(s)

MdsDrops(s) ==
  /\ Arrives(s, "req") /\ ~Knows(s) /\ Head(c.sess[s].out).y # -1
  /\ c' = Taken(s) /\ ServerOnly /\ UNCHANGED <<mds, env>>

MdsKeepsReplay(s) ==
  /\ Arrives(s, "req") /\ Head(c.sess[s].out).y = -1
  /\ c' = Taken(s) /\ ServerOnly /\ UNCHANGED env
  /\ mds' = [mds EXCEPT ![c.sess[s].mds].replays = @ \cup {Head(c.sess[s].out).x}]

\* With the answer again, if it was executed before; MdsCommits answers otherwise.
MdsReplays(m, t) ==
  LET s == mds[m].sess
  IN  /\ t \in mds[m].replays /\ s # 0 /\ MdsState(m) >= RECONNECT
      /\ mds' = [mds EXCEPT ![m].replays = @ \ {t}, ![m].applied = @ \cup {t}]
      /\ c' = [c EXCEPT !.sess[s].in =
                 Append(@, Msg(IF t \in mds[m].durable THEN "safe" ELSE "unsafe", t, "ok"))]
      /\ ServerOnly /\ UNCHANGED env

\* Executed, and answered before it is durable (a write) or with the only reply.
MdsAnswersEarly(s, t) ==
  LET m == c.sess[s].mds
  IN  /\ Gets(s, t) /\ c.reqs[t].write /\ t \notin mds[m].durable
      /\ c' = Answered(s, Msg("unsafe", t, "ok"))
      /\ mds' = [mds EXCEPT ![m].applied = @ \cup {t}]
      /\ ServerOnly /\ UNCHANGED env

MdsAnswers(s, t) ==
  LET m == c.sess[s].mds
      done == IF c.reqs[t].write THEN {t} ELSE {}
  IN  /\ Gets(s, t)
      /\ c' = Answered(s, Msg("safe", t, "ok"))
      /\ mds' = [mds EXCEPT ![m].applied = @ \cup done, ![m].durable = @ \cup done]
      /\ ServerOnly /\ UNCHANGED env

MdsRefuses(s, t) ==
  /\ Gets(s, t) /\ Can("estale") /\ Spend("estale")
  /\ t \notin mds[c.sess[s].mds].applied
  /\ c' = Answered(s, Msg("safe", t, "estale"))
  /\ ServerOnly /\ UNCHANGED mds

MdsForwards(s, t, n) ==
  /\ Gets(s, t) /\ n # c.sess[s].mds /\ Can("forward") /\ Spend("forward")
  /\ t \notin mds[c.sess[s].mds].applied
  /\ c' = Answered(s, Msg("forward", t, <<n, Head(c.sess[s].out).y + 1>>))
  /\ ServerOnly /\ UNCHANGED mds

\* The journal catches up: the safe reply goes to the session, if there is one.
MdsCommits(m, t) ==
  LET s == mds[m].sess
  IN  /\ t \in mds[m].applied \ mds[m].durable
      /\ mds' = [mds EXCEPT ![m].durable = @ \cup {t}]
      /\ c' = IF s = 0 \/ c.sess[s].addr # GetAddr(Map(cluster), m) THEN c
              ELSE [c EXCEPT !.sess[s].in = Append(@, Msg("safe", t, "ok"))]
      /\ ServerOnly /\ UNCHANGED env

\* Of its own accord a server calls caps stale, or asks for an answer.
MdsSays(m, x) ==
  LET s == mds[m].sess
  IN  /\ x \in {"stale", "flushmsg"} /\ Can(x) /\ Spend(x)
      /\ s # 0 /\ c.sess[s].addr = GetAddr(Map(cluster), m)
      /\ c' = [c EXCEPT !.sess[s].in = Append(@, Msg(x, 1, 0))]
      /\ ServerOnly /\ UNCHANGED mds

\* It gives the client up: the next the client hears is that the session was reset.
MdsEvicts(m) ==
  LET s == mds[m].sess
  IN  /\ s # 0 /\ Can("evict") /\ Spend("evict") /\ c.sess[s].addr = GetAddr(Map(cluster), m)
      /\ mds' = [mds EXCEPT ![m].sess = 0]
      /\ c' = [c EXCEPT !.sess[s].out = <<>>, !.sess[s].in = <<Msg("reset", 0, 0)>>]
      /\ ServerOnly

MdsLetsGo(m) ==
  LET s == mds[m].sess
  IN  /\ Leaves(m) /\ s # 0 /\ mds[m].applied = mds[m].durable
      /\ mds' = [mds EXCEPT ![m].sess = 0]
      /\ c' = [c EXCEPT !.sess[s].in = Append(@, Msg("closed", 0, 0))]
      /\ Can("leave") /\ Spend("leave") /\ ServerOnly

\* The next map: a server with a new address crashed, and lost what was not durable;
\* one that ends its reconnect phase forgets who has not come.
Advance ==
  LET old == Map(cluster)
      new == Map(cluster + 1)
  IN  /\ cluster < Len(env.maps) /\ Running
      /\ \A m \in MDS : Leaves(m) => mds[m].sess = 0 /\ mds[m].applied = mds[m].durable
      /\ cluster' = cluster + 1
      /\ mds' = [m \in MDS |-> IF GetAddr(old, m) = GetAddr(new, m) THEN mds[m]
                              ELSE [mds[m] EXCEPT !.sess = 0, !.replays = {}, !.applied = mds[m].durable]]
      /\ UNCHANGED <<c, worker, mapper, caller, syncer, umount, timer, env>>

----------------------------------------------------------------------------
Callers == \E t \in Tids : Completed(t) \/ Killed(t) \/ Expires(t) \/ Aborts(t)

Workers(s) ==
  \/ Dispatch(s) \/ WorkerSession(s)
  \/ \E ok \in BOOLEAN : WorkerReplyEnds(s, ok)
  \/ \E o \in Oracles : \/ WorkerReply(s, o) \/ WorkerForward(s, o)
                        \/ WorkerSecond(s, o) \/ WorkerThird(s, o)
                        \/ WorkerReconnects(s, o) \/ WorkerReplays(s, o) \/ WorkerWakes(s, o)

Mapper ==
  \E o \in Oracles : \/ \E e \in DOMAIN env.maps : HandleMap(e, o)
                     \/ MapperCloses(o) \/ MapperReconnects(o) \/ MapperReplays(o)
                     \/ MapperWakes(o) \/ MapperActive(o)

Server(s) ==
  \/ MdsOpens(s) \/ MdsCloses(s) \/ MdsRenews(s) \/ MdsTakesAck(s) \/ MdsReconnects(s)
  \/ MdsDrops(s) \/ MdsKeepsReplay(s)
  \/ \E t \in DOMAIN c.reqs : MdsAnswersEarly(s, t) \/ MdsAnswers(s, t)

Commits == \E m \in MDS, t \in DOMAIN c.reqs : MdsCommits(m, t) \/ MdsReplays(m, t)
Syncs == SyncStarts \/ SyncContinues
Unmounts ==
  \/ PreUmount \/ WaitRequests \/ Flushed \/ CloseLooks \/ TearDown
  \/ \E o \in Oracles : CloseSessions(o)

Timers ==
  \/ \E ttl \in SUBSET MDS, renew \in BOOLEAN : Timer(ttl, renew)
  \/ \E o \in Oracles : TimerRenews(o) \/ \E ttl \in SUBSET MDS : TimerContinues(ttl, o)

Upsets ==
  \/ \E s \in Sessions, t \in DOMAIN c.reqs :
       MdsRefuses(s, t) \/ \E n \in MDS : MdsForwards(s, t, n)
  \/ \E m \in MDS : MdsEvicts(m) \/ MdsLetsGo(m) \/ \E x \in {"stale", "flushmsg"} : MdsSays(m, x)

Next ==
  \/ \E t \in Tids, o \in Oracles : Submit(t, o)
  \/ Callers \/ Mapper \/ Commits \/ Syncs \/ Unmounts \/ Timers \/ Upsets \/ Advance
  \/ \E s \in Sessions : Workers(s) \/ Server(s)

Spec == Init /\ [][Next]_vars

----------------------------------------------------------------------------
(* Properties.                                                              *)

\* The sessions and requests are what mds_client.h declares.
TypeOK ==
  /\ Len(c.sess) <= MaxSessions /\ Len(c.reqs) <= Len(env.reqs)
  /\ c.sessions \in [MDS -> 0..MaxSessions]
  /\ \A s \in Sessions : /\ c.sess[s].state \in S_NEW..S_RECONNECTING
                         /\ Range(c.sess[s].waiting) \cup Range(c.sess[s].unsafe)
                              \subseteq DOMAIN c.reqs
  /\ \A t \in DOMAIN c.reqs : c.reqs[t].sess \in 0..Len(c.sess)
  /\ umount.pc \in {"no", "requests", "flush", "look", "close", "closing", "tear", "done"}

\* The state has its type, the BUG_ONs of __unregister_session() and
\* handle_forward() hold and no request is put on two wait lists.  (The BUG_ON of
\* __unregister_session() fails when a close, let in by dispatch(), is handled after
\* another thread has unregistered the session: CloseComesOnce.)
AssertionsHold ==
  TypeOK /\ c.bug \subseteq IF env.late = {} THEN {} ELSE {"unregister"}

\* "BUG_ON(mdsc->sessions[s->s_mds] != s)": __unregister_session() is called for
\* registered sessions only.
CloseComesOnce == "unregister" \notin c.bug

\* The server closed the session, or the client did to unmount.
GivenUp(s) ==
  \/ ~VerifyRegistered(c, s) \/ Msg("closed", 0, 0) \in Range(c.sess[s].in)
  \/ worker[s].msg.t = "closed"

\* What the caller of a write was told is done survives: it is in the journal or
\* in the memory of a server, or will be sent to it again: it is queued, or in the
\* s_unsafe list of a session that must still reconnect to its server.  (A server
\* that closed the session has given the client's unsafe requests up; and a reply that
\* handle_reply() takes after check_new_map() closed its connection may put a request
\* on s_unsafe when the session's unsafe requests have already been replayed.)
ReportedSurvives ==
  \A t \in DOMAIN c.reqs :
    c.reqs[t].write /\ caller[t] = "ok" =>
      LET s == c.reqs[t].sess
          m == c.sess[s].mds
      IN  \/ \E n \in MDS : t \in mds[n].applied \cup mds[n].replays
          \/ Msg("req", t, -1) \in Range(c.sess[s].out)
          \/ t \in Range(c.sess[s].unsafe) /\ c.sess[s].addr # GetAddr(Map(cluster), m)
          \/ t \in Range(c.sess[s].unsafe) /\ c.sess[s].owner # "none"
          \/ GivenUp(s) \/ t \in env.lateReply

\* sync() returns when every write issued before it, and reported done, is durable.
SyncMeansSafe ==
  syncer.pc = "done" =>
    \A t \in 1..syncer.want : c.reqs[t].write /\ caller[t] = "ok" =>
      \E m \in MDS : t \in mds[m].durable

\* Nothing is under way: no thread of the client has a step to take, no message
\* travels, the servers are up and owe nothing, the newest map has been handled.
Quiet ==
  /\ \A s \in Sessions : /\ worker[s].pc = "idle" /\ c.sess[s].in = <<>>
                         /\ c.sess[s].out = <<>>
  /\ mapper.pc = "idle" /\ timer.pc = "idle" /\ cluster = Len(env.maps) /\ c.map = Map(cluster)
  /\ \A m \in MDS : mds[m].applied = mds[m].durable /\ mds[m].replays = {}
  /\ \A t \in DOMAIN c.reqs : ~(caller[t] = "waiting" /\ c.reqs[t].done)
  /\ ~(syncer.pc = "wait" /\ ~c.reqs[syncer.req].tree)

\* A request that nobody will end: __do_request() failed after its caller had begun
\* to wait (the caller returns, the request stays in the tree); or its session was
\* closed, or its rank left the map, between its unsafe and its safe reply; or its
\* unsafe reply was taken after the connection had been closed, too late to be replayed.
Stranded(t) ==
  \/ c.reqs[t].done /\ c.reqs[t].result = "no"
  \/ /\ c.reqs[t].unsafe
     /\ \/ GivenUp(c.reqs[t].sess) \/ t \in env.lateReply
        \/ GetAddr(c.map, c.sess[c.reqs[t].sess].mds) = 0

\* No wake-up is lost: when nothing is under way no request waits for a reply, a
\* session or a map.  It may be stranded, or wait for a session in one of two states
\* that the code never leaves: __open_session() or send_mds_reconnect() had no memory
\* for its message; or an open was handled after check_new_map() had closed the
\* connection, and the session, open now, is not reconnected.
NobodyForgotten ==
  Quiet => \A t \in InTree(c) :
             \/ Stranded(t) /\ caller[t] # "waiting"
             \/ LET s == c.reqs[t].sess
                IN  s # 0 /\ (c.sess[s].starved \/ s \in env.late)

\* "If there is a MDS failure, we find out about it when we (possibly request and)
\* receive a new MDS map, and can resubmit affected requests": none is left over.
AffectedResubmitted == Quiet => InTree(c) = {}
============================================================================
