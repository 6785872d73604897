----------------------------- MODULE MonClient -----------------------------
(***************************************************************************)
(* The monitor client (net/ceph/mon_client.c) with the authentication      *)
(* client it drives (auth.c, auth_x.c, auth_none.c): one session with a    *)
(* randomly chosen monitor, the handshake that opens it, the map           *)
(* subscription, the synchronous "generic" requests, and the timer that    *)
(* hunts for another monitor.  monc->mutex makes every handler one step.   *)
(*                                                                         *)
(* monc is struct ceph_mon_client with its connection: out holds what      *)
(* ceph_con_send() queued and the socket has not taken, in what waits in   *)
(* the socket, peer the monitor's side of the session.  worker is the      *)
(* connection's work item: it drops con->mutex before a callback, so it    *)
(* may hold a message, or a fault, of a session closed in the meantime.    *)
(***************************************************************************)
EXTENDS Integers, Sequences, FiniteSets, SequencesExt

CONSTANTS
  Mons,       \* the monitors of the cluster
  InitMons,   \* those named in the mount options
  Reqs        \* the generic requests (statfs, get_version, poolop)

ASSUME MonAssumption == Mons \subseteq Nat /\ InitMons \subseteq Mons /\ InitMons # {}

VARIABLES
  monc,       \* the client and its connection
  worker,     \* what con_work() is about to call back with
  caller,     \* where the thread of each generic request is
  mount,      \* where __ceph_open_session() is
  stopping    \* where ceph_monc_stop() is

clientVars == <<monc, worker, caller, mount, stopping>>

NoMon == -1
Msg(t, x) == [t |-> t, x |-> x]

\* auth is in want_keys as CEPH_ENTITY_TYPE_AUTH, svc stands for MON, OSD and MDS.
Keys == {"auth", "svc"}
AuthMsgs == {Msg(t, 0) : t \in {"hello", "getkey", "getsvc", "empty"}}
AuthReplies == {"challenge", "key", "svc", "ok", "reject"}
NewPeer == [auth |-> "no", sub |-> -1, pend |-> {}]
Idle == [job |-> "idle", msg |-> Msg("ok", 0), old |-> FALSE]

----------------------------------------------------------------------------
(* The authentication client.  A ticket past its expiry leaves have_keys as *)
(* soon as it lapses: every use of have_keys validates the tickets first.   *)

Need(a) == (Keys \ a.have) \cup a.old
ShouldAuthenticate(a) == IF a.kind = "x" THEN Need(a) # {} ELSE a.starting
IsAuthenticated(a) == a.protocol /\ IF a.kind = "x" THEN a.have = Keys ELSE ~a.starting

AuthReset(a) == [a EXCEPT !.starting = @ \/ (a.protocol /\ ~a.negotiating),
                          !.negotiating = TRUE]

BuildRequest(a) ==
  CASE a.kind = "x" /\ "auth" \in Need(a) -> Msg("getkey", 0)
    [] a.kind = "x" /\ Need(a) = {"svc"} -> Msg("getsvc", 0)
    [] OTHER -> Msg("empty", 0)

\* What handle_reply() returns: 0, -EAGAIN (another request follows) or an error.
Ticket(a, k) ==
  LET b == [a EXCEPT !.have = @ \cup {k}, !.old = @ \ {k}]
  IN  [a |-> b, ret |-> IF b.have = Keys THEN "ok" ELSE "more"]

XReply(a, m) ==
  CASE m.t = "reject" -> [a |-> a, ret |-> "err"]
    [] a.starting /\ m.t = "challenge" ->
         [a |-> [a EXCEPT !.starting = FALSE, !.have = @ \ {"auth"}], ret |-> "more"]
    [] ~a.starting /\ m.t = "key" -> Ticket(a, "auth")
    [] ~a.starting /\ m.t = "svc" -> Ticket(a, "svc")
    [] OTHER -> [a |-> a, ret |-> "err"]

NoneReply(a, m) ==
  [a |-> [a EXCEPT !.starting = FALSE], ret |-> IF m.t = "reject" THEN "err" ELSE "ok"]

\* x of a rejection is the protocol it names: 0 if the monitor supports none of ours.
AuthReply(a, m) ==
  LET b == [a EXCEPT !.protocol = TRUE, !.negotiating = FALSE,
                     !.starting = @ \/ ~a.protocol]
  IN  IF a.negotiating /\ m = Msg("reject", 0) THEN [a |-> a, ret |-> "err"]
      ELSE IF a.kind = "x" THEN XReply(b, m) ELSE NoneReply(b, m)

----------------------------------------------------------------------------
(* The session.                                                             *)

\* ceph_con_send() drops the message when the connection is closed.
ConSend(c, m) == IF c.con = "closed" THEN c ELSE [c EXCEPT !.out = Append(@, m)]
\* ceph_con_keepalive(): a flag, so that at most one byte waits.
Keepalive(c) ==
  IF Msg("keepalive", 0) \in ToSet(c.out) THEN c ELSE ConSend(c, Msg("keepalive", 0))
\* ceph_msg_revoke() of what has not been written.
Revoke(c, M) == [c EXCEPT !.out = SelectSeq(@, LAMBDA m : m \notin M)]

SendPreparedAuth(c, m) == ConSend([Revoke(c, AuthMsgs) EXCEPT !.pending_auth = TRUE], m)

\* Mutant: cur_mon keeps its value, so that no session is opened.
CloseKeepsMon(c) ==
  [c EXCEPT !.con = "closed", !.out = <<>>, !.in = <<>>,
            !.pending_auth = FALSE, !.auth = AuthReset(@)]

CloseSession(c) ==
  [c EXCEPT !.con = "closed", !.out = <<>>, !.in = <<>>, !.cur_mon = NoMon,
            !.pending_auth = FALSE, !.auth = AuthReset(@)]

\* Mutant: sub_sent survives the session.
OpenKeepsSubSent(c, m) ==
  IF c.cur_mon # NoMon THEN c
  ELSE SendPreparedAuth([c EXCEPT !.cur_mon = m, !.expired = TRUE,
                                  !.want = IF @ = 0 THEN 0 ELSE 1, !.con = "open",
                                  !.peer = NewPeer], Msg("hello", 0))

OpenSession(c, m) ==
  IF c.cur_mon # NoMon THEN c
  ELSE SendPreparedAuth([c EXCEPT !.cur_mon = m, !.sub_sent = FALSE, !.expired = TRUE,
                                  !.want = IF @ = 0 THEN 0 ELSE 1, !.con = "open",
                                  !.peer = NewPeer], Msg("hello", 0))

\* x is have_osdmap when the next osdmap is asked for too.
SendSubscribe(c) ==
  LET b == [c EXCEPT !.want = IF @ = 0 THEN 0 ELSE 2, !.sub_sent = TRUE]
      x == IF c.want = 0 THEN -1 ELSE c.have
  IN  IF (c.expired /\ ~c.sub_sent) \/ c.want = 1
      THEN ConSend([b EXCEPT !.out = SelectSeq(@, LAMBDA m : m.t # "sub")], Msg("sub", x))
      ELSE c

\* Mutant: only the first request of the tree is sent.
ResendFirst(c) ==
  IF c.tree = {} THEN c
  ELSE LET t == CHOOSE i \in c.tree : \A j \in c.tree : i <= j
       IN  ConSend(Revoke(c, {Msg("req", t)}), Msg("req", t))

ResendGeneric(c) ==
  LET tids == SetToSortSeq(c.tree, <)
      send(b, t) == ConSend(Revoke(b, {Msg("req", t)}), Msg("req", t))
  IN  FoldLeft(send, c, tids)

\* __validate_auth(), ceph_build_auth(): without a protocol the latter calls
\* ceph_auth_build_hello() with ac->mutex held, and both mutexes are held for ever.
ValidateAuth(c) ==
  IF c.pending_auth THEN c
  ELSE IF ~c.auth.protocol THEN [c EXCEPT !.wedged = TRUE]
  ELSE IF ShouldAuthenticate(c.auth) THEN SendPreparedAuth(c, BuildRequest(c.auth))
  ELSE c

RequestNextOsdmap(c) ==
  IF c.want = 2 THEN c ELSE SendSubscribe([c EXCEPT !.want = 1])

GotOsdmap(c, e) == [c EXCEPT !.have = IF e > @ THEN e ELSE @, !.want = 0]

----------------------------------------------------------------------------
(* Threads of the client.                                                   *)

\* ceph_monc_open_session(): the mount starts.
Mount ==
  /\ mount = "no" /\ stopping = "no"
  /\ \E m \in monc.monmap : monc' = [OpenSession(monc, m) EXCEPT !.timer = TRUE]
  /\ mount' = "waiting"
  /\ UNCHANGED <<worker, caller, stopping>>

\* __ceph_open_session() wakes up, or its wait times out or is interrupted.
MountWait ==
  /\ mount = "waiting"
  /\ \/ monc.have > 0 /\ monc.got_monmap /\ mount' = "ok"
     \/ monc.auth_err /\ mount' = "failed"
  /\ UNCHANGED <<monc, worker, caller, stopping>>

MountGivesUp ==
  /\ mount = "waiting" /\ mount' = "failed"
  /\ UNCHANGED <<monc, worker, caller, stopping>>

\* __do_generic_request() up to its wait.
DoGenericRequest(r) ==
  /\ caller[r] = "new" /\ mount = "ok" /\ stopping = "no"
  /\ LET tid == monc.last_tid + 1 IN
     monc' = ConSend([monc EXCEPT !.last_tid = tid, !.tid[r] = tid,
                                  !.tree = @ \cup {tid}], Msg("req", tid))
  /\ caller' = [caller EXCEPT ![r] = "waiting"]
  /\ UNCHANGED <<worker, mount, stopping>>

\* The rest of __do_generic_request(), after the completion or a signal.
EndGenericRequest(r, why) ==
  /\ caller[r] = "waiting"
  /\ why = "done" => monc.tid[r] \in monc.done
  /\ monc' = [monc EXCEPT !.tree = @ \ {monc.tid[r]}]
  /\ caller' = [caller EXCEPT ![r] = why]
  /\ UNCHANGED <<worker, mount, stopping>>

\* delayed_work(): give up on this monitor while hunting, else look after the session.
DelayedWork(m) ==
  /\ monc.timer
  /\ monc' = IF monc.hunting THEN OpenSession(CloseSession(monc), m)
             ELSE LET c == ValidateAuth(Keepalive(monc))
                  IN  IF IsAuthenticated(c.auth) THEN SendSubscribe(c) ELSE c
  /\ worker' = [worker EXCEPT !.old = @ \/ (monc.hunting /\ worker.job # "idle")]
  /\ UNCHANGED <<caller, mount, stopping>>

\* ceph_monc_stop(), in the three pieces the other threads can come between.
StopCancel ==
  /\ stopping = "no" /\ mount \in {"ok", "failed"}
  /\ \A r \in Reqs : caller[r] # "waiting"
  /\ monc' = [monc EXCEPT !.timer = FALSE]
  /\ stopping' = "canceled"
  /\ UNCHANGED <<worker, caller, mount>>

StopClose ==
  /\ stopping = "canceled"
  /\ monc' = CloseSession(monc)
  /\ worker' = [worker EXCEPT !.old = worker.job # "idle"]
  /\ stopping' = "closed"
  /\ UNCHANGED <<caller, mount>>

\* ceph_msgr_flush() waits for the work item that is running or queued.
StopFlush ==
  /\ stopping = "closed" /\ worker = Idle
  /\ stopping' = "stopped"
  /\ UNCHANGED <<monc, worker, caller, mount>>

----------------------------------------------------------------------------
(* The connection's callbacks.                                              *)

\* mon_alloc_msg(): a reply to a request that is gone is skipped.
AllocMsg ==
  /\ worker = Idle /\ monc.in # <<>>
  /\ LET m == Head(monc.in)
         skip == m.t \in {"reply", "bad"} /\ m.x \notin monc.tree
     IN  worker' = IF skip THEN Idle ELSE [job |-> "dispatch", msg |-> m, old |-> FALSE]
  /\ monc' = [monc EXCEPT !.in = Tail(@)]
  /\ UNCHANGED <<caller, mount, stopping>>

\* con_fault(): the connection is closed and mon_fault() will be called.
Broken ==
  /\ monc' = [monc EXCEPT !.con = "closed", !.out = <<>>, !.in = <<>>]
  /\ worker' = [Idle EXCEPT !.job = "fault"]

\* mon_alloc_msg(): no memory for a map, or for a preallocated message that turns
\* out too small; read_partial_message() then faults the connection.
AllocFails ==
  /\ worker = Idle /\ monc.in # <<>> /\ Head(monc.in).t \notin {"reply", "bad"}
  /\ Broken
  /\ UNCHANGED <<caller, mount, stopping>>

Dispatching(T) == worker.job = "dispatch" /\ worker.msg.t \in T /\ worker' = Idle

HandleAuthReply ==
  /\ Dispatching(AuthReplies)
  /\ LET r == AuthReply(monc.auth, worker.msg)
         c == [monc EXCEPT !.pending_auth = FALSE, !.auth = r.a,
                           !.auth_err = @ \/ r.ret = "err"]
         new == ~IsAuthenticated(monc.auth) /\ IsAuthenticated(r.a)
     IN  monc' = CASE r.ret = "more" -> SendPreparedAuth(c, BuildRequest(r.a))
                   [] r.ret = "ok" /\ new -> ResendGeneric(SendSubscribe(c))
                   [] OTHER -> c
  /\ UNCHANGED <<caller, mount, stopping>>

\* sub_renew_after is counted from sub_sent: from 0, a time past or to come, if
\* the subscription the ack answers is not the one outstanding.
HandleSubscribeAck ==
  /\ Dispatching({"ack"})
  /\ \E e \in BOOLEAN :
       /\ monc.sub_sent => ~e
       /\ monc' = [monc EXCEPT !.hunting = FALSE, !.expired = e, !.sub_sent = FALSE]
  /\ UNCHANGED <<caller, mount, stopping>>

\* handle_statfs_reply(), handle_get_version_reply(), handle_poolop_reply()
HandleGenericReply ==
  /\ Dispatching({"reply"})
  /\ monc' = IF worker.msg.x \in monc.tree
             THEN [monc EXCEPT !.done = @ \cup {worker.msg.x}] ELSE monc
  /\ UNCHANGED <<caller, mount, stopping>>

\* The same for a reply that does not fit: it is reported and wakes nobody.
HandleCorruptReply ==
  /\ Dispatching({"bad"})
  /\ UNCHANGED <<monc, caller, mount, stopping>>

HandleMonMap ==
  /\ Dispatching({"monmap"})
  /\ monc' = [monc EXCEPT !.monmap = Mons, !.got_monmap = TRUE]
  /\ UNCHANGED <<caller, mount, stopping>>

\* ceph_osdc_handle_map(), as far as the monitor client is concerned.
HandleOsdMap ==
  /\ Dispatching({"map"})
  /\ monc' = GotOsdmap(monc, worker.msg.x)
  /\ UNCHANGED <<caller, mount, stopping>>

\* Mutant: a lost session does not start the hunt.
FaultNoHunt(m) ==
  /\ worker.job = "fault" /\ worker' = Idle
  /\ monc' = IF monc.hunting THEN [CloseSession(monc) EXCEPT !.timer = TRUE]
             ELSE OpenSession(CloseSession(monc), m)
  /\ UNCHANGED <<caller, mount, stopping>>

\* mon_fault(): hunt at once if the session was good, else leave it to the timer.
MonFault(m) ==
  /\ worker.job = "fault" /\ worker' = Idle
  /\ monc' = IF monc.hunting THEN [CloseSession(monc) EXCEPT !.timer = TRUE]
             ELSE OpenSession([CloseSession(monc) EXCEPT !.hunting = TRUE], m)
  /\ UNCHANGED <<caller, mount, stopping>>
=============================================================================
