----------------------------- MODULE MdsClient -----------------------------
(***************************************************************************)
(* The metadata client (fs/ceph/mds_client.c, mdsmap.c): a session with    *)
(* each metadata server in use, and the tree of requests whose last reply  *)
(* is still due.  A request waits for a map, or for its session, or for    *)
(* the server; an unsafe reply ends the caller's wait and leaves the       *)
(* request in the tree, to be replayed if the server restarts, until the   *)
(* safe reply comes.                                                       *)
(*                                                                         *)
(* c is struct ceph_mds_client.  sess holds every ceph_mds_session ever    *)
(* registered (c.sessions names the registered one of each server), with   *)
(* its connection: addr is the peer's address (0 once closed), out what    *)
(* ceph_con_send() queued, in what the peer's socket holds.  reqs[t] is    *)
(* the request with r_tid = t.  Each critical section of mdsc->mutex is    *)
(* one operator from c to c; o holds what the code draws or may fail to    *)
(* get in it: rnd of prandom_u32(), and nomem, the allocation that fails   *)
(* (a session's, a session message's, a request's; or none).  starved      *)
(* remembers that the message which opens a session was not sent for it.   *)
(***************************************************************************)
EXTENDS Integers, Sequences, FiniteSets, SequencesExt

CONSTANTS
  MDS        \* the ranks, 0..n-1

ASSUME MDSAssumption == MDS # {} /\ MDS = 0..(Cardinality(MDS) - 1)

NoMds == -1

\* enum: the order matters to >= and <.
S_NEW == 1
S_OPENING == 2
S_OPEN == 3
S_HUNG == 4
S_CLOSING == 5
S_RESTARTING == 6
S_RECONNECTING == 7

\* CEPH_MDS_STATE_*
DNE == 0
REPLAY == 8
RECONNECT == 10
ACTIVE == 13

Msg(t, x, y) == [t |-> t, x |-> x, y |-> y]

NewSession(m, addr) ==
  [mds |-> m, state |-> S_NEW, waiting |-> <<>>, unsafe |-> <<>>, renew_seq |-> 0,
   fresh |-> FALSE, starved |-> FALSE, owner |-> "none", addr |-> addr, out |-> <<>>, in |-> <<>>]

NewRequest(a) ==
  [write |-> a.write, mode |-> a.mode, dist |-> a.dist, auth |-> a.auth, cap |-> a.cap,
   sess |-> 0, resend |-> NoMds, num_fwd |-> 0, unsafe |-> FALSE, safe |-> FALSE,
   result |-> "no", err |-> "no", aborted |-> FALSE, tree |-> TRUE, done |-> FALSE,
   expired |-> FALSE]

----------------------------------------------------------------------------
(* The map.                                                                 *)

GetState(map, m) == IF m >= map.max THEN DNE ELSE map.st[m]
GetAddr(map, m) == IF m >= map.max THEN 0 ELSE map.addr[m]
IsLaggy(map, m) == m < map.max /\ m \in map.laggy

\* rnd is the draw; it falls on some server that is up, if there is one.
GetRandomMds(map, rnd) ==
  LET up == {m \in MDS : GetState(map, m) > 0}
  IN  CASE up = {} -> NoMds
        [] rnd \in up -> rnd
        [] OTHER -> CHOOSE m \in up : \A n \in up : m <= n

----------------------------------------------------------------------------
(* Connections and sessions.                                                *)

\* ceph_con_send() drops the message when the connection is closed.
ConSend(c, s, m) ==
  IF c.sess[s].addr = 0 THEN c ELSE [c EXCEPT !.sess[s].out = Append(@, m)]
ConClose(c, s) == [c EXCEPT !.sess[s].addr = 0, !.sess[s].out = <<>>, !.sess[s].in = <<>>]
ConOpen(c, s) == [c EXCEPT !.sess[s].addr = GetAddr(c.map, c.sess[s].mds)]

\* An assertion that failed.
Bug(c, x) == [c EXCEPT !.bug = @ \cup {x}]

HaveSession(c, m) == c.sessions[m] # 0
VerifyRegistered(c, s) == c.sessions[c.sess[s].mds] = s

\* Failures are found by the caller: ENOMEM, or EINVAL beyond m_max_mds.
CanRegister(c, m, o) == m < c.map.max /\ o.nomem # "session"
RegisterSession(c, m) ==
  [c EXCEPT !.sess = Append(@, NewSession(m, GetAddr(c.map, m))),
            !.sessions[m] = Len(c.sess) + 1]

UnregisterSession(c, s) ==
  IF VerifyRegistered(c, s)
  THEN ConClose([c EXCEPT !.sessions[c.sess[s].mds] = 0], s)
  ELSE Bug(c, "unregister")

\* A session message; without memory for it the callers go on as if it were sent.
SendSession(c, s, m, o) == IF o.nomem = "message" THEN c ELSE ConSend(c, s, m)

OpenSession(c, s, o) ==
  SendSession([c EXCEPT !.sess[s].state = S_OPENING, !.sess[s].starved = o.nomem = "message"],
              s, Msg("open", 0, 0), o)

OpenExportTarget(c, m, o) ==
  IF ~HaveSession(c, m) /\ ~CanRegister(c, m, o) THEN c
  ELSE LET d == IF HaveSession(c, m) THEN c ELSE RegisterSession(c, m)
           s == d.sessions[m]
       IN  IF d.sess[s].state \in {S_NEW, S_CLOSING} THEN OpenSession(d, s, o) ELSE d

OpenExportTargets(c, m, o) ==
  IF m >= c.map.max THEN c
  ELSE FoldLeft(LAMBDA d, n : OpenExportTarget(d, n, o), c,
                SetToSortSeq(c.map.targets[m], <))

RequestClose(c, s, o) == SendSession(c, s, Msg("close", 0, 0), o)
CloseSession(c, s, o) ==
  IF c.sess[s].state >= S_CLOSING THEN c
  ELSE RequestClose([c EXCEPT !.sess[s].state = S_CLOSING], s, o)

\* A server that is still recovering is not asked.
SendRenewCaps(c, s, o) ==
  IF GetState(c.map, c.sess[s].mds) < RECONNECT THEN c
  ELSE SendSession([c EXCEPT !.sess[s].renew_seq = @ + 1], s,
                   Msg("renew", c.sess[s].renew_seq + 1, 0), o)

RenewedCaps(c, s) == [c EXCEPT !.sess[s].fresh = TRUE]

----------------------------------------------------------------------------
(* Requests.                                                                *)

PutRequestSession(c, t) == [c EXCEPT !.reqs[t].sess = 0]

RegisterRequest(c, a) == [c EXCEPT !.reqs = Append(@, NewRequest(a))]
UnregisterRequest(c, t) == [c EXCEPT !.reqs[t].tree = FALSE]
InTree(c) == {t \in DOMAIN c.reqs : c.reqs[t].tree}

CompleteRequest(c, t) == [c EXCEPT !.reqs[t].done = TRUE]
Finish(c, t, e) == CompleteRequest([c EXCEPT !.reqs[t].err = e], t)

\* The list a request's r_wait is on: at most one, or the lists are corrupt.
OnList(c, t) ==
  \/ t \in Range(c.waiting_for_map)
  \/ \E s \in DOMAIN c.sess : t \in Range(c.sess[s].waiting)
ListCheck(c, t) == IF OnList(c, t) THEN Bug(c, "list") ELSE c
WaitForMap(c, t) ==
  [ListCheck(c, t) EXCEPT !.waiting_for_map = <<t>> \o @]
WaitForSession(c, t, s) == [ListCheck(c, t) EXCEPT !.sess[s].waiting = <<t>> \o @]
Unlink(c, t) ==
  FoldLeft(LAMBDA d, s : [d EXCEPT !.sess[s].waiting = Remove(@, t)],
           [c EXCEPT !.waiting_for_map = Remove(@, t)], [s \in DOMAIN c.sess |-> s])

\* dist and auth are what the fragment tree names, cap the first (or auth) cap's server.
ChooseMds(c, t, o) ==
  LET r == c.reqs[t]
      active(m) == m # NoMds /\ GetState(c.map, m) >= ACTIVE
  IN  CASE r.resend # NoMds /\ (HaveSession(c, r.resend) \/ GetState(c.map, r.resend) > 0)
             -> r.resend
        [] r.mode = "random" -> GetRandomMds(c.map, o.rnd)
        [] r.mode = "any" /\ active(r.dist) -> r.dist
        [] active(r.auth) -> r.auth
        [] r.cap # NoMds -> r.cap
        [] OTHER -> GetRandomMds(c.map, o.rnd)

\* A replayed request goes out as it was first sent; others are encoded anew,
\* which may fail.  y tells the server the forwards it took, -1 of a replay.
PrepareSend(c, t, s, o) ==
  LET r == c.reqs[t]
  IN  IF r.unsafe THEN ConSend(c, s, Msg("req", t, -1))
      ELSE IF o.nomem = "request" THEN Finish(c, t, "ENOMEM")
      ELSE ConSend(c, s, Msg("req", t, r.num_fwd))

DoRequest(c, t, o) ==
  LET r == c.reqs[t]
      d == PutRequestSession(c, t)
      m == ChooseMds(d, t, o)
      e == IF HaveSession(d, m) THEN d ELSE RegisterSession(d, m)
      s == e.sessions[m]
      f == [e EXCEPT !.reqs[t].sess = s]
      opened == IF f.sess[s].state \in {S_NEW, S_CLOSING} THEN OpenSession(f, s, o) ELSE f
  IN  IF r.err # "no" \/ r.result # "no" THEN IF r.aborted THEN UnregisterRequest(c, t) ELSE c
      ELSE IF r.expired THEN Finish(c, t, "EIO")
      ELSE IF m = NoMds \/ GetState(d.map, m) < ACTIVE THEN WaitForMap(d, t)
      ELSE IF ~HaveSession(d, m) /\ ~CanRegister(d, m, o) THEN Finish(d, t, "ENOMEM")
      ELSE IF f.sess[s].state \notin {S_OPEN, S_HUNG} THEN WaitForSession(opened, t, s)
      ELSE PrepareSend([f EXCEPT !.reqs[t].resend = NoMds], t, s, o)

\* Woken one by one, in the order of the list; the list was emptied first.
WakeAll(c, list, o) == FoldLeft(LAMBDA d, t : DoRequest(d, t, o), c, list)
WakeSession(c, s, o) == WakeAll([c EXCEPT !.sess[s].waiting = <<>>], c.sess[s].waiting, o)
WakeMapWaiters(c, o) == WakeAll([c EXCEPT !.waiting_for_map = <<>>], c.waiting_for_map, o)

\* Mutant: only the requests that were sent are kicked.
KickSent(c, m, o) ==
  LET mine(t) == /\ c.reqs[t].tree /\ ~c.reqs[t].unsafe /\ ~OnList(c, t)
                 /\ c.reqs[t].sess # 0 /\ c.sess[c.reqs[t].sess].mds = m
  IN  FoldLeft(LAMBDA d, t : DoRequest(Unlink(d, t), t, o), c,
               SelectSeq([t \in DOMAIN c.reqs |-> t], mine))

\* Mutant: a request stays on its wait list when it is issued again.
KickLinked(c, m, o) ==
  LET mine(t) == /\ c.reqs[t].tree /\ ~c.reqs[t].unsafe
                 /\ c.reqs[t].sess # 0 /\ c.sess[c.reqs[t].sess].mds = m
  IN  FoldLeft(LAMBDA d, t : DoRequest(d, t, o), c,
               SelectSeq([t \in DOMAIN c.reqs |-> t], mine))

KickRequests(c, m, o) ==
  LET mine(t) == /\ c.reqs[t].tree /\ ~c.reqs[t].unsafe
                 /\ c.reqs[t].sess # 0 /\ c.sess[c.reqs[t].sess].mds = m
  IN  FoldLeft(LAMBDA d, t : DoRequest(Unlink(d, t), t, o), c,
               SelectSeq([t \in DOMAIN c.reqs |-> t], mine))

----------------------------------------------------------------------------
(* Replies.  The results name the section the connection's worker runs next. *)

Then(c, pc) == [c |-> c, pc |-> pc]

\* ESTALE: ask the authority, unless it is the authority that answered.
Estale(c, t, o) ==
  LET d == [c EXCEPT !.reqs[t].resend = NoMds]
      m == ChooseMds(d, t, o)
      moved == m # NoMds /\ m # c.sess[c.reqs[t].sess].mds
  IN  IF c.reqs[t].mode # "auth"
      THEN [c |-> DoRequest([d EXCEPT !.reqs[t].mode = "auth"], t, o), resent |-> TRUE]
      ELSE IF moved THEN [c |-> DoRequest(d, t, o), resent |-> TRUE]
      ELSE [c |-> d, resent |-> FALSE]

SafeReply(c, s, t) ==
  LET d == UnregisterRequest([c EXCEPT !.reqs[t].safe = TRUE], t)
      e == [d EXCEPT !.sess[s].unsafe = SelectSeq(@, LAMBDA u : u # t),
                     !.safe_umount = @ \/ (c.stopping /\ InTree(d) = {})]
  IN  IF c.reqs[t].unsafe THEN Then(e, "idle") ELSE Then(d, "reply")

UnsafeReply(c, s, t) ==
  Then([c EXCEPT !.reqs[t].unsafe = TRUE, !.sess[s].unsafe = Append(@, t)], "reply")

\* y of a reply is "ok", "error" or "estale"; t of the message is safe or unsafe.
HandleReply(c, s, m, o) ==
  LET t == m.x
      known == t \in InTree(c)
      dup == c.reqs[t].safe \/ (c.reqs[t].unsafe /\ m.t = "unsafe")
      stale == Estale(c, t, o)
      d == IF m.y = "estale" THEN stale.c ELSE c
  IN  IF ~known THEN Then(c, "idle")
      ELSE IF c.reqs[t].sess # s \/ dup THEN Then(c, "idle")
      ELSE IF m.y = "estale" /\ stale.resent THEN Then(stale.c, "idle")
      ELSE IF m.t = "safe" THEN SafeReply(d, s, t)
      ELSE UnsafeReply(d, s, t)

\* ok: the reply could be parsed and traced.  The caller may be gone by now.
FinishReply(c, t, m, ok) ==
  LET d == IF c.reqs[t].aborted THEN c
           ELSE IF ok THEN [c EXCEPT !.reqs[t].result = m.y]
           ELSE [c EXCEPT !.reqs[t].err = "EIO"]
  IN  CompleteRequest(d, t)

\* y is <<next mds, fwd_seq>>.
HandleForward(c, m, o) ==
  LET t == m.x
      r == c.reqs[t]
      bad == r.err # "no" \/ r.result # "no"
      d == [IF bad THEN Bug(c, "forward") ELSE c
              EXCEPT !.reqs[t].num_fwd = m.y[2], !.reqs[t].resend = m.y[1], !.reqs[t].sess = 0]
  IN  IF t \notin InTree(c) THEN c
      ELSE IF r.aborted THEN UnregisterRequest(c, t)
      ELSE IF m.y[2] <= r.num_fwd THEN c
      ELSE DoRequest(d, t, o)

----------------------------------------------------------------------------
(* Session messages: under mdsc->mutex, then s_mutex, then mdsc->mutex.     *)

SessionFirst(c, s, m) == IF m.t = "closed" THEN UnregisterSession(c, s) ELSE c

SessionSecond(c, s, m, o) ==
  LET d == IF c.sess[s].state = S_HUNG THEN [c EXCEPT !.sess[s].state = S_OPEN] ELSE c
      e == RenewedCaps([d EXCEPT !.sess[s].state = S_OPEN], s)
  IN  CASE m.t = "opened" -> IF c.stopping THEN CloseSession(e, s, o) ELSE e
        [] m.t = "renewed" -> IF m.x = c.sess[s].renew_seq THEN RenewedCaps(d, s) ELSE d
        [] m.t = "stale" -> SendRenewCaps([d EXCEPT !.sess[s].fresh = FALSE], s, o)
        [] m.t = "flushmsg" -> SendSession(d, s, Msg("flushack", m.x, 0), o)
        [] OTHER -> d

SessionWakes(m) == m.t \in {"opened", "closed"}

SessionThird(c, s, m, o) ==
  LET d == WakeSession(c, s, o)
  IN  IF m.t = "closed" THEN KickRequests(d, c.sess[s].mds, o) ELSE d

----------------------------------------------------------------------------
(* The reconnect after a restart of the server.                             *)

\* Under s_mutex: the connection is opened anew, to the server's new address.
ReconnectBegins(c, s) ==
  ConOpen(ConClose([c EXCEPT !.sess[s].state = S_RECONNECTING], s), s)

\* Mutant: the requests that got an unsafe reply are not sent again.
ReplayNothing(c, s, o) == c

ReplayUnsafe(c, s, o) ==
  FoldLeft(LAMBDA d, t : PrepareSend(d, t, s, o), c, c.sess[s].unsafe)

ReconnectSends(c, s) == ConSend(c, s, Msg("reconnect", 0, 0))

----------------------------------------------------------------------------
(* A new map.  c.map is the new one already; the walk over the sessions     *)
(* stops where mdsc->mutex is dropped: to close a connection under s_mutex, *)
(* and to reconnect.                                                        *)

At(c, pc, s) == [c |-> c, pc |-> pc, s |-> s]

MapTail(c, o) ==
  LET laggy == {m \in MDS : /\ HaveSession(c, m) /\ IsLaggy(c.map, m)
                            /\ c.sess[c.sessions[m]].state \in {S_OPEN, S_HUNG, S_CLOSING}}
      d == FoldLeft(LAMBDA e, m : OpenExportTargets(e, m, o), c, SetToSortSeq(laggy, <))
  IN  At(WakeMapWaiters(d, o), "idle", 0)

RECURSIVE CheckNewMap(_, _, _, _)

CheckActive(c, s, old, o) ==
  LET m == c.sess[s].mds
      d == IF GetState(old, m) < ACTIVE /\ GetState(c.map, m) >= ACTIVE
           THEN KickRequests(c, m, o) ELSE c
  IN  CheckNewMap(d, m + 1, old, o)

CheckReconnect(c, s, old, o) ==
  IF c.sess[s].state = S_RESTARTING /\ GetState(c.map, c.sess[s].mds) >= RECONNECT
  THEN At(c, "reconnect", s) ELSE CheckActive(c, s, old, o)

CloseAndRestart(c, s, old, o) ==
  LET d == [ConClose(c, s) EXCEPT !.sess[s].state = S_RESTARTING]
  IN  CheckReconnect(KickRequests(d, c.sess[s].mds, o), s, old, o)

\* Never opened: its requests are woken, then kicked once it is unregistered.
CloseOpening(c, s, old, o) ==
  LET d == UnregisterSession(WakeSession(c, s, o), s)
  IN  CheckReconnect(KickRequests(d, c.sess[s].mds, o), s, old, o)

CheckNewMap(c, m, old, o) ==
  IF m >= old.max THEN MapTail(c, o)
  ELSE IF ~HaveSession(c, m) THEN CheckNewMap(c, m + 1, old, o)
  ELSE LET s == c.sessions[m]
       IN  IF GetAddr(old, m) # GetAddr(c.map, m)
           THEN IF c.sess[s].state = S_OPENING THEN CloseOpening(c, s, old, o)
                ELSE At(c, "close", s)
           ELSE IF GetState(old, m) = GetState(c.map, m) THEN CheckNewMap(c, m + 1, old, o)
           ELSE CheckReconnect(c, s, old, o)

----------------------------------------------------------------------------
(* The timer.  The walk stops where mdsc->mutex is dropped: to renew the   *)
(* caps of a session under its s_mutex.                                     *)

\* ttl: the ranks whose s_ttl has passed.
RECURSIVE DelayedWork(_, _, _, _)
DelayedWork(c, m, ttl, o) ==
  LET s == c.sessions[m]
      d == IF m \in ttl /\ c.sess[s].state = S_OPEN
           THEN [c EXCEPT !.sess[s].state = S_HUNG] ELSE c
  IN  IF m \notin MDS THEN At(c, "idle", 0)
      ELSE IF ~HaveSession(c, m) THEN DelayedWork(c, m + 1, ttl, o)
      ELSE IF c.sess[s].state = S_CLOSING
           THEN DelayedWork(RequestClose(c, s, o), m + 1, ttl, o)
      ELSE IF c.sess[s].state < S_OPEN THEN DelayedWork(c, m + 1, ttl, o)
      ELSE At(d, "renew", s)

\* renew: it is time to renew the caps.
DelayedSession(c, s, renew, o) == IF renew THEN SendRenewCaps(c, s, o) ELSE c
============================================================================
