----------------------------- MODULE CapsSession -----------------------------
(***************************************************************************)
(* The capabilities of one file (module Caps) in use: user threads that    *)
(* read, write, fsync and close it, the message handlers, the writeback,   *)
(* invalidate and delayed-caps workers, and, external to the client, the   *)
(* metadata servers that issue and revoke, the object store and another    *)
(* client.  c is the file, chk the run of ceph_check_caps() each thread is *)
(* in, t the user threads, mutex the holder of i_mutex, v the metadata     *)
(* servers, o the object store, g what the properties remember.            *)
(***************************************************************************)
EXTENDS Caps

CONSTANTS
  User,        \* the user threads
  Scenarios,   \* what they do, what the servers allow, what else may happen
  MaxSeq       \* bound on the grants and revocations of one server

VARIABLES c, chk, t, mutex, v, o, g
vars == <<c, chk, t, mutex, v, o, g>>

Handler == [m \in MDS |-> IF m = 0 THEN "h0" ELSE "h1"]
Thread == User \cup {Handler[m] : m \in MDS} \cup {"osd", "inv", "del", "map"}

Idle(x) == chk[x] = NoTask
MutexFree(m) == \A x \in Thread : chk[x].sess # m

----------------------------------------------------------------------------
(* The metadata servers.  Each records what the client said it has and what *)
(* it was sent since; it takes the client to hold all of that.              *)

NoView == [id |-> 0]
View(id, seq, mseq, caps, wanted) ==
  [id |-> id, seq |-> seq, mseq |-> mseq, wanted |-> wanted, has |-> caps,
   sent |-> <<[seq |-> seq, caps |-> caps]>>]

Issued(w) == w.has \cup UNION {w.sent[i].caps : i \in DOMAIN w.sent}
Pending(w) == Last(w.sent).caps
Viewed == {m \in MDS : v.cap[m] # NoView}
ServerIssued == UNION {Issued(v.cap[m]) : m \in Viewed}

\* What the lock states of this phase let server m issue.
Allowed(m) == v.phases[1].allow[m]
Settled == \A m \in Viewed : Issued(v.cap[m]) \subseteq Allowed(m)
AllUp == \A m \in MDS : v.up[m] = "up"

Tell(w, m, msg) == [w EXCEPT !.q[m] = Append(@, msg)]

GrantMsg(w, m, op, seq, caps) ==
  [op |-> op, id |-> w.cap[m].id, seq |-> seq, mseq |-> w.cap[m].mseq, caps |-> caps,
   wanted |-> w.cap[m].wanted, size |-> w.size, max |-> w.max, val |-> w.val,
   ctx |-> w.ctx, peer |-> NoMds, peer_id |-> 0, peer_seq |-> 0, peer_mseq |-> 0]

SrvSend(w, m, caps) ==
  LET seq == w.cap[m].seq + 1
      more == SelectSeq(w.cap[m].sent, LAMBDA e : ~(e.caps \subseteq caps))
      w1 == [w EXCEPT !.cap[m].seq = seq, !.cap[m].sent = Append(more, [seq |-> seq, caps |-> caps])]
  IN  Tell(w1, m, GrantMsg(w1, m, "GRANT", seq, caps))

\* The client answered message seq and has caps.
Confirm(w, m, seq, caps) ==
  LET since == SelectSeq(w.cap[m].sent, LAMBDA e : e.seq > seq)
      last == [seq |-> seq, caps |-> Pending(w.cap[m]) \cap caps]
  IN  [w EXCEPT !.cap[m].has = caps, !.cap[m].sent = IF since = <<>> THEN <<last>> ELSE since]

\* A server gives the bits that are wanted and allowed, takes back the others.
SrvIssue(m) ==
  LET w == v.cap[m]
      next == Allowed(m) \cap (Pending(w) \cup w.wanted)
  IN  /\ v.up[m] = "up" /\ m \in Viewed /\ m \notin v.stale
      /\ next # Pending(w)
      /\ w.seq < MaxSeq
      /\ v' = SrvSend(v, m, next)
      /\ UNCHANGED <<c, chk, t, mutex, o, g>>

\* The lock states move on: the other client comes or goes.
SrvPhase ==
  /\ AllUp /\ Settled /\ Len(v.phases) > 1
  /\ v' = [v EXCEPT !.phases = Tail(@)]
  /\ UNCHANGED <<c, chk, t, mutex, o, g>>

SrvUpdate(w, m, msg) ==
  LET w1 == [Confirm(w, m, msg.seq, msg.caps) EXCEPT
               !.cap[m].wanted = msg.wanted,
               !.max = IF msg.op # "DROP" /\ msg.max > @ THEN msg.max ELSE @]
      grown == w1.max # w.max
      w2 == IF msg.op = "DROP" \/ msg.dirty = {} THEN w1
            ELSE [w1 EXCEPT !.jr = Append(@, [on |-> m, msg |-> msg])]
  IN  IF grown THEN SrvSend(w2, m, Pending(w2.cap[m])) ELSE w2

\* The caps of a stale session are resumed before it is told.
SrvRenew(w, m) ==
  LET resumed == IF m \in w.stale /\ w.cap[m] # NoView THEN SrvSend(w, m, Pending(w.cap[m])) ELSE w
  IN  Tell([resumed EXCEPT !.stale = @ \ {m}], m, [op |-> "RENEWED"])

SrvRecv(m) ==
  LET msg == Head(c.s[m].out)
      w == v.cap[m]
      mine == m \in Viewed /\ msg.op # "FLUSHSNAP" /\ msg.id = w.id
      drop == [v EXCEPT !.cap[m] = NoView]
  IN  /\ v.up[m] # "down" /\ c.s[m].out # <<>>
      /\ c' = [c EXCEPT !.s[m].out = Tail(@)]
      /\ v' = CASE msg.op = "FLUSHSNAP" -> [v EXCEPT !.jr = Append(@, [on |-> m, msg |-> msg])]
                [] msg.op = "RECONNECT" ->
                     [v EXCEPT !.up[m] = "active",
                               !.cap[m] = IF msg.id = 0 THEN NoView
                                          ELSE View(msg.id, 0, 0, msg.caps, msg.wanted)]
                [] msg.op = "RENEW" -> SrvRenew(v, m)
                [] msg.op = "RELEASE" -> IF mine /\ msg.mseq = w.mseq THEN drop ELSE v
                [] msg.op \in {"UPDATE", "FLUSH", "DROP"} ->
                     IF mine /\ msg.mseq >= w.mseq THEN SrvUpdate(v, m, msg) ELSE v
      /\ UNCHANGED <<chk, t, mutex, o, g>>

\* A flush is in the journal and is acknowledged.
SrvCommit ==
  LET e == Head(v.jr)
      w == [v EXCEPT !.jr = Tail(@)]
      flush == e.msg.op # "FLUSHSNAP"
      w1 == IF ~flush THEN w
            ELSE [w EXCEPT !.val = IF "Ax" \in e.msg.dirty THEN e.msg.val ELSE @,
                           !.size = IF e.msg.size > @ THEN e.msg.size ELSE @]
  IN  /\ v.jr # <<>>
      /\ v' = Tell(w1, e.on, IF flush
                             THEN [op |-> "FLUSH_ACK", tid |-> e.msg.tid, dirty |-> e.msg.dirty]
                             ELSE [op |-> "FLUSHSNAP_ACK", tid |-> e.msg.tid, follows |-> e.msg.follows])
      /\ UNCHANGED <<c, chk, t, mutex, o, g>>

Chance(x) == x \in v.chances
Spend(w, x) == [w EXCEPT !.chances = @ \ {x}]

\* The file's metadata moves to another server: both tell the client.
SrvMigrate ==
  LET from == v.auth
      to == 1 - v.auth
      w == v.cap[from]
      had == v.cap[to]
      id == IF had = NoView THEN 10 * (w.mseq + 1) + to ELSE had.id
      seq == IF had = NoView THEN 1 ELSE had.seq + 1
      caps == Pending(w) \cup (IF had = NoView THEN {} ELSE Pending(had))
      w1 == [Spend(v, "migrate") EXCEPT
               !.auth = to,
               !.cap[from] = NoView, !.cap[to] = View(id, seq, w.mseq + 1, caps, w.wanted)]
      import == [GrantMsg(w1, to, "IMPORT", seq, caps) EXCEPT !.peer = from, !.peer_id = w.id]
      export == [op |-> "EXPORT", id |-> w.id, peer |-> to, peer_id |-> id, peer_seq |-> seq,
                 peer_mseq |-> w.mseq + 1]
  IN  /\ Chance("migrate") /\ AllUp
      /\ from \in Viewed /\ Issued(w) = Pending(w) /\ (had # NoView => Issued(had) = Pending(had))
      /\ v' = Tell(Tell(w1, from, export), to, import)
      /\ UNCHANGED <<c, chk, t, mutex, o, g>>

\* A snapshot of the file's realm.
SrvSnap ==
  /\ Chance("snap") \/ Chance("snap2")
  /\ AllUp
  /\ LET w == Spend(v, IF Chance("snap") THEN "snap" ELSE "snap2")
     IN  v' = Tell([w EXCEPT !.ctx = @ + 1], v.auth, [op |-> "SNAP", ctx |-> v.ctx + 1])
  /\ UNCHANGED <<c, chk, t, mutex, o, g>>

SrvRecall(m) ==
  /\ Chance("recall") /\ v.up[m] = "up"
  /\ v' = Tell(Spend(v, "recall"), m, [op |-> "RECALL"])
  /\ UNCHANGED <<c, chk, t, mutex, o, g>>

\* The client is late to renew its session.
SrvStale(m) ==
  /\ Chance("stale") /\ v.up[m] = "up" /\ m \in Viewed
  /\ v' = Tell([Spend(v, "stale") EXCEPT !.stale = @ \cup {m}], m, [op |-> "STALE"])
  /\ UNCHANGED <<c, chk, t, mutex, o, g>>

\* A server fails with what it had not committed, and the connection with it.
SrvCrash(m) ==
  /\ Chance("crash") /\ AllUp
  /\ v' = [Spend(v, "crash") EXCEPT !.up[m] = "down", !.q[m] = <<>>, !.cap[m] = NoView,
                                    !.stale = @ \ {m}, !.jr = SelectSeq(@, LAMBDA e : e.on # m)]
  /\ c' = [c EXCEPT !.s[m].out = <<>>]
  /\ UNCHANGED <<chk, t, mutex, o, g>>

----------------------------------------------------------------------------
(* The object store and the other client.                                   *)

\* What snapshot k holds of page p.
SnapRead(k, p) == IF k <= o.seq THEN o.clone[k][p] ELSE o.data[p]

\* A write in context ctx first clones the object for the snapshots since.
Apply(s, r) ==
  [s EXCEPT !.clone = [k \in DOMAIN @ |-> IF k > s.seq /\ k <= r.ctx THEN s.data ELSE @[k]],
            !.seq = IF r.ctx > @ THEN r.ctx ELSE @,
            !.data[r.p] = r.val]

\* wr is the last write of each page, old what it and its like replaced, raced
\* the pages somebody cached while a synchronous write of them was under way:
\* ceph_sync_write() drops the page before its write only.  A page dirtied
\* meanwhile is the later write of the two.
Wrote(h, p, val) == [h EXCEPT !.wr[p] = val, !.old = @ \cup {h.wr[p]}]

OsdApply ==
  LET r == Head(o.q)
      pg == c.pg[r.p]
  IN  /\ o.q # <<>>
      /\ o' = [Apply(o, r) EXCEPT !.q = Tail(@), !.done = Append(@, r)]
      /\ g' = CASE r.by # "sync" -> g
                [] r.by = "sync" /\ pg.ctx # 0 -> [g EXCEPT !.old = @ \cup {r.val}]
                [] r.by = "sync" /\ pg.ctx = 0 ->
                     [Wrote(g, r.p, r.val) EXCEPT !.raced = IF pg.in THEN @ \cup {r.p} ELSE @]
      /\ UNCHANGED <<c, chk, t, mutex, v>>

OtherWrites(p) ==
  /\ Chance("other") /\ AllUp /\ Settled
  /\ v.phases[1].other
  /\ v' = Spend(v, "other")
  /\ o' = Apply(o, [p |-> p, val |-> g.n + 1, ctx |-> o.seq])
  /\ g' = Wrote([g EXCEPT !.n = @ + 1], p, g.n + 1)
  /\ UNCHANGED <<c, chk, t, mutex>>

----------------------------------------------------------------------------
(* Threads.                                                                 *)

\* A task waits for the mutex of the session it needs, with no other held.
RunTask(x) ==
  LET k == chk[x]
  IN  /\ ~Idle(x)
      /\ \E m \in {SessionFor(c, k)} :
            m = NoMds \/ m = k.sess \/ (k.sess = NoMds /\ MutexFree(m))
      /\ \E r \in {TaskStep(c, k)} : c' = r.c /\ chk' = [chk EXCEPT ![x] = r.k]
      /\ UNCHANGED <<t, mutex, v, o, g>>

DropWrongSession(x) ==
  LET k == chk[x]
      m == SessionFor(c, k)
  IN  /\ ~Idle(x)
      /\ k.sess # NoMds /\ m \notin {NoMds, k.sess}
      /\ c' = Bug(c, Head(k.ph) = "again")   \* its caller unlocks it once more
      /\ chk' = [chk EXCEPT ![x].sess = NoMds]
      /\ UNCHANGED <<t, mutex, v, o, g>>

CheckTask(nodelay, authonly, flush) == Task(CheckPhases, nodelay, authonly, flush, NoMds)

\* What follows a dropped reference.
After(r) ==
  LET ph == (CASE r.next = "none" -> <<>>
               [] r.next = "snaps" -> <<"snaps">>
               [] OTHER -> CheckPhases) \o (IF r.wake THEN <<"wake">> ELSE <<>>)
  IN  IF ph = <<>> THEN NoTask ELSE Task(ph, FALSE, r.next = "auth", FALSE, NoMds)

\* ceph_handle_caps(), handle_snap() and the session messages about caps
NoTasks(d) == [c |-> d, k |-> NoTask]

HandleMessage(m, msg) ==
  CASE msg.op = "GRANT" -> IF Has(c, m) THEN HandleGrant(c, m, msg) ELSE NoTasks(SendReleases(c, m))
    [] msg.op = "IMPORT" -> HandleImport(c, m, msg)
    [] msg.op = "EXPORT" -> NoTasks(HandleExport(c, m, msg))
    [] msg.op = "FLUSH_ACK" -> NoTasks(IF Has(c, m) THEN FlushAck(c, msg) ELSE SendReleases(c, m))
    [] msg.op = "FLUSHSNAP_ACK" -> NoTasks(FlushSnapAck(c, msg))
    [] msg.op = "RECALL" -> NoTasks(TrimCaps(c, m))
    [] msg.op = "STALE" -> NoTasks(Stale(c, m))
    [] msg.op = "RENEWED" -> NoTasks(RenewedCaps(c, m))
    [] msg.op = "SNAP" -> LET d == UpdateSnapTrace(c, msg.ctx)
                          IN  [c |-> d, k |-> IF d.sflush = 0 THEN NoTask
                                              ELSE Task(<<"list">>, FALSE, FALSE, FALSE, NoMds)]

\* What the properties remember of a snapshot: the last writes, and those of
\* the writers it overtakes.
TakesSnap(d) == d.ctx # c.ctx
Remember(d) ==
  IF ~TakesSnap(d) THEN g
  ELSE [g EXCEPT !.snap[d.ctx] =
          [p \in Page |-> {g.wr[p]} \cup {t[u].val : u \in {x \in User : t[x].p = p /\ "Fw" \in t[x].got}}]]

\* snap_rwsem is taken for writing by a snapshot, for reading by check_caps().
Handle(m) ==
  LET x == Handler[m]
      msg == Head(v.q[m])
      r == HandleMessage(m, msg)
  IN  /\ Idle(x) /\ MutexFree(m) /\ v.q[m] # <<>>
      /\ msg.op = "EXPORT" => \A n \in ExportLocks(c, m, msg) : MutexFree(n)
      /\ msg.op \in {"SNAP", "IMPORT"} => \A y \in Thread : ~chk[y].took
      /\ c' = r.c
      /\ chk' = [chk EXCEPT ![x] = r.k]
      /\ v' = [v EXCEPT !.q[m] = Tail(@)]
      /\ g' = Remember(r.c)
      /\ UNCHANGED <<t, mutex, o>>

\* The client hears that a failed server waits for clients to reconnect, and
\* that it is active again.
ReconnectTo(m) ==
  /\ v.up[m] = "down" /\ MutexFree(m) /\ Idle("map")
  /\ c' = ReconnectBegin(c, m)
  /\ chk' = [chk EXCEPT !["map"] = Task(<<"reconnect">>, FALSE, FALSE, FALSE, m)]
  /\ v' = [v EXCEPT !.up[m] = "rejoin"]
  /\ UNCHANGED <<t, mutex, o, g>>

MdsActive(m) ==
  LET ph == KickPhases(c, m)
  IN  /\ v.up[m] = "active" /\ MutexFree(m) /\ Idle("map")
      /\ chk' = [chk EXCEPT !["map"] = IF ph = <<>> THEN NoTask ELSE Task(ph, FALSE, FALSE, FALSE, m)]
      /\ v' = [v EXCEPT !.up[m] = "up"]
      /\ UNCHANGED <<c, t, mutex, o, g>>

\* The lease runs out, and the timer of the client renews it.
LeaseLapses(m) ==
  /\ Chance("lapse")
  /\ c' = [c EXCEPT !.s[m].ttl = FALSE]
  /\ v' = Spend(v, "lapse")
  /\ UNCHANGED <<chk, t, mutex, o, g>>

SendRenewCaps(m) ==
  LET renew(q) == \E i \in DOMAIN q : q[i].op \in {"RENEW", "RENEWED"}
  IN  /\ ~c.s[m].ttl /\ v.up[m] = "up" /\ MutexFree(m)
      /\ ~renew(c.s[m].out) /\ ~renew(v.q[m])
      /\ c' = Send(c, m, [op |-> "RENEW"])
      /\ UNCHANGED <<chk, t, mutex, v, o, g>>

\* The next allocation is to fail.
MemoryLow ==
  /\ Chance("nomem")
  /\ c' = [c EXCEPT !.nomem = TRUE]
  /\ v' = Spend(v, "nomem")
  /\ UNCHANGED <<chk, t, mutex, o, g>>

----------------------------------------------------------------------------
(* Workers.                                                                 *)

\* Timers are long: they come when everybody waits or is done, unless a
\* scenario has one come early.
AllWait == \A u \in User : u \in c.asleep \/ (t[u].pc = "idle" /\ t[u].ops = <<>>)
                            \/ t[u].pc \in {"flush", "pages"}
Calm ==
  /\ AllWait
  /\ \A x \in Thread : Idle(x)
  /\ \A m \in MDS : c.s[m].out = <<>> /\ v.q[m] = <<>> /\ v.up[m] = "up"
  /\ o.q = <<>> /\ o.done = <<>> /\ v.jr = <<>>
Due(timer) == Calm \/ Chance(timer)

\* The hold-off times of delayed caps run out.
Tick ==
  /\ c.delay /\ c.hold # "past" /\ Due("slow")
  /\ c' = [c EXCEPT !.hold = IF @ = "min" THEN "max" ELSE "past"]
  /\ UNCHANGED <<chk, t, mutex, v, o, g>>

CheckDelayedCaps ==
  /\ Idle("del") /\ c.delay
  /\ "FLUSH" \in c.flags \/ c.hold = "past"
  /\ c' = DelayCancel(c)
  /\ chk' = [chk EXCEPT !["del"] = CheckTask(TRUE, FALSE, FALSE)]
  /\ UNCHANGED <<t, mutex, v, o, g>>

\* ceph_flush_dirty_caps() on a sync of the file system
FlushDirtyCaps ==
  /\ Chance("syncfs") /\ Idle("del") /\ c.dirty # {}
  /\ chk' = [chk EXCEPT !["del"] = CheckTask(TRUE, FALSE, TRUE)]
  /\ v' = Spend(v, "syncfs")
  /\ UNCHANGED <<c, t, mutex, o, g>>

\* ceph_write_inode() by the flusher, which does not wait
WriteInode ==
  /\ Due("inode") /\ c.dirty # {} /\ "FLUSH" \notin c.flags
  /\ c' = DelayRequeueFront(c)
  /\ v' = Spend(v, "inode")
  /\ UNCHANGED <<chk, t, mutex, o, g>>

StartWrite(d, p) == [d EXCEPT !.pg[p].wb = TRUE, !.pg[p].lk = TRUE]
Request(s, p, by) == [s EXCEPT !.q = Append(@, [p |-> p, val |-> c.pg[p].val, ctx |-> c.pg[p].ctx, by |-> by])]

\* ceph_writepages_start() writes only pages of the oldest context.
CanWrite(p) == IsDirty(c, p) /\ ~c.pg[p].lk /\ Writeable(c, c.pg[p].ctx)

\* Writeback was queued, somebody waits for it, or the flusher comes round.
Wanted(p) ==
  \/ c.wbq \/ Due("flusher")
  \/ \E u \in User : t[u].pc = "pages" \/ (t[u].pc = "flush" /\ t[u].p = p)

WritePage(p) ==
  /\ CanWrite(p) /\ Wanted(p)
  /\ c' = StartWrite(c, p)
  /\ o' = Request(o, p, "wb")
  /\ UNCHANGED <<chk, t, mutex, v, g>>

\* ceph_writeback_work() found no more to write.
WritebackDone ==
  /\ c.wbq /\ \A p \in Page : ~CanWrite(p)
  /\ c' = [c EXCEPT !.wbq = FALSE]
  /\ UNCHANGED <<chk, t, mutex, v, o, g>>

\* writepages_finish(), and the reply a synchronous writer waits for
WriteFinish ==
  LET r == Head(o.done)
      gone == "Fc" \notin CapsIssued(c)
      d == [c EXCEPT !.pg[r.p] = IF gone THEN Clean
                                 ELSE [@ EXCEPT !.ctx = 0, !.wb = FALSE, !.lk = FALSE]]
      put == PutWrbuffer(d, r.ctx)
  IN  /\ o.done # <<>> /\ r.by = "wb" /\ Idle("osd")
      /\ c' = put.c
      /\ chk' = [chk EXCEPT !["osd"] = After(put)]
      /\ o' = [o EXCEPT !.done = Tail(@)]
      /\ UNCHANGED <<t, mutex, v, g>>

\* ceph_invalidate_work(): truncate_pagecache() waits for locked pages and
\* pages in writeback and drops the rest, dirty or not.
InvalidateStart ==
  LET stale == c.rdrev = c.gen
      other == RevokingOther(c, NoMds, {"Fc"})
  IN  /\ c.qinv /\ Idle("inv") /\ g.inv = 0
      /\ c' = [c EXCEPT !.qinv = FALSE]
      /\ g' = IF stale THEN [g EXCEPT !.inv = c.gen] ELSE g
      /\ chk' = IF ~stale /\ other THEN [chk EXCEPT !["inv"] = CheckTask(FALSE, FALSE, FALSE)] ELSE chk
      /\ UNCHANGED <<t, mutex, v, o>>

InvalidateRun ==
  LET d == [c EXCEPT !.pg = [p \in Page |-> Clean]]
      ours == g.inv = c.gen /\ g.inv = c.rdrev
  IN  /\ g.inv # 0 /\ Idle("inv")
      /\ \A p \in Page : ~c.pg[p].lk /\ c.pg[p].ctx = 0
      /\ c' = IF ours THEN [d EXCEPT !.rdrev = @ - 1] ELSE d
      /\ g' = [g EXCEPT !.inv = 0]
      /\ chk' = IF ours \/ RevokingOther(c, NoMds, {"Fc"})
                THEN [chk EXCEPT !["inv"] = CheckTask(FALSE, FALSE, FALSE)] ELSE chk
      /\ UNCHANGED <<t, mutex, v, o>>

\* A page dirtied since the invalidation was decided is dropped with the rest:
\* its write is lost, which lost notes.
InvalidateDirty(p) ==
  LET put == PutWrbuffer([c EXCEPT !.pg[p] = Clean], c.pg[p].ctx)
  IN  /\ g.inv # 0 /\ Idle("inv")
      /\ IsDirty(c, p) /\ ~c.pg[p].lk
      /\ c' = put.c
      /\ chk' = [chk EXCEPT !["inv"] = After(put)]
      /\ g' = [g EXCEPT !.lost = TRUE]
      /\ UNCHANGED <<t, mutex, v, o>>

----------------------------------------------------------------------------
(* User threads.  pc is where a thread is in its call, got the references   *)
(* it holds, p and val the page and the value of its call.                  *)

AtRest(ops) == [ops |-> ops, pc |-> "idle", got |-> {}, p |-> 0, val |-> 0, tid |-> 0, min |-> 0,
                old |-> {}]
Op(u) == Head(t[u].ops)
At(u, pc) == t[u].pc = pc /\ Idle(u) /\ u \notin c.asleep
Goto(u, pc) == [t EXCEPT ![u].pc = pc]
Begins(u, op) == At(u, "idle") /\ t[u].ops # <<>> /\ Op(u).op = op
EndOp(u) == [t EXCEPT ![u] = AtRest(Tail(t[u].ops))]
SetChk(u, k) == chk' = [chk EXCEPT ![u] = k]

Need(u) == IF Op(u).op = "read" THEN {"Fr"} ELSE {"Fw"}
Want(u) == IF Op(u).op = "read" THEN {"Fc"} ELSE {"Fb"}
Endoff(u) == IF Op(u).op = "read" THEN 0 ELSE Op(u).p

\* ceph_open() of a file with caps: the servers are told what is wanted.
Open(u) ==
  LET mode == Op(u).mode
      wanted == CapsForMode(mode)
      d == [c EXCEPT !.modes[mode] = @ + 1]
      known == UNION {c.caps[m].wanted : m \in Valid(c)}
      tell == ~(wanted \subseteq CapsIssued(c)) /\ ~(wanted \subseteq known)
  IN  /\ Begins(u, "open") /\ Held(c) # {}
      /\ mode # "rd" => c.auth # NoMds
      /\ c' = d
      /\ SetChk(u, IF tell THEN CheckTask(FALSE, FALSE, FALSE) ELSE NoTask)
      /\ t' = EndOp(u)
      /\ UNCHANGED <<mutex, v, o, g>>

\* ceph_release()
Close(u) ==
  LET mode == Op(u).mode
      d == [Bug(c, c.modes[mode] = 0) EXCEPT !.modes[mode] = @ - 1]
  IN  /\ Begins(u, "close")
      /\ c' = d
      /\ SetChk(u, Task((IF d.modes[mode] = 0 THEN CheckPhases ELSE <<>>) \o <<"wake">>,
                        FALSE, FALSE, FALSE, NoMds))
      /\ t' = EndOp(u)
      /\ UNCHANGED <<mutex, v, o, g>>

\* ceph_setattr() under Ax changes the file here; without it the change is a
\* request, which gives up the shared bit first (its reply is not modelled).
ChmodLocally(u) ==
  /\ Begins(u, "chmod") /\ mutex = "none" /\ "Ax" \in CapsIssued(c)
  /\ c' = MarkDirtyCaps([c EXCEPT !.val = g.n + 1], {"Ax"})
  /\ g' = [g EXCEPT !.n = @ + 1]
  /\ t' = EndOp(u)
  /\ UNCHANGED <<chk, mutex, v, o>>

ChmodRequest(u) ==
  /\ Begins(u, "chmod") /\ mutex = "none" /\ "Ax" \notin CapsIssued(c)
  /\ c' = IF c.auth = NoMds THEN c ELSE InodeRelease(c, c.auth, {"As"}, {})
  /\ t' = EndOp(u)
  /\ UNCHANGED <<chk, mutex, v, o, g>>

\* check_max_size() before the wait for caps
MaxSize(u) ==
  LET r == CheckMaxSize(c, Endoff(u))
  IN  /\ c' = r.c
      /\ SetChk(u, IF r.check THEN CheckTask(FALSE, TRUE, FALSE) ELSE NoTask)

BeginWrite(u) ==
  /\ Begins(u, "write") /\ mutex = "none"
  /\ mutex' = u
  /\ MaxSize(u)
  /\ t' = [t EXCEPT ![u].pc = "get", ![u].val = g.n + 1]
  /\ g' = [g EXCEPT !.n = @ + 1]
  /\ UNCHANGED <<v, o>>

Waiting(u) == At(u, "get") \/ Begins(u, "read")

\* Mutant: reads go through the cache whatever the caps.
WayCached(u, got) == IF Op(u).op = "read" THEN "cached" ELSE IF "Fb" \in got THEN "buffer" ELSE "flush"

Way(u, got) ==
  IF Op(u).op = "read" THEN (IF "Fc" \in got THEN "cached" ELSE "flush")
  ELSE IF "Fb" \in got /\ ~Op(u).sync THEN "buffer" ELSE "flush"

\* ceph_get_caps()
GetCaps(u) ==
  LET r == TryGetCapRefs(c, Need(u), Want(u), Endoff(u))
  IN  /\ Waiting(u) /\ r.r = "got"
      /\ c' = TakeRefs(c, r.got)
      /\ t' = [t EXCEPT ![u].got = r.got, ![u].p = Op(u).p, ![u].pc = Way(u, r.got), ![u].old = g.old]
      /\ mutex' = IF Op(u).op = "write" /\ Way(u, r.got) = "flush" THEN "none" ELSE mutex
      /\ UNCHANGED <<chk, v, o, g>>

GetCapsSleeps(u) ==
  /\ Waiting(u)
  /\ TryGetCapRefs(c, Need(u), Want(u), Endoff(u)).r = "wait"
  /\ c' = [c EXCEPT !.asleep = @ \cup {u}]
  /\ UNCHANGED <<chk, t, mutex, v, o, g>>

GetCapsMax(u) ==
  /\ At(u, "get")
  /\ TryGetCapRefs(c, Need(u), Want(u), Endoff(u)).r = "max"
  /\ MaxSize(u)
  /\ UNCHANGED <<t, mutex, v, o, g>>

PutCaps(u) ==
  LET r == PutCapRefs(c, t[u].got)
  IN  /\ At(u, "put")
      /\ c' = r.c
      /\ SetChk(u, After(r))
      /\ t' = EndOp(u)
      /\ UNCHANGED <<mutex, v, o, g>>

\* A cached read; a page that is not there is read in, locked meanwhile.
ReadCached(u) ==
  LET p == t[u].p
  IN  /\ At(u, "cached") /\ c.pg[p].in /\ ~(c.pg[p].lk /\ ~c.pg[p].wb)
      /\ t' = Goto(u, "put")
      /\ g' = [g EXCEPT !.stale = @ \/ (c.pg[p].val \in t[u].old /\ p \notin g.raced)]
      /\ UNCHANGED <<c, chk, mutex, v, o>>

ReadPage(u) ==
  LET p == t[u].p
  IN  /\ At(u, "cached") /\ ~c.pg[p].in /\ ~c.pg[p].lk
      /\ c' = [c EXCEPT !.pg[p].in = TRUE, !.pg[p].lk = TRUE]
      /\ t' = [t EXCEPT ![u].pc = "fill", ![u].val = o.data[p]]
      /\ UNCHANGED <<chk, mutex, v, o, g>>

FillPage(u) ==
  LET p == t[u].p
  IN  /\ At(u, "fill")
      /\ c' = [c EXCEPT !.pg[p].lk = FALSE, !.pg[p].val = t[u].val]
      /\ t' = Goto(u, "cached")
      /\ UNCHANGED <<chk, mutex, v, o, g>>

\* Mutant: a page may be rewritten whatever context it is dirty in.
NoOldPage(p) == FALSE

\* ceph_update_writeable_page(): a page dirty in an older context that is not
\* the oldest one waits for writeback; in the oldest one it is written now.
OldPage(p) == c.pg[p].ctx # 0 /\ c.pg[p].ctx # c.hsnap

BufferBusy(u) ==
  LET p == t[u].p
  IN  /\ At(u, "buffer") /\ ~c.pg[p].lk
      /\ OldPage(p) /\ ~Writeable(c, c.pg[p].ctx)
      /\ c' = [c EXCEPT !.wbq = TRUE]
      /\ t' = [t EXCEPT ![u].pc = "context", ![u].tid = c.pg[p].ctx]
      /\ UNCHANGED <<chk, mutex, v, o, g>>

\* The wait of that page: it sleeps until the context is writeable or written.
ContextWait(u) ==
  /\ At(u, "context")
  /\ IF Writeable(c, t[u].tid)
     THEN t' = Goto(u, "buffer") /\ UNCHANGED c
     ELSE c' = [c EXCEPT !.asleep = @ \cup {u}] /\ UNCHANGED t
  /\ UNCHANGED <<chk, mutex, v, o, g>>

BufferWriteOut(u) ==
  LET p == t[u].p
  IN  /\ At(u, "buffer") /\ ~c.pg[p].lk
      /\ OldPage(p) /\ Writeable(c, c.pg[p].ctx)
      /\ c' = StartWrite(c, p)
      /\ o' = Request(o, p, u)
      /\ t' = Goto(u, "out")
      /\ UNCHANGED <<chk, mutex, v, g>>

\* writepage_nounlock() has its reply; the page stays in the cache.
BufferWrittenOut(u) ==
  LET r == Head(o.done)
      put == PutWrbuffer([c EXCEPT !.pg[r.p] = [@ EXCEPT !.ctx = 0, !.wb = FALSE, !.lk = FALSE]], r.ctx)
  IN  /\ At(u, "out") /\ o.done # <<>> /\ r.by = u
      /\ c' = put.c
      /\ SetChk(u, After(put))
      /\ o' = [o EXCEPT !.done = Tail(@)]
      /\ t' = Goto(u, "buffer")
      /\ UNCHANGED <<mutex, v, g>>

\* ceph_write_begin() to ceph_write_end() of a whole page, under its lock
BufferWrite(u) ==
  LET p == t[u].p
      r == SetSize(SetPageDirty([c EXCEPT !.pg[p].in = TRUE, !.pg[p].val = t[u].val], p), p)
  IN  /\ At(u, "buffer") /\ ~c.pg[p].lk /\ ~OldPage(p)
      /\ c' = r.c
      /\ SetChk(u, IF r.check THEN CheckTask(FALSE, TRUE, FALSE) ELSE NoTask)
      /\ g' = Wrote(g, p, t[u].val)
      /\ mutex' = "none"
      /\ t' = Goto(u, "dirty")
      /\ UNCHANGED <<v, o>>

MarkDirty(u) ==
  /\ At(u, "dirty")
  /\ c' = MarkDirtyCaps(c, {"Fw"})
  /\ t' = Goto(u, "put")
  /\ UNCHANGED <<chk, mutex, v, o, g>>

\* A synchronous read or write has the page written first (filemap_write_
\* and_wait_range()); a write then drops it from the cache.
SyncRead(u) ==
  /\ At(u, "flush") /\ Op(u).op = "read" /\ c.pg[t[u].p].ctx = 0
  /\ t' = Goto(u, "put")
  /\ g' = [g EXCEPT !.stale = @ \/ o.data[t[u].p] \in t[u].old]
  /\ UNCHANGED <<c, chk, mutex, v, o>>

\* ceph_sync_write()
SyncWrite(u) ==
  LET p == t[u].p
  IN  /\ At(u, "flush") /\ Op(u).op = "write" /\ c.pg[p].ctx = 0
      /\ c' = IF c.pg[p].lk THEN c ELSE [c EXCEPT !.pg[p] = Clean]
      /\ o' = [o EXCEPT !.q = Append(@, [p |-> p, val |-> t[u].val, ctx |-> c.ctx, by |-> "sync"])]
      /\ t' = Goto(u, "reply")
      /\ UNCHANGED <<chk, mutex, v, g>>

\* The store applied the write: either it is on disk, or it is only in memory
\* and ceph_sync_write_unsafe() keeps a reference until it is.
SyncReply(u, safe) ==
  LET r == Head(o.done)
      d == IF safe THEN c ELSE TakeRefs(c, {"Fw"})
      s == SetSize(d, r.p)
  IN  /\ At(u, "reply") /\ o.done # <<>> /\ r.by = "sync" /\ r.val = t[u].val
      /\ ~safe => Chance("unsafe")
      /\ v' = IF safe THEN v ELSE Spend(v, "unsafe")
      /\ c' = s.c
      /\ SetChk(u, IF s.check THEN CheckTask(FALSE, TRUE, FALSE) ELSE NoTask)
      /\ o' = [o EXCEPT !.done = Tail(@), !.unsafe = IF safe THEN @ ELSE Append(@, r)]
      /\ t' = Goto(u, "dirty")
      /\ UNCHANGED <<mutex, g>>

SafeReply ==
  LET r == PutCapRefs(c, {"Fw"})
  IN  /\ o.unsafe # <<>> /\ Idle("osd")
      /\ c' = r.c
      /\ chk' = [chk EXCEPT !["osd"] = After(r)]
      /\ o' = [o EXCEPT !.unsafe = Tail(@)]
      /\ UNCHANGED <<t, mutex, v, g>>

\* ceph_fsync(): it waits for the unsafe writes, for the pages to be written,
\* and for the flush of what the servers cannot recover.
FsyncBegin(u) ==
  /\ Begins(u, "fsync") /\ o.unsafe = <<>>
  /\ t' = [t EXCEPT ![u].pc = "pages", ![u].old = g.old]
  /\ UNCHANGED <<c, chk, mutex, v, o, g>>

FsyncPages(u) ==
  /\ At(u, "pages") /\ \A p \in Page : c.pg[p].ctx = 0
  /\ t' = Goto(u, "meta")
  /\ UNCHANGED <<c, chk, mutex, v, o, g>>

\* try_flush_caps().  CEPH_I_NOFLUSH, which it looks at, is never set, and the
\* sessions of this module are open.
FsyncMeta(u) ==
  LET flushes == c.dirty # {} /\ c.auth # NoMds
      d == SendFlush(MarkCapsFlushing(c, c.auth), c.auth, c.dirty)
      waits == flushes /\ c.dirty \ ANY_FILE_WR # {}
  IN  /\ At(u, "meta") /\ mutex = "none"
      /\ flushes => MutexFree(c.auth)
      /\ c' = IF flushes THEN d ELSE c
      /\ t' = [t EXCEPT ![u].pc = IF waits THEN "flushed" ELSE "synced", ![u].tid = d.last_tid,
                          ![u].min = IF waits THEN c.val ELSE 0]
      /\ mutex' = IF waits THEN u ELSE mutex
      /\ UNCHANGED <<chk, v, o, g>>

FsyncWait(u) ==
  /\ At(u, "flushed")
  /\ IF CapsAreFlushed(c, t[u].tid)
     THEN t' = Goto(u, "synced") /\ mutex' = "none" /\ UNCHANGED c
     ELSE c' = [c EXCEPT !.asleep = @ \cup {u}] /\ UNCHANGED <<t, mutex>>
  /\ UNCHANGED <<chk, v, o, g>>

FsyncEnd(u) ==
  /\ At(u, "synced")
  /\ t' = EndOp(u)
  /\ UNCHANGED <<c, chk, mutex, v, o, g>>

----------------------------------------------------------------------------
(* The specification.                                                       *)

InitCap(a) ==
  IF a.caps = {} THEN NoCap
  ELSE [id |-> a.id, issued |-> a.caps, impl |-> a.caps, wanted |-> a.wanted, seq |-> 1, iseq |-> 1,
        mseq |-> 0, gen |-> 0]

InitView(a) == IF a.caps = {} THEN NoView ELSE View(a.id, 1, 0, a.caps, a.wanted)

Init ==
  \E s \in Scenarios :
    /\ c = [caps |-> [m \in MDS |-> InitCap(s.at[m])], auth |-> 0,
            s |-> [m \in MDS |-> [gen |-> 0, ttl |-> TRUE, out |-> <<>>, rel |-> <<>>, recon |-> FALSE]],
            refs |-> [b \in RefBits |-> 0], wrb |-> 0, head |-> 0, hsnap |-> 0, snaps |-> <<>>,
            sflush |-> 0, modes |-> s.modes,
            pg |-> [p \in Page |-> Clean], gen |-> 1, rdrev |-> 0, dirty |-> {}, flushing |-> {},
            ftid |-> [b \in FlushBits |-> 0], last_tid |-> s.tid, flist |-> NoMds, flags |-> {},
            delay |-> FALSE, hold |-> "past", size |-> s.size, rep |-> s.size, max |-> s.max,
            want_max |-> 0, req_max |-> 0, val |-> 0, ctx |-> 1, asleep |-> {}, wbq |-> FALSE,
            qinv |-> FALSE, bug |-> FALSE, skipped |-> FALSE, twice |-> FALSE, behind |-> FALSE,
            pending |-> FALSE, nomem |-> FALSE, lost |-> {}, resent |-> {}]
    /\ chk = [x \in Thread |-> NoTask]
    /\ t = [u \in User |-> AtRest(s.ops[u])]
    /\ mutex = "none"
    /\ v = [cap |-> [m \in MDS |-> InitView(s.at[m])], auth |-> 0, q |-> [m \in MDS |-> <<>>],
            up |-> [m \in MDS |-> "up"], jr |-> <<>>, size |-> s.size, max |-> s.max, val |-> 0,
            ctx |-> 1, phases |-> s.phases, chances |-> s.chances, stale |-> {}]
    /\ o = [data |-> [p \in Page |-> -p], seq |-> 1, clone |-> [k \in 2..3 |-> [p \in Page |-> 0]],
            q |-> <<>>, done |-> <<>>, unsafe |-> <<>>]
    /\ g = [n |-> 0, wr |-> [p \in Page |-> -p], snap |-> [k \in 2..3 |-> [p \in Page |-> {}]],
            old |-> {}, raced |-> {}, inv |-> 0, lost |-> FALSE, stale |-> FALSE]

UserStep(u) ==
  \/ Open(u) \/ Close(u) \/ ChmodLocally(u) \/ ChmodRequest(u)
  \/ BeginWrite(u)
  \/ GetCaps(u) \/ GetCapsSleeps(u) \/ GetCapsMax(u) \/ PutCaps(u)
  \/ ReadCached(u) \/ ReadPage(u) \/ FillPage(u)
  \/ BufferBusy(u) \/ ContextWait(u) \/ BufferWriteOut(u) \/ BufferWrittenOut(u)
  \/ BufferWrite(u) \/ MarkDirty(u)
  \/ SyncRead(u) \/ SyncWrite(u)
  \/ \E safe \in BOOLEAN : SyncReply(u, safe)
  \/ FsyncBegin(u) \/ FsyncPages(u) \/ FsyncMeta(u) \/ FsyncWait(u) \/ FsyncEnd(u)

Next ==
  \/ \E u \in User : UserStep(u)
  \/ \E x \in Thread : RunTask(x) \/ DropWrongSession(x)
  \/ \E m \in MDS : Handle(m) \/ ReconnectTo(m) \/ MdsActive(m) \/ LeaseLapses(m) \/ SendRenewCaps(m)
  \/ MemoryLow
  \/ Tick \/ CheckDelayedCaps \/ FlushDirtyCaps \/ WriteInode
  \/ \E p \in Page : WritePage(p) \/ InvalidateDirty(p) \/ OtherWrites(p)
  \/ WritebackDone \/ WriteFinish \/ SafeReply \/ InvalidateStart \/ InvalidateRun
  \/ \E m \in MDS : SrvIssue(m) \/ SrvRecv(m) \/ SrvRecall(m) \/ SrvStale(m) \/ SrvCrash(m)
  \/ SrvPhase \/ SrvCommit \/ SrvMigrate \/ SrvSnap \/ OsdApply

Spec == Init /\ [][Next]_vars

----------------------------------------------------------------------------
(* Properties.                                                              *)

\* The counters of references and dirty pages agree with the pages and the
\* threads that hold them (i_wr_ref and the others, i_wrbuffer_ref, i_wrbuffer_
\* ref_head and the dirty_pages of the cap_snaps, except that when two cap_snaps
\* share a context, see twice, the first one is charged for pages of the other).
TypeOK ==
  /\ \A b \in RefBits : c.refs[b] = Cardinality({u \in User : b \in t[u].got})
                                      + (IF b = "Fw" THEN Len(o.unsafe) ELSE 0)
  /\ c.wrb = Cardinality({p \in Page : c.pg[p].ctx # 0})
  /\ c.twice \/ c.wrb = c.head + FoldLeft(LAMBDA x, e : x + e.pages, 0, c.snaps)
  /\ \A m \in Held(c) : c.caps[m].issued \subseteq c.caps[m].impl

\* The counters agree, no BUG_ON(), NULL context or double unlock is reached in the caps, snap and
\* page code, and a mutex is never taken twice.
AssertionsHold ==
  /\ TypeOK
  /\ ~c.bug
  /\ \A m \in MDS : Cardinality({x \in Thread : chk[x].sess = m}) <= 1

\* A clean cached page is a use of Fc, unless a buffered writer, who brings in
\* pages under Fb alone, is at work.
InUse ==
  {b \in RefBits : c.refs[b] > 0}
    \cup (IF c.wrb > 0 THEN {"Fb"} ELSE {})
    \cup (IF c.refs["Fb"] = 0 /\ \E p \in Page : c.pg[p].in /\ c.pg[p].ctx = 0 THEN {"Fc"} ELSE {})

\* What the client uses, cached and dirty pages included, it still holds in the
\* eyes of the servers: check_caps() never tells a server that a bit is given
\* up which is in use, through revocations, migrations and restarts.
UseIsCovered == AllUp => InUse \subseteq ServerIssued

\* The last write of each page, ours or the other client's, is what the cache
\* or the store holds, and no read returns anything older.
LastWriteStands ==
  g.lost \/ /\ ~g.stale
            /\ \A p \in Page :
                 LET pg == c.pg[p]
                 IN  IF pg.ctx # 0 THEN pg.val = g.wr[p]
                     ELSE /\ o.data[p] = g.wr[p]
                          /\ pg.in /\ ~pg.lk /\ p \notin g.raced /\ "Fc" \in CapsIssued(c) => pg.val = g.wr[p]

\* What snapshot k holds of a page, once what is dirty in older contexts is
\* written.
SnapHolds(k, p) ==
  IF k > o.seq /\ c.pg[p].ctx # 0 /\ c.pg[p].ctx < k THEN c.pg[p].val ELSE SnapRead(k, p)

\* Writes after a snapshot never show in it, and those before it are not
\* missing, unless pages were dirty under clean caps, see skipped, or there was
\* no memory for the cap_snap, which ceph_queue_cap_snap() only logs.
SnapshotsFrozen ==
  c.skipped \/ "capsnap" \in c.lost
    \/ \A k \in 2..3, p \in Page :
         k <= c.ctx => SnapHolds(k, p) \in g.snap[k][p]

\* When ceph_fsync() returns the writes before it are in the store, and the
\* attributes it flushed are in the journal of a server, unless their flush was
\* sent again after a restart or a migration: caps_are_flushed() takes the new
\* tid, which is larger, for a later flush.
FsyncIsDurable ==
  \A u \in User : t[u].pc = "synced" =>
    /\ g.lost \/ \A p \in Page : o.data[p] \notin t[u].old
    /\ t[u].tid \in c.resent \/ v.val >= t[u].min

\* "Return true if we've flushed caps through the given flush_tid": the same
\* without exception.  It does not hold.
FlushedMeansJournalled ==
  \A u \in User : t[u].pc = "synced" => v.val >= t[u].min

Quiet ==
  /\ \A x \in Thread : Idle(x)
  /\ \A m \in MDS : c.s[m].out = <<>> /\ v.q[m] = <<>> /\ c.s[m].ttl /\ v.up[m] = "up"
  /\ \A m \in Viewed : Allowed(m) \cap (Pending(v.cap[m]) \cup v.cap[m].wanted) = Pending(v.cap[m])
  /\ \A p \in Page : c.pg[p].ctx = 0
  /\ v.jr = <<>> /\ o.q = <<>> /\ o.done = <<>> /\ o.unsafe = <<>> /\ g.inv = 0
  /\ ~c.wbq /\ ~c.qinv /\ ~c.delay /\ c.dirty = {}
  /\ \A u \in User : u \in c.asleep \/ (t[u].pc = "idle" /\ t[u].ops = <<>>)

\* When the client is at rest every dirty page can be written.  It is not so:
\* ceph_set_page_dirty() takes the realm's context, i_head_snapc is an older one
\* when a snapshot came with a cap_snap pending, and ceph_writepages_start()
\* then writes the pages of the older one only, of which there are none.
DirtyPagesAreWritten == Calm => \A p \in Page : c.pg[p].ctx # 0 => CanWrite(p)

\* When nothing more can happen nobody still waits for caps, every revocation
\* has been answered and everything dirty has reached a server: no wakeup is
\* lost, no ack forgotten, no flush dropped; and before that no dirty page is
\* stuck.  Three cases are apart: cap_snaps that got behind another or share a
\* context, see CapSnapsSettle; what a message was to say that send_cap_msg() had
\* no memory for, see FailedSendsAreMade; and pages dirtied in a context newer
\* than i_head_snapc, see DirtyPagesAreWritten.
QuietMeansDone ==
  /\ c.pending \/ c.skipped \/ c.twice \/ "capsnap" \in c.lost \/ DirtyPagesAreWritten
  /\ Quiet => /\ c.lost \cap {"update", "flush"} # {} \/ Settled
              /\ "flush" \in c.lost \/ c.flushing = {}
              /\ c.behind \/ c.twice \/ c.lost # {} \/ c.asleep = {}
              /\ c.behind \/ c.twice \/ "flushsnap" \in c.lost \/ c.snaps = <<>>

\* "error sending cap msg, must requeue": what __send_cap() could not send is
\* sent later.  It is not: the cap is put on the delayed list as if it had been
\* sent, and ceph_check_caps() then finds nothing to flush or to acknowledge.
FailedSendsAreMade ==
  Quiet => Settled /\ c.flushing = {}

\* When the last writer is gone no cap_snap still waits for one, as the comment
\* of ceph_put_cap_refs() has it: it would hold up every later writer.
CapSnapsSettle ==
  Quiet /\ c.refs["Fw"] = 0 => \A i \in DOMAIN c.snaps : ~c.snaps[i].writing

=============================================================================
