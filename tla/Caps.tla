-------------------------------- MODULE Caps --------------------------------
(***************************************************************************)
(* The capabilities of one file (fs/ceph/caps.c, with the parts of         *)
(* snap.c, addr.c, inode.c and mds_client.c that share its lock).  A       *)
(* metadata server issues capability bits to the client; the client        *)
(* references the bits it is using, gives up the ones a server revokes     *)
(* once they are unused, flushes dirty metadata back to the authoritative  *)
(* server, and, when a snapshot is taken under dirty state, sets that      *)
(* state aside in a cap_snap to be flushed first.                          *)
(*                                                                         *)
(* c is struct ceph_inode_info with the sessions it has caps from: caps    *)
(* (i_caps) by server, auth (i_auth_cap), dirty and flushing metadata      *)
(* with the flush tid of each bit, refs (i_rd_ref, i_rdcache_ref,          *)
(* i_wr_ref, i_wb_ref), wrb and head (i_wrbuffer_ref, i_wrbuffer_ref_head),*)
(* hsnap (i_head_snapc), snaps (i_cap_snaps), pg the page cache, asleep    *)
(* the threads on i_cap_wq, s the sessions (their generation, whether the  *)
(* lease holds, what was sent, releases not yet sent, s_cap_reconnect).  A *)
(* snap context is its seq, 0 for none; ctx is the cached context of the   *)
(* file's realm, which the file belongs to while it has caps.  Each        *)
(* critical section of i_ceph_lock is one operator from c to c.  nomem     *)
(* says that the next allocation fails, lost what was lost to that, resent *)
(* the tids of flushes that were sent again under another one.             *)
(***************************************************************************)
EXTENDS Integers, Sequences, FiniteSets, SequencesExt

CONSTANTS
  MDS,   \* the ranks
  Page   \* the pages of the file, 1..n; page p ends at offset p

ASSUME PageAssumption == Page = 1..Cardinality(Page)

NoMds == -1
NoCap == [id |-> 0]

\* CEPH_CAP_*: pin, auth shared and exclusive, file cache, read, write, buffer.
Bits == {"p", "As", "Ax", "Fc", "Fr", "Fw", "Fb"}
ANY_SHARED == {"As"}
ANY_RD == {"As", "Fr", "Fc"}
ANY_FILE_WR == {"Fw", "Fb"}
ANY_WR == {"Ax"} \cup ANY_FILE_WR
RefBits == {"Fr", "Fc", "Fw", "Fb"}
FlushBits == {"Ax", "Fw"}

\* i_cap_flush_last_tid and i_cap_flush_tid have 16 bits.
NextTid(tid) == (tid + 1) % 65536

CapsForMode(mode) ==
  {"p"} \cup (IF mode \in {"rd", "rw"} THEN {"Fr", "Fc"} ELSE {})
        \cup (IF mode \in {"wr", "rw"} THEN {"Fw", "Fb", "As", "Ax"} ELSE {})

\* A page: in the cache, locked, its value, the snap context it is dirty in (0
\* when clean) and whether it is being written back.
Clean == [in |-> FALSE, lk |-> FALSE, val |-> 0, ctx |-> 0, wb |-> FALSE]

----------------------------------------------------------------------------
(* What the caps say.                                                       *)

Has(c, m) == c.caps[m] # NoCap
Held(c) == {m \in MDS : Has(c, m)}
AuthCap(c) == c.caps[c.auth]

CapIsValid(c, m) == c.caps[m].gen >= c.s[m].gen /\ c.s[m].ttl

Valid(c) == {m \in Held(c) : CapIsValid(c, m)}
Revoking(cap) == cap.impl \ cap.issued

\* Bits the auth MDS is revoking do not count, whoever else issued them.
CapsIssued(c) ==
  LET have == UNION {c.caps[m].issued : m \in Valid(c)}
  IN  IF c.auth = NoMds THEN have ELSE have \ Revoking(AuthCap(c))

Implemented(c) == UNION {c.caps[m].impl : m \in Valid(c)}
IssuedOther(c, m) == UNION {c.caps[n].issued : n \in Valid(c) \ {m}}
RevokingOther(c, m, mask) == \E n \in Held(c) \ {m} : Revoking(c.caps[n]) \cap mask # {}

NrPages(c) == Cardinality({p \in Page : c.pg[p].in})

\* Mutant: pages in the cache do not count.
CapsUsedRefs(c) == {b \in RefBits : c.refs[b] > 0}

CapsUsed(c) ==
  {b \in {"Fr", "Fw"} : c.refs[b] > 0}
    \cup (IF c.refs["Fc"] > 0 \/ NrPages(c) > 0 THEN {"Fc"} ELSE {})
    \cup (IF c.refs["Fb"] > 0 \/ c.wrb > 0 THEN {"Fb"} ELSE {})

FileWanted(c) == UNION {CapsForMode(mode) : mode \in {x \in DOMAIN c.modes : c.modes[x] > 0}}
CapsWanted(c) == FileWanted(c) \cup CapsUsed(c)
CapsDirty(c) == c.dirty \cup c.flushing
PendingSnap(c) == c.snaps # <<>> /\ Last(c.snaps).writing

----------------------------------------------------------------------------
(* Small state changes.                                                     *)

Wake(c) == [c EXCEPT !.asleep = {}]
Bug(c, cond) == [c EXCEPT !.bug = @ \/ cond]
Send(c, m, msg) == [c EXCEPT !.s[m].out = Append(@, msg)]

SetTimeouts(c) == [c EXCEPT !.hold = "min"]
DelayRequeue(c) == [SetTimeouts(c) EXCEPT !.delay = TRUE]
DelayRequeueFront(c) == [c EXCEPT !.flags = @ \cup {"FLUSH"}, !.delay = TRUE]
DelayCancel(c) == [c EXCEPT !.delay = FALSE]

\* A cache issued anew starts a new generation of cached pages.
CheckCapIssue(c, issued) ==
  IF "Fc" \in issued /\ "Fc" \notin CapsIssued(c) THEN [c EXCEPT !.gen = @ + 1] ELSE c

\* ceph_add_cap() without an open mode.
AddCap(c, m, id, issued0, wanted, seq0, mseq0, auth0) ==
  LET old == c.caps[m]
      late == Has(c, m) /\ seq0 <= old.seq   \* sent before the import it was told of
      seq == IF late THEN old.seq ELSE seq0
      mseq == IF late THEN old.mseq ELSE mseq0
      issued == IF late THEN issued0 \cup old.issued ELSE issued0
      auth == auth0 \/ late
      had == IF Has(c, m) THEN old
             ELSE [issued |-> {}, impl |-> {}, wanted |-> {}, mseq |-> 0]
      c1 == CheckCapIssue(c, issued)
      want == CapsWanted(c1)
      c2 == IF wanted \ want # {} \/ (issued \ want) \cap ANY_WR # {}
            THEN DelayRequeue(c1) ELSE c1
      takes == auth /\ (c.auth = NoMds \/ c.caps[c.auth].mseq < mseq)
      keeps == IF takes \/ mseq > had.mseq THEN {} ELSE had.wanted
  IN  [c2 EXCEPT !.auth = IF takes THEN m ELSE @,
                 !.caps[m] = [id |-> id, issued |-> issued, impl |-> had.impl \cup issued,
                              wanted |-> keeps \cup wanted, seq |-> seq, iseq |-> seq,
                              mseq |-> mseq, gen |-> c.s[m].gen]]

\* __ceph_remove_cap()
RemoveCap(c, m, release) ==
  LET cap == c.caps[m]
      c1 == [c EXCEPT !.caps[m] = NoCap, !.auth = IF @ = m THEN NoMds ELSE @,
                      !.s[m].rel = IF release /\ (~c.s[m].recon \/ cap.gen = c.s[m].gen)
                                   THEN Append(@, [id |-> cap.id, mseq |-> cap.mseq, iseq |-> cap.iseq])
                                   ELSE @]
  IN  IF Held(c1) = {} THEN DelayCancel(c1) ELSE c1

\* ceph_send_cap_releases() after ceph_add_cap_releases()
SendReleases(c, m) ==
  LET send(d, r) == Send(d, m, [op |-> "RELEASE", id |-> r.id, mseq |-> r.mseq, iseq |-> r.iseq])
  IN  [FoldLeft(send, c, c.s[m].rel) EXCEPT !.s[m].rel = <<>>]

----------------------------------------------------------------------------
(* Dirty metadata.                                                          *)

\* Mutant: metadata dirtied first does not settle the snap context.
MarkDirtyCapsOnly(c, mask) == DelayRequeue([c EXCEPT !.dirty = @ \cup mask])

\* The file leaves its realm with its last cap.
NoRealm(c) == Held(c) = {}

MarkDirtyCaps(c, mask) ==
  DelayRequeue([Bug(c, c.dirty = {} /\ c.hsnap = 0 /\ NoRealm(c)) EXCEPT
                         !.dirty = @ \cup mask,
                         !.hsnap = IF c.dirty = {} /\ @ = 0 THEN c.ctx ELSE @])

MarkCapsFlushing(c, m) ==
  [c EXCEPT !.flushing = @ \cup c.dirty, !.dirty = {}, !.flist = m]

\* send_cap_msg() of a message of that kind
SendCapMsg(c, m, kind, msg) ==
  IF c.nomem THEN [c EXCEPT !.nomem = FALSE, !.lost = @ \cup {kind}] ELSE Send(c, m, msg)

\* __send_cap(): r.delayed is what it returns.  The flush follows i_head_snapc,
\* which it dereferences.
SendCap(c, m, op, used, want0, retain0, flushing) ==
  LET cap == c.caps[m]
      wait == "NODELAY" \notin c.flags /\ c.hold = "min"
      retain == (retain0 \ Revoking(cap)) \cup (IF wait THEN cap.issued ELSE {})
      want == want0 \cup (IF wait THEN cap.wanted ELSE {})
      issued == cap.issued \cap retain
      impl == cap.impl \cap (issued \cup used)
      tid == IF flushing = {} THEN 0 ELSE NextTid(c.last_tid)
      wrong == "p" \notin retain0 \ Revoking(cap) \/ (flushing # {} /\ c.hsnap = 0)
      c1 == [Bug(c, wrong) EXCEPT
                      !.flags = @ \ {"NODELAY", "FLUSH"},
                      !.caps[m] = [@ EXCEPT !.issued = issued, !.impl = impl, !.wanted = want],
                      !.last_tid = IF flushing = {} THEN @ ELSE tid,
                      !.ftid = [b \in FlushBits |-> IF b \in flushing THEN tid ELSE @[b]],
                      !.rep = c.size, !.req_max = c.want_max]
      c2 == IF cap.impl \ issued # {} THEN Wake(c1) ELSE c1
      msg == [op |-> op, id |-> cap.id, caps |-> impl, wanted |-> want, dirty |-> flushing,
              seq |-> cap.seq, tid |-> tid, iseq |-> cap.iseq, mseq |-> cap.mseq,
              size |-> c.size, max |-> c.want_max, val |-> c.val]
  IN  [c |-> SendCapMsg(c2, m, IF flushing = {} THEN "update" ELSE "flush", msg),
       delayed |-> wait \/ c.nomem]

\* The same, and what its callers do with a delayed result.
SendFlush(c, m, flushing) ==
  LET r == SendCap(c, m, "FLUSH", CapsUsed(c), CapsWanted(c),
                   c.caps[m].issued \cup c.caps[m].impl, flushing)
  IN  IF r.delayed THEN DelayRequeue(r.c) ELSE r.c

\* Mutant: the flush waited for counts as done.
CapsAreFlushedEarly(c, tid) == \A b \in c.flushing : c.ftid[b] >= tid
CapsAreFlushed(c, tid) == \A b \in c.flushing : c.ftid[b] > tid

\* handle_cap_flush_ack()
FlushAck(c, msg) ==
  LET cleaned == {b \in msg.dirty : msg.tid = c.ftid[b]}
      left == c.flushing \ cleaned
      c1 == [c EXCEPT !.flushing = left, !.flist = IF left = {} THEN NoMds ELSE @]
      free == left = {} /\ c.dirty = {} /\ c.head = 0
  IN  IF left = c.flushing THEN c
      ELSE Wake(IF free THEN [Bug(c1, c.hsnap = 0) EXCEPT !.hsnap = 0] ELSE c1)

----------------------------------------------------------------------------
(* References.                                                              *)

TakeRefs(c, got) == [c EXCEPT !.refs = [b \in RefBits |-> @[b] + (IF b \in got THEN 1 ELSE 0)]]

\* try_get_cap_refs() once no truncation is pending: what it decides.
TryGetCapRefs(c, need, want, endoff) ==
  LET have == CapsIssued(c)
      revoking == Implemented(c) \ have
  IN  CASE FileWanted(c) \cap need = {} -> [r |-> "badf", got |-> {}]
        [] "Fw" \in need \cap have /\ endoff > c.max ->
             [r |-> IF endoff > c.req_max THEN "max" ELSE "wait", got |-> {}]
        [] "Fw" \in need \cap have /\ endoff <= c.max /\ PendingSnap(c) ->
             [r |-> "wait", got |-> {}]
        [] need \subseteq have /\ revoking \cap (want \ (have \cap need)) = {} ->
             [r |-> "got", got |-> need \cup (have \cap want)]
        [] OTHER -> [r |-> "wait", got |-> {}]

\* check_max_size(): r.check, the caps must be checked.
CheckMaxSize(c, endoff) ==
  LET c1 == IF endoff >= c.max /\ endoff > c.want_max THEN [c EXCEPT !.want_max = endoff] ELSE c
  IN  [c |-> c1,
       check |-> /\ c1.auth # NoMds
                 /\ "Fw" \in AuthCap(c1).issued
                 /\ c1.want_max > c1.max
                 /\ c1.want_max > c1.req_max]

\* __ceph_finish_cap_snap() of the i-th cap_snap
FinishCapSnap(c, i) ==
  LET c1 == [Bug(c, c.snaps[i].writing) EXCEPT !.snaps[i].size = c.size]
  IN  IF c.snaps[i].pages = 0 THEN [c1 EXCEPT !.sflush = @ + 1] ELSE c1

\* Mutant: dropping the last reference does not look at the revocations again.
PutCapRefsOnly(c, had) ==
  [c |-> [c EXCEPT !.refs = [b \in RefBits |-> @[b] - (IF b \in had THEN 1 ELSE 0)]],
   next |-> "none", wake |-> FALSE]

\* ceph_put_cap_refs(): then r.next, and then the sleepers are woken if r.wake.
PutCapRefs(c, had) ==
  LET c1 == [c EXCEPT !.refs = [b \in RefBits |-> @[b] - (IF b \in had THEN 1 ELSE 0)]]
      last == \E b \in had : c1.refs[b] = 0
      settle == "Fw" \in had /\ c1.refs["Fw"] = 0 /\ c.snaps # <<>> /\ Head(c.snaps).writing
      c2 == FinishCapSnap([c1 EXCEPT !.snaps[1].writing = FALSE], 1)
  IN  IF settle
      THEN [c |-> c2, next |-> IF c2.snaps[1].pages = 0 THEN "snaps" ELSE "check", wake |-> TRUE]
      ELSE [c |-> c1, next |-> IF last THEN "check" ELSE "none", wake |-> FALSE]

\* ceph_put_wrbuffer_cap_refs() for one page dirtied in context ctx
PutWrbuffer(c, ctx) ==
  LET c1 == [c EXCEPT !.wrb = @ - 1]
      last == c1.wrb = 0
      h == [c1 EXCEPT !.head = @ - 1]
      idle == h.head = 0 /\ c.dirty = {} /\ c.flushing = {}
      found == {i \in DOMAIN c.snaps : c.snaps[i].ctx = ctx}
      i == CHOOSE j \in found : \A k \in found : j <= k
      left == c.snaps[i].pages - 1
      c2 == IF left = 0 /\ c.snaps[i].dirty = {}
            THEN [c1 EXCEPT !.snaps = RemoveAt(@, i)]
            ELSE [c1 EXCEPT !.snaps[i].pages = left]
      then(d, done) == [c |-> d, wake |-> ~last /\ done,
                        next |-> IF last THEN "auth" ELSE IF done THEN "snaps" ELSE "none"]
  IN  CASE c.hsnap = ctx -> then([h EXCEPT !.hsnap = IF idle THEN 0 ELSE @], FALSE)
        [] c.hsnap # ctx /\ found = {} -> then(Bug(c1, TRUE), FALSE)
        [] OTHER -> then(c2, left = 0)

----------------------------------------------------------------------------
(* Snapshots.                                                               *)

\* ceph_queue_cap_snap(), once ctx is the realm's new context.  skipped notes
\* that dirty pages stay in the old context without a cap_snap, pending that
\* i_head_snapc stays behind the realm's context as a cap_snap is pending, twice
\* that two cap_snaps share a context: a writer with nothing dirty yet has no
\* context of its own, and its cap_snap is given the new one.  behind notes that
\* a cap_snap with a write under way came after another one, where
\* ceph_put_cap_refs() does not look.
\* Without memory for the cap_snap nothing is done.
QueueCapSnap(c) ==
  LET writing == "Fw" \in CapsUsed(c)
      dirty == CapsDirty(c) \cup (IF writing THEN {"Fw"} ELSE {})
      follows == IF c.hsnap = 0 THEN c.ctx ELSE c.hsnap
      snap == [follows |-> follows, ctx |-> follows, dirty |-> dirty, pages |-> c.head,
               writing |-> writing, tid |-> 0, on |-> NoMds, val |-> c.val, size |-> 0]
      same == \E i \in DOMAIN c.snaps : c.snaps[i].ctx = follows
      c1 == [Bug(c, NoRealm(c)) EXCEPT !.snaps = Append(@, snap), !.head = 0, !.hsnap = c.ctx, !.twice = @ \/ same,
                      !.behind = @ \/ (writing /\ c.snaps # <<>>)]
      none == PendingSnap(c) \/ dirty \cap {"Ax", "Fw"} = {}
  IN  CASE none -> [c EXCEPT !.skipped = @ \/ c.head > 0, !.pending = @ \/ PendingSnap(c),
                             !.nomem = FALSE]
        [] ~none /\ c.nomem -> [c EXCEPT !.nomem = FALSE, !.lost = @ \cup {"capsnap"}]
        [] OTHER -> IF writing THEN c1 ELSE FinishCapSnap(c1, Len(c1.snaps))

\* The cap_snap __ceph_flush_snaps() sends next, having come as far as next:
\* 0 when it is through, -1 when there is no auth cap to send it on.
NextToFlush(c, next, again) ==
  LET stop == {i \in DOMAIN c.snaps : /\ c.snaps[i].follows >= next
                                      /\ c.snaps[i].pages > 0 \/ c.snaps[i].writing}
      open == {i \in DOMAIN c.snaps : /\ c.snaps[i].follows >= next
                                      /\ \A j \in stop : i < j}
      todo == {i \in open : again \/ c.snaps[i].on = NoMds}
  IN  CASE open # {} /\ c.auth = NoMds -> -1
        [] (open = {} \/ c.auth # NoMds) /\ todo = {} -> 0
        [] OTHER -> CHOOSE i \in todo : \A j \in todo : i <= j

FlushSnap(c, i) ==
  LET tid == NextTid(c.last_tid)
      s == c.snaps[i]
      c1 == [Bug(c, s.dirty = {}) EXCEPT !.last_tid = tid, !.snaps[i].tid = tid, !.snaps[i].on = c.auth]
  IN  SendCapMsg(c1, c.auth, "flushsnap",
                 [op |-> "FLUSHSNAP", tid |-> tid, follows |-> s.follows, dirty |-> s.dirty,
                  mseq |-> AuthCap(c).mseq, size |-> s.size, val |-> s.val])

\* The file leaves mdsc->snap_flush_list.
SnapsFlushed(c) == [c EXCEPT !.sflush = 0]

\* handle_cap_flushsnap_ack(): the first cap_snap with that follows decides.
FlushSnapAck(c, msg) ==
  LET same == {i \in DOMAIN c.snaps : c.snaps[i].follows = msg.follows}
      i == CHOOSE j \in same : \A k \in same : j <= k
  IN  IF same = {} \/ c.snaps[i].tid # msg.tid THEN c
      ELSE [Bug(c, c.snaps[i].pages > 0 \/ c.snaps[i].writing) EXCEPT !.snaps = RemoveAt(@, i)]

\* ceph_update_snap_trace() with a newer context for the file's realm
UpdateSnapTrace(c, ctx) ==
  LET c1 == [c EXCEPT !.ctx = ctx]
  IN  IF ctx <= c.ctx THEN c ELSE IF NoRealm(c) THEN c1 ELSE QueueCapSnap(c1)

----------------------------------------------------------------------------
(* Pages.                                                                   *)

\* get_oldest_context(): the only context that may be written back, 0 for none.
OldestContext(c) ==
  LET held == {i \in DOMAIN c.snaps : c.snaps[i].pages > 0}
  IN  IF held # {} THEN c.snaps[CHOOSE i \in held : \A j \in held : i <= j].ctx
      ELSE IF c.head > 0 THEN c.hsnap ELSE 0

Writeable(c, ctx) == OldestContext(c) = 0 \/ ctx <= OldestContext(c)

IsDirty(c, p) == c.pg[p].ctx # 0 /\ ~c.pg[p].wb

\* ceph_set_page_dirty()
SetPageDirty(c, p) ==
  IF IsDirty(c, p) THEN c
  ELSE [Bug(c, c.pg[p].ctx # 0 \/ NoRealm(c)) EXCEPT
          !.hsnap = IF @ = 0 THEN c.ctx ELSE @,
          !.head = @ + 1, !.wrb = @ + 1, !.pg[p].ctx = c.ctx]

\* ceph_inode_set_size(), when the write ends past the file: r.check, the size
\* nears the limit the server set.
SetSize(c, end) ==
  IF end <= c.size THEN [c |-> c, check |-> FALSE]
  ELSE [c |-> [c EXCEPT !.size = end],
        check |-> 2 * end >= c.max /\ 2 * c.rep < c.max]

\* try_nonblocking_invalidate() lets go of i_ceph_lock and drops the pages that
\* are clean and not locked.
DropPages(c) ==
  LET idle == {p \in Page : ~c.pg[p].lk /\ c.pg[p].ctx = 0}
  IN  [c EXCEPT !.pg = [p \in Page |-> IF p \in idle THEN Clean ELSE @[p]]]

\* It has the lock again; the cache was of generation gen when it began.
TryInvalidate(c, gen) ==
  IF NrPages(c) = 0 /\ gen = c.gen THEN [c |-> [c EXCEPT !.rdrev = c.gen - 1], done |-> TRUE]
  ELSE [c |-> c, done |-> FALSE]

----------------------------------------------------------------------------
(* ceph_check_caps().  A task k is a run of it, or of the snap flush alone: *)
(* ph the phases to come, its flags, the session whose mutex it holds, how  *)
(* far it has come through the caps and cap_snaps, what it tried, and while *)
(* it invalidates pages the cache generation and whether Fc is revoked.     *)

NoGrant == <<>>
NoTask == [ph |-> <<>>, sess |-> NoMds, took |-> FALSE]

Task(ph, nodelay, authonly, flush, sess) ==
  [ph |-> ph, nodelay |-> nodelay, authonly |-> authonly, flush |-> flush, sess |-> sess,
   next |-> 0, last |-> NoMds, tried |-> FALSE, delayed |-> FALSE, force |-> FALSE,
   qinv |-> FALSE, took |-> FALSE, gen |-> 0, revoking |-> FALSE, grant |-> NoGrant]

CheckPhases == <<"first", "scan">>

CapsToRetain(c) ==
  LET want == CapsWanted(c)
  IN  {"p"} \cup (IF want # {} THEN Bits
                  ELSE ANY_SHARED \cup (IF c.max = 0 THEN ANY_RD ELSE {}))

WantInvalidate(c, k) ==
  /\ ~k.nodelay /\ ~k.tried
  /\ c.wrb = 0 /\ NrPages(c) > 0
  /\ FileWanted(c) = {} \/ "Fc" \in Implemented(c) \ CapsIssued(c)

\* What this cap must cover: the auth cap covers the rest.
CapUsed(c, m) ==
  IF c.auth # NoMds /\ m # c.auth THEN CapsUsed(c) \ AuthCap(c).issued ELSE CapsUsed(c)

RevocationDone(c, m) ==
  LET revoking == Revoking(c.caps[m])
  IN  revoking # {} /\ revoking \cap CapUsed(c, m) = {}

\* Whether the server of the cap is to be told now, later or nothing.
CapVerdict(c, m, k) ==
  LET cap == c.caps[m]
      auth == m = c.auth
      want == CapsWanted(c)
      grow == /\ auth /\ "Fw" \in cap.issued
              /\ \/ c.want_max > c.max /\ c.want_max > c.req_max
                 \/ 2 * c.size >= c.max /\ 2 * c.rep < c.max
      urgent == \/ grow
                \/ auth /\ k.flush /\ c.dirty # {}
                \/ RevocationDone(c, m)
                \/ want \ (cap.wanted \cup cap.issued) # {}
  IN  CASE urgent -> "ack"
        [] ~urgent /\ cap.issued \subseteq CapsToRetain(c) /\ cap.wanted = want -> "skip"
        [] OTHER -> IF k.nodelay \/ "NODELAY" \in c.flags \/ c.hold = "past"
                    THEN "ack" ELSE "delay"

ToScan(c, k) == {m \in Held(c) : m > k.last /\ (k.authonly => m = c.auth)}

\* The next cap to send, NoMds when there is none.
NextAck(c, k) ==
  LET acks == {m \in ToScan(c, k) : CapVerdict(c, m, k) = "ack"}
  IN  IF acks = {} THEN NoMds ELSE CHOOSE m \in acks : \A n \in acks : m <= n

SawDelay(c, k, upto) ==
  \E m \in ToScan(c, k) : (upto = NoMds \/ m < upto) /\ CapVerdict(c, m, k) = "delay"

CheckSend(c, k, m) ==
  LET flushes == m = c.auth /\ c.dirty # {}
      c1 == IF flushes THEN MarkCapsFlushing(c, m) ELSE c
      r == SendCap(c1, m, "UPDATE", CapUsed(c, m), CapsWanted(c), CapsToRetain(c),
                   IF flushes THEN c.dirty ELSE {})
  IN  [c |-> r.c, k |-> [k EXCEPT !.last = m, !.took = TRUE, !.sess = m,
                                  !.delayed = @ \/ r.delayed \/ SawDelay(c, k, m)]]

CheckInvalidate(c, k) ==
  [c |-> DropPages(c), k |-> [k EXCEPT !.tried = TRUE, !.gen = c.gen,
                                       !.revoking = "Fc" \in Implemented(c) \ CapsIssued(c)]]

CheckInvalidated(c, k0) ==
  LET r == TryInvalidate(c, k0.gen)
      k == [k0 EXCEPT !.gen = 0, !.revoking = FALSE]
  IN  CASE r.done -> [c |-> r.c, k |-> k]
        [] ~r.done /\ k0.revoking -> [c |-> [r.c EXCEPT !.rdrev = c.gen], k |-> [k EXCEPT !.qinv = TRUE]]
        [] OTHER -> [c |-> SetTimeouts(r.c), k |-> [k EXCEPT !.force = TRUE]]

CheckEnd(c, k) ==
  LET delayed == k.delayed \/ SawDelay(c, k, NoMds)
      force == k.force \/ (delayed /\ k.nodelay)
  IN  CASE ~delayed /\ ~k.nodelay -> DelayCancel(c)
        [] (delayed /\ ~k.nodelay) \/ force -> DelayRequeue(c)
        [] OTHER -> c

\* flush_snaps() looks at files on its list only.
Listed(c, k) == Head(k.ph) = "list" /\ k.next = 0 => c.sflush # 0

\* The session whose mutex the next step of the task takes, NoMds for none.
SessionFor(c, k) ==
  LET ph == Head(k.ph)
      snaps == ph \in {"first", "snaps", "again", "list"} /\ Listed(c, k)
                 /\ NextToFlush(c, k.next, ph = "again") > 0
      k1 == IF ph = "first" THEN [k EXCEPT !.flush = @ \/ "FLUSH" \in c.flags] ELSE k
  IN  CASE snaps -> c.auth
        [] ~snaps /\ ph \in {"first", "scan"} /\ k.gen = 0 /\ ~WantInvalidate(c, k) -> NextAck(c, k1)
        [] OTHER -> NoMds

Done(k) == LET rest == Tail(k.ph) IN IF rest = <<>> THEN NoTask ELSE [k EXCEPT !.ph = rest]

ScanStep(c, k) ==
  LET m == NextAck(c, k)
  IN
  IF k.gen # 0 THEN CheckInvalidated(c, k)
  ELSE IF WantInvalidate(c, k) THEN CheckInvalidate(c, k)
  ELSE IF m # NoMds THEN CheckSend(c, k, m)
  ELSE [c |-> [CheckEnd(c, k) EXCEPT !.qinv = @ \/ k.qinv], k |-> Done(k)]

KickFlush(c) ==
  CASE c.flushing = {} -> c
    [] c.flushing # {} /\ c.auth = NoMds -> Bug(c, TRUE)
    [] OTHER -> SendFlush([c EXCEPT !.flist = c.auth, !.resent = @ \cup {c.ftid[b] : b \in c.flushing}],
                          c.auth, c.flushing)

----------------------------------------------------------------------------
(* Messages from the servers.  r.k is the task the handler goes on with.    *)

\* The rest of handle_cap_grant(); queue, the invalidation is left to a worker.
Granted(c, m, g, issued, queue) ==
  LET cap == c.caps[m]
      new == g.caps
      revoked == cap.issued \ new
      c2 == CheckCapIssue([c EXCEPT !.caps[m].gen = c.s[m].gen, !.caps[m].seq = g.seq], new)
      file == new \cap {"Fr", "Fc", "Fw", "Fb"} # {}
      grows == file /\ m = c.auth /\ g.max # c.max
      met == grows /\ g.max >= c.want_max
      c3 == [c2 EXCEPT !.val = IF "As" \in new /\ "Ax" \notin issued THEN g.val ELSE @,
                       !.rep = IF file /\ g.size > c.size THEN g.size ELSE @,
                       !.size = IF file /\ g.size > @ THEN g.size ELSE @,
                       !.max = IF grows THEN g.max ELSE @,
                       !.want_max = IF met THEN 0 ELSE @,
                       !.req_max = IF met THEN 0 ELSE @]
      import == g.op = "IMPORT"
      writeback == "Fb" \in revoked \cap CapsUsed(c3)
      asked == IF import /\ CapsWanted(c3) # g.wanted THEN "auth" ELSE "none"
      check == CASE revoked # {} /\ writeback -> asked
                 [] revoked # {} /\ ~writeback ->
                      IF revoked = {"Fc"} /\ queue THEN asked ELSE IF m = c.auth THEN "auth" ELSE "all"
                 [] OTHER -> IF /\ cap.issued # new /\ m = c.auth
                                /\ RevokingOther(c3, m, new) THEN "all" ELSE asked
      wake == \/ grows \/ (revoked = {} /\ cap.issued # new)
              \/ import /\ new \ issued # {}
      c4 == [c3 EXCEPT !.caps[m].issued = new, !.caps[m].impl = @ \cup new,
                       !.wbq = @ \/ writeback, !.qinv = @ \/ queue]
      c5 == IF import THEN UpdateSnapTrace(c4, g.ctx) ELSE IF wake THEN Wake(c4) ELSE c4
      ph == (IF import THEN <<"again", "flush">> \o (IF wake THEN <<"wake">> ELSE <<>>) ELSE <<>>)
              \o (IF check = "none" THEN <<>> ELSE CheckPhases)
  IN  [c |-> c5, k |-> IF ph = <<>> THEN NoTask ELSE Task(ph, TRUE, check = "auth", FALSE, m)]

\* handle_cap_grant(): issued is what was held when the message came.  It lets
\* go of i_ceph_lock when it tries to invalidate the cache.
Grant(c, m, g0, issued) ==
  LET cap == c.caps[m]
      late == g0.seq <= cap.seq
      g == [g0 EXCEPT !.caps = IF late THEN @ \cup cap.issued ELSE @,
                      !.seq = IF late THEN cap.seq ELSE @]
      tries == "Fc" \in cap.issued \ g.caps /\ c.wrb = 0
  IN  IF ~tries THEN Granted(c, m, g, issued, FALSE)
      ELSE [c |-> DropPages(c),
            k |-> [Task(<<"grant">>, TRUE, FALSE, FALSE, m) EXCEPT
                     !.gen = c.gen, !.grant = [g |-> g, issued |-> issued]]]

GrantInvalidated(c, k) ==
  LET r == TryInvalidate(c, k.gen)
      queue == ~r.done /\ c.rdrev # c.gen
      c1 == IF queue THEN [c EXCEPT !.rdrev = c.gen] ELSE r.c
  IN  IF ~Has(c, k.sess) THEN [c |-> Bug(c, TRUE), k |-> NoTask]
      ELSE Granted(c1, k.sess, k.grant.g, k.grant.issued, queue)

HandleGrant(c, m, g) == Grant(c, m, g, Implemented(c) \cup CapsDirty(c))

\* handle_cap_import() and then the grant
HandleImport(c, m, g) ==
  LET c1 == AddCap(c, m, g.id, g.caps, g.wanted, g.seq, g.mseq, TRUE)
      peer == g.peer # NoMds /\ Has(c1, g.peer) /\ c1.caps[g.peer].id = g.peer_id
      c2 == IF peer THEN RemoveCap(c1, g.peer, FALSE) ELSE c1
  IN  Grant([c2 EXCEPT !.want_max = 0, !.req_max = 0], m, g, Implemented(c) \cup CapsDirty(c))

\* handle_cap_export(): a cap not yet imported is put in the target's place.
HandleExport(c, m, g) ==
  LET cap == c.caps[m]
      t == g.peer
      tcap == c.caps[t]
      update == tcap.id # g.peer_id \/ tcap.seq < g.peer_seq
      auth == IF c.auth = m THEN t ELSE c.auth
      c1 == [c EXCEPT !.caps[t] = [@ EXCEPT !.id = g.peer_id, !.seq = g.peer_seq - 1,
                                            !.iseq = g.peer_seq - 1, !.mseq = g.peer_mseq,
                                            !.issued = @ \cup cap.issued, !.impl = @ \cup cap.issued],
                      !.auth = auth,
                      !.flist = IF c.flushing # {} /\ auth = t THEN t ELSE @]
  IN  CASE ~Has(c, m) \/ cap.id # g.id -> c
        [] Has(c, m) /\ cap.id = g.id /\ t = NoMds -> RemoveCap(c, m, FALSE)
        [] Has(c, m) /\ cap.id = g.id /\ t # NoMds /\ Has(c, t) ->
             RemoveCap(IF update THEN c1 ELSE c, m, FALSE)
        [] OTHER -> RemoveCap(AddCap(c, t, g.peer_id, cap.issued, {}, g.peer_seq - 1,
                                     g.peer_mseq, c.auth = m), m, FALSE)

\* The sessions an export locks besides its own.
ExportLocks(c, m, g) ==
  IF Has(c, m) /\ c.caps[m].id = g.id /\ g.peer # NoMds /\ ~Has(c, g.peer) THEN {g.peer} ELSE {}

\* CEPH_SESSION_STALE, and the answer to the renewal it asks for
Stale(c, m) ==
  Send([c EXCEPT !.s[m].gen = @ + 1, !.s[m].ttl = FALSE], m, [op |-> "RENEW"])

RenewedCaps(c, m) ==
  LET c1 == [c EXCEPT !.s[m].ttl = TRUE]
  IN  IF ~c.s[m].ttl /\ Has(c, m) THEN Wake(c1) ELSE c1

\* trim_caps(): the server asks for caps back.
TrimCaps(c, m) ==
  LET cap == c.caps[m]
      needed == CapsUsed(c) \cup FileWanted(c)
      keep == \/ m = c.auth /\ (CapsDirty(c) # {} \/ needed \cap ANY_WR # {})
              \/ (needed \ IssuedOther(c, m)) \cap (cap.issued \cup cap.impl) # {}
  IN  SendReleases(IF ~Has(c, m) \/ keep \/ IssuedOther(c, m) = {} THEN c ELSE RemoveCap(c, m, TRUE), m)

\* ceph_encode_inode_release(): a request to the server gives up unused caps.
InodeRelease(c, m, drop0, unless) ==
  LET cap == c.caps[m]
      drop == drop0 \ (CapsUsed(c) \cup CapsDirty(c))
      want == CapsWanted(c) \cup (IF "NODELAY" \in c.flags THEN {} ELSE cap.wanted)
      new == [cap EXCEPT !.issued = @ \ drop, !.impl = @ \ drop, !.wanted = want]
  IN  IF Has(c, m) /\ CapIsValid(c, m) /\ cap.issued \cap drop # {} /\ cap.issued \cap unless = {}
      THEN Send([c EXCEPT !.caps[m] = new], m,
                [op |-> "DROP", id |-> cap.id, caps |-> new.impl, wanted |-> want, seq |-> cap.seq,
                 iseq |-> cap.iseq, mseq |-> cap.mseq])
      ELSE c

----------------------------------------------------------------------------
(* A server that restarts.                                                  *)

\* send_mds_reconnect() begins with a new generation and discards the releases
\* not sent; the connection is a new one.
ReconnectBegin(c, m) ==
  [c EXCEPT !.s[m] = [@ EXCEPT !.gen = @ + 1, !.recon = TRUE, !.rel = <<>>, !.out = <<>>]]

\* encode_caps_cb() and the end of send_mds_reconnect()
Reconnect(c, m) ==
  LET cap == c.caps[m]
      c1 == [c EXCEPT !.s[m].recon = FALSE]
  IN  IF ~Has(c, m) THEN Send(c1, m, [op |-> "RECONNECT", id |-> 0])
      ELSE Send([c1 EXCEPT !.caps[m] = [cap EXCEPT !.seq = 0, !.iseq = 0, !.mseq = 0, !.gen = c.s[m].gen]],
                m, [op |-> "RECONNECT", id |-> cap.id, caps |-> cap.issued, wanted |-> CapsWanted(c)])

\* ceph_kick_flushing_caps() and wake_up_session_caps() once it is active
KickPhases(c, m) ==
  LET mine == c.auth = m
      snaps == mine /\ \E i \in DOMAIN c.snaps : c.snaps[i].on = m
  IN  (IF snaps THEN <<"again">> ELSE <<>>) \o (IF mine /\ c.flist = m THEN <<"flush">> ELSE <<>>)
        \o (IF Has(c, m) THEN <<"wake", "remax">> ELSE <<>>)

----------------------------------------------------------------------------
(* The steps of a task.                                                     *)

\* One step of the task, its session locked: r.k what is left of it.  The caps
\* are scanned without letting go of the lock once no cap_snap is to be sent.
TaskStep(c, k) ==
  LET ph == Head(k.ph)
      i == NextToFlush(c, k.next, ph = "again")
      k1 == IF ph = "first" THEN [k EXCEPT !.flush = @ \/ "FLUSH" \in c.flags] ELSE k
      c1 == IF i = 0 /\ (ph # "first" \/ c.snaps # <<>>) THEN SnapsFlushed(c) ELSE c
  IN  CASE ph \in {"first", "snaps", "again"} /\ i > 0 ->
             [c |-> FlushSnap(c, i),
              k |-> [k1 EXCEPT !.sess = c.auth, !.next = c.snaps[i].follows + 1]]
        [] ph = "list" /\ ~Listed(c, k) -> [c |-> c, k |-> Done(k)]
        [] ph = "list" /\ Listed(c, k) /\ i > 0 ->
             [c |-> FlushSnap(c, i), k |-> [k EXCEPT !.sess = c.auth, !.next = c.snaps[i].follows + 1]]
        [] ph = "list" /\ Listed(c, k) /\ i <= 0 -> [c |-> c1, k |-> [k EXCEPT !.next = 0]]
        [] ph = "first" /\ i <= 0 -> ScanStep(c1, Done(k1))
        [] ph \in {"snaps", "again"} /\ i <= 0 -> [c |-> c1, k |-> Done(k1)]
        [] ph = "scan" -> ScanStep(c, k)
        [] ph = "grant" -> GrantInvalidated(c, k)
        [] ph = "reconnect" -> [c |-> Reconnect(c, k.sess), k |-> Done(k)]
        [] ph = "flush" -> [c |-> KickFlush(c), k |-> Done(k)]
        [] ph = "wake" -> [c |-> Wake(c), k |-> Done(k)]
        [] ph = "remax" -> [c |-> [c EXCEPT !.want_max = 0, !.req_max = 0], k |-> Done(k)]

=============================================================================
