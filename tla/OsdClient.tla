----------------------------- MODULE OsdClient -----------------------------
(***************************************************************************)
(* The OSD client of net/ceph/osd_client.c: the requests of the upper       *)
(* layers, the sessions (struct ceph_osd) they are sent on, the maps that   *)
(* move requests between sessions, and the part of mon_client.c that asks   *)
(* for the next map.                                                        *)
(*                                                                          *)
(* What request_mutex protects is one record, osdc, and a __function of the *)
(* code is an operator from record to record, so that a handler composes    *)
(* them as the code does.  A loop of the code is one step per iteration;    *)
(* worker says which loop runs, and request_mutex is free when it is        *)
(* "free".  "oops" is the end of a worker that erased an osd from the       *)
(* rbtree that is not in it.  map_sem is held for writing while hm.st is    *)
(* "inc" or "done".                                                         *)
(***************************************************************************)
EXTENDS Integers, Sequences, FiniteSets, SequencesExt

CONSTANTS
  Osds,       \* osd numbers, from 1
  Addrs,      \* addresses of osds
  Pools,      \* pool numbers, from 1; a pool stands for one of its pgs
  Reqs,       \* the requests, numbers from 1
  BasePool,   \* r_base_oloc.pool of each request
  NumSess,    \* struct ceph_osd objects that exist at the same time
  MaxInc      \* bound on o_incarnation

Events == {"cancel", "fault", "expire", "nomem", "share", "redirect", "error", "bad", "corrupt", "long", "badmap"}
Sessions == 1..NumSess
NoOsd == 0
\* A request with r_linger, one with CEPH_OSD_FLAG_WRITE, one that also wants
\* an ack before the commit, one that reads, or one that is never made.
Kinds == {"linger", "write", "acked", "read", "none"}

ASSUME OsdAssumption ==
  /\ Osds \subseteq Nat \ {0} /\ Pools \subseteq Nat \ {0} /\ Reqs \subseteq Nat \ {0}
  /\ BasePool \in [Reqs -> Pools]
  /\ NumSess \in Nat \ {0} /\ MaxInc \in Nat

VARIABLES
  osdc,     \* struct ceph_osd_client, with its requests and sessions
  worker,   \* the loop that runs under request_mutex
  hm,       \* ceph_osdc_handle_map(): where it is
  pend,     \* sessions whose fault callback has not got request_mutex yet
  disp,     \* what each session's dispatch() works on
  user,     \* what the owner of each request has done with it
  calls,    \* how often r_callback ran, or r_completion was completed
  safe,     \* requests whose r_safe_completion is complete
  kind,     \* what each request is; never changes
  chances   \* the outside events that may still happen, each once

clientVars == <<osdc, worker, hm>>
userVars == <<user, calls, safe, kind>>

Writes == {r \in Reqs : kind[r] \in {"linger", "write", "acked"}}
Lingers == {r \in Reqs : kind[r] = "linger"}

Free == [op |-> "free", todo |-> <<>>, force |-> FALSE, wforce |-> FALSE, needmap |-> FALSE]
Send == [Free EXCEPT !.op = "send"]
Oops == [Free EXCEPT !.op = "oops"]
HmIdle == [st |-> "idle", todo |-> <<>>, full |-> 0, was_full |-> FALSE, new |-> FALSE, src |-> 0]
Nothing == [k |-> "none", t |-> "none", tid |-> 0, r |-> 0, call |-> FALSE, safe |-> FALSE, map |-> <<>>]

MutexFree == worker.op = "free"
\* down_read(&osdc->map_sem) succeeds.
MapReadable == hm.st \in {"idle", "send"}

\* The worker of session s is in a callback of the OSD client.
Busy(s) == s \in pend \/ disp[s] # Nothing \/ (hm.st # "idle" /\ hm.src = s)

Happens(e) ==
  /\ e \in chances
  /\ chances' = chances \ {e}

----------------------------------------------------------------------------
(* Lists.  r_req_lru_item is on one of unsent, lru and notarget, or on none. *)

Range1(s) == {s[i] : i \in DOMAIN s}
Without(s, r) == SelectSeq(s, LAMBDA x : x # r)
OffList(c, r) ==
  [c EXCEPT !.unsent = Without(@, r), !.lru = Without(@, r), !.notarget = Without(@, r)]
Registered(c, r) == r \in c.requests

\* The requests in the order of the rbtree.
ByTid(c) == SetToSortSeq(c.requests, LAMBDA a, b : c.req[a].tid < c.req[b].tid)
\* The sessions in the order of the rbtree.
ByOsd(c) ==
  LET live == {o \in Osds : c.osds[o] # NoOsd}
      nums == SetToSortSeq(live, LAMBDA a, b : a < b)
  IN  [i \in DOMAIN nums |-> c.osds[nums[i]]]

\* ceph_msg_revoke(): what was not transmitted yet never will be.
Revoke(c, r) ==
  [c EXCEPT !.osd = [s \in Sessions |->
     [@[s] EXCEPT !.q = SelectSeq(@, LAMBDA m : m.r # r)]]]

----------------------------------------------------------------------------
(* Maps: ceph_monc_request_next_osdmap() and __send_subscribe(), and        *)
(* ceph_monc_got_osdmap().  sub is the one-time subscription the monitor    *)
(* holds: the epoch it was told we have, or -1.                             *)

RequestNext(c) ==
  IF c.want < 2 THEN [c EXCEPT !.want = 2, !.sub = c.have] ELSE c

GotOsdmap(c) == [c EXCEPT !.have = c.epoch, !.want = 0]

ShouldBePaused(map, r) ==
  \/ r \notin Writes /\ "pauserd" \in map.flags
  \/ r \in Writes /\ map.flags \cap {"pausewr", "full"} # {}

\* __calc_request_pg(): the pool, of the cache tier if there is one, is
\* chosen when the request is mapped first or after a redirect.
TargetPool(c, r) ==
  IF c.req[r].pool = 0 THEN c.map.tier[BasePool[r]] ELSE c.req[r].pool

Primary(map, pool) == IF map.acting[pool] = <<>> THEN NoOsd ELSE map.acting[pool][1]

----------------------------------------------------------------------------
(* Sessions.                                                                *)

Empty(c, s) == c.osd[s].reqs = <<>> /\ c.osd[s].lin = <<>>

\* maybe_move_osd_to_lru(), __move_osd_to_lru().
MaybeIdle(c, s) ==
  IF ~Empty(c, s) THEN c
  ELSE [c EXCEPT !.idle = Append(Without(@, s), s),
                 !.bug = IF s \in Range1(c.idle) THEN @ \cup {"idle_twice"} ELSE @]

\* __remove_osd(): also when a late fault callback removes it once more.
RemoveOsd(c, s) ==
  [c EXCEPT !.bug = IF c.osds[c.osd[s].o_osd] # s THEN @ \cup {"removed_twice"} ELSE @,
            !.warn = IF Empty(c, s) THEN @ ELSE @ \cup {"removed_in_use"},
            !.osds[c.osd[s].o_osd] = IF @ = s THEN NoOsd ELSE @,
            !.idle = Without(@, s),
            !.osd[s].con = "none", !.osd[s].q = <<>>, !.osd[s].in = <<>>]

\* ceph_con_open() on a closed connection.
OpenCon(c, s) ==
  [c EXCEPT !.osd[s].con = "opening", !.osd[s].q = <<>>, !.osd[s].in = <<>>,
            !.osd[s].addr = c.map.addr[c.osd[s].o_osd]]

\* con_fault() of an established session, which is lossy: it ends CLOSED.
CloseCon(c, s) == [c EXCEPT !.osd[s].con = "closed", !.osd[s].q = <<>>, !.osd[s].in = <<>>]

\* create_osd(), __insert_osd() and ceph_con_open().
CreateOsd(c, s, o) ==
  OpenCon([c EXCEPT !.osds[o] = s, !.osd[s].o_osd = o, !.osd[s].inc = 1,
                    !.osd[s].reqs = <<>>, !.osd[s].lin = <<>>], s)

\* __reset_osd() finds the address unchanged and the connection never open.
NeverOpened(c, s) ==
  /\ c.osd[s].addr = c.map.addr[c.osd[s].o_osd]
  /\ c.osd[s].con \in {"opening", "none"}

\* __reset_osd().
ResetOsd(c, s) ==
  IF Empty(c, s) THEN RemoveOsd(c, s)
  ELSE IF NeverOpened(c, s) THEN c
  ELSE [OpenCon(c, s) EXCEPT !.osd[s].inc = @ + 1]

----------------------------------------------------------------------------
(* Requests.                                                                *)

\* __register_request().
Register(c, r) ==
  [c EXCEPT !.last_tid = @ + 1, !.req[r].tid = c.last_tid + 1,
            !.requests = @ \cup {r},
            !.timer = @ \/ c.requests = {}]

\* Mutant: a request without a session stays on req_notarget.
UnregisterStaysListed(c, r) ==
  LET s == c.req[r].osd
      d == [Revoke(c, r) EXCEPT !.osd[s].reqs = Without(@, r)]
      e == IF s = NoOsd THEN c
           ELSE OffList([MaybeIdle(d, s) EXCEPT
                   !.req[r].osd = IF r \in Range1(c.osd[s].lin) THEN s ELSE NoOsd], r)
      left == c.requests \ {r}
  IN  IF ~Registered(c, r) THEN c ELSE [e EXCEPT !.requests = left, !.timer = @ /\ left # {}]

\* __unregister_request().
Unregister(c, r) ==
  LET s == c.req[r].osd
      d == [Revoke(c, r) EXCEPT !.osd[s].reqs = Without(@, r)]
      e == IF s = NoOsd THEN c
           ELSE [MaybeIdle(d, s) EXCEPT
                   !.req[r].osd = IF r \in Range1(c.osd[s].lin) THEN s ELSE NoOsd]
      left == c.requests \ {r}
  IN  IF ~Registered(c, r) THEN c
      ELSE [OffList(e, r) EXCEPT !.requests = left, !.timer = @ /\ left # {}]

\* __register_linger_request().
RegisterLinger(c, r) ==
  LET s == c.req[r].osd
      d == [c EXCEPT !.linger = Append(@, r)]
  IN  IF s = NoOsd THEN d ELSE [d EXCEPT !.osd[s].lin = Append(@, r)]

\* __unregister_linger_request(): r_req_lru_item goes too.
UnregisterLinger(c, r) ==
  LET s == c.req[r].osd
      d == [c EXCEPT !.linger = Without(@, r)]
      e == IF s = NoOsd THEN d
           ELSE [MaybeIdle([d EXCEPT !.osd[s].lin = Without(@, r)], s) EXCEPT
                   !.req[r].osd = IF r \in Range1(c.osd[s].reqs) THEN s ELSE NoOsd]
  IN  IF r \notin Range1(c.linger) THEN c ELSE OffList(e, r)

\* Mutant: the session stays on the list of idle ones.
EnqueueStillIdle(c, r) ==
  LET s == c.req[r].osd
      d == OffList(c, r)
  IN  IF s = NoOsd THEN [d EXCEPT !.notarget = Append(@, r)]
      ELSE [d EXCEPT !.osd[s].reqs = Append(@, r), !.unsent = Append(@, r)]
\* Mutant: list_move() instead of list_move_tail().
EnqueueFirst(c, r) ==
  LET s == c.req[r].osd
      d == OffList(c, r)
  IN  IF s = NoOsd THEN [d EXCEPT !.notarget = Append(@, r)]
      ELSE [d EXCEPT !.idle = Without(@, s), !.osd[s].reqs = Append(@, r),
                     !.unsent = <<r>> \o @]

\* __enqueue_request().
Enqueue(c, r) ==
  LET s == c.req[r].osd
      d == OffList(c, r)
  IN  IF s = NoOsd THEN [d EXCEPT !.notarget = Append(@, r)]
      ELSE [d EXCEPT !.idle = Without(@, s), !.osd[s].reqs = Append(@, r),
                     !.unsent = Append(@, r)]

\* What __map_request() does to a request that has a session: the message is
\* taken back and the request leaves the session.
Detach(c, r) ==
  LET s == c.req[r].osd
      d == IF c.req[r].sent > 0 THEN [Revoke(c, r) EXCEPT !.req[r].sent = 0] ELSE c
  IN  IF s = NoOsd THEN c
      ELSE [d EXCEPT !.osd[s].reqs = Without(@, r), !.osd[s].lin = Without(@, r),
                     !.req[r].osd = NoOsd]

\* __map_request() returns "no change".
NoChange(c, r, acting, o, force) ==
  LET q == c.req[r]
  IN  \/ /\ ~force /\ q.osd # NoOsd /\ c.osd[q.osd].o_osd = o
         /\ q.sent >= c.osd[q.osd].inc /\ q.acting = acting
      \/ q.osd = NoOsd /\ o = NoOsd
      \/ q.paused

\* Session objects that no one refers to any more, or were never used.
Unused(c) == {s \in Sessions : /\ \A o \in Osds : c.osds[o] # s
                               /\ ~Busy(s)}

\* __map_request(): the new client and the return code.  s is the memory
\* create_osd() gets, NoOsd if there is none.
MapRequest(c, r, force, s) ==
  LET pool == TargetPool(c, r)
      acting == c.map.acting[pool]
      o == Primary(c.map, pool)
      paused == ShouldBePaused(c.map, r)
      d == [c EXCEPT !.req[r].pool = pool, !.req[r].paused = paused]
      e == [Detach(d, r) EXCEPT !.req[r].acting = acting]
      t == IF o = NoOsd THEN NoOsd ELSE IF c.osds[o] # NoOsd THEN c.osds[o] ELSE s
      f == IF o # NoOsd /\ c.osds[o] = NoOsd THEN CreateOsd(e, s, o) ELSE e
  IN  IF pool \notin c.map.pools
      THEN [c |-> [OffList(c, r) EXCEPT !.req[r].pool = pool,
                                        !.notarget = <<r>> \o @], rc |-> -1]
      ELSE IF NoChange(d, r, acting, o, force \/ (c.req[r].paused /\ ~paused))
      THEN [c |-> d, rc |-> 0]
      ELSE IF o # NoOsd /\ t = NoOsd
      THEN [c |-> [OffList(e, r) EXCEPT !.notarget = <<r>> \o @], rc |-> -1]
      ELSE [c |-> Enqueue([f EXCEPT !.req[r].osd = t], r), rc |-> 1]

\* __send_request(): ceph_con_send() drops the message on a closed connection.
SendRequest(c, r) ==
  LET s == c.req[r].osd
      m == [r |-> r, tid |-> c.req[r].tid, epoch |-> c.epoch, pool |-> c.req[r].pool]
      queued == \E t \in Sessions : \E i \in DOMAIN c.osd[t].q : c.osd[t].q[i].r = r
  IN  [OffList(c, r) EXCEPT
         !.lru = Append(@, r), !.req[r].sent = c.osd[s].inc,
         !.osd[s].q = IF c.osd[s].con \in {"opening", "open"} THEN Append(@, m) ELSE @,
         !.bug = IF queued THEN @ \cup {"queued_twice"} ELSE @]

\* __kick_linger_request(): a new tid on the same session.
KickLinger(c, r) ==
  LET s == c.req[r].osd
      d == IF r \in Range1(c.linger) THEN UnregisterLinger(c, r) ELSE Unregister(c, r)
      e == Register(d, r)
  IN  Enqueue([e EXCEPT !.warn = IF e.req[r].osd # NoOsd \/ s = NoOsd
                                 THEN @ \cup {"linger_kept_osd"} ELSE @,
                        !.req[r].osd = s], r)

\* The requests at the head of o_requests that were sent.
SentPrefix(c, s) ==
  LET reqs == c.osd[s].reqs
      cut == {i \in DOMAIN reqs : c.req[reqs[i]].sent = 0}
  IN  IF cut = {} THEN reqs
      ELSE SubSeq(reqs, 1, (CHOOSE i \in cut : \A j \in cut : i <= j) - 1)

----------------------------------------------------------------------------
(* The upper layers' calls.                                                 *)

\* The session object create_osd() allocates if mapping r needs one.
Alloc(r, s) ==
  LET o == Primary(osdc.map, TargetPool(osdc, r))
  IN  \/ /\ s \in Unused(osdc) /\ \A t \in Unused(osdc) : s <= t
         /\ UNCHANGED chances
      \/ /\ s = NoOsd /\ o # NoOsd /\ osdc.osds[o] = NoOsd
         /\ Happens("nomem")

\* __ceph_osdc_start_request() of r in c: what it leaves and whether it failed.
StartIn(c, r, nofail, s) ==
  LET d == [Register(c, r) EXCEPT !.req[r].sent = 0, !.req[r].got = FALSE]
      m == MapRequest(d, r, FALSE, s)
  IN  IF m.rc < 0
      THEN [c |-> IF nofail THEN m.c ELSE Unregister(m.c, r), w |-> Free, ok |-> nofail]
      ELSE IF m.c.req[r].osd = NoOsd
      THEN [c |-> RequestNext(m.c), w |-> Free, ok |-> TRUE]
      ELSE [c |-> m.c, w |-> Send, ok |-> TRUE]

\* ceph_osdc_start_request().
StartRequest(r, nofail, s) ==
  /\ kind[r] # "none" /\ user[r] = "new" /\ MutexFree /\ MapReadable
  /\ Alloc(r, s)
  /\ LET m == StartIn(osdc, r, nofail, s)
     IN  /\ osdc' = m.c /\ worker' = m.w
         /\ user' = [user EXCEPT ![r] = IF m.ok THEN "active" ELSE "failed"]
  /\ UNCHANGED <<hm, pend, disp, calls, safe, kind>>

\* ceph_osdc_cancel_request(): only request_mutex.
CancelRequest(r) ==
  /\ user[r] = "active" /\ MutexFree
  /\ Happens("cancel")
  /\ osdc' = Unregister(IF r \in Lingers THEN UnregisterLinger(osdc, r) ELSE osdc, r)
  /\ user' = [user EXCEPT ![r] = "cancelled"]
  /\ UNCHANGED <<worker, hm, pend, disp, calls, safe, kind>>

----------------------------------------------------------------------------
(* __send_queued(), which every handler ends with.                          *)

SendOne ==
  /\ worker.op = "send"
  /\ IF osdc.unsent = <<>> THEN worker' = Free /\ UNCHANGED osdc
     ELSE osdc' = SendRequest(osdc, Head(osdc.unsent)) /\ UNCHANGED worker
  /\ UNCHANGED <<hm, pend, disp, userVars, chances>>

----------------------------------------------------------------------------
(* Faults and timeouts.                                                     *)

\* osd_reset() and __kick_osd_requests() up to the linger requests.
OsdReset(s) ==
  LET c == ResetOsd(osdc, s)
      sent == SentPrefix(osdc, s)
      plain == SelectSeq(sent, LAMBDA r : r \notin Lingers)
      linger == SelectSeq(sent, LAMBDA r : r \in Lingers)
      rest(l) == SelectSeq(l, LAMBDA r : r \notin Range1(sent))
      warn == \E i \in DOMAIN osdc.osd[s].lin :
                osdc.osd[s].lin[i] \in Range1(osdc.lru \o osdc.unsent \o osdc.notarget)
  IN  /\ s \in pend /\ MutexFree /\ MapReadable
      /\ osdc.osd[s].inc < MaxInc
      /\ pend' = pend \ {s}
      /\ IF Empty(osdc, s) \/ NeverOpened(osdc, s)
         THEN osdc' = c /\ worker' = IF c.bug = {} THEN Send ELSE Oops
         ELSE /\ osdc' = [c EXCEPT !.unsent = plain \o rest(@), !.lru = rest(@),
                                   !.notarget = rest(@),
                                   !.warn = IF warn THEN @ \cup {"linger_listed"} ELSE @]
              /\ worker' = [Free EXCEPT !.op = "kick_linger",
                                        !.todo = osdc.osd[s].lin \o linger]
      /\ UNCHANGED <<hm, disp, userVars, chances>>

\* The loops over o_linger_requests and resend_linger.
KickLingerOne ==
  /\ worker.op = "kick_linger"
  /\ IF worker.todo = <<>> THEN worker' = Send /\ UNCHANGED osdc
     ELSE /\ osdc' = KickLinger(osdc, Head(worker.todo))
          /\ worker' = [worker EXCEPT !.todo = Tail(@)]
  /\ UNCHANGED <<hm, pend, disp, userVars, chances>>

\* handle_timeout(): the timer is armed again whatever happens.
HandleTimeout ==
  /\ osdc.timer /\ MutexFree /\ MapReadable
  /\ osdc' = [RequestNext(osdc) EXCEPT
                !.bug = IF \E r \in Range1(osdc.lru) : osdc.req[r].osd = NoOsd
                        THEN @ \cup {"lru_no_osd"} ELSE @]
  /\ worker' = Send
  /\ UNCHANGED <<hm, pend, disp, userVars, chances>>

\* handle_osds_timeout(), remove_old_osds(): the session idle for longest.
RemoveOldOsd ==
  /\ osdc.idle # <<>> /\ MutexFree /\ MapReadable
  /\ Happens("expire")
  /\ osdc' = RemoveOsd(osdc, Head(osdc.idle))
  /\ UNCHANGED <<worker, hm, pend, disp, userVars>>

----------------------------------------------------------------------------
(* dispatch() of a reply.                                                   *)

ReqOfTid(c, tid) == {r \in c.requests : c.req[r].tid = tid}

\* A message has arrived on session s and its worker may take it.
Arrived(s) ==
  osdc.osd[s].con = "open" /\ osdc.osd[s].in # <<>> /\ ~Busy(s) /\ MutexFree

\* get_reply(): a reply to an unknown tid is skipped, and one with more data than
\* the pages of the request hold.
GetReply(s) ==
  LET m == Head(osdc.osd[s].in)
      skip == m.k = "reply" /\ (ReqOfTid(osdc, m.tid) = {} \/ m.t = "long")
  IN  /\ Arrived(s)
      /\ osdc' = [osdc EXCEPT !.osd[s].in = Tail(@)]
      /\ disp' = [disp EXCEPT ![s] = IF skip THEN Nothing ELSE m]
      /\ UNCHANGED <<worker, hm, pend, userVars, chances>>

\* alloc_msg(), get_reply(): no memory for a map, or for a reply whose front is
\* larger than what was preallocated, faults the connection.
GetReplyNoMem(s) ==
  LET m == Head(osdc.osd[s].in)
  IN  /\ Arrived(s) /\ (m.k = "reply" => ReqOfTid(osdc, m.tid) # {})
      /\ Happens("nomem")
      /\ osdc' = CloseCon(osdc, s) /\ pend' = pend \cup {s}
      /\ UNCHANGED <<worker, hm, disp, userVars>>

\* handle_reply() to a tid that is gone.
ReplyUnknown(s) ==
  /\ disp[s].k = "reply" /\ disp[s].t # "corrupt" /\ MutexFree /\ MapReadable
  /\ ReqOfTid(osdc, disp[s].tid) = {}
  /\ disp' = [disp EXCEPT ![s] = Nothing]
  /\ UNCHANGED <<clientVars, pend, userVars, chances>>

\* handle_reply(): a reply whose object name, pgid or result does not decode is
\* dropped before its request is looked up.
ReplyCorrupt(s) ==
  /\ disp[s].k = "reply" /\ disp[s].t = "corrupt"
  /\ disp' = [disp EXCEPT ![s] = Nothing]
  /\ UNCHANGED <<clientVars, pend, userVars, chances>>

\* handle_reply(): a redirect registers and starts the request anew.
ReplyRedirect(s, t) ==
  /\ disp[s].k = "reply" /\ disp[s].t = "redirect" /\ MutexFree /\ MapReadable
  /\ \E r \in ReqOfTid(osdc, disp[s].tid), pool \in Pools :
       /\ pool # osdc.req[r].pool
       /\ LET c == [Unregister(osdc, r) EXCEPT !.req[r].pool = pool]
              m == StartIn(c, r, TRUE, t)
          IN  /\ t \in Unused(osdc) /\ \A u \in Unused(osdc) : t <= u
              /\ osdc' = m.c /\ worker' = m.w
  /\ disp' = [disp EXCEPT ![s] = Nothing]
  /\ UNCHANGED <<hm, pend, userVars, chances>>

\* handle_reply(): a reply whose ops or redirect do not parse completes the request, under
\* request_mutex.
ReplyBad(s) ==
  /\ disp[s].k = "reply" /\ disp[s].t = "bad" /\ MutexFree /\ MapReadable
  /\ \E r \in ReqOfTid(osdc, disp[s].tid) :
       /\ osdc' = Unregister(osdc, r)
       /\ calls' = [calls EXCEPT ![r] = @ + 1]
       /\ safe' = safe \cup {r}
  /\ disp' = [disp EXCEPT ![s] = Nothing]
  /\ UNCHANGED <<worker, hm, pend, user, kind, chances>>

\* handle_reply(), the part under the locks, for an answer "read", "ack",
\* "ondisk" or "error" (negative result, no commit).
HandleReply(s) ==
  LET t == disp[s].t
      again(r) == osdc.req[r].got
      ondisk == t = "ondisk"
      c(r) == IF ondisk /\ r \in Lingers
              THEN RegisterLinger([osdc EXCEPT !.req[r].got = TRUE], r)
              ELSE [osdc EXCEPT !.req[r].got = TRUE]
  IN  /\ disp[s].k = "reply" /\ t \in {"read", "ack", "ondisk", "error"}
      /\ MutexFree /\ MapReadable
      /\ \E r \in ReqOfTid(osdc, disp[s].tid) :
           IF again(r) /\ ~ondisk
           THEN disp' = [disp EXCEPT ![s] = Nothing] /\ UNCHANGED osdc
           ELSE /\ osdc' = IF t = "ack" THEN c(r) ELSE Unregister(c(r), r)
                /\ disp' = [disp EXCEPT ![s] =
                     [Nothing EXCEPT !.k = "cb", !.r = r, !.call = ~again(r), !.safe = ondisk]]
      /\ UNCHANGED <<worker, hm, pend, userVars, chances>>

\* Mutant: the commit after an ack calls back again.
ReplyCallbackAgain(s) ==
  /\ disp[s].k = "cb"
  /\ calls' = [calls EXCEPT ![disp[s].r] = @ + 1]
  /\ safe' = IF disp[s].safe THEN safe \cup {disp[s].r} ELSE safe
  /\ disp' = [disp EXCEPT ![s] = Nothing]
  /\ UNCHANGED <<clientVars, pend, user, kind, chances>>

\* handle_reply(), after the locks were dropped: the callbacks.
ReplyCallback(s) ==
  /\ disp[s].k = "cb"
  /\ calls' = IF disp[s].call THEN [calls EXCEPT ![disp[s].r] = @ + 1] ELSE calls
  /\ safe' = IF disp[s].safe THEN safe \cup {disp[s].r} ELSE safe
  /\ disp' = [disp EXCEPT ![s] = Nothing]
  /\ UNCHANGED <<clientVars, pend, user, kind, chances>>

----------------------------------------------------------------------------
(* ceph_osdc_handle_map() and kick_requests().                              *)

\* The map message names epochs: the incrementals and the full map (0: none).
StartHandleMap(src, m) ==
  /\ hm.st = "idle" /\ MutexFree
  /\ hm' = [HmIdle EXCEPT !.st = "inc", !.todo = m.inc, !.full = m.full, !.src = src,
                          !.was_full = "full" \in osdc.map.flags]

\* dispatch() of a map message from an osd.
HandleMapFromOsd(s) ==
  /\ disp[s].k = "map"
  /\ StartHandleMap(s, disp[s].map)
  /\ disp' = [disp EXCEPT ![s] = Nothing]
  /\ UNCHANGED <<osdc, worker, pend, userVars, chances>>

\* kick_requests() begins, for a client with the map of epoch e.
BeginKick(e, map, force) ==
  LET full == hm.was_full \/ "full" \in map.flags
      c == [osdc EXCEPT !.epoch = e, !.map = map]
  IN  /\ osdc' = c
      /\ worker' = [Free EXCEPT !.op = "kick", !.todo = ByTid(c), !.force = force,
                                !.wforce = full]
      /\ hm' = [hm EXCEPT !.was_full = full, !.new = TRUE,
                          !.todo = IF @ = <<>> THEN @ ELSE Tail(@),
                          !.st = IF hm.todo = <<>> THEN "done" ELSE @]

\* One incremental map; one that does not follow our epoch is ignored.
HandleInc(mapOf) ==
  /\ hm.st = "inc" /\ hm.todo # <<>> /\ MutexFree
  /\ LET e == Head(hm.todo)
     IN  IF osdc.epoch + 1 = e THEN BeginKick(e, mapOf[e], FALSE)
         ELSE hm' = [hm EXCEPT !.todo = Tail(@)] /\ UNCHANGED <<osdc, worker>>
  /\ UNCHANGED <<pend, disp, userVars, chances>>

\* The full map, unless an incremental was applied or ours is as new.
HandleFull(mapOf) ==
  /\ hm.st = "inc" /\ hm.todo = <<>> /\ MutexFree
  /\ IF ~hm.new /\ hm.full > osdc.epoch
     THEN BeginKick(hm.full, mapOf[hm.full], osdc.epoch + 1 < hm.full)
     ELSE hm' = [hm EXCEPT !.st = "done"] /\ UNCHANGED <<osdc, worker>>
  /\ UNCHANGED <<pend, disp, userVars, chances>>

\* "corrupt msg": a map does not decode or apply.  What was kicked before stays
\* queued, the monitor client is not told and nothing is sent.
HandleMapBad ==
  /\ hm.st = "inc" /\ MutexFree
  /\ Happens("badmap")
  /\ hm' = HmIdle
  /\ UNCHANGED <<osdc, worker, pend, disp, userVars>>

\* Mutant: a full map that skips epochs does not resend.
KickUnforced(r) == worker.wforce /\ r \in Writes

\* Both loops of kick_requests() run over a list; the session of a request is
\* allocated as in the other callers.
KickForce(r) == worker.force \/ (worker.wforce /\ r \in Writes)

\* First loop: an unregistered linger request goes to the linger list.
KickOne(s) ==
  LET r == Head(worker.todo)
      m == MapRequest(osdc, r, KickForce(r), s)
      restart == r \in Lingers /\ r \notin Range1(osdc.linger)
  IN  /\ worker.op = "kick" /\ worker.todo # <<>>
      /\ Alloc(r, s)
      /\ osdc' = IF restart THEN RegisterLinger(Unregister(osdc, r), r) ELSE m.c
      /\ worker' = [worker EXCEPT !.todo = Tail(@),
                      !.needmap = @ \/ (~restart /\ m.rc >= 0 /\ m.c.req[r].osd = NoOsd)]
      /\ UNCHANGED <<hm, pend, disp, userVars>>

\* Second loop: a registered linger request that moved is registered again.
KickRegisteredLinger(s) ==
  LET r == Head(worker.todo)
      m == MapRequest(osdc, r, worker.force \/ worker.wforce, s)
      homeless == m.c.req[r].osd = NoOsd
  IN  /\ worker.op = "linger" /\ worker.todo # <<>>
      /\ Alloc(r, s)
      /\ osdc' = IF m.rc > 0 /\ ~homeless
                 THEN UnregisterLinger(Register(m.c, r), r) ELSE m.c
      /\ worker' = [worker EXCEPT !.todo = Tail(@), !.needmap = @ \/ (m.rc > 0 /\ homeless)]
      /\ UNCHANGED <<hm, pend, disp, userVars>>

\* reset_changed_osds(), one session.
ResetChangedOsd ==
  LET s == Head(worker.todo)
      o == osdc.osd[s].o_osd
      changed == o \notin osdc.map.up \/ osdc.osd[s].addr # osdc.map.addr[o]
  IN  /\ worker.op = "reset_osds" /\ worker.todo # <<>>
      /\ osdc' = IF changed THEN ResetOsd(osdc, s) ELSE osdc
      /\ worker' = [worker EXCEPT !.todo = Tail(@)]
      /\ UNCHANGED <<hm, pend, disp, userVars, chances>>

\* From one loop to the next; kick_requests() asks for a map when it is done.
NextLoop ==
  /\ worker.op \in {"kick", "linger", "reset_osds"} /\ worker.todo = <<>>
  /\ worker' = CASE worker.op = "kick" -> [worker EXCEPT !.op = "linger", !.todo = osdc.linger]
                 [] worker.op = "linger" -> [worker EXCEPT !.op = "reset_osds", !.todo = ByOsd(osdc)]
                 [] OTHER -> Free
  /\ osdc' = IF worker.op = "reset_osds" /\ worker.needmap THEN RequestNext(osdc) ELSE osdc
  /\ UNCHANGED <<hm, pend, disp, userVars, chances>>

\* downgrade_write(), ceph_monc_got_osdmap(), another map if this one pauses.
DowngradeMap ==
  /\ hm.st = "done" /\ MutexFree
  /\ osdc' = IF osdc.map.flags # {} THEN RequestNext(GotOsdmap(osdc)) ELSE GotOsdmap(osdc)
  /\ hm' = [hm EXCEPT !.st = "send"]
  /\ UNCHANGED <<worker, pend, disp, userVars, chances>>

\* The last part of ceph_osdc_handle_map(): request_mutex for __send_queued().
SendAfterMap ==
  /\ hm.st = "send" /\ MutexFree
  /\ worker' = Send /\ hm' = HmIdle
  /\ UNCHANGED <<osdc, pend, disp, userVars, chances>>
=============================================================================
