----------------------------- MODULE OsdCluster -----------------------------
(***************************************************************************)
(* The OSD client with the cluster it talks to: a monitor that publishes    *)
(* and hands out maps, OSDs that execute requests, and lossy connections.   *)
(* The cluster is external code, modelled by what osd_client.c relies on:   *)
(* an OSD executes a request only if it is the primary, its map does not    *)
(* pause the request and the acting set has not changed since the epoch in  *)
(* the request; otherwise it drops it, for the client sends it again when   *)
(* it learns of the change.  An OSD changes its address only while down.    *)
(***************************************************************************)
EXTENDS OsdClient

CONSTANTS
  Scenarios   \* the maps the monitors publish, epoch 1 first, the requests
              \* that are made and the outside events that may happen

ASSUME ClusterAssumption ==
  \A w \in Scenarios :
    /\ w.kind \in [Reqs -> Kinds] /\ w.chances \subseteq Events
    /\ w.maps # <<>>
    /\ \A e \in DOMAIN w.maps \ {1} : \A o \in w.maps[e - 1].up \cap w.maps[e].up :
         w.maps[e - 1].addr[o] = w.maps[e].addr[o]
    /\ \A e, f \in DOMAIN w.maps : \A p \in w.maps[f].pools :   \* a deleted pool stays away
         e < f => p \in w.maps[e].pools \/ \A d \in 1..e : p \notin w.maps[d].pools

VARIABLES
  maps,       \* all the maps of this behaviour
  latest,     \* the epoch that is current in the cluster
  mapq,       \* map messages the monitor has sent
  applied,    \* history: requests in the order they were executed first
  odd         \* history: answers other than success, with the request they were given to

vars == <<clientVars, pend, disp, userVars, chances, maps, latest, mapq, applied, odd>>
envVars == <<maps, latest, mapq, applied, odd>>

Now == maps[latest]

\* A session object as kzalloc() leaves it.
NewOsd == [o_osd |-> CHOOSE o \in Osds : TRUE, inc |-> 0, addr |-> 0, reqs |-> <<>>,
           lin |-> <<>>, con |-> "none", q |-> <<>>, in |-> <<>>]
NewReq == [tid |-> 0, osd |-> NoOsd, sent |-> 0, paused |-> FALSE, acting |-> <<>>,
           got |-> FALSE, pool |-> 0]

\* ceph_osdc_init(), and the first map has arrived.
Init ==
  /\ \E w \in Scenarios : maps = w.maps /\ kind = w.kind /\ chances = w.chances
  /\ latest = 1
  /\ osdc = [map |-> maps[1], epoch |-> 1, last_tid |-> 0, requests |-> {},
              unsent |-> <<>>, lru |-> <<>>, notarget |-> <<>>, linger |-> <<>>,
              osds |-> [o \in Osds |-> NoOsd], idle |-> <<>>, timer |-> FALSE,
              want |-> 0, have |-> 1, sub |-> -1,
              req |-> [r \in Reqs |-> NewReq],
              osd |-> [s \in Sessions |-> NewOsd], bug |-> {}, warn |-> {}]
  /\ worker = Free /\ hm = HmIdle /\ pend = {}
  /\ disp = [s \in Sessions |-> Nothing]
  /\ user = [r \in Reqs |-> "new"] /\ calls = [r \in Reqs |-> 0] /\ safe = {}
  /\ mapq = <<>> /\ applied = <<>> /\ odd = {}

----------------------------------------------------------------------------
(* The monitor.                                                             *)

\* The next map becomes current.
Publish ==
  /\ latest < Len(maps)
  /\ latest' = latest + 1
  /\ UNCHANGED <<clientVars, pend, disp, userVars, chances, maps, mapq, applied, odd>>

\* The epochs after e, as incrementals or as the latest full map.
MapMsgs(e) == {[inc |-> [i \in 1..(latest - e) |-> e + i], full |-> 0],
               [inc |-> <<>>, full |-> latest]}

\* A one-time subscription is served as soon as there is a newer map.
MonSends ==
  /\ osdc.sub >= 0 /\ osdc.sub < latest
  /\ \E m \in MapMsgs(osdc.sub) : mapq' = Append(mapq, m)
  /\ osdc' = [osdc EXCEPT !.sub = -1]
  /\ UNCHANGED <<worker, hm, pend, disp, userVars, chances, maps, latest, applied, odd>>

\* dispatch() of the monitor connection.
HandleMapFromMon ==
  /\ mapq # <<>>
  /\ StartHandleMap(0, Head(mapq))
  /\ mapq' = Tail(mapq)
  /\ UNCHANGED <<osdc, worker, pend, disp, userVars, chances, maps, latest, applied, odd>>

----------------------------------------------------------------------------
(* The connections and the OSDs.                                            *)

Reachable(s) == LET d == osdc.osd[s] IN d.o_osd \in Now.up /\ d.addr = Now.addr[d.o_osd]

Connect(s) ==
  /\ osdc.osd[s].con = "opening" /\ Reachable(s) /\ ~Busy(s)
  /\ osdc' = [osdc EXCEPT !.osd[s].con = "open"]
  /\ UNCHANGED <<worker, hm, pend, disp, userVars, chances, envVars>>

\* con_fault() of a session: an established one is lossy and ends CLOSED, one
\* that never connected keeps its queue and retries.  Both tell osd_reset().
\* A peer that is not there any more is noticed without a chance event.
Fault(s) ==
  /\ osdc.osd[s].con \in {"open", "opening"} /\ ~Busy(s)
  /\ IF Reachable(s) \/ osdc.osd[s].con = "opening" THEN Happens("fault") ELSE UNCHANGED chances
  /\ osdc' = IF osdc.osd[s].con = "opening" THEN osdc
             ELSE CloseCon(osdc, s)
  /\ pend' = pend \cup {s}
  /\ UNCHANGED <<worker, hm, disp, userVars, envVars>>

\* The OSD executes what arrived with an epoch of the current interval.
Executes(s, m) ==
  /\ Primary(Now, m.pool) = osdc.osd[s].o_osd
  /\ m.pool \in Now.pools
  /\ \A e \in m.epoch..latest : /\ maps[e].acting[m.pool] = Now.acting[m.pool]
                                /\ ~ShouldBePaused(maps[e], m.r)

Reply(t, tid) == [Nothing EXCEPT !.k = "reply", !.t = t, !.tid = tid]

\* What an OSD may answer.  An error or a redirect is not the answer to a write
\* that was executed: the OSD recognizes the request and answers as before.
Answers(m) ==
  (IF m.r \notin Writes THEN {<<"read">>}
   ELSE IF kind[m.r] = "acked" THEN {<<"ack", "ondisk">>} ELSE {<<"ondisk">>})
  \cup {<<t>> : t \in chances \cap ({"bad", "corrupt"}
                    \cup IF m.r \in Range1(applied) THEN {} ELSE {"error", "redirect"}
                    \cup IF m.r \in Writes THEN {} ELSE {"long"})}

\* The maps an OSD may send along when the client's is old.
Shares(m) ==
  {<<>>} \cup IF m.epoch < latest /\ "share" \in chances
             THEN {<<[Nothing EXCEPT !.k = "map", !.map = x]>> : x \in MapMsgs(m.epoch)}
             ELSE {}

Serve(s) ==
  LET m == Head(osdc.osd[s].q)
  IN  /\ osdc.osd[s].con = "open" /\ osdc.osd[s].q # <<>> /\ Reachable(s)
      /\ \E a \in Answers(m), x \in Shares(m) :
           LET replies == IF Executes(s, m) THEN [i \in DOMAIN a |-> Reply(a[i], m.tid)] ELSE <<>>
               odds == {a[1]} \cap Events
           IN  /\ odds # {} => Executes(s, m)
               /\ osdc' = [osdc EXCEPT !.osd[s].q = Tail(@), !.osd[s].in = @ \o x \o replies]
               /\ chances' = chances \ (odds \cup IF x = <<>> THEN {} ELSE {"share"})
               /\ applied' = IF Executes(s, m) /\ odds = {} /\ m.r \notin Range1(applied)
                             THEN Append(applied, m.r) ELSE applied
               /\ odd' = odd \cup {<<t, m.r>> : t \in odds}
      /\ UNCHANGED <<worker, hm, pend, disp, userVars, maps, latest, mapq>>

----------------------------------------------------------------------------
\* Steps of the client, then of the cluster and the connections.
Next ==
  \/ \E r \in Reqs, nofail \in BOOLEAN, s \in 0..NumSess : StartRequest(r, nofail, s) /\ UNCHANGED envVars
  \/ \E r \in Reqs : CancelRequest(r) /\ UNCHANGED envVars
  \/ SendOne /\ UNCHANGED envVars
  \/ \E s \in Sessions : OsdReset(s) /\ UNCHANGED envVars
  \/ KickLingerOne /\ UNCHANGED envVars
  \/ HandleTimeout /\ UNCHANGED envVars
  \/ RemoveOldOsd /\ UNCHANGED envVars
  \/ \E s \in Sessions : GetReply(s) /\ UNCHANGED envVars
  \/ \E s \in Sessions : GetReplyNoMem(s) /\ UNCHANGED envVars
  \/ \E s \in Sessions : ReplyCorrupt(s) /\ UNCHANGED envVars
  \/ \E s \in Sessions : ReplyUnknown(s) /\ UNCHANGED envVars
  \/ \E s, t \in Sessions : ReplyRedirect(s, t) /\ UNCHANGED envVars
  \/ \E s \in Sessions : ReplyBad(s) /\ UNCHANGED envVars
  \/ \E s \in Sessions : HandleReply(s) /\ UNCHANGED envVars
  \/ \E s \in Sessions : ReplyCallback(s) /\ UNCHANGED envVars
  \/ \E s \in Sessions : HandleMapFromOsd(s) /\ UNCHANGED envVars
  \/ HandleInc(maps) /\ UNCHANGED envVars
  \/ HandleFull(maps) /\ UNCHANGED envVars
  \/ HandleMapBad /\ UNCHANGED envVars
  \/ \E s \in 0..NumSess : KickOne(s) /\ UNCHANGED envVars
  \/ \E s \in 0..NumSess : KickRegisteredLinger(s) /\ UNCHANGED envVars
  \/ ResetChangedOsd /\ UNCHANGED envVars
  \/ NextLoop /\ UNCHANGED envVars
  \/ DowngradeMap /\ UNCHANGED envVars
  \/ SendAfterMap /\ UNCHANGED envVars
  \/ Publish
  \/ MonSends
  \/ HandleMapFromMon
  \/ \E s \in Sessions : Connect(s)
  \/ \E s \in Sessions : Fault(s)
  \/ \E s \in Sessions : Serve(s)

Spec == Init /\ [][Next]_vars

----------------------------------------------------------------------------
(* Properties.                                                              *)

Lists == osdc.unsent \o osdc.lru \o osdc.notarget

\* The state keeps the types of struct ceph_osd_client: a request has a tid
\* that __register_request() handed out and points to a session or to none.
TypeOK ==
  /\ osdc.requests \subseteq Reqs /\ Range1(osdc.linger) \subseteq Lingers
  /\ Range1(Lists) \subseteq Reqs /\ Range1(osdc.idle) \subseteq Sessions
  /\ \A r \in Reqs : osdc.req[r].osd \in 0..NumSess /\ osdc.req[r].tid \in 0..osdc.last_tid
  /\ osdc.osds \in [Osds -> 0..NumSess] /\ osdc.epoch \in 1..latest
  /\ worker.op \in {"free", "send", "kick", "linger", "reset_osds", "kick_linger", "oops"}
  /\ pend \subseteq Sessions /\ safe \subseteq Reqs /\ chances \subseteq Events

Quiet == MutexFree /\ hm.st = "idle"

\* The state has its type and the BUG_ONs and WARN_ONs of osd_client.c hold: no session goes idle twice, is
\* removed while requests use it, a message is queued on one connection only,
\* what was sent has a session, a registered linger request is on no list of
\* requests.  (That a session is erased from the rbtree once is left out:
\* osd_reset() may remove one that an expiry or a map has removed before it.)
AssertionsHold == TypeOK /\ osdc.bug \subseteq {"removed_twice"} /\ osdc.warn = {}

\* The message of r, an answer to it or a fault of its session is under way.
Travelling(r) ==
  \E s \in Sessions :
    \/ s \in pend /\ s = osdc.req[r].osd
    \/ \E i \in DOMAIN osdc.osd[s].q : osdc.osd[s].q[i].r = r
    \/ \E i \in DOMAIN osdc.osd[s].in : osdc.osd[s].in[i].tid = osdc.req[r].tid
    \/ disp[s].tid = osdc.req[r].tid /\ disp[s].k = "reply"

\* The client's map has an OSD that would execute r.
Runnable(r) ==
  /\ r \in osdc.requests /\ ~osdc.req[r].paused
  /\ osdc.req[r].pool \in osdc.map.pools
  /\ Primary(osdc.map, osdc.req[r].pool) # NoOsd

\* No request is forgotten: once the client has the latest map and no handler
\* runs, a request that can be executed waits to be sent, travels, or sits on a
\* session whose fault is still to be noticed.  What a fault, a map that moves,
\* pauses or skips, or an OSD that drops the request took away was queued again
\* by kick_requests() or osd_reset().  The exceptions the code makes are a request
\* that found no memory for its session, which waits for another map, and one whose
\* answer came and was thrown away: it did not decode, or was too long.
NothingForgotten ==
  Quiet /\ osdc.epoch = latest =>
    \A r \in Reqs \ Lingers : Runnable(r) =>
       \/ r \in Range1(osdc.unsent)
       \/ Travelling(r)
       \/ osdc.req[r].osd # NoOsd /\ ~Reachable(osdc.req[r].osd)
       \/ /\ osdc.req[r].osd = NoOsd
          /\ osdc.req[r].acting = osdc.map.acting[osdc.req[r].pool]
       \/ odd \cap {<<"corrupt", r>>, <<"long", r>>} # {}

\* kick_requests(): linger requests moved to the linger list in its first loop
\* "will be sent to the osd in the loop below".  One that is registered, can
\* be executed and has a session is on the list of what is to be sent or was.
LingerSent ==
  Quiet => \A r \in Lingers : Runnable(r) /\ osdc.req[r].osd # NoOsd => r \in Range1(Lists)

\* r_callback runs (or r_completion completes) once, although acks, commits and
\* the answers to resent copies all reach handle_reply(), on several sessions.
\* A reply that does not parse or redirects is taken without a look at
\* r_got_reply, and behind one of these the callback may run again.
CallbackOnce ==
  \A r \in Reqs : calls[r] > 1 => odd \cap {<<"bad", r>>, <<"redirect", r>>} # {}

\* Writes to one placement group are executed first in the order they were
\* started, across faults, resends and moves between OSDs, as long as no OSD
\* answers with an error or a redirect.
WriteOrder ==
  odd = {} =>
    \A i, j \in DOMAIN applied :
      LET a == applied[i]  b == applied[j] IN
      i < j /\ {a, b} \subseteq Writes \ Lingers => osdc.req[a].tid < osdc.req[b].tid

\* The sessions that are in the rbtree.
Live == {s \in Sessions : \E o \in Osds : osdc.osds[o] = s}

\* Whenever request_mutex is free, whatever starts, ends, cancellations, faults, moves
\* and failures came before: a registered request that has a session is on the list
\* of that session alone, which is in the rbtree, and once on one of req_unsent,
\* req_lru and req_notarget; one that ended, failed to start or was cancelled is on no
\* list; and the sessions remove_old_osds() may close are those without requests.
\* (The converse does not hold: __map_request() takes the last request off a session
\* without a look at whether it is idle now, and a session emptied so stays.)
NothingLeftBehind ==
  MutexFree =>
    /\ \A s \in Range1(osdc.idle) : s \in Live /\ Empty(osdc, s)
    /\ \A r \in Reqs \ Lingers :
         LET on == {s \in Sessions : r \in Range1(osdc.osd[s].reqs)}
             listed == Cardinality({i \in DOMAIN Lists : Lists[i] = r})
         IN  /\ on = {osdc.req[r].osd} \ {NoOsd} /\ on \subseteq Live
             /\ listed \in IF on # {} THEN {1} ELSE IF r \in osdc.requests THEN {0, 1} ELSE {0}
             /\ on # {} => r \in osdc.requests

\* kick_requests(): "If requests map to no osd, request a new map."  A request that
\* has no OSD waits for a map the monitor was asked for.
HomelessWantsMap ==
  Quiet => \A r \in osdc.requests \cup Range1(osdc.linger) :
             osdc.req[r].osd = NoOsd => osdc.want > 0
=============================================================================
