----------------------------- MODULE Placement -----------------------------
(***************************************************************************)
(* Where the client puts data: threads that place objects on OSDs          *)
(* (ceph_calc_pg_acting(), under map_sem held to read and, in do_crush(),  *)
(* crush_scratch_mutex), the map that changes between them (MapFeed), the  *)
(* cache of the uniform bucket they share (CrushPerm), and a writer that   *)
(* stripes a file over objects.  job[t] is the placement thread t is at,   *)
(* walk the file as it is written: the layout, the offset and the place of *)
(* each byte written so far.                                               *)
(***************************************************************************)
EXTENDS CrushPerm, MapFeed, Crush

CONSTANTS Plans,    \* scenarios: the first map and those that follow, the threads,
                    \* the placement groups they place, the calls on the bucket,
                    \* the layouts of the file
          MaxSize,  \* CEPH_PG_MAX_SIZE
          FileEnd,  \* bytes written
          Lens      \* lengths of writes

VARIABLES plan, job, walk
vars == <<feedVars, permVars, plan, job, walk>>

NoJob == [pc |-> "idle"]

----------------------------------------------------------------------------
(* ceph_calc_pg_acting()                                                    *)

\* Placement seeds overlap between pools unless the pool is hashed.
pps(pool, pgid) ==
  LET ps == stable_mod(pgid[2], pool.pgp_num, pg_mask(pool.pgp_num))
  IN  IF pool.hashps THEN Draw(<<ps, pgid[1]>>) ELSE ps + pgid[1]

\* pg_to_raw_osds(), <<>> when there is no rule
pg_to_raw_osds(m, pool, x) ==
  LET ruleno == find_rule(m.crush, pool.ruleset, pool.type, pool.size)
      max == IF pool.size < MaxSize THEN pool.size ELSE MaxSize
  IN  IF ruleno = 0 THEN <<>> ELSE do_rule(m.crush, ruleno, x, max, m.weight)

calc_pg_acting(m, pgid) ==
  LET pool == m.pools[pgid[1]]
      x == pps(pool, pgid)
      draw == [o \in Osds(m) |-> Draw(<<x, o>>)]
      up == raw_to_up_osds(m, pool, pg_to_raw_osds(m, pool, x))
  IN  IF find_rule(m.crush, pool.ruleset, pool.type, pool.size) = 0
      THEN [osds |-> <<>>, primary |-> -1]
      ELSE apply_temps(m, pool, pgid, apply_primary_affinity(m, pool, up, draw))

\* A thread takes map_sem to read and, if the pool is there, the mutex.
Calc(t, pgid) ==
  /\ job[t] = NoJob /\ ~rx.on
  /\ osdmap # NoMap /\ pgid[1] \in DOMAIN osdmap.pools
  /\ pps(osdmap.pools[pgid[1]], pgid) \in X
  /\ Lock(t, pps(osdmap.pools[pgid[1]], pgid))
  /\ job' = [job EXCEPT ![t] = [pc |-> "crush", pgid |-> pgid]]
  /\ UNCHANGED <<feedVars, plan, walk>>

\* crush_do_rule() may call bucket_perm_choose() any number of times.
CallFirstIn(t, r) == CallFirst(t, r) /\ UNCHANGED <<feedVars, plan, job, walk>>
CallNewIn(t, r) == CallNew(t, r) /\ UNCHANGED <<feedVars, plan, job, walk>>
CallMagicIn(t, r) == CallMagic(t, r) /\ UNCHANGED <<feedVars, plan, job, walk>>
CallCachedIn(t, r) == CallCached(t, r) /\ UNCHANGED <<feedVars, plan, job, walk>>
ShuffleIn(t) == Shuffle(t) /\ UNCHANGED <<feedVars, plan, job, walk>>
FoundIn(t) == Found(t) /\ UNCHANGED <<feedVars, plan, job, walk>>

\* The rule is done: the rest needs no mutex.
Placed(t) ==
  /\ job[t].pc = "crush" /\ Unlock(t)
  /\ job' = [job EXCEPT ![t] = [pc |-> "placed", pgid |-> job[t].pgid,
                                at |-> calc_pg_acting(osdmap, job[t].pgid)]]
  /\ UNCHANGED <<feedVars, plan, walk>>

\* map_sem is released.
UpRead(t) ==
  /\ job[t].pc = "placed"
  /\ job' = [job EXCEPT ![t] = NoJob]
  /\ UNCHANGED <<feedVars, permVars, plan, walk>>

----------------------------------------------------------------------------
(* The map changes.  A decoded CRUSH map has buckets of its own.            *)

FreshBucket ==
  IF osdmap' # NoMap /\ (osdmap = NoMap \/ osdmap.crush # osdmap'.crush)
  THEN /\ perm' = [i \in Index |-> 0] /\ perm_n' = 0 /\ perm_x' = 0
       /\ UNCHANGED <<mutex, th>>
  ELSE UNCHANGED permVars

MonPublish(new) == Publish(new) /\ UNCHANGED <<permVars, plan, job, walk>>

\* down_write(&osdc->map_sem)
MapArrives(a, b, full) ==
  /\ \A t \in Thread : job[t] = NoJob
  /\ HandleMap(a, b, full)
  /\ UNCHANGED <<permVars, plan, job, walk>>

MapInc(empty) == HandleInc(empty) /\ FreshBucket /\ UNCHANGED <<plan, job, walk>>
MapIncFull == HandleIncFull /\ FreshBucket /\ UNCHANGED <<plan, job, walk>>
MapIgnored == IgnoreInc /\ UNCHANGED <<permVars, plan, job, walk>>
MapFails(k) == IncFails(k) /\ UNCHANGED <<permVars, plan, job, walk>>
MapFull == HandleFull /\ FreshBucket /\ UNCHANGED <<plan, job, walk>>
MapDone == HandleDone /\ UNCHANGED <<permVars, plan, job, walk>>

----------------------------------------------------------------------------
(* A file is written.                                                       *)

\* ceph_osdc_new_request() for len bytes: calc_layout() shortens the extent
\* to what is in one object.
Write(len) ==
  /\ walk.off < FileEnd
  /\ LET e == file_object_mapping(walk.layout, walk.off, len)
         plen == IF e.oxlen < len THEN e.oxlen ELSE len
     IN  walk' = [walk EXCEPT
           !.off = @ + plen,
           !.at = @ \o [i \in 1..plen |-> <<e.ono, e.oxoff + i - 1>>]]
  /\ UNCHANGED <<feedVars, permVars, plan, job>>

----------------------------------------------------------------------------
Init ==
  /\ plan \in Plans
  /\ \E m \in plan.maps : hist = <<[m EXCEPT !.epoch = 1]>>
  /\ osdmap = NoMap /\ rx = NoMsg
  /\ PermInit
  /\ job = [t \in Thread |-> NoJob]
  /\ \E l \in plan.layouts : walk = [layout |-> l, off |-> IF ValidLayout(l) THEN 0 ELSE FileEnd,
                                     at |-> <<>>]

Next ==
  \/ \E new \in plan.news : MonPublish(new)
  \/ \E a \in 2..MaxEpoch, b \in 1..MaxEpoch, full \in 0..MaxEpoch : MapArrives(a, b, full)
  \/ \E empty \in BOOLEAN : MapInc(empty)
  \/ MapIncFull
  \/ MapIgnored
  \/ \E k \in FailStages : MapFails(k)
  \/ MapFull
  \/ MapDone
  \/ \E t \in plan.threads, pgid \in plan.pgs : Calc(t, pgid)
  \/ \E t \in Thread, r \in plan.calls : CallFirstIn(t, r)
  \/ \E t \in Thread, r \in plan.calls : CallNewIn(t, r)
  \/ \E t \in Thread, r \in plan.calls : CallMagicIn(t, r)
  \/ \E t \in Thread, r \in plan.calls : CallCachedIn(t, r)
  \/ \E t \in Thread : ShuffleIn(t)
  \/ \E t \in Thread : FoundIn(t)
  \/ \E t \in Thread : Placed(t)
  \/ \E t \in Thread : UpRead(t)
  \/ \E len \in Lens : Write(len)

Spec == Init /\ [][Next]_vars

----------------------------------------------------------------------------
\* The OSDs of a sequence.
Members(osds) == ToSet(osds) \ {ITEM_NONE}

\* The bucket that holds an OSD directly.
Host(c, o) == CHOOSE b \in DOMAIN c.buckets : o \in ToSet(c.buckets[b].items)

\* Where a thread puts a placement group: on OSDs that are up, none of them
\* twice; without a pg_temp on OSDs that are in, no two of them under one
\* host, with no gap in a replicated pool and every position accounted for in
\* an erasure coded one; and unless primary_temp names another the primary is
\* one of them if there is one (ceph_calc_pg_acting(), crush_do_rule()).
ActingIsSound ==
  \A t \in Thread : job[t].pc = "placed" =>
    LET m == osdmap
        pool == m.pools[job[t].pgid[1]]
        pg == <<job[t].pgid[1], stable_mod(job[t].pgid[2], pool.pg_num, pg_mask(pool.pg_num))>>
        osds == job[t].at.osds
        primary == job[t].at.primary
    IN  /\ \A o \in Members(osds) : osd_is_up(m, o)
        /\ \A i, j \in 1..Len(osds) : i # j /\ osds[i] = osds[j] => osds[i] = ITEM_NONE
        /\ pg \notin DOMAIN m.pg_temp =>
             /\ \A o \in Members(osds) : m.weight[o] > 0
             /\ \A o, p \in Members(osds) : o # p => Host(m.crush, o) # Host(m.crush, p)
             /\ pool.type = "ec" /\ osds # <<>> => Len(osds) = pool.size
        /\ pool.type = "rep" => ITEM_NONE \notin ToSet(osds) /\ Len(osds) <= pool.size
        /\ pg \notin DOMAIN m.primary_temp =>
             IF Members(osds) = {} THEN primary = -1 ELSE primary \in Members(osds)

\* A byte of an object holds one byte of the file, and an object does not grow
\* past its size, however the file is cut into writes
\* (ceph_calc_file_object_mapping(), calc_layout()).
ExtentsTile ==
  LET at == walk.at
  IN  /\ \A i, j \in 1..Len(at) : i < j => at[i] # at[j]
      /\ \A i \in 1..Len(at) : at[i][2] < walk.layout.osize
      /\ Len(at) = walk.off \/ at = <<>>

============================================================================
