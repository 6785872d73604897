------------------------------ MODULE MapFeed ------------------------------
(***************************************************************************)
(* How the client's OSD map follows the monitors' (ceph_osdc_handle_map(), *)
(* net/ceph/osd_client.c): hist[e] is the map the monitors published as    *)
(* epoch e, osdmap the client's and rx the message it is handling under    *)
(* map_sem held to write.  A message holds the incremental maps rx.a to    *)
(* rx.b and, unless it is 0, the full map rx.full; monitors may send any   *)
(* message at any time, any number of times.                               *)
(***************************************************************************)
EXTENDS OsdMap

CONSTANTS Map,        \* the maps, with no epoch, that the cluster may have
          Recreated,  \* OSDs that may be destroyed and boot again in one epoch
          FailStages, \* where osdmap_apply_incremental() may fail
          MaxEpoch

Bits == {"EXISTS", "UP"}
IsFcn(f) == f = [k \in DOMAIN f |-> f[k]]
Fields == {"epoch", "bug", "flags", "max_osd", "state", "weight", "addr", "haff", "aff", "pools",
           "pg_temp", "primary_temp", "crush"}
IsRecord(m) == DOMAIN m = Fields /\ IsFcn(m)
IsMap(m) ==
  /\ IsRecord(m) /\ m.max_osd \in Nat /\ m.bug = FALSE /\ m.haff \in BOOLEAN
  /\ m.state \in [Osds(m) -> SUBSET Bits]
  /\ m.weight \in [Osds(m) -> 0..In] /\ m.aff \in [Osds(m) -> 0..In]
  /\ m.addr \in [Osds(m) -> Nat]
  /\ IsFcn(m.pools)
  /\ IsFcn(m.pg_temp) /\ \A pg \in DOMAIN m.pg_temp : m.pg_temp[pg] # <<>>
  /\ IsFcn(m.primary_temp) /\ \A pg \in DOMAIN m.primary_temp : m.primary_temp[pg] # -1

ASSUME FeedConstants ==
  /\ \A m \in Map : IsMap(m)
  /\ Recreated \subseteq Nat /\ FailStages \subseteq 0..10 /\ MaxEpoch \in Nat

VARIABLES hist, osdmap, rx
feedVars == <<hist, osdmap, rx>>

NoMap == [epoch |-> 0]
NoMsg == [on |-> FALSE, a |-> 1, b |-> 0, full |-> 0, got |-> FALSE]

----------------------------------------------------------------------------
(* The monitors.                                                            *)

\* An OSD gets an address when it boots.
Follows(old, new) ==
  \A o \in Osds(new) : "UP" \notin new.state[o]
                         => new.addr[o] = IF o \in Osds(old) THEN old.addr[o] ELSE 0

\* The entries of g that f does not have.
Changes(f, g) == LET S == {k \in DOMAIN g : k \in DOMAIN f => g[k] # f[k]} IN [k \in S |-> g[k]]
\* ... and a mark for those that g does not have.
Changed(f, g, mark) == Override(Changes(f, g), [k \in DOMAIN f \ DOMAIN g |-> mark])

\* An array of old as long as those of new.
Was(old, new, f, v) == [o \in Osds(new) |-> IF o \in Osds(old) THEN f[o] ELSE v]

Booted(old, new) ==
  {o \in Osds(new) : /\ "UP" \in new.state[o]
                     /\ "UP" \in Was(old, new, old.state, {})[o]
                          => new.addr[o] # Was(old, new, old.addr, 0)[o]}

\* The bits to flip once the OSDs that booted are up.  One that was down, was
\* destroyed and booted again has its destruction in them.
StateBits(old, new, o) ==
  LET state == Was(old, new, old.state, {})[o]
      booted == o \in Booted(old, new)
  IN  IF booted /\ o \in Recreated /\ state = {"EXISTS"} THEN {"EXISTS"}
      ELSE Xor(IF booted THEN state \cup {"UP"} ELSE state, new.state[o])

Affinities(old, new) ==
  [o \in Osds(new) |-> IF o \in Osds(old) THEN primary_affinity(old, o) ELSE In]

\* The incremental map from old to new.  Old monitors say "down" with an
\* empty set of bits.
Inc(old, new, empty) ==
  [epoch |-> new.epoch,
   flags |-> IF new.flags = old.flags THEN <<>> ELSE <<new.flags>>,
   max_osd |-> IF new.max_osd = old.max_osd THEN <<>> ELSE <<new.max_osd>>,
   crush |-> IF new.crush = old.crush THEN <<>> ELSE <<new.crush>>,
   new_pools |-> Changes(old.pools, new.pools),
   old_pools |-> DOMAIN old.pools \ DOMAIN new.pools,
   new_up |-> [o \in Booted(old, new) |-> new.addr[o]],
   new_state |-> [o \in {p \in Osds(new) : StateBits(old, new, p) # {}} |->
                    IF empty /\ StateBits(old, new, o) = {"UP"} THEN {} ELSE StateBits(old, new, o)],
   new_weight |-> Changes(Was(old, new, old.weight, Out), new.weight),
   new_pg_temp |-> Changed(old.pg_temp, new.pg_temp, <<>>),
   new_primary_temp |-> Changed(old.primary_temp, new.primary_temp, -1),
   new_affinity |-> Changes(Affinities(old, new), Affinities(new, new))]

Publish(new) ==
  /\ Len(hist) < MaxEpoch
  /\ Follows(hist[Len(hist)], new)
  /\ hist' = Append(hist, [new EXCEPT !.epoch = Len(hist) + 1])
  /\ UNCHANGED <<osdmap, rx>>

----------------------------------------------------------------------------
(* The client.                                                              *)

HandleMap(a, b, full) ==
  /\ ~rx.on
  /\ b <= Len(hist) /\ full <= Len(hist)
  /\ rx' = [on |-> TRUE, a |-> a, b |-> b, full |-> full, got |-> FALSE]
  /\ UNCHANGED <<hist, osdmap>>

Applicable == rx.on /\ rx.a <= rx.b /\ osdmap # NoMap /\ osdmap.epoch + 1 = rx.a

HandleInc(empty) ==
  /\ Applicable
  /\ osdmap' = osdmap_apply_incremental(osdmap, Inc(hist[rx.a - 1], hist[rx.a], empty))
  /\ rx' = [rx EXCEPT !.a = @ + 1, !.got = TRUE]
  /\ UNCHANGED hist

\* An incremental map that has a full map inside.
HandleIncFull ==
  /\ Applicable
  /\ osdmap' = hist[rx.a]
  /\ rx' = [rx EXCEPT !.a = @ + 1, !.got = TRUE]
  /\ UNCHANGED hist

IgnoreInc ==
  /\ rx.on /\ rx.a <= rx.b /\ ~Applicable
  /\ rx' = [rx EXCEPT !.a = @ + 1]
  /\ UNCHANGED <<hist, osdmap>>

\* An error: the rest of the message is dropped.
IncFails(k) ==
  /\ Applicable
  /\ osdmap' = IF k = 0 THEN osdmap
               ELSE Applied(osdmap, Inc(hist[rx.a - 1], hist[rx.a], FALSE))[k]
  /\ rx' = NoMsg
  /\ UNCHANGED hist

HandleFull ==
  /\ rx.on /\ rx.a > rx.b
  /\ ~rx.got /\ rx.full # 0 /\ osdmap.epoch < rx.full
  /\ osdmap' = hist[rx.full]
  /\ rx' = NoMsg
  /\ UNCHANGED hist

\* ceph_osdmap_decode() fails.
FullFails ==
  /\ rx.on /\ rx.a > rx.b
  /\ ~rx.got /\ rx.full # 0 /\ osdmap.epoch < rx.full
  /\ rx' = NoMsg
  /\ UNCHANGED <<hist, osdmap>>

HandleDone ==
  /\ rx.on /\ rx.a > rx.b
  /\ rx.got \/ rx.full = 0 \/ osdmap.epoch >= rx.full
  /\ rx' = NoMsg
  /\ UNCHANGED <<hist, osdmap>>

FeedInit == /\ \E m \in Map : hist = <<[m EXCEPT !.epoch = 1]>>
            /\ osdmap = NoMap /\ rx = NoMsg

FeedNext ==
  \/ \E new \in Map : Publish(new)
  \/ \E a \in 2..MaxEpoch, b \in 1..MaxEpoch, full \in 0..MaxEpoch : HandleMap(a, b, full)
  \/ \E empty \in BOOLEAN : HandleInc(empty)
  \/ HandleIncFull
  \/ IgnoreInc
  \/ \E k \in FailStages : IncFails(k)
  \/ HandleFull
  \/ FullFails
  \/ HandleDone

FeedSpec == FeedInit /\ [][FeedNext]_feedVars

----------------------------------------------------------------------------
SameMap(m, n) ==
  /\ m.bug = FALSE
  /\ m.epoch = n.epoch /\ m.flags = n.flags /\ m.max_osd = n.max_osd
  /\ m.crush = n.crush /\ m.pools = n.pools
  /\ m.state = n.state /\ m.weight = n.weight /\ m.addr = n.addr
  /\ m.pg_temp = n.pg_temp /\ m.primary_temp = n.primary_temp
  /\ \A o \in Osds(n) : primary_affinity(m, o) = primary_affinity(n, o)

\* The client's map of an epoch is the monitors' map of that epoch, whatever
\* it was put together from: full and incremental maps that arrive repeatedly,
\* overlapping or late (ceph_osdc_handle_map(), osdmap_apply_incremental()).
MapIsTrue == osdmap # NoMap => SameMap(osdmap, hist[osdmap.epoch])

============================================================================
