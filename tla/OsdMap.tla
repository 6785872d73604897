------------------------------- MODULE OsdMap -------------------------------
(***************************************************************************)
(* The OSD map (net/ceph/osdmap.c): how an incremental map changes it, how *)
(* a file offset is placed on an object, an object on a placement group    *)
(* and, once CRUSH has chosen, a placement group on OSDs.                  *)
(* A map m holds epoch, flags, max_osd, the arrays state, weight, addr     *)
(* (indexed 0..max_osd-1) and aff (osd_primary_affinity, of use when       *)
(* haff), the pools, pg_temp, primary_temp, crush, and bug: a BUG_ON       *)
(* fired.  pool_max, which nothing reads, is left out.                     *)
(***************************************************************************)
EXTENDS Integers, Sequences

CONSTANTS U32,      \* the number of values of a u32
          Page,     \* PAGE_SIZE
          In        \* 0x10000: CEPH_OSD_IN, the default and maximal affinity

ITEM_NONE == 2147483647
Out == 0                        \* CEPH_OSD_OUT

ASSUME MapConstants == U32 \in Nat \ {0} /\ Page \in Nat \ {0} /\ In \in Nat \ {0}

----------------------------------------------------------------------------
(* Placement of data.                                                       *)

\* calc_bits_of() and calc_pg_masks(); a mask has one bit less than U32.
calc_bits_of(t) == CHOOSE b \in 0..31 : t < 2^b /\ (b > 0 => 2^(b - 1) <= t)
pg_mask(n) == 2^calc_bits_of(n - 1) - 1

\* ceph_stable_mod(); x & (2^n - 1) is x % 2^n
stable_mod(x, b, bmask) ==
  IF x % (bmask + 1) < b THEN x % (bmask + 1) ELSE x % ((bmask \div 2) + 1)

\* The layout l: stripe unit su, stripe count sc, object size osize.
su_per_object(l) == l.osize \div l.su
ValidLayout(l) == l.su > 0 /\ l.sc > 0 /\ su_per_object(l) > 0 /\ l.su % Page = 0

\* Mutant: the offset of the stripe unit in its object is left out.
file_object_mapping_first(l, off, len) ==
  LET bl == (off \div l.su) % U32
      objsetno == (bl \div l.sc) \div su_per_object(l)
  IN  [ono |-> (objsetno * l.sc + (bl % l.sc)) % U32,
       oxoff |-> off % l.su,
       oxlen |-> IF len < l.su - (off % l.su) THEN len ELSE l.su - (off % l.su)]

\* ceph_calc_file_object_mapping() of a valid layout; the block, stripe,
\* object set and object numbers are u32.
file_object_mapping(l, off, len) ==
  LET bl == (off \div l.su) % U32
      stripeno == bl \div l.sc
      stripepos == bl % l.sc
      objsetno == stripeno \div su_per_object(l)
      su_offset == off % l.su
  IN  [ono |-> (objsetno * l.sc + stripepos) % U32,
       oxoff |-> su_offset + (stripeno % su_per_object(l)) * l.su,
       oxlen |-> IF len < l.su - su_offset THEN len ELSE l.su - su_offset]

----------------------------------------------------------------------------
(* OSDs.                                                                    *)

Osds(m) == 0..(m.max_osd - 1)
osd_is_up(m, o) == o \in Osds(m) /\ {"EXISTS", "UP"} \subseteq m.state[o]
primary_affinity(m, o) == IF m.haff THEN m.aff[o] ELSE In

\* pg_to_up_acting of a replicated pool closes the gaps (ceph_can_shift_osds)
can_shift(pool) == pool.type = "rep"

\* The first position of osds that holds a member of S, or 0.
FirstIn(osds, S) ==
  LET P == {i \in 1..Len(osds) : osds[i] \in S}
  IN  IF P = {} THEN 0 ELSE CHOOSE i \in P : \A j \in P : i <= j

\* raw_to_up_osds(): the up set and its primary
raw_to_up_osds(m, pool, raw) ==
  LET up(o) == osd_is_up(m, o)
      osds == IF can_shift(pool) THEN SelectSeq(raw, up)
              ELSE [i \in 1..Len(raw) |-> IF up(raw[i]) THEN raw[i] ELSE ITEM_NONE]
      i == FirstIn(osds, Osds(m))
  IN  [osds |-> osds, primary |-> IF i = 0 THEN -1 ELSE osds[i]]

\* apply_primary_affinity(); draw[o] is the hash of the pg's seed and o
apply_primary_affinity(m, pool, u, draw) ==
  LET affine == {o \in Osds(m) : primary_affinity(m, o) # In}
      rejects == {o \in affine : primary_affinity(m, o) < In /\ draw[o] >= primary_affinity(m, o)}
      first == FirstIn(u.osds, Osds(m) \ rejects)
      pos == IF first # 0 THEN first ELSE FirstIn(u.osds, Osds(m))
      front == <<u.osds[pos]>> \o SubSeq(u.osds, 1, pos - 1)
                 \o SubSeq(u.osds, pos + 1, Len(u.osds))
  IN  IF ~m.haff \/ FirstIn(u.osds, affine) = 0 THEN u
      ELSE [osds |-> IF can_shift(pool) THEN front ELSE u.osds, primary |-> u.osds[pos]]

\* apply_temps() for the placement group pgid = <<pool, seed>>
apply_temps(m, pool, pgid, u) ==
  LET pg == <<pgid[1], stable_mod(pgid[2], pool.pg_num, pg_mask(pool.pg_num))>>
      temp == IF pg \in DOMAIN m.pg_temp THEN raw_to_up_osds(m, pool, m.pg_temp[pg]) ELSE u
  IN  [temp EXCEPT !.primary = IF pg \in DOMAIN m.primary_temp THEN m.primary_temp[pg] ELSE @]

----------------------------------------------------------------------------
(* Incremental maps.  inc: flags, max_osd and crush are <<>> or <<value>>; *)
(* new_pools, new_up (addresses), new_state, new_weight, new_pg_temp,      *)
(* new_primary_temp and new_affinity are functions of what they change;    *)
(* old_pools is a set.                                                     *)

Override(f, g) == [k \in DOMAIN f \cup DOMAIN g |-> IF k \in DOMAIN g THEN g[k] ELSE f[k]]
Without(f, S) == [k \in DOMAIN f \ S |-> f[k]]
Xor(A, B) == (A \ B) \cup (B \ A)

\* osdmap_set_max_osd()
set_max_osd(m, max) ==
  LET Grown(f, v) == [o \in 0..(max - 1) |-> IF o \in Osds(m) THEN f[o] ELSE v]
  IN  [m EXCEPT !.max_osd = max, !.state = Grown(@, {}), !.weight = Grown(@, Out),
                !.addr = Grown(@, 0), !.aff = IF m.haff THEN Grown(@, In) ELSE @]

IncFlags(m, inc) == [m EXCEPT !.flags = IF inc.flags = <<>> THEN @ ELSE inc.flags[1]]

IncMax(m, inc) == IF inc.max_osd = <<>> THEN m ELSE set_max_osd(m, inc.max_osd[1])

IncEpoch(m, inc) ==
  [m EXCEPT !.epoch = @ + 1, !.crush = IF inc.crush = <<>> THEN @ ELSE inc.crush[1]]

\* decode_new_pools() and the old pools
IncPools(m, inc) == [m EXCEPT !.pools = Without(Override(@, inc.new_pools), inc.old_pools)]

IncUp(m, inc) ==
  LET up == DOMAIN inc.new_up
  IN  [m EXCEPT !.state = [o \in Osds(m) |-> IF o \in up THEN @[o] \cup {"UP"} ELSE @[o]],
                !.addr = [o \in Osds(m) |-> IF o \in up THEN inc.new_up[o] ELSE @[o]],
                !.bug = @ \/ ~(up \subseteq Osds(m))]

\* Mutant: the bits are set, not flipped.
IncStateSet(m, inc) ==
  [m EXCEPT !.state = [o \in Osds(m) |-> IF o \in DOMAIN inc.new_state
                                         THEN @[o] \cup inc.new_state[o] ELSE @[o]]]

\* An empty xorstate stands for CEPH_OSD_UP.
IncState(m, inc) ==
  LET xorstate(o) == IF inc.new_state[o] = {} THEN {"UP"} ELSE inc.new_state[o]
  IN  [m EXCEPT !.state = [o \in Osds(m) |-> IF o \in DOMAIN inc.new_state
                                             THEN Xor(@[o], xorstate(o)) ELSE @[o]]]

IncWeight(m, inc) ==
  [m EXCEPT !.weight = [o \in Osds(m) |-> IF o \in DOMAIN inc.new_weight
                                          THEN inc.new_weight[o] ELSE @[o]]]

\* decode_new_pg_temp(): an empty list removes the mapping
IncPgTemp(m, inc) ==
  LET gone == {pg \in DOMAIN inc.new_pg_temp : inc.new_pg_temp[pg] = <<>>}
  IN  [m EXCEPT !.pg_temp = Without(Override(@, inc.new_pg_temp), gone)]

\* decode_new_primary_temp(): -1 removes the mapping
IncPrimaryTemp(m, inc) ==
  LET gone == {pg \in DOMAIN inc.new_primary_temp : inc.new_primary_temp[pg] = -1}
  IN  [m EXCEPT !.primary_temp = Without(Override(@, inc.new_primary_temp), gone)]

\* decode_new_primary_affinity(), set_primary_affinity(): the array comes to
\* be with the first affinity that is set.
IncAffinity(m, inc) ==
  LET new == DOMAIN inc.new_affinity
  IN  IF new = {} THEN m
      ELSE [m EXCEPT !.haff = TRUE,
                     !.aff = [o \in Osds(m) |-> IF o \in new THEN inc.new_affinity[o]
                                                ELSE primary_affinity(m, o)],
                     !.bug = @ \/ ~(new \subseteq Osds(m))]

\* The maps osdmap_apply_incremental() goes through: an error returns with the
\* one it got to.
Applied(m, inc) ==
  LET m0 == IncFlags([m EXCEPT !.bug = @ \/ inc.epoch # m.epoch + 1], inc)
      m1 == IncMax(m0, inc)
      m2 == IncEpoch(m1, inc)
      m3 == IncPools(m2, inc)
      m4 == IncUp(m3, inc)
      m5 == IncState(m4, inc)
      m6 == IncWeight(m5, inc)
      m7 == IncPgTemp(m6, inc)
      m8 == IncPrimaryTemp(m7, inc)
      m9 == IncAffinity(m8, inc)
  IN  <<m0, m1, m2, m3, m4, m5, m6, m7, m8, m9>>

osdmap_apply_incremental(m, inc) == Applied(m, inc)[10]

=============================================================================
