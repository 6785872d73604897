----------------------------- MODULE MapProofs -----------------------------
(***************************************************************************)
(* The client's map is the monitors', for any maps and any messages, and    *)
(* what the placement functions promise for every layout and pool.          *)
(***************************************************************************)
EXTENDS MapFeed, TLAPS

----------------------------------------------------------------------------
(* What an incremental map carries brings the old value to the new one.     *)

\* Applying the changed entries and then dropping the removed ones.
LEMMA ChangesApplied ==
  ASSUME NEW f, NEW g, IsFcn(f), IsFcn(g)
  PROVE  Without(Override(f, Changes(f, g)), DOMAIN f \ DOMAIN g) = g
  BY DEF IsFcn, Without, Override, Changes

\* The same when a mark stands for a removed entry, for values that are not
\* the mark.
LEMMA ChangedApplied ==
  ASSUME NEW f, NEW g, NEW mark, IsFcn(f), IsFcn(g), \A k \in DOMAIN g : g[k] # mark,
         NEW c, c = Changed(f, g, mark)
  PROVE  Without(Override(f, c), {k \in DOMAIN c : c[k] = mark}) = g
  <1> DEFINE gone == {k \in DOMAIN c : c[k] = mark}
             S == {k \in DOMAIN g : k \in DOMAIN f => g[k] # f[k]}
  <1>1. DOMAIN c = S \cup (DOMAIN f \ DOMAIN g)
    BY DEF Changed, Changes, Override
  <1>2. \A k \in S : c[k] = g[k]
    BY DEF Changed, Changes, Override
  <1>3. \A k \in DOMAIN f \ DOMAIN g : c[k] = mark
    BY DEF Changed, Changes, Override
  <1>4. gone = DOMAIN f \ DOMAIN g
    BY <1>1, <1>2, <1>3
  <1> HIDE DEF gone
  <1>5. Without(Override(f, c), gone) = g
    BY <1>1, <1>2, <1>4 DEF Without, Override, IsFcn
  <1> QED  BY <1>5 DEF gone

\* An array whose changed entries are replaced.
LEMMA EntriesApplied ==
  ASSUME NEW S, NEW f, NEW g, DOMAIN f = S, DOMAIN g = S, IsFcn(g)
  PROVE  [o \in S |-> IF o \in DOMAIN Changes(f, g) THEN Changes(f, g)[o] ELSE f[o]] = g
  BY DEF Changes, IsFcn

----------------------------------------------------------------------------
(* The stages of osdmap_apply_incremental().                                *)

\* IncMax() gives the arrays the length of the new map's.
LEMMA IncMaxIs ==
  ASSUME NEW m, IsRecord(m), m.haff \in BOOLEAN, NEW new, NEW inc,
         inc.max_osd = IF new.max_osd = m.max_osd THEN <<>> ELSE <<new.max_osd>>,
         m.max_osd \in Nat, new.max_osd \in Nat,
         DOMAIN m.state = Osds(m), DOMAIN m.weight = Osds(m), DOMAIN m.addr = Osds(m),
         IsFcn(m.state), IsFcn(m.weight), IsFcn(m.addr)
  PROVE  LET m1 == IncMax(m, inc)
         IN  /\ IsRecord(m1) /\ m1.max_osd = new.max_osd
             /\ m1.state = Was(m, new, m.state, {}) /\ m1.weight = Was(m, new, m.weight, Out)
             /\ m1.addr = Was(m, new, m.addr, 0)
             /\ m1.haff = m.haff
             /\ \A o \in Osds(new) :
                  primary_affinity(m1, o) = IF o \in Osds(m) THEN primary_affinity(m, o) ELSE In
             /\ m1.epoch = m.epoch /\ m1.bug = m.bug /\ m1.pools = m.pools /\ m1.crush = m.crush
             /\ m1.pg_temp = m.pg_temp /\ m1.primary_temp = m.primary_temp /\ m1.flags = m.flags
  <1> DEFINE m1 == IncMax(m, inc)
  <1>1. CASE new.max_osd = m.max_osd
    <2>1. m1 = m
      BY <1>1 DEF IncMax
    <2>2. Osds(new) = Osds(m)
      BY <1>1 DEF Osds
    <2>3. /\ m.state = Was(m, new, m.state, {}) /\ m.weight = Was(m, new, m.weight, Out)
          /\ m.addr = Was(m, new, m.addr, 0)
      BY <2>2 DEF Was, IsFcn
    <2> QED  BY <1>1, <2>1, <2>2, <2>3
  <1>2. CASE new.max_osd # m.max_osd
    <2>1. inc.max_osd # <<>> /\ inc.max_osd[1] = new.max_osd
      BY <1>2
    <2> DEFINE st == [o \in 0..(new.max_osd - 1) |-> IF o \in Osds(m) THEN m.state[o] ELSE {}]
               w == [o \in 0..(new.max_osd - 1) |-> IF o \in Osds(m) THEN m.weight[o] ELSE Out]
               ad == [o \in 0..(new.max_osd - 1) |-> IF o \in Osds(m) THEN m.addr[o] ELSE 0]
               gr == [o \in 0..(new.max_osd - 1) |-> IF o \in Osds(m) THEN m.aff[o] ELSE In]
               af == IF m.haff THEN gr ELSE m.aff
    <2>2. m1 = [m EXCEPT !.max_osd = new.max_osd, !.state = st, !.weight = w, !.addr = ad,
                         !.aff = af]
      BY <2>1 DEF IncMax, set_max_osd
    <2>3. st = Was(m, new, m.state, {}) /\ w = Was(m, new, m.weight, Out)
          /\ ad = Was(m, new, m.addr, 0)
      BY DEF Was, Osds
    <2>4. \A o \in Osds(new) : gr[o] = IF o \in Osds(m) THEN m.aff[o] ELSE In
      BY DEF Osds
    <2>5. m.haff => af = gr
      OBVIOUS
    <2> HIDE DEF st, w, ad, gr, af, m1
    <2>d. DOMAIN m1 = Fields /\ DOMAIN m = Fields
      BY <2>2 DEF IsRecord
    <2>a. /\ m1.max_osd = new.max_osd
          /\ m1.state = st /\ m1.weight = w /\ m1.addr = ad /\ m1.aff = af
      BY <2>2, <2>d DEF Fields
    <2>b. /\ m1.haff = m.haff /\ m1.epoch = m.epoch /\ m1.bug = m.bug /\ m1.pools = m.pools
          /\ m1.crush = m.crush /\ m1.pg_temp = m.pg_temp
          /\ m1.primary_temp = m.primary_temp /\ m1.flags = m.flags
      BY <2>2, <2>d DEF Fields
    <2>c. IsRecord(m1)
      BY <2>2, <2>d DEF IsRecord, IsFcn
    <2>6. /\ IsRecord(m1) /\ m1.max_osd = new.max_osd
          /\ m1.state = st /\ m1.weight = w /\ m1.addr = ad /\ m1.aff = af /\ m1.haff = m.haff
          /\ m1.epoch = m.epoch /\ m1.bug = m.bug /\ m1.pools = m.pools /\ m1.crush = m.crush
          /\ m1.pg_temp = m.pg_temp /\ m1.primary_temp = m.primary_temp /\ m1.flags = m.flags
      BY <2>a, <2>b, <2>c
    <2>7. \A o \in Osds(new) :
            primary_affinity(m1, o) = IF o \in Osds(m) THEN primary_affinity(m, o) ELSE In
      BY <2>4, <2>5, <2>6 DEF primary_affinity
    <2> QED  BY <2>3, <2>6, <2>7 DEF m1
  <1> QED  BY <1>1, <1>2

\* IncEpoch() and IncPools()
LEMMA IncPoolsIs ==
  ASSUME NEW m, IsRecord(m), NEW inc
  PROVE  LET m3 == IncPools(IncEpoch(m, inc), inc)
         IN  /\ IsRecord(m3)
             /\ m3.epoch = m.epoch + 1
             /\ m3.crush = IF inc.crush = <<>> THEN m.crush ELSE inc.crush[1]
             /\ m3.pools = Without(Override(m.pools, inc.new_pools), inc.old_pools)
             /\ m3.max_osd = m.max_osd /\ m3.state = m.state /\ m3.weight = m.weight
             /\ m3.addr = m.addr /\ m3.haff = m.haff /\ m3.aff = m.aff /\ m3.bug = m.bug
             /\ m3.pg_temp = m.pg_temp /\ m3.primary_temp = m.primary_temp /\ m3.flags = m.flags
  BY DEF IncPools, IncEpoch, IsRecord, Fields, IsFcn

Sound(m) == IsRecord(m) /\ m.bug = FALSE /\ m.haff \in BOOLEAN

\* m5 is m with the states and addresses of new.
StateStep(m, m5, new) ==
  /\ IsRecord(m5) /\ m5.state = new.state /\ m5.addr = new.addr /\ m5.bug = m.bug
  /\ m5.max_osd = m.max_osd /\ m5.epoch = m.epoch /\ m5.weight = m.weight
  /\ m5.haff = m.haff /\ m5.aff = m.aff /\ m5.pools = m.pools /\ m5.crush = m.crush
  /\ m5.pg_temp = m.pg_temp /\ m5.primary_temp = m.primary_temp /\ m5.flags = m.flags

\* The affinities of m are those of old, as many as new has.
OldAffinities(m, old, new) ==
  \A o \in Osds(new) : primary_affinity(m, o) = Affinities(old, new)[o]

\* m9 is m with the affinities of new.
AffinityStep(m, m9, new) ==
  /\ Sound(m9)
  /\ \A o \in Osds(new) : primary_affinity(m9, o) = primary_affinity(new, o)
  /\ m9.max_osd = m.max_osd /\ m9.epoch = m.epoch /\ m9.state = m.state
  /\ m9.addr = m.addr /\ m9.weight = m.weight /\ m9.pools = m.pools
  /\ m9.crush = m.crush /\ m9.pg_temp = m.pg_temp
          /\ m9.primary_temp = m.primary_temp /\ m9.flags = m.flags

\* IncUp() and IncState(): the states and the addresses are the new map's.
LEMMA IncStateIs ==
  ASSUME NEW m, NEW old, NEW new, NEW empty \in BOOLEAN, NEW inc, inc = Inc(old, new, empty),
         Sound(m), Osds(m) = Osds(new), Follows(old, new), Recreated = {},
         IsMap(old), IsMap(new),
         m.state = Was(old, new, old.state, {}), m.addr = Was(old, new, old.addr, 0),
         NEW m5, m5 = IncState(IncUp(m, inc), inc)
  PROVE  StateStep(m, m5, new)
  <1> USE DEF Sound
  <1> DEFINE up == Booted(old, new)
             bits(o) == StateBits(old, new, o)
             st == [o \in Osds(m) |-> IF o \in up THEN m.state[o] \cup {"UP"} ELSE m.state[o]]
             ad == [o \in Osds(m) |-> IF o \in up THEN inc.new_up[o] ELSE m.addr[o]]
             xs(o) == IF inc.new_state[o] = {} THEN {"UP"} ELSE inc.new_state[o]
             st2 == [o \in Osds(m) |-> IF o \in DOMAIN inc.new_state THEN Xor(st[o], xs(o))
                                       ELSE st[o]]
             m4 == IncUp(m, inc)
  <1>a. /\ inc.new_up = [o \in Booted(old, new) |-> new.addr[o]]
        /\ inc.new_state = [o \in {p \in Osds(new) : StateBits(old, new, p) # {}} |->
                              IF empty /\ StateBits(old, new, o) = {"UP"} THEN {}
                              ELSE StateBits(old, new, o)]
    BY DEF Inc
  <1>b. /\ old.state \in [Osds(old) -> SUBSET Bits] /\ new.state \in [Osds(new) -> SUBSET Bits]
        /\ new.addr \in [Osds(new) -> Nat]
    BY DEF IsMap
  <1>1. DOMAIN inc.new_up = up /\ up \subseteq Osds(m)
    BY <1>a DEF Booted
  <1>2. m4 = [m EXCEPT !.state = st, !.addr = ad, !.bug = m.bug \/ ~(up \subseteq Osds(m))]
    BY <1>1 DEF IncUp
  <1>3. \A o \in Osds(m) : bits(o) = Xor(st[o], new.state[o])
    BY DEF StateBits
  <1>4. DOMAIN inc.new_state = {o \in Osds(new) : bits(o) # {}}
    BY <1>a
  <1>5. \A o \in DOMAIN inc.new_state : xs(o) = bits(o)
    BY <1>a, <1>4
  <1>6. \A o \in Osds(m) : st[o] \in SUBSET Bits
    BY <1>b DEF Was, Bits
  <1> HIDE DEF bits, xs, st, up
  <1>7. \A o \in Osds(m) : st2[o] = new.state[o]
    <2> SUFFICES ASSUME NEW o \in Osds(m)  PROVE st2[o] = new.state[o]
      OBVIOUS
    <2>1. CASE bits(o) = {}
      <3>1. st2[o] = st[o]
        BY <1>4, <2>1
      <3>2. Xor(st[o], new.state[o]) = {}
        BY <1>3, <2>1
      <3> QED  BY <3>1, <3>2 DEF Xor
    <2>2. CASE bits(o) # {}
      <3>1. st2[o] = Xor(st[o], Xor(st[o], new.state[o]))
        BY <1>3, <1>4, <1>5, <2>2
      <3> QED  BY <3>1 DEF Xor
    <2> QED  BY <2>1, <2>2
  <1>8. st2 = new.state
    BY <1>b, <1>7
  <1>9. ad = new.addr
    <2>1. ASSUME NEW o \in Osds(m)  PROVE ad[o] = new.addr[o]
      <3>1. CASE o \in up
        BY <1>a, <3>1 DEF up
      <3>2. CASE o \notin up
        <4>1. ad[o] = Was(old, new, old.addr, 0)[o]
          BY <3>2
        <4>2. "UP" \notin new.state[o] \/ new.addr[o] = Was(old, new, old.addr, 0)[o]
          BY <3>2 DEF up, Booted
        <4>3. "UP" \in new.state[o] \/ new.addr[o] = Was(old, new, old.addr, 0)[o]
          BY DEF Follows, Was
        <4> QED  BY <4>1, <4>2, <4>3
      <3> QED  BY <3>1, <3>2
    <2> QED  BY <1>b, <2>1
  <1> HIDE DEF ad
  <1>10. /\ IsRecord(m4) /\ m4.state = st /\ m4.addr = ad /\ m4.bug = m.bug
         /\ m4.max_osd = m.max_osd /\ m4.epoch = m.epoch /\ m4.weight = m.weight
         /\ m4.haff = m.haff /\ m4.aff = m.aff /\ m4.pools = m.pools /\ m4.crush = m.crush
         /\ m4.pg_temp = m.pg_temp /\ m4.primary_temp = m.primary_temp /\ m4.flags = m.flags
    <2> HIDE DEF m4
    <2>1. DOMAIN m4 = Fields /\ IsFcn(m4) /\ m4.bug = (m.bug \/ ~(up \subseteq Osds(m)))
      BY <1>2 DEF IsRecord, Fields, IsFcn
    <2> QED  BY <1>1, <1>2, <2>1 DEF IsRecord, Fields, IsFcn
  <1>11. Osds(m4) = Osds(m)
    BY <1>10 DEF Osds
  <1>12. m5 = [m4 EXCEPT !.state = st2]
    <2>1. m5 = IncState(m4, inc)
      OBVIOUS
    <2> HIDE DEF m4
    <2> QED  BY <1>10, <1>11, <2>1 DEF IncState, xs
  <1> HIDE DEF m4, st2
  <1>13. /\ IsRecord(m5) /\ m5.state = st2 /\ m5.addr = m4.addr /\ m5.bug = m4.bug
         /\ m5.max_osd = m4.max_osd /\ m5.epoch = m4.epoch /\ m5.weight = m4.weight
         /\ m5.haff = m4.haff /\ m5.aff = m4.aff /\ m5.pools = m4.pools /\ m5.crush = m4.crush
         /\ m5.pg_temp = m4.pg_temp /\ m5.primary_temp = m4.primary_temp /\ m5.flags = m4.flags
    BY <1>10, <1>12 DEF IsRecord, Fields, IsFcn
  <1> QED  BY <1>8, <1>9, <1>10, <1>13 DEF StateStep

\* IncWeight(), IncPgTemp() and IncPrimaryTemp()
LEMMA IncTempIs ==
  ASSUME NEW m, IsRecord(m), NEW inc
  PROVE  LET m8 == IncPrimaryTemp(IncPgTemp(IncWeight(m, inc), inc), inc)
         IN  /\ IsRecord(m8)
             /\ m8.weight = [o \in Osds(m) |-> IF o \in DOMAIN inc.new_weight
                                               THEN inc.new_weight[o] ELSE m.weight[o]]
             /\ m8.pg_temp = Without(Override(m.pg_temp, inc.new_pg_temp),
                                     {pg \in DOMAIN inc.new_pg_temp : inc.new_pg_temp[pg] = <<>>})
             /\ m8.primary_temp =
                  Without(Override(m.primary_temp, inc.new_primary_temp),
                          {pg \in DOMAIN inc.new_primary_temp : inc.new_primary_temp[pg] = -1})
             /\ m8.max_osd = m.max_osd /\ m8.epoch = m.epoch /\ m8.state = m.state
             /\ m8.addr = m.addr /\ m8.haff = m.haff /\ m8.aff = m.aff /\ m8.pools = m.pools
             /\ m8.crush = m.crush /\ m8.bug = m.bug /\ m8.flags = m.flags
  BY DEF IncPrimaryTemp, IncPgTemp, IncWeight, IsRecord, Fields, IsFcn

\* IncAffinity(): the affinities are the new map's.
LEMMA IncAffinityIs ==
  ASSUME NEW m, NEW old, NEW new, NEW empty \in BOOLEAN, NEW inc, inc = Inc(old, new, empty),
         Sound(m), Osds(m) = Osds(new), OldAffinities(m, old, new),
         NEW m9, m9 = IncAffinity(m, inc)
  PROVE  AffinityStep(m, m9, new)
  <1> USE DEF Sound, OldAffinities
  <1> DEFINE set == DOMAIN inc.new_affinity
             af == [o \in Osds(m) |-> IF o \in set THEN inc.new_affinity[o]
                                      ELSE primary_affinity(m, o)]
  <1>a. inc.new_affinity = Changes(Affinities(old, new), Affinities(new, new))
    BY DEF Inc
  <1>1. /\ set = {o \in Osds(new) : primary_affinity(new, o) # Affinities(old, new)[o]}
        /\ \A o \in set : inc.new_affinity[o] = primary_affinity(new, o)
    BY <1>a DEF Changes, Affinities
  <1>2. \A o \in Osds(new) : af[o] = primary_affinity(new, o)
    BY <1>1
  <1>3. CASE set = {}
    <2>1. m9 = m
      BY <1>3 DEF IncAffinity
    <2>2. \A o \in Osds(new) : primary_affinity(m, o) = primary_affinity(new, o)
      BY <1>1, <1>3
    <2> QED  BY <2>1, <2>2 DEF AffinityStep
  <1>4. CASE set # {}
    <2>1. m9 = [m EXCEPT !.haff = TRUE, !.aff = af, !.bug = m.bug \/ ~(set \subseteq Osds(m))]
      BY <1>4 DEF IncAffinity
    <2>2. set \subseteq Osds(m)
      BY <1>1
    <2> HIDE DEF af, set
    <2>3. /\ IsRecord(m9) /\ m9.haff = TRUE /\ m9.aff = af
          /\ m9.bug = (m.bug \/ ~(set \subseteq Osds(m)))
          /\ m9.max_osd = m.max_osd /\ m9.epoch = m.epoch /\ m9.state = m.state
          /\ m9.addr = m.addr /\ m9.weight = m.weight /\ m9.pools = m.pools
          /\ m9.crush = m.crush /\ m9.pg_temp = m.pg_temp
          /\ m9.primary_temp = m.primary_temp /\ m9.flags = m.flags
      BY <2>1 DEF IsRecord, Fields, IsFcn
    <2>4. m9.bug = FALSE
      BY <2>2, <2>3
    <2>5. \A o \in Osds(new) : primary_affinity(m9, o) = primary_affinity(new, o)
      BY <1>2, <2>3 DEF primary_affinity
    <2> QED  BY <2>3, <2>4, <2>5 DEF AffinityStep
  <1> QED  BY <1>3, <1>4

\* An incremental map takes the client's copy of a map to a copy of the next.
LEMMA ApplyIsNew ==
  ASSUME NEW m, NEW old, NEW new, NEW empty \in BOOLEAN, Recreated = {},
         Sound(m), SameMap(m, old),
         IsMap(old), IsMap(new), Follows(old, new), old.epoch \in Nat, new.epoch = old.epoch + 1
  PROVE  LET m9 == osdmap_apply_incremental(m, Inc(old, new, empty))
         IN  Sound(m9) /\ SameMap(m9, new)
  <1>s. IsRecord(m) /\ m.bug = FALSE /\ m.haff \in BOOLEAN
    BY DEF Sound
  <1> DEFINE inc == Inc(old, new, empty)
             mb == [m EXCEPT !.bug = m.bug \/ inc.epoch # m.epoch + 1]
             m0 == IncFlags(mb, inc)
             m1 == IncMax(m0, inc)
             m3 == IncPools(IncEpoch(m1, inc), inc)
             m5 == IncState(IncUp(m3, inc), inc)
             m8 == IncPrimaryTemp(IncPgTemp(IncWeight(m5, inc), inc), inc)
             m9 == IncAffinity(m8, inc)
  <1>0. osdmap_apply_incremental(m, inc) = m9
    BY DEF osdmap_apply_incremental, Applied
  <1>1. /\ inc.epoch = new.epoch
        /\ inc.flags = IF new.flags = old.flags THEN <<>> ELSE <<new.flags>>
        /\ inc.max_osd = IF new.max_osd = old.max_osd THEN <<>> ELSE <<new.max_osd>>
        /\ inc.crush = IF new.crush = old.crush THEN <<>> ELSE <<new.crush>>
        /\ inc.new_pools = Changes(old.pools, new.pools)
        /\ inc.old_pools = DOMAIN old.pools \ DOMAIN new.pools
        /\ inc.new_up = [o \in Booted(old, new) |-> new.addr[o]]
        /\ inc.new_state = [o \in {p \in Osds(new) : StateBits(old, new, p) # {}} |->
                              IF empty /\ StateBits(old, new, o) = {"UP"} THEN {}
                              ELSE StateBits(old, new, o)]
        /\ inc.new_weight = Changes(Was(old, new, old.weight, Out), new.weight)
        /\ inc.new_pg_temp = Changed(old.pg_temp, new.pg_temp, <<>>)
        /\ inc.new_primary_temp = Changed(old.primary_temp, new.primary_temp, -1)
        /\ inc.new_affinity = Changes(Affinities(old, new), Affinities(new, new))
    BY DEF Inc
  <1>inc. inc = Inc(old, new, empty)
    OBVIOUS
  <1> HIDE DEF inc
  <1>2. /\ IsRecord(m0) /\ m0.bug = FALSE /\ m0.haff = m.haff /\ m0.aff = m.aff
        /\ m0.epoch = old.epoch /\ m0.max_osd = old.max_osd /\ m0.crush = old.crush
        /\ m0.pools = old.pools /\ m0.state = old.state /\ m0.weight = old.weight
        /\ m0.addr = old.addr /\ m0.pg_temp = old.pg_temp
        /\ m0.primary_temp = old.primary_temp /\ m0.flags = new.flags
    <2>1. (m.bug \/ inc.epoch # m.epoch + 1) = FALSE
      BY <1>1 DEF SameMap
    <2>2. /\ IsRecord(mb) /\ mb.bug = FALSE /\ mb.haff = m.haff /\ mb.aff = m.aff
          /\ mb.epoch = old.epoch /\ mb.max_osd = old.max_osd /\ mb.crush = old.crush
          /\ mb.pools = old.pools /\ mb.state = old.state /\ mb.weight = old.weight
          /\ mb.addr = old.addr /\ mb.pg_temp = old.pg_temp
          /\ mb.primary_temp = old.primary_temp /\ mb.flags = old.flags
      BY <1>s, <2>1 DEF SameMap, IsRecord, Fields, IsFcn
    <2> DEFINE fl == IF inc.flags = <<>> THEN mb.flags ELSE inc.flags[1]
    <2>3. m0 = [mb EXCEPT !.flags = fl]
      BY DEF IncFlags
    <2> HIDE DEF mb, m0
    <2>4. fl = new.flags
      BY <1>1, <2>2
    <2> HIDE DEF fl
    <2> QED  BY <2>2, <2>3, <2>4 DEF IsRecord, Fields, IsFcn
  <1>3. /\ old.max_osd \in Nat /\ new.max_osd \in Nat
        /\ Osds(m0) = Osds(old)
        /\ old.state \in [Osds(old) -> SUBSET Bits] /\ new.state \in [Osds(new) -> SUBSET Bits]
        /\ DOMAIN old.weight = Osds(old) /\ DOMAIN old.addr = Osds(old)
        /\ new.addr \in [Osds(new) -> Nat] /\ DOMAIN new.weight = Osds(new)
        /\ IsFcn(old.state) /\ IsFcn(old.weight) /\ IsFcn(old.addr) /\ IsFcn(new.weight)
    BY <1>2 DEF IsMap, Osds, IsFcn
  <1>4. \A o \in Osds(old) : primary_affinity(m0, o) = primary_affinity(old, o)
    BY <1>2 DEF SameMap, primary_affinity
  <1> HIDE DEF m0
  <1>5. /\ IsRecord(m1) /\ m1.max_osd = new.max_osd
        /\ m1.state = Was(old, new, old.state, {}) /\ m1.weight = Was(old, new, old.weight, Out)
        /\ m1.addr = Was(old, new, old.addr, 0) /\ m1.haff = m.haff
        /\ \A o \in Osds(new) : primary_affinity(m1, o) = Affinities(old, new)[o]
        /\ m1.epoch = old.epoch /\ m1.bug = FALSE /\ m1.pools = old.pools
        /\ m1.crush = old.crush /\ m1.pg_temp = old.pg_temp
        /\ m1.primary_temp = old.primary_temp /\ m1.flags = new.flags
    <2>1. /\ IsRecord(m1) /\ m1.max_osd = new.max_osd
          /\ m1.state = Was(m0, new, m0.state, {}) /\ m1.weight = Was(m0, new, m0.weight, Out)
          /\ m1.addr = Was(m0, new, m0.addr, 0)
          /\ m1.haff = m0.haff
          /\ \A o \in Osds(new) :
               primary_affinity(m1, o) = IF o \in Osds(m0) THEN primary_affinity(m0, o) ELSE In
          /\ m1.epoch = m0.epoch /\ m1.bug = m0.bug /\ m1.pools = m0.pools /\ m1.crush = m0.crush
          /\ m1.pg_temp = m0.pg_temp /\ m1.primary_temp = m0.primary_temp /\ m1.flags = m0.flags
      <3>1. inc.max_osd = IF new.max_osd = m0.max_osd THEN <<>> ELSE <<new.max_osd>>
        BY <1>1, <1>2
      <3>2. /\ IsRecord(m0) /\ m0.haff \in BOOLEAN
            /\ m0.max_osd \in Nat /\ new.max_osd \in Nat
        BY <1>s, <1>2, <1>3
      <3>3. /\ DOMAIN m0.state = Osds(m0) /\ DOMAIN m0.weight = Osds(m0)
            /\ DOMAIN m0.addr = Osds(m0)
            /\ IsFcn(m0.state) /\ IsFcn(m0.weight) /\ IsFcn(m0.addr)
        BY <1>2, <1>3
      <3> QED  BY <3>1, <3>2, <3>3, IncMaxIs
    <2> HIDE DEF m1
    <2>2. \A o \in Osds(new) : primary_affinity(m1, o) = Affinities(old, new)[o]
      BY <1>3, <1>4, <2>1 DEF Affinities
    <2> QED  BY <1>2, <1>3, <2>1, <2>2 DEF Was
  <1> HIDE DEF m1
  <1>6. /\ IsRecord(m3) /\ m3.epoch = new.epoch /\ m3.crush = new.crush /\ m3.pools = new.pools
        /\ m3.max_osd = new.max_osd /\ m3.state = m1.state /\ m3.weight = m1.weight
        /\ m3.addr = m1.addr /\ m3.haff = m.haff /\ m3.aff = m1.aff /\ m3.bug = FALSE
        /\ m3.pg_temp = old.pg_temp /\ m3.primary_temp = old.primary_temp /\ m3.flags = new.flags
    <2>1. /\ IsRecord(m3)
          /\ m3.epoch = m1.epoch + 1
          /\ m3.crush = IF inc.crush = <<>> THEN m1.crush ELSE inc.crush[1]
          /\ m3.pools = Without(Override(m1.pools, inc.new_pools), inc.old_pools)
          /\ m3.max_osd = m1.max_osd /\ m3.state = m1.state /\ m3.weight = m1.weight
          /\ m3.addr = m1.addr /\ m3.haff = m1.haff /\ m3.aff = m1.aff /\ m3.bug = m1.bug
          /\ m3.pg_temp = m1.pg_temp /\ m3.primary_temp = m1.primary_temp /\ m3.flags = m1.flags
      BY <1>5, IncPoolsIs
    <2> HIDE DEF m3
    <2>2. m3.pools = new.pools
      <3>1. IsFcn(old.pools) /\ IsFcn(new.pools)
        BY DEF IsMap
      <3>2. Without(Override(old.pools, Changes(old.pools, new.pools)),
                    DOMAIN old.pools \ DOMAIN new.pools) = new.pools
        BY <3>1, ChangesApplied
      <3> QED  BY <1>1, <1>5, <2>1, <3>2
    <2>3. m3.crush = new.crush
      BY <1>1, <1>5, <2>1
    <2> QED  BY <1>5, <2>1, <2>2, <2>3
  <1> HIDE DEF m3
  <1>7. Osds(m3) = Osds(new)
    BY <1>6 DEF Osds
  <1>8. /\ IsRecord(m5) /\ m5.state = new.state /\ m5.addr = new.addr /\ m5.bug = FALSE
        /\ m5.max_osd = new.max_osd /\ m5.epoch = new.epoch /\ m5.weight = m3.weight
        /\ m5.haff = m.haff /\ m5.aff = m1.aff /\ m5.pools = new.pools /\ m5.crush = new.crush
        /\ m5.pg_temp = old.pg_temp /\ m5.primary_temp = old.primary_temp /\ m5.flags = new.flags
    <2>1. StateStep(m3, m5, new)
      <3>1. m3.state = Was(old, new, old.state, {}) /\ m3.addr = Was(old, new, old.addr, 0)
            /\ Sound(m3) /\ Osds(m3) = Osds(new)
        BY <1>s, <1>5, <1>6, <1>7 DEF Sound
      <3>2. m5 = IncState(IncUp(m3, inc), inc)
        OBVIOUS
      <3> HIDE DEF m5
      <3> QED  BY <1>inc, <3>1, <3>2, IncStateIs
    <2> HIDE DEF m5
    <2> QED  BY <1>6, <2>1 DEF StateStep
  <1> HIDE DEF m5
  <1>9. Osds(m5) = Osds(new)
    BY <1>8 DEF Osds
  <1>10. /\ IsRecord(m8) /\ m8.weight = new.weight /\ m8.pg_temp = new.pg_temp
         /\ m8.primary_temp = new.primary_temp /\ m8.flags = new.flags
         /\ m8.max_osd = new.max_osd /\ m8.epoch = new.epoch /\ m8.state = new.state
         /\ m8.addr = new.addr /\ m8.haff = m.haff /\ m8.aff = m1.aff /\ m8.pools = new.pools
         /\ m8.crush = new.crush /\ m8.bug = FALSE
    <2>1. /\ IsRecord(m8)
          /\ m8.weight = [o \in Osds(m5) |-> IF o \in DOMAIN inc.new_weight
                                             THEN inc.new_weight[o] ELSE m5.weight[o]]
          /\ m8.pg_temp = Without(Override(m5.pg_temp, inc.new_pg_temp),
                                  {pg \in DOMAIN inc.new_pg_temp : inc.new_pg_temp[pg] = <<>>})
          /\ m8.primary_temp =
               Without(Override(m5.primary_temp, inc.new_primary_temp),
                       {pg \in DOMAIN inc.new_primary_temp : inc.new_primary_temp[pg] = -1})
          /\ m8.max_osd = m5.max_osd /\ m8.epoch = m5.epoch /\ m8.state = m5.state
          /\ m8.addr = m5.addr /\ m8.haff = m5.haff /\ m8.aff = m5.aff /\ m8.pools = m5.pools
          /\ m8.crush = m5.crush /\ m8.bug = m5.bug /\ m8.flags = m5.flags
      BY <1>8, IncTempIs
    <2> HIDE DEF m8
    <2>2. m8.weight = new.weight
      <3>1. m5.weight = Was(old, new, old.weight, Out) /\ DOMAIN Was(old, new, old.weight, Out) = Osds(new)
        BY <1>5, <1>6, <1>8 DEF Was
      <3> DEFINE w == Was(old, new, old.weight, Out)
      <3> HIDE DEF w
      <3>2. [o \in Osds(new) |-> IF o \in DOMAIN Changes(w, new.weight)
                                 THEN Changes(w, new.weight)[o] ELSE w[o]] = new.weight
        BY <1>3, <3>1, EntriesApplied DEF w
      <3> QED  BY <1>1, <1>9, <2>1, <3>1, <3>2 DEF w
    <2>3. m8.pg_temp = new.pg_temp
      <3> DEFINE c == Changed(old.pg_temp, new.pg_temp, <<>>)
      <3>1. /\ IsFcn(old.pg_temp) /\ IsFcn(new.pg_temp)
            /\ \A pg \in DOMAIN new.pg_temp : new.pg_temp[pg] # <<>>
        BY DEF IsMap
      <3>2. Without(Override(old.pg_temp, c), {k \in DOMAIN c : c[k] = <<>>}) = new.pg_temp
        BY <3>1, ChangedApplied
      <3>3. m5.pg_temp = old.pg_temp /\ inc.new_pg_temp = c
        BY <1>1, <1>8
      <3> HIDE DEF c
      <3> QED  BY <2>1, <3>2, <3>3
    <2>4. m8.primary_temp = new.primary_temp
      <3> DEFINE c == Changed(old.primary_temp, new.primary_temp, -1)
      <3>1. /\ IsFcn(old.primary_temp) /\ IsFcn(new.primary_temp)
            /\ \A pg \in DOMAIN new.primary_temp : new.primary_temp[pg] # -1
        BY DEF IsMap
      <3>2. Without(Override(old.primary_temp, c), {k \in DOMAIN c : c[k] = -1})
              = new.primary_temp
        BY <3>1, ChangedApplied
      <3>3. m5.primary_temp = old.primary_temp /\ inc.new_primary_temp = c
        BY <1>1, <1>8
      <3> HIDE DEF c
      <3> QED  BY <2>1, <3>2, <3>3
    <2> QED  BY <1>8, <2>1, <2>2, <2>3, <2>4
  <1> HIDE DEF m8
  <1>11. /\ Osds(m8) = Osds(new)
         /\ OldAffinities(m8, old, new)
    BY <1>5, <1>10 DEF Osds, Affinities, primary_affinity, OldAffinities
  <1>12. AffinityStep(m8, m9, new)
    <2>1. Sound(m8)
      BY <1>s, <1>10 DEF Sound
    <2>2. m9 = IncAffinity(m8, inc)
      OBVIOUS
    <2> HIDE DEF m9
    <2> QED  BY <1>inc, <1>11, <2>1, <2>2, IncAffinityIs
  <1>13. Sound(m9) /\ SameMap(m9, new)
    <2> HIDE DEF m9
    <2> QED  BY <1>10, <1>12 DEF SameMap, AffinityStep, Sound
  <1> QED  BY <1>0, <1>13 DEF inc

----------------------------------------------------------------------------
(* The invariant of the feed.                                               *)

Published == {[m EXCEPT !.epoch = e] : m \in Map, e \in Nat}

HistOK ==
  /\ hist \in Seq(Published) /\ Len(hist) > 0
  /\ \A e \in 1..Len(hist) : IsMap(hist[e]) /\ hist[e].epoch = e
  /\ \A e \in 2..Len(hist) : Follows(hist[e - 1], hist[e])

RxOK ==
  /\ rx \in [on : BOOLEAN, a : Nat, b : Nat, full : Nat, got : BOOLEAN]
  /\ rx.on => rx.a > 1 /\ rx.b <= Len(hist) /\ rx.full <= Len(hist)

OsdmapOK ==
  osdmap # NoMap => /\ Sound(osdmap) /\ osdmap.epoch \in 1..Len(hist)
                    /\ SameMap(osdmap, hist[osdmap.epoch])

FeedInv == HistOK /\ RxOK /\ OsdmapOK

\* A map that is given an epoch.
LEMMA DatedMap ==
  ASSUME NEW m \in Map, NEW e, NEW n, n = [m EXCEPT !.epoch = e]
  PROVE  /\ IsMap(n) /\ n.epoch = e /\ Sound(n) /\ Osds(n) = Osds(m)
         /\ n.state = m.state /\ n.addr = m.addr
  <1>1. IsMap(m)
    BY FeedConstants
  <1>2. /\ IsRecord(n) /\ n.epoch = e /\ n.bug = m.bug /\ n.max_osd = m.max_osd
        /\ n.state = m.state /\ n.weight = m.weight /\ n.addr = m.addr /\ n.haff = m.haff
        /\ n.aff = m.aff /\ n.pools = m.pools /\ n.pg_temp = m.pg_temp
        /\ n.primary_temp = m.primary_temp
    BY <1>1 DEF IsMap, IsRecord, Fields, IsFcn
  <1>3. Osds(n) = Osds(m)
    BY <1>2 DEF Osds
  <1> QED  BY <1>1, <1>2, <1>3 DEF IsMap, Sound

\* A map is a copy of itself.
LEMMA SameAsItself ==
  ASSUME NEW m, m.bug = FALSE
  PROVE  SameMap(m, m)
  BY DEF SameMap

\* The client has no map and the monitors have one in the first state.
LEMMA FeedInitInv == FeedInit => FeedInv
  <1> SUFFICES ASSUME FeedInit  PROVE FeedInv
    OBVIOUS
  <1>1. PICK m \in Map : hist = <<[m EXCEPT !.epoch = 1]>>
    BY DEF FeedInit
  <1> DEFINE n == [m EXCEPT !.epoch = 1]
  <1>2. n \in Published /\ IsMap(n) /\ n.epoch = 1
    BY DatedMap DEF Published
  <1> HIDE DEF n
  <1>3. hist = <<n>>
    BY <1>1 DEF n
  <1>4. HistOK
    BY <1>2, <1>3 DEF HistOK
  <1>5. RxOK /\ OsdmapOK
    BY DEF FeedInit, NoMsg, RxOK, OsdmapOK
  <1> QED  BY <1>4, <1>5 DEF FeedInv

\* A new epoch leaves the old ones as they are.
LEMMA PublishInv ==
  ASSUME FeedInv, NEW new \in Map, Publish(new)
  PROVE  FeedInv'
  <1> DEFINE n == [new EXCEPT !.epoch = Len(hist) + 1]
  <1>1. Len(hist) \in Nat /\ Len(hist) > 0 /\ hist \in Seq(Published)
    BY DEF FeedInv, HistOK
  <1>0. Len(hist) + 1 \in Nat
    BY <1>1
  <1>2. n \in Published
    <2> SUFFICES ASSUME NEW k \in Nat  PROVE [new EXCEPT !.epoch = k] \in Published
      BY <1>0
    <2> QED  BY DEF Published
  <1>3. /\ IsMap(n) /\ n.epoch = Len(hist) + 1
        /\ Osds(n) = Osds(new) /\ n.state = new.state /\ n.addr = new.addr
    BY DatedMap
  <1>4. Follows(hist[Len(hist)], n)
    BY <1>3 DEF Publish, Follows
  <1>5. hist' = Append(hist, n) /\ osdmap' = osdmap /\ rx' = rx
    BY DEF Publish
  <1> HIDE DEF n
  <1>6. /\ hist' \in Seq(Published) /\ Len(hist') = Len(hist) + 1
        /\ \A e \in 1..Len(hist) : hist'[e] = hist[e]
        /\ hist'[Len(hist) + 1] = n
    BY <1>1, <1>2, <1>5
  <1>7. HistOK'
    <2>1. \A e \in 1..Len(hist') : IsMap(hist'[e]) /\ hist'[e].epoch = e
      BY <1>1, <1>3, <1>6 DEF FeedInv, HistOK
    <2>2. ASSUME NEW e \in 2..Len(hist')  PROVE Follows(hist'[e - 1], hist'[e])
      <3>1. CASE e = Len(hist) + 1
        <4>1. hist'[e] = n /\ hist'[e - 1] = hist[Len(hist)]
          BY <1>1, <1>6, <3>1
        <4> QED  BY <1>4, <4>1
      <3>2. CASE e # Len(hist) + 1
        <4>1. e \in 2..Len(hist) /\ hist'[e] = hist[e] /\ hist'[e - 1] = hist[e - 1]
          BY <1>1, <1>6, <3>2
        <4> QED  BY <4>1 DEF FeedInv, HistOK
      <3> QED  BY <3>1, <3>2
    <2> QED  BY <1>1, <1>6, <2>1, <2>2 DEF HistOK
  <1>8. RxOK'
    BY <1>1, <1>5, <1>6 DEF FeedInv, RxOK
  <1>9. OsdmapOK'
    BY <1>1, <1>5, <1>6 DEF FeedInv, OsdmapOK
  <1> QED  BY <1>7, <1>8, <1>9 DEF FeedInv

\* Steps that only move through the message.
LEMMA RxStep ==
  ASSUME FeedInv, hist' = hist, osdmap' = osdmap, RxOK'
  PROVE  FeedInv'
  BY DEF FeedInv, HistOK, OsdmapOK

\* The incremental map that is next takes the client's map one epoch on.
LEMMA HandleIncInv ==
  ASSUME FeedInv, Recreated = {}, NEW empty \in BOOLEAN, HandleInc(empty)
  PROVE  FeedInv'
  <1> DEFINE e == rx.a
             n == osdmap_apply_incremental(osdmap, Inc(hist[e - 1], hist[e], empty))
  <1>1. /\ rx.on /\ e <= rx.b /\ osdmap # NoMap /\ osdmap.epoch + 1 = e
        /\ osdmap' = n /\ rx' = [rx EXCEPT !.a = e + 1, !.got = TRUE] /\ hist' = hist
    BY DEF HandleInc, Applicable
  <1>2. e \in Nat /\ e > 1 /\ rx.b \in Nat /\ rx.b <= Len(hist) /\ Len(hist) \in Nat
    BY <1>1 DEF FeedInv, RxOK, HistOK
  <1>3. e \in 2..Len(hist) /\ e \in 1..Len(hist) /\ e - 1 \in 1..Len(hist)
    BY <1>1, <1>2
  <1>4. /\ IsMap(hist[e - 1]) /\ IsMap(hist[e]) /\ Follows(hist[e - 1], hist[e])
        /\ hist[e - 1].epoch = e - 1 /\ hist[e].epoch = e
    BY <1>3 DEF FeedInv, HistOK
  <1>5. Sound(osdmap) /\ SameMap(osdmap, hist[e - 1])
    <2>1. osdmap.epoch = e - 1
      BY <1>1, <1>3 DEF FeedInv, OsdmapOK
    <2> QED  BY <1>1, <2>1 DEF FeedInv, OsdmapOK
  <1>6. hist[e - 1].epoch \in Nat /\ hist[e].epoch = hist[e - 1].epoch + 1
    BY <1>2, <1>4
  <1> HIDE DEF e
  <1>7. Sound(n) /\ SameMap(n, hist[e])
    BY <1>4, <1>5, <1>6, ApplyIsNew
  <1> HIDE DEF n
  <1>8. n.epoch = e
    BY <1>4, <1>7 DEF SameMap
  <1>9. OsdmapOK'
    BY <1>1, <1>3, <1>7, <1>8 DEF OsdmapOK
  <1>10. RxOK'
    <2>1. rx.a + 1 \in Nat /\ rx.a + 1 > 1
      BY <1>2 DEF e
    <2>2. /\ rx' \in [on : BOOLEAN, a : Nat, b : Nat, full : Nat, got : BOOLEAN]
          /\ rx'.a = rx.a + 1 /\ rx'.b = rx.b /\ rx'.full = rx.full
      BY <1>1, <2>1 DEF FeedInv, RxOK, e
    <2> QED  BY <1>1, <2>1, <2>2 DEF FeedInv, RxOK
  <1>11. HistOK'
    BY <1>1 DEF FeedInv, HistOK
  <1> QED  BY <1>9, <1>10, <1>11 DEF FeedInv

\* A full map is the monitors' own.
LEMMA HandleFullInv ==
  ASSUME FeedInv, HandleFull
  PROVE  FeedInv'
  <1>1. /\ rx.on /\ rx.full # 0 /\ osdmap' = hist[rx.full] /\ rx' = NoMsg /\ hist' = hist
    BY DEF HandleFull
  <1>2. rx.full \in 1..Len(hist)
    BY <1>1 DEF FeedInv, RxOK, HistOK
  <1>3. IsMap(hist[rx.full]) /\ hist[rx.full].epoch = rx.full
    BY <1>2 DEF FeedInv, HistOK
  <1>4. Sound(hist[rx.full]) /\ SameMap(hist[rx.full], hist[rx.full])
    BY <1>3, SameAsItself DEF IsMap, Sound
  <1>5. OsdmapOK'
    BY <1>1, <1>2, <1>3, <1>4 DEF OsdmapOK
  <1>6. RxOK' /\ HistOK'
    BY <1>1 DEF FeedInv, RxOK, HistOK, NoMsg
  <1> QED  BY <1>5, <1>6 DEF FeedInv

\* ... also inside an incremental one.
LEMMA HandleIncFullInv ==
  ASSUME FeedInv, HandleIncFull
  PROVE  FeedInv'
  <1>1. /\ rx.on /\ rx.a <= rx.b /\ osdmap' = hist[rx.a] /\ hist' = hist
        /\ rx' = [rx EXCEPT !.a = rx.a + 1, !.got = TRUE]
    BY DEF HandleIncFull, Applicable
  <1>2. rx.a \in 1..Len(hist) /\ rx.a + 1 > 1 /\ rx.a + 1 \in Nat
    BY <1>1 DEF FeedInv, RxOK, HistOK
  <1>3. IsMap(hist[rx.a]) /\ hist[rx.a].epoch = rx.a
    BY <1>2 DEF FeedInv, HistOK
  <1>4. Sound(hist[rx.a]) /\ SameMap(hist[rx.a], hist[rx.a])
    BY <1>3, SameAsItself DEF IsMap, Sound
  <1>5. OsdmapOK'
    BY <1>1, <1>2, <1>3, <1>4 DEF OsdmapOK
  <1>6. /\ rx' \in [on : BOOLEAN, a : Nat, b : Nat, full : Nat, got : BOOLEAN]
        /\ rx'.a = rx.a + 1 /\ rx'.b = rx.b /\ rx'.full = rx.full
    BY <1>1, <1>2 DEF FeedInv, RxOK
  <1>7. RxOK'
    BY <1>1, <1>2, <1>6 DEF FeedInv, RxOK
  <1>8. HistOK'
    BY <1>1 DEF FeedInv, HistOK
  <1> QED  BY <1>5, <1>7, <1>8 DEF FeedInv

\* Every step keeps the invariant.
LEMMA FeedNextInv ==
  ASSUME Recreated = {}, FailStages \subseteq {0}
  PROVE  FeedInv /\ [FeedNext]_feedVars => FeedInv'
  <1> SUFFICES ASSUME FeedInv, [FeedNext]_feedVars  PROVE FeedInv'
    OBVIOUS
  <1>1. ASSUME NEW new \in Map, Publish(new)  PROVE FeedInv'
    BY <1>1, PublishInv
  <1>2. ASSUME NEW a \in 2..MaxEpoch, NEW b \in 1..MaxEpoch, NEW full \in 0..MaxEpoch,
               HandleMap(a, b, full)
        PROVE  FeedInv'
    <2>1. RxOK'
      BY <1>2, FeedConstants DEF HandleMap, RxOK
    <2> QED  BY <1>2, <2>1, RxStep DEF HandleMap
  <1>3. ASSUME NEW empty \in BOOLEAN, HandleInc(empty)  PROVE FeedInv'
    BY <1>3, HandleIncInv
  <1>9. CASE HandleIncFull
    BY <1>9, HandleIncFullInv
  <1>4. CASE IgnoreInc
    <2>1. RxOK'
      BY <1>4 DEF IgnoreInc, FeedInv, RxOK
    <2> QED  BY <1>4, <2>1, RxStep DEF IgnoreInc
  <1>5. ASSUME NEW k \in FailStages, IncFails(k)  PROVE FeedInv'
    <2>1. hist' = hist /\ osdmap' = osdmap /\ rx' = NoMsg
      BY <1>5 DEF IncFails
    <2>2. RxOK'
      BY <2>1 DEF FeedInv, RxOK, NoMsg
    <2> QED  BY <2>1, <2>2, RxStep
  <1>6. CASE HandleFull
    BY <1>6, HandleFullInv
  <1>10. CASE FullFails
    <2>1. RxOK'
      BY <1>10 DEF FullFails, FeedInv, RxOK, NoMsg
    <2> QED  BY <1>10, <2>1, RxStep DEF FullFails
  <1>7. CASE HandleDone
    <2>1. RxOK'
      BY <1>7 DEF HandleDone, FeedInv, RxOK, NoMsg
    <2> QED  BY <1>7, <2>1, RxStep DEF HandleDone
  <1>8. CASE UNCHANGED feedVars
    <2>1. hist' = hist /\ osdmap' = osdmap /\ rx' = rx
      BY <1>8 DEF feedVars
    <2>2. RxOK'
      BY <2>1 DEF FeedInv, RxOK
    <2> QED  BY <2>1, <2>2, RxStep
  <1> QED  BY <1>1, <1>2, <1>3, <1>4, <1>5, <1>6, <1>7, <1>8, <1>9, <1>10 DEF FeedNext

\* The client's map of an epoch is the monitors' map of that epoch in every
\* behaviour in which no OSD is destroyed and boots again within one epoch and
\* osdmap_apply_incremental() fails only before it changes anything.
THEOREM ClientMapIsTrue ==
  ASSUME Recreated = {}, FailStages \subseteq {0}
  PROVE  FeedSpec => []MapIsTrue
  <1>1. FeedInv => MapIsTrue
    BY DEF FeedInv, OsdmapOK, MapIsTrue
  <1> QED  BY <1>1, FeedInitInv, FeedNextInv, PTL DEF FeedSpec

=============================================================================
