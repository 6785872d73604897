------------------------------- MODULE MCMaps -------------------------------
(***************************************************************************)
(* Instance of Placement: six OSDs on three hosts, one for each weighted   *)
(* bucket algorithm, under a uniform root; a replicated pool and an        *)
(* erasure coded one.                                                      *)
(***************************************************************************)
EXTENDS Placement, TLC, FiniteSets

MCUnit == 16
MCX == 0..40

\* A hash: whatever it is, it is a function of its arguments.
MCDraw(args) ==
  LET mix(h, v) == (h * 37 + (v % 101) * 11 + 5) % 1009
  IN  (FoldLeft(mix, 17, args) \div 7) % MCUnit

MCHash == [x \in MCX |-> [p \in 0..2 |-> MCDraw(<<x, -1, p>>)]]
MCPerm == [x \in MCX |->
             LET f[n \in 0..3] == IF n = 0 THEN Id ELSE Swap(f[n - 1], n - 1, MCHash[x][n - 1]) IN f]

----------------------------------------------------------------------------
(* CRUSH maps.                                                              *)

Root == [id |-> -1, alg |-> "uniform", type |-> 2, items |-> <<-2, -3, -4>>]
ListHost == [id |-> -2, alg |-> "list", type |-> 1, items |-> <<0, 1>>,
             weights |-> <<16, 16>>, sums |-> <<16, 32>>]
TreeHost == [id |-> -3, alg |-> "tree", type |-> 1, items |-> <<2, 3>>, nodes |-> <<16, 32, 16>>]
StrawHost == [id |-> -4, alg |-> "straw", type |-> 1, items |-> <<4, 5>>, straws |-> <<16, 16>>]

Step(op, n, type) == [op |-> op, n |-> n, type |-> type]
Rule(type, steps) == [ruleset |-> 0, type |-> type, min |-> 1, max |-> 3, steps |-> steps]

\* One pass to the leaves.
Leaves == [buckets |-> [b \in -4..-1 |-> CASE b = -1 -> Root [] b = -2 -> ListHost
                                           [] b = -3 -> TreeHost [] b = -4 -> StrawHost],
           max_devices |-> 6, total_tries |-> 4, local_tries |-> 0, fallback_tries |-> 0,
           descend_once |-> TRUE, vary_r |-> 1,
           rules |-> <<Rule("rep", <<Step("take", -1, 0), Step("chooseleaf_firstn", 0, 1),
                                     Step("emit", 0, 0)>>),
                       Rule("ec", <<Step("set_leaf_tries", 3, 0), Step("take", -1, 0),
                                    Step("chooseleaf_indep", 0, 1), Step("emit", 0, 0)>>)>>]

\* Hosts first, then an OSD of each; the retries of old maps.
Hosts == [Leaves EXCEPT
  !.local_tries = 2, !.descend_once = FALSE, !.vary_r = 0,
  !.rules = <<Rule("rep", <<Step("set_tries", 6, 0), Step("set_fallback_tries", 1, 0),
                            Step("set_local_tries", 1, 0), Step("set_vary_r", 2, 0),
                            Step("take", -1, 0), Step("choose_firstn", 0, 1),
                            Step("choose_firstn", 1, 0), Step("emit", 0, 0)>>),
              Rule("ec", <<Step("take", -1, 0), Step("choose_indep", 0, 1),
                           Step("choose_indep", 1, 0), Step("emit", 0, 0)>>)>>]

----------------------------------------------------------------------------
(* OSD maps.                                                                *)

Pool(type, n, sz, hashed) == [type |-> type, pg_num |-> n, pgp_num |-> n, size |-> sz, ruleset |-> 0,
                              hashps |-> hashed]

All == [epoch |-> 0, bug |-> FALSE, flags |-> {}, max_osd |-> 6, state |-> [o \in 0..5 |-> Bits],
        weight |-> [o \in 0..5 |-> MCUnit], addr |-> [o \in 0..5 |-> o + 1], haff |-> FALSE,
        aff |-> [o \in 0..5 |-> MCUnit], pools |-> (1 :> Pool("rep", 3, 2, FALSE)),
        pg_temp |-> <<>>, primary_temp |-> <<>>, crush |-> Leaves]

\* OSDs that are down and out, others half in; a temporary acting set.
Degraded == [All EXCEPT !.state[1] = {"EXISTS"}, !.state[4] = {"EXISTS"}, !.weight[2] = 0,
                        !.weight[3] = 7, !.weight[5] = 9,
                        !.pg_temp = (<<1, 1>> :> <<3, 1, 5>>)]

\* ... recovered at another address; affinities, a larger pool and a new one.
Affine == [All EXCEPT !.addr[1] = 9, !.haff = TRUE, !.aff = [o \in 0..5 |-> 3 * o],
                      !.pools = (1 :> Pool("rep", 13, 3, FALSE)) @@ (2 :> Pool("ec", 6, 3, TRUE)),
                      !.primary_temp = (<<1, 0>> :> 4), !.weight[0] = 0]

\* Fewer OSDs, another CRUSH map.
Small == [All EXCEPT !.flags = {"full"}, !.max_osd = 5, !.state = [o \in 0..4 |-> Bits],
                     !.weight = [o \in 0..4 |-> MCUnit], !.addr = [o \in 0..4 |-> o + 1],
                     !.aff = [o \in 0..4 |-> MCUnit], !.crush = Hosts,
                     !.pools = (1 :> Pool("rep", 5, 3, FALSE)) @@ (2 :> Pool("ec", 6, 3, TRUE))]

\* ... with some of them down or out.
SmallDegraded == [Small EXCEPT !.state[0] = {"EXISTS"}, !.weight[1] = 0, !.weight[2] = 5,
                               !.pg_temp = (<<2, 3>> :> <<4, ITEM_NONE, 0>>)]

MCMap == {All, Degraded, Affine, Small, SmallDegraded}

----------------------------------------------------------------------------
(* Scenarios.                                                               *)

NoLayout == [su |-> 0, sc |-> 0, osize |-> 0]

Plan(maps, news, threads, pgs, calls, layouts) ==
  [maps |-> maps, news |-> news, threads |-> threads, pgs |-> pgs, calls |-> calls, layouts |-> layouts]
OneThread == {CHOOSE t \in Thread : TRUE}

\* The map changes all the time.
FeedPlan == Plan(MCMap \ {SmallDegraded}, MCMap \ {SmallDegraded}, OneThread, {<<1, 1>>, <<2, 3>>}, {}, {NoLayout})
\* Two maps, every placement group.
CalcPlan(m, n) == Plan({m}, {n}, OneThread, {1, 2} \X (0..24), {}, {NoLayout})
\* Threads that share the cache of the root.
CachePlan == Plan({All}, {Small}, Thread, {<<1, s>> : s \in 0..4}, 0..4, {NoLayout})
\* A file is written.
WritePlan == Plan({All}, {}, {}, {}, {},
                  {[su |-> 2, sc |-> 1, osize |-> 4], [su |-> 2, sc |-> 3, osize |-> 4],
                   [su |-> 1, sc |-> 2, osize |-> 3], [su |-> 2, sc |-> 2, osize |-> 5],
                   [su |-> 4, sc |-> 2, osize |-> 4]})
MCPlans == {FeedPlan, CalcPlan(Degraded, Affine), CalcPlan(Small, SmallDegraded), CachePlan, WritePlan}

=============================================================================
