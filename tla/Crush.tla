------------------------------- MODULE Crush -------------------------------
(***************************************************************************)
(* CRUSH (net/ceph/crush/mapper.c).  A map c has buckets (a function of    *)
(* negative ids), max_devices, rules, and the tunables total_tries,        *)
(* local_tries, fallback_tries, descend_once and vary_r.  A bucket has id, *)
(* alg, type, items and what its algorithm weighs them with: the weights   *)
(* and sums of a list, the nodes of a tree, the straws.  The maps are      *)
(* those a monitor compiles: every item of a bucket and every bucket of a  *)
(* TAKE exists, and a rule chooses from buckets.                           *)
(***************************************************************************)
EXTENDS Integers, Sequences, SequencesExt

CONSTANTS Unit,     \* 0x10000, the weight 1.0 and the range of a draw
          Draw(_)   \* the hash of its arguments, 0..Unit-1

NONE == 2147483647      \* CRUSH_ITEM_NONE
UNDEF == 2147483646     \* CRUSH_ITEM_UNDEF

----------------------------------------------------------------------------
(* Buckets.                                                                 *)

size(b) == Len(b.items)

\* bucket_perm_choose(), by what CrushPerm shows of it: entry r of the shuffle
\* of x, whose step p swaps entry p with a later one.
perm_choose(b, x, r) ==
  LET n == size(b)
      swap[p \in 0..n] ==
        IF p = 0 THEN b.items
        ELSE LET f == swap[p - 1]
                 q == p + (Draw(<<x, b.id, p - 1>>) % (n - p + 1))
             IN  [f EXCEPT ![p] = f[q], ![q] = f[p]]
  IN  swap[n][(r % n) + 1]

\* bucket_list_choose(): from the item added last
list_choose(b, x, r) ==
  LET won == {i \in 1..size(b) : (Draw(<<x, b.items[i], r, b.id>>) * b.sums[i]) \div Unit < b.weights[i]}
  IN  b.items[IF won = {} THEN 1 ELSE CHOOSE i \in won : \A j \in won : i >= j]

\* The bit under the lowest one of node n: how far away its children are.
half(n) == CHOOSE h \in {2^k : k \in 0..15} : n % (2 * h) = 0 /\ n % (4 * h) # 0

RECURSIVE descend(_, _, _, _)

\* bucket_tree_choose(): item k is node 2k + 1, the others are inner nodes.
descend(b, x, r, n) ==
  LET t == (Draw(<<x, n, r, b.id>>) * b.nodes[n]) \div Unit
      l == n - half(n)
  IN  IF n % 2 = 1 THEN b.items[(n \div 2) + 1]
      ELSE descend(b, x, r, IF t < b.nodes[l] THEN l ELSE n + half(n))
tree_choose(b, x, r) == descend(b, x, r, (Len(b.nodes) + 1) \div 2)

\* bucket_straw_choose(): the first of the longest straws
straw_choose(b, x, r) ==
  LET draw(i) == Draw(<<x, b.items[i], r>>) * b.straws[i]
  IN  b.items[CHOOSE i \in 1..size(b) : \A j \in 1..size(b) :
                 draw(i) > draw(j) \/ (draw(i) = draw(j) /\ i <= j)]

bucket_choose(b, x, r) ==
  CASE b.alg = "uniform" -> perm_choose(b, x, r)
    [] b.alg = "list"    -> list_choose(b, x, r)
    [] b.alg = "tree"    -> tree_choose(b, x, r)
    [] b.alg = "straw"   -> straw_choose(b, x, r)

\* Mutant: a weight of zero is not looked at.
is_out_never(weight, item, x) ==
  item \notin DOMAIN weight \/ Draw(<<x, item>>) >= weight[item] + Unit

\* is_out(); weight is a function of the OSDs 0..max_osd-1
is_out(weight, item, x) ==
  \/ item \notin DOMAIN weight
  \/ weight[item] < Unit /\ (weight[item] = 0 \/ Draw(<<x, item>>) >= weight[item])

type_of(c, item) == IF item < 0 THEN c.buckets[item].type ELSE 0

----------------------------------------------------------------------------
(* crush_choose_firstn().  p holds its arguments and its output so far: the *)
(* bucket id, numrep, type, rep, out, leaf (recurse_to_leaf), out2, tries,  *)
(* recurse_tries, local, fallback, vary_r and parent_r.                     *)

NoItem == [item |-> NONE, leaf |-> NONE]

RECURSIVE choose_firstn(_, _, _, _), attempt(_, _, _, _, _)

\* Another try after a reject or a collision: in the same bucket, from the
\* initial bucket, or none.
again(c, w, x, p, s, collide) ==
  LET f == [s EXCEPT !.ftotal = @ + 1, !.flocal = @ + 1]
  IN  IF \/ collide /\ f.flocal <= p.local
         \/ p.fallback > 0 /\ f.flocal <= size(c.buckets[s.in]) + p.fallback
      THEN attempt(c, w, x, p, f)
      ELSE IF f.ftotal < p.tries THEN attempt(c, w, x, p, [f EXCEPT !.in = p.bucket, !.flocal = 0])
      ELSE NoItem

\* One pass of the inner loop; s: the bucket it is in, ftotal and flocal.
attempt(c, w, x, p, s) ==
  LET b == c.buckets[s.in]
      r == p.rep + p.parent_r + s.ftotal
      item == IF p.fallback > 0 /\ s.flocal >= size(b) \div 2 /\ s.flocal > p.fallback
              THEN perm_choose(b, x, r) ELSE bucket_choose(b, x, r)
      collide == item \in ToSet(p.out)
      leaves ==
        IF item >= 0 THEN Append(p.out2, item)
        ELSE choose_firstn(c, w, x, [p EXCEPT
               !.bucket = item, !.numrep = Len(p.out) + 1, !.type = 0, !.rep = Len(p.out),
               !.out = p.out2, !.leaf = FALSE, !.out2 = <<>>, !.tries = p.recurse_tries,
               !.recurse_tries = 0,
               !.parent_r = IF p.vary_r = 0 THEN 0 ELSE r \div 2^(p.vary_r - 1)]).out
      reject == \/ p.leaf /\ Len(leaves) <= Len(p.out)
                \/ p.type = 0 /\ is_out(w, item, x)
  IN  IF size(b) = 0 THEN again(c, w, x, p, s, FALSE)
      ELSE IF item >= c.max_devices THEN NoItem
      ELSE IF type_of(c, item) # p.type
           THEN IF item >= 0 THEN NoItem ELSE attempt(c, w, x, p, [s EXCEPT !.in = item])
      ELSE IF collide \/ reject THEN again(c, w, x, p, s, collide)
      ELSE [item |-> item, leaf |-> IF p.leaf THEN Last(leaves) ELSE NONE]

choose_firstn(c, w, x, p) ==
  LET a == attempt(c, w, x, p, [in |-> p.bucket, ftotal |-> 0, flocal |-> 0])
      q == [p EXCEPT !.rep = @ + 1]
  IN  IF p.rep >= p.numrep THEN p
      ELSE IF a.item = NONE THEN choose_firstn(c, w, x, q)
      ELSE choose_firstn(c, w, x, [q EXCEPT !.out = Append(@, a.item),
                                            !.out2 = IF p.leaf THEN Append(@, a.leaf) ELSE @])

----------------------------------------------------------------------------
(* crush_choose_indep().  p holds its arguments: the bucket id, outpos,     *)
(* left, numrep, type, tries, recurse_tries, leaf and parent_r; o the       *)
(* output vectors out and out2, functions of the positions.                 *)

RECURSIVE choose_indep(_, _, _, _), place(_, _, _, _, _, _, _, _)

\* Position rep of round f, from the bucket in.
place(c, w, x, p, o, rep, f, in) ==
  LET b == c.buckets[in]
      more == IF b.alg = "uniform" /\ size(b) % p.numrep = 0 THEN p.numrep + 1 ELSE p.numrep
      r == rep + p.parent_r + more * f
      item == bucket_choose(b, x, r)
      bad == [o EXCEPT !.out[rep] = NONE, !.out2[rep] = NONE]
      leaf == IF item >= 0 THEN item
              ELSE choose_indep(c, w, x, [p EXCEPT
                     !.bucket = item, !.outpos = rep, !.left = 1, !.type = 0, !.leaf = FALSE,
                     !.tries = p.recurse_tries, !.recurse_tries = 0, !.parent_r = r]).out[rep]
      o1 == IF p.leaf THEN [o EXCEPT !.out2[rep] = leaf] ELSE o
  IN  IF size(b) = 0 THEN o
      ELSE IF item >= c.max_devices THEN bad
      ELSE IF type_of(c, item) # p.type
           THEN IF item >= 0 THEN bad ELSE place(c, w, x, p, o, rep, f, item)
      ELSE IF \E i \in DOMAIN o.out : o.out[i] = item THEN o
      ELSE IF \/ p.leaf /\ leaf = NONE
              \/ p.type = 0 /\ is_out(w, item, x)
           THEN o1
      ELSE [o1 EXCEPT !.out[rep] = item]

\* All rounds, and what is left open becomes CRUSH_ITEM_NONE.
choose_indep(c, w, x, p) ==
  LET pos == p.outpos..(p.outpos + p.left - 1)
      open == [i \in pos |-> UNDEF]
      Try(o, k) ==
        LET rep == p.outpos + (k % p.left)
        IN  IF o.out[rep] # UNDEF THEN o
            ELSE place(c, w, x, p, o, rep, k \div p.left, p.bucket)
      o == FoldLeft(Try, [out |-> open, out2 |-> open], [k \in 1..(p.tries * p.left) |-> k - 1])
      Close(v) == [i \in pos |-> IF v[i] = UNDEF THEN NONE ELSE v[i]]
  IN  [out |-> Close(o.out), out2 |-> Close(o.out2)]

----------------------------------------------------------------------------
(* Rules.  A step has op, n (arg1) and type (arg2).                         *)

\* crush_find_rule(), 0 when there is none
find_rule(c, ruleset, type, rsize) ==
  LET fit == {i \in DOMAIN c.rules : /\ c.rules[i].ruleset = ruleset /\ c.rules[i].type = type
                                     /\ c.rules[i].min <= rsize /\ rsize <= c.rules[i].max}
  IN  IF fit = {} THEN 0 ELSE CHOOSE i \in fit : \A j \in fit : i <= j

\* What a CHOOSE step takes from the bucket id.
chosen(c, w, x, s, step, id, max) ==
  LET numrep == IF step.n <= 0 THEN step.n + max ELSE step.n
      leaf == step.op \in {"chooseleaf_firstn", "chooseleaf_indep"}
      f == choose_firstn(c, w, x,
             [bucket |-> id, numrep |-> numrep, type |-> step.type, rep |-> 0, out |-> <<>>,
              leaf |-> leaf, out2 |-> <<>>, tries |-> s.tries,
              recurse_tries |-> IF s.leaf_tries > 0 THEN s.leaf_tries
                                ELSE IF c.descend_once THEN 1 ELSE s.tries,
              local |-> s.local, fallback |-> s.fallback, vary_r |-> s.vary_r, parent_r |-> 0])
      i == choose_indep(c, w, x,
             [bucket |-> id, outpos |-> 0, left |-> numrep, numrep |-> numrep, type |-> step.type,
              tries |-> s.tries, recurse_tries |-> IF s.leaf_tries > 0 THEN s.leaf_tries ELSE 1,
              leaf |-> leaf, parent_r |-> 0])
      ofIndep == IF leaf THEN i.out2 ELSE i.out
  IN  IF numrep <= 0 THEN <<>>
      ELSE IF step.op \in {"choose_firstn", "chooseleaf_firstn"}
           THEN IF leaf THEN f.out2 ELSE f.out
      ELSE [k \in 1..numrep |-> ofIndep[k - 1]]

\* One step of a rule; s: the working set w, the result, the tunables.
do_step(c, w, x, max, s, step) ==
  CASE step.op = "take" -> [s EXCEPT !.w = <<step.n>>]
    [] step.op = "set_tries" -> IF step.n > 0 THEN [s EXCEPT !.tries = step.n] ELSE s
    [] step.op = "set_leaf_tries" -> IF step.n > 0 THEN [s EXCEPT !.leaf_tries = step.n] ELSE s
    [] step.op = "set_local_tries" -> IF step.n >= 0 THEN [s EXCEPT !.local = step.n] ELSE s
    [] step.op = "set_fallback_tries" -> IF step.n >= 0 THEN [s EXCEPT !.fallback = step.n] ELSE s
    [] step.op = "set_vary_r" -> IF step.n >= 0 THEN [s EXCEPT !.vary_r = step.n] ELSE s
    [] step.op = "emit" ->
         LET res == s.result \o s.w
         IN  [s EXCEPT !.result = SubSeq(res, 1, IF Len(res) < max THEN Len(res) ELSE max), !.w = <<>>]
    [] OTHER -> [s EXCEPT !.w = FlattenSeq([i \in 1..Len(s.w) |-> chosen(c, w, x, s, step, s.w[i], max)])]

\* crush_do_rule() of the rule c.rules[ruleno]
do_rule(c, ruleno, x, max, w) ==
  LET Step(s, step) == do_step(c, w, x, max, s, step)
  IN  FoldLeft(Step, [w |-> <<>>, result |-> <<>>, tries |-> c.total_tries + 1, leaf_tries |-> 0,
                      local |-> c.local_tries, fallback |-> c.fallback_tries, vary_r |-> c.vary_r],
               c.rules[ruleno].steps).result

============================================================================
