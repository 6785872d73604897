----------------------------- MODULE CrushPerm -----------------------------
(***************************************************************************)
(* bucket_perm_choose() (net/ceph/crush/mapper.c): the r-th item of a      *)
(* uniform bucket for the input x is entry r % size of a permutation       *)
(* shuffled from x.  The bucket caches the shuffle and how far it got, and *)
(* the calls of every thread share the cache under crush_scratch_mutex of  *)
(* the map.  perm, perm_n and perm_x are the fields of struct crush_bucket;*)
(* th[t] is a thread in do_crush(): its input x, the entry pr of the call  *)
(* it is in and the index s the call found.                                *)
(***************************************************************************)
EXTENDS Integers

CONSTANTS Thread,
          NoThread,
          X,        \* inputs
          Size,     \* of the bucket
          Hash,     \* Hash[x][p]: crush_hash32_3(hash, x, id, p)
          Perm      \* Perm[x][n]: the shuffle of x after n swaps

Magic == 65535      \* perm_n when only perm[0] is valid
Index == 0..(Size - 1)
Id == [i \in Index |-> i]

\* Entry p changes places with one at or after it; the final entry stays.
Swap(f, p, h) ==
  LET q == p + (h % (Size - p))
  IN  IF p < Size - 1 THEN [f EXCEPT ![p] = f[q], ![q] = f[p]] ELSE f

\* The reference: the shuffle computed from the start.
ASSUME ConstantsAssumption ==
  /\ Size \in Nat \ {0} /\ Size < Magic
  /\ NoThread \notin Thread
  /\ X \subseteq Nat
  /\ Hash \in [X -> [Index -> Nat]]
  /\ Perm \in [X -> [0..Size -> [Index -> Index]]]
ASSUME PermAssumption ==
  \A x \in X : /\ Perm[x][0] = Id
               /\ \A n \in Index : Perm[x][n + 1] = Swap(Perm[x][n], n, Hash[x][n])

VARIABLES perm, perm_n, perm_x, mutex, th
permVars == <<perm, perm_n, perm_x, mutex, th>>

PermInit ==
  /\ perm = [i \in Index |-> 0] /\ perm_n = 0 /\ perm_x = 0
  /\ mutex = NoThread
  /\ th = [t \in Thread |-> [pc |-> "idle", x |-> 0, pr |-> 0, s |-> 0]]

Lock(t, x) ==
  /\ th[t].pc = "idle" /\ mutex = NoThread
  /\ mutex' = t
  /\ th' = [th EXCEPT ![t].pc = "held", ![t].x = x]
  /\ UNCHANGED <<perm, perm_n, perm_x>>

Calling(t) == th[t].pc \in {"held", "got"}
NewPerm(t) == perm_x # th[t].x \/ perm_n = 0

\* A new input and its entry 0: only that entry is computed.
CallFirst(t, r) ==
  /\ Calling(t) /\ NewPerm(t) /\ r % Size = 0
  /\ perm' = [perm EXCEPT ![0] = Hash[th[t].x][0] % Size]
  /\ perm_n' = Magic /\ perm_x' = th[t].x
  /\ th' = [th EXCEPT ![t].pc = "got", ![t].pr = 0, ![t].s = Hash[th[t].x][0] % Size]
  /\ UNCHANGED mutex

\* A new input: the shuffle starts over.
CallNew(t, r) ==
  /\ Calling(t) /\ NewPerm(t) /\ r % Size # 0
  /\ perm' = Id /\ perm_n' = 0 /\ perm_x' = th[t].x
  /\ th' = [th EXCEPT ![t].pc = "loop", ![t].pr = r % Size]
  /\ UNCHANGED mutex

\* Mutant: the entries after the first are left as they were.
CallMagicAsIs(t, r) ==
  /\ Calling(t) /\ ~NewPerm(t) /\ perm_n = Magic
  /\ perm_n' = 1
  /\ th' = [th EXCEPT ![t].pc = "loop", ![t].pr = r % Size]
  /\ UNCHANGED <<perm, perm_x, mutex>>

\* The same input after its entry 0: the rest of the array is filled in.
CallMagic(t, r) ==
  /\ Calling(t) /\ ~NewPerm(t) /\ perm_n = Magic
  /\ perm' = [[i \in Index |-> IF i = 0 THEN perm[0] ELSE i] EXCEPT ![perm[0]] = 0]
  /\ perm_n' = 1
  /\ th' = [th EXCEPT ![t].pc = "loop", ![t].pr = r % Size]
  /\ UNCHANGED <<perm_x, mutex>>

CallCached(t, r) ==
  /\ Calling(t) /\ ~NewPerm(t) /\ perm_n # Magic
  /\ th' = [th EXCEPT ![t].pc = "loop", ![t].pr = r % Size]
  /\ UNCHANGED <<perm, perm_n, perm_x, mutex>>

\* calculate permutation up to pr
Shuffle(t) ==
  /\ th[t].pc = "loop" /\ perm_n <= th[t].pr
  /\ perm' = Swap(perm, perm_n, Hash[th[t].x][perm_n])
  /\ perm_n' = perm_n + 1
  /\ UNCHANGED <<perm_x, mutex, th>>

Found(t) ==
  /\ th[t].pc = "loop" /\ perm_n > th[t].pr
  /\ th' = [th EXCEPT ![t].pc = "got", ![t].s = perm[th[t].pr]]
  /\ UNCHANGED <<perm, perm_n, perm_x, mutex>>

Unlock(t) ==
  /\ Calling(t)
  /\ mutex' = NoThread
  /\ th' = [th EXCEPT ![t] = [pc |-> "idle", x |-> 0, pr |-> 0, s |-> 0]]
  /\ UNCHANGED <<perm, perm_n, perm_x>>

Choose(t) ==
  \/ \E r \in 0..(2 * Size) : CallFirst(t, r)
  \/ \E r \in 0..(2 * Size) : CallNew(t, r)
  \/ \E r \in 0..(2 * Size) : CallMagic(t, r)
  \/ \E r \in 0..(2 * Size) : CallCached(t, r)
  \/ Shuffle(t)
  \/ Found(t)

PermNext == \E t \in Thread : (\E x \in X : Lock(t, x)) \/ Choose(t) \/ Unlock(t)

PermSpec == PermInit /\ [][PermNext]_permVars

----------------------------------------------------------------------------
\* A call finds the entry of the shuffle of its own input, whatever calls,
\* with whatever inputs and by whatever threads, came before it and left in
\* the cache (bucket_perm_choose()).
ChoiceIsOfInput ==
  \A t \in Thread : th[t].pc = "got" => th[t].s = Perm[th[t].x][th[t].pr + 1][th[t].pr]

============================================================================
