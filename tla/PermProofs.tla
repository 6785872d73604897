----------------------------- MODULE PermProofs -----------------------------
(***************************************************************************)
(* What bucket_perm_choose() finds depends on its arguments alone, for      *)
(* every size of bucket, every hash and any number of threads.              *)
(***************************************************************************)
EXTENDS CrushPerm, TLAPS

PermTypeOK ==
  /\ perm \in [Index -> Index]
  /\ perm_n \in 0..Size \cup {Magic}
  /\ mutex \in Thread \cup {NoThread}
  /\ th \in [Thread -> [pc : {"idle", "held", "loop", "got"}, x : Nat, pr : Index, s : Index]]

\* Only the owner of crush_scratch_mutex is in crush_do_rule().
OwnerInside == \A t \in Thread : th[t].pc # "idle" => mutex = t /\ th[t].x \in X

\* The first n entries are final.
Settled(f, x, n) == f = Perm[x][n] /\ \A i \in 0..(n - 1) : f[i] = Perm[x][i + 1][i]

\* What the cache holds is of the input it names.
CacheOK ==
  perm_n # 0 =>
    /\ perm_x \in X
    /\ IF perm_n = Magic THEN perm[0] = Hash[perm_x][0] % Size ELSE Settled(perm, perm_x, perm_n)

LoopOK ==
  \A t \in Thread : th[t].pc = "loop" =>
    perm_x = th[t].x /\ perm_n # Magic /\ Settled(perm, perm_x, perm_n)

IInv == PermTypeOK /\ OwnerInside /\ CacheOK /\ LoopOK /\ ChoiceIsOfInput

----------------------------------------------------------------------------
(* The shuffle.                                                             *)

\* A number modulo the size of what is left lies in what is left.
LEMMA ModBound ==
  ASSUME NEW a \in Nat, NEW b \in Nat, b > 0
  PROVE  a % b \in 0..(b - 1)
  OBVIOUS

\* A swap yields indices and keeps the entries before it.
LEMMA SwapKeeps ==
  ASSUME NEW f \in [Index -> Index], NEW p \in Index, NEW h \in Nat
  PROVE  /\ Swap(f, p, h) \in [Index -> Index]
         /\ \A i \in 0..(p - 1) : Swap(f, p, h)[i] = f[i]
  <1> DEFINE q == p + (h % (Size - p))
  <1>1. Size - p \in Nat /\ Size - p > 0
    BY ConstantsAssumption DEF Index
  <1>2. h % (Size - p) \in 0..(Size - p - 1)
    BY <1>1, ModBound
  <1>3. q \in Index /\ q >= p
    BY <1>1, <1>2, ConstantsAssumption DEF Index
  <1>4. Swap(f, p, h) = IF p < Size - 1 THEN [f EXCEPT ![p] = f[q], ![q] = f[p]] ELSE f
    BY DEF Swap
  <1> HIDE DEF q
  <1>5. f[q] \in Index /\ f[p] \in Index
    BY <1>3
  <1>6. [f EXCEPT ![p] = f[q], ![q] = f[p]] \in [Index -> Index]
    BY <1>3, <1>5
  <1>7. \A i \in 0..(p - 1) : [f EXCEPT ![p] = f[q], ![q] = f[p]][i] = f[i]
    BY <1>3, ConstantsAssumption DEF Index
  <1> QED  BY <1>4, <1>6, <1>7

\* The first swap alone: entry 0 is the hash modulo the size.
LEMMA FirstSwap ==
  ASSUME NEW x \in X
  PROVE  /\ Hash[x][0] % Size \in Index
         /\ Perm[x][1][0] = Hash[x][0] % Size
         /\ Perm[x][0 + 1][0] = Hash[x][0] % Size
         /\ Perm[x][1] = [[i \in Index |-> IF i = 0 THEN Hash[x][0] % Size ELSE i]
                            EXCEPT ![Hash[x][0] % Size] = 0]
  <1> DEFINE h == Hash[x][0]
             q == h % Size
  <1>1. 0 \in Index /\ h \in Nat /\ Size \in Nat /\ Size > 0
    BY ConstantsAssumption DEF Index
  <1>2. q \in Index
    BY <1>1, ModBound DEF Index
  <1>3. Perm[x][1] = Swap(Id, 0, h)
    <2>1. Perm[x][0 + 1] = Swap(Perm[x][0], 0, h) /\ Perm[x][0] = Id
      BY <1>1, PermAssumption
    <2> QED  BY <2>1
  <1>4. 0 + (h % (Size - 0)) = q
    BY <1>1
  <1> HIDE DEF h
  <1>5. Swap(Id, 0, h) = IF 0 < Size - 1 THEN [Id EXCEPT ![0] = Id[q], ![q] = Id[0]] ELSE Id
    BY <1>4 DEF Swap
  <1> HIDE DEF q
  <1>6. CASE 0 < Size - 1
    <2>1. Perm[x][1] = [Id EXCEPT ![0] = q, ![q] = 0]
      BY <1>1, <1>2, <1>3, <1>5, <1>6 DEF Id
    <2>2. [Id EXCEPT ![0] = q, ![q] = 0]
            = [[i \in Index |-> IF i = 0 THEN q ELSE i] EXCEPT ![q] = 0]
      BY <1>1, <1>2 DEF Id
    <2>3. [Id EXCEPT ![0] = q, ![q] = 0][0] = q
      BY <1>1, <1>2 DEF Id
    <2> QED  BY <1>2, <2>1, <2>2, <2>3, 0 + 1 = 1, Zenon DEF q, h
  <1>7. CASE ~(0 < Size - 1)
    <2>1. Size = 1 /\ Index = {0} /\ q = 0
      BY <1>1, <1>2, <1>7 DEF Index
    <2>2. Perm[x][1] = Id
      BY <1>3, <1>5, <1>7
    <2>3. Id = [[i \in Index |-> IF i = 0 THEN q ELSE i] EXCEPT ![q] = 0] /\ Id[0] = q
      BY <2>1 DEF Id
    <2> QED  BY <1>2, <2>2, <2>3, 0 + 1 = 1, Zenon DEF q, h
  <1> QED  BY <1>6, <1>7

\* One more swap settles one more entry.
LEMMA SwapSettles ==
  ASSUME NEW x \in X, NEW n \in Index, NEW f \in [Index -> Index], Settled(f, x, n)
  PROVE  /\ Settled(Swap(f, n, Hash[x][n]), x, n + 1)
         /\ Swap(f, n, Hash[x][n]) \in [Index -> Index]
  <1> DEFINE g == Swap(f, n, Hash[x][n])
  <1>1. Hash[x][n] \in Nat
    BY ConstantsAssumption
  <1>2. g \in [Index -> Index] /\ \A i \in 0..(n - 1) : g[i] = f[i]
    BY <1>1, SwapKeeps
  <1>3. g = Perm[x][n + 1]
    BY PermAssumption DEF Settled
  <1> HIDE DEF g
  <1>4. n \in Nat
    BY ConstantsAssumption DEF Index
  <1>5. \A i \in 0..n : g[i] = Perm[x][i + 1][i]
    <2> SUFFICES ASSUME NEW i \in 0..n  PROVE g[i] = Perm[x][i + 1][i]
      OBVIOUS
    <2>1. CASE i = n
      BY <1>3, <2>1
    <2>2. CASE i # n
      <3>1. i \in 0..(n - 1)
        BY <1>4, <2>2
      <3> QED  BY <1>2, <3>1 DEF Settled
    <2> QED  BY <2>1, <2>2
  <1>6. Settled(g, x, n + 1)
    <2>1. 0..((n + 1) - 1) = 0..n
      BY <1>4
    <2> QED  BY <1>3, <1>5, <2>1, Zenon DEF Settled
  <1> QED  BY <1>2, <1>6 DEF g

----------------------------------------------------------------------------
(* The invariant.                                                           *)

\* Nothing is cached and nobody is inside in the first state.
LEMMA InitIInv == PermInit => IInv
  <1> SUFFICES ASSUME PermInit  PROVE IInv
    OBVIOUS
  <1>1. 0 \in Index /\ 0 \in Nat
    BY ConstantsAssumption DEF Index
  <1>2. PermTypeOK
    <2>1. perm \in [Index -> Index] /\ mutex \in Thread \cup {NoThread}
      BY <1>1 DEF PermInit
    <2>2. perm_n \in 0..Size \cup {Magic}
      BY ConstantsAssumption DEF PermInit
    <2>3. th \in [Thread -> [pc : {"idle", "held", "loop", "got"}, x : Nat, pr : Index, s : Index]]
      BY <1>1 DEF PermInit
    <2> QED  BY <2>1, <2>2, <2>3 DEF PermTypeOK
  <1>3. OwnerInside /\ LoopOK /\ ChoiceIsOfInput
    BY DEF PermInit, OwnerInside, LoopOK, ChoiceIsOfInput
  <1>4. CacheOK
    BY DEF PermInit, CacheOK
  <1> QED  BY <1>2, <1>3, <1>4 DEF IInv

\* Only the owner of the mutex is inside, so a step of the cache disturbs no
\* other call.
LEMMA Alone ==
  ASSUME OwnerInside, NEW t \in Thread, th[t].pc # "idle"
  PROVE  \A u \in Thread \ {t} : th[u].pc = "idle"
  BY DEF OwnerInside

\* A step of the thread t that is inside: it stays inside with its input, the
\* others stay out, and the invariant is about t alone.
LEMMA InsideStep ==
  ASSUME IInv, NEW t \in Thread, th[t].pc # "idle",
         PermTypeOK', UNCHANGED mutex,
         \A u \in Thread \ {t} : th'[u] = th[u],
         th'[t].pc # "idle", th'[t].x = th[t].x,
         CacheOK',
         th'[t].pc = "loop" => perm_x' = th[t].x /\ perm_n' # Magic /\ Settled(perm', perm_x', perm_n'),
         th'[t].pc = "got" => th'[t].s = Perm[th[t].x][th'[t].pr + 1][th'[t].pr]
  PROVE  IInv'
  <1>1. \A u \in Thread \ {t} : th[u].pc = "idle"
    BY Alone DEF IInv
  <1>2. OwnerInside'
    BY <1>1 DEF IInv, OwnerInside
  <1>3. LoopOK'
    BY <1>1 DEF LoopOK
  <1>4. ChoiceIsOfInput'
    BY <1>1 DEF ChoiceIsOfInput
  <1> QED  BY <1>2, <1>3, <1>4 DEF IInv

\* What a thread that is inside has.
LEMMA InsideFacts ==
  ASSUME IInv, NEW t \in Thread, th[t].pc # "idle"
  PROVE  /\ th[t].x \in X /\ th[t].x \in Nat /\ th[t].pr \in Index /\ th[t].pr \in Nat
         /\ Size \in Nat /\ Size > 0 /\ 0 \in Index
         /\ perm \in [Index -> Index]
         /\ Hash[th[t].x] \in [Index -> Nat]
         /\ Hash[th[t].x][0] % Size \in Index
  <1>1. th[t].x \in X /\ th[t].x \in Nat /\ th[t].pr \in Index /\ perm \in [Index -> Index]
    BY DEF IInv, OwnerInside, PermTypeOK
  <1>2. Size \in Nat /\ Size > 0 /\ 0 \in Index /\ th[t].pr \in Nat
    BY <1>1, ConstantsAssumption DEF Index
  <1> QED  BY <1>1, <1>2, FirstSwap, ConstantsAssumption

\* A call of the entry 0 of a new input.
LEMMA CallFirstIInv ==
  ASSUME IInv, NEW t \in Thread, NEW r \in Nat, CallFirst(t, r)
  PROVE  IInv'
  <1> DEFINE v == Hash[th[t].x][0] % Size
  <1>1. th[t].pc # "idle"
    BY DEF CallFirst, Calling
  <1>2. th[t].x \in X /\ th[t].x \in Nat /\ v \in Index /\ 0 \in Index
    BY <1>1, InsideFacts
  <1>3. Perm[th[t].x][0 + 1][0] = v
    BY <1>2, FirstSwap, Zenon
  <1>4. /\ perm' = [perm EXCEPT ![0] = v] /\ perm_n' = Magic /\ perm_x' = th[t].x
        /\ th' = [th EXCEPT ![t].pc = "got", ![t].pr = 0, ![t].s = v] /\ mutex' = mutex
    BY DEF CallFirst
  <1> HIDE DEF v
  <1>5. PermTypeOK'
    <2>1. th' \in [Thread -> [pc : {"idle", "held", "loop", "got"}, x : Nat, pr : Index, s : Index]]
      BY <1>2, <1>4 DEF PermTypeOK, IInv
    <2>2. perm' \in [Index -> Index]
      BY <1>2, <1>4 DEF PermTypeOK, IInv
    <2> QED  BY <1>4, <2>1, <2>2 DEF PermTypeOK, IInv
  <1>6. /\ th'[t].pc = "got" /\ th'[t].x = th[t].x /\ th'[t].pr = 0 /\ th'[t].s = v
        /\ \A u \in Thread \ {t} : th'[u] = th[u]
    BY <1>4 DEF PermTypeOK, IInv
  <1>7. CacheOK'
    <2>1. perm'[0] = v
      BY <1>2, <1>4 DEF PermTypeOK, IInv
    <2>2. perm'[0] = Hash[perm_x'][0] % Size
      BY <1>4, <2>1 DEF v
    <2> QED  BY <1>2, <1>4, <2>2 DEF CacheOK
  <1> QED  BY <1>1, <1>3, <1>4, <1>5, <1>6, <1>7, InsideStep

\* A call of another entry of a new input.
LEMMA CallNewIInv ==
  ASSUME IInv, NEW t \in Thread, NEW r \in Nat, CallNew(t, r)
  PROVE  IInv'
  <1>1. th[t].pc # "idle"
    BY DEF CallNew, Calling
  <1>2. th[t].x \in X /\ th[t].x \in Nat /\ Size \in Nat /\ Size > 0
    BY <1>1, InsideFacts
  <1>3. r % Size \in Index
    BY <1>2, ModBound DEF Index
  <1>4. /\ perm' = Id /\ perm_n' = 0 /\ perm_x' = th[t].x
        /\ th' = [th EXCEPT ![t].pc = "loop", ![t].pr = r % Size] /\ mutex' = mutex
    BY DEF CallNew
  <1>5. PermTypeOK'
    <2>1. perm' \in [Index -> Index]
      BY <1>4 DEF Id
    <2>2. th' \in [Thread -> [pc : {"idle", "held", "loop", "got"}, x : Nat, pr : Index, s : Index]]
      BY <1>3, <1>4 DEF PermTypeOK, IInv
    <2> QED  BY <1>2, <1>4, <2>1, <2>2 DEF PermTypeOK, IInv
  <1>6. /\ th'[t].pc = "loop" /\ th'[t].x = th[t].x
        /\ \A u \in Thread \ {t} : th'[u] = th[u]
    BY <1>4 DEF PermTypeOK, IInv
  <1>7. Settled(perm', perm_x', perm_n')
    <2>1. perm' = Perm[perm_x'][0]
      BY <1>2, <1>4, PermAssumption
    <2>2. 0..(0 - 1) = {}
      OBVIOUS
    <2> QED  BY <1>4, <2>1, <2>2 DEF Settled
  <1>8. CacheOK' /\ perm_n' # Magic
    BY <1>4 DEF CacheOK, Magic
  <1> QED  BY <1>1, <1>4, <1>5, <1>6, <1>7, <1>8, InsideStep

\* A call of the input whose entry 0 was asked for last.
LEMMA CallMagicIInv ==
  ASSUME IInv, NEW t \in Thread, NEW r \in Nat, CallMagic(t, r)
  PROVE  IInv'
  <1> DEFINE v == Hash[th[t].x][0] % Size
             f == [[i \in Index |-> IF i = 0 THEN v ELSE i] EXCEPT ![v] = 0]
  <1>1. th[t].pc # "idle"
    BY DEF CallMagic, Calling
  <1>2. /\ th[t].x \in X /\ th[t].x \in Nat /\ Size \in Nat /\ Size > 0
        /\ v \in Index /\ 0 \in Index /\ perm \in [Index -> Index]
    BY <1>1, InsideFacts
  <1>3. r % Size \in Index
    BY <1>2, ModBound DEF Index
  <1>4. perm_x = th[t].x /\ perm[0] = v
    BY DEF CallMagic, NewPerm, IInv, CacheOK, Magic
  <1>5. perm' = f /\ perm_n' = 1 /\ perm_x' = perm_x /\ mutex' = mutex
        /\ th' = [th EXCEPT ![t].pc = "loop", ![t].pr = r % Size]
    BY <1>4 DEF CallMagic
  <1>6. f = Perm[th[t].x][1] /\ Perm[th[t].x][0 + 1][0] = v
    BY <1>2, FirstSwap
  <1>7. Perm[th[t].x][1] \in [Index -> Index]
    BY <1>2, ConstantsAssumption
  <1> HIDE DEF v, f
  <1>8. PermTypeOK'
    <2>1. th' \in [Thread -> [pc : {"idle", "held", "loop", "got"}, x : Nat, pr : Index, s : Index]]
      BY <1>3, <1>5 DEF PermTypeOK, IInv
    <2>2. perm' \in [Index -> Index]
      BY <1>5, <1>6, <1>7
    <2>3. perm_n' \in 0..Size
      BY <1>2, <1>5
    <2> QED  BY <1>5, <2>1, <2>2, <2>3 DEF PermTypeOK, IInv
  <1>9. /\ th'[t].pc = "loop" /\ th'[t].x = th[t].x
        /\ \A u \in Thread \ {t} : th'[u] = th[u]
    BY <1>5 DEF PermTypeOK, IInv
  <1>10. Settled(perm', perm_x', perm_n')
    <2>1. perm'[0] = Perm[perm_x'][0 + 1][0] /\ perm' = Perm[perm_x'][1]
      BY <1>4, <1>5, <1>6, <1>2, FirstSwap DEF v
    <2>2. 0..(perm_n' - 1) = {0}
      BY <1>5
    <2>3. \A i \in 0..(perm_n' - 1) : perm'[i] = Perm[perm_x'][i + 1][i]
      BY <2>1, <2>2, Zenon
    <2> QED  BY <1>5, <2>1, <2>3, Zenon DEF Settled
  <1>11. CacheOK' /\ perm_n' # Magic
    BY <1>2, <1>4, <1>5, <1>10 DEF CacheOK, Magic
  <1> QED  BY <1>1, <1>4, <1>5, <1>8, <1>9, <1>10, <1>11, InsideStep

\* A call of the input whose shuffle is cached.
LEMMA CallCachedIInv ==
  ASSUME IInv, NEW t \in Thread, NEW r \in Nat, CallCached(t, r)
  PROVE  IInv'
  <1>1. th[t].pc # "idle"
    BY DEF CallCached, Calling
  <1>2. th[t].x \in X /\ Size \in Nat /\ Size > 0
    BY <1>1, InsideFacts
  <1>3. r % Size \in Index
    BY <1>2, ModBound DEF Index
  <1>4. /\ perm' = perm /\ perm_n' = perm_n /\ perm_x' = perm_x /\ mutex' = mutex
        /\ th' = [th EXCEPT ![t].pc = "loop", ![t].pr = r % Size]
    BY DEF CallCached
  <1>5. PermTypeOK'
    BY <1>3, <1>4 DEF PermTypeOK, IInv
  <1>6. /\ th'[t].pc = "loop" /\ th'[t].x = th[t].x
        /\ \A u \in Thread \ {t} : th'[u] = th[u]
    BY <1>4 DEF PermTypeOK, IInv
  <1>7. perm_x = th[t].x /\ perm_n # Magic /\ Settled(perm, perm_x, perm_n)
    BY DEF CallCached, NewPerm, IInv, CacheOK
  <1>8. CacheOK' /\ Settled(perm', perm_x', perm_n') /\ perm_x' = th[t].x /\ perm_n' # Magic
    BY <1>4, <1>7 DEF IInv, CacheOK
  <1> QED  BY <1>1, <1>4, <1>5, <1>6, <1>8, InsideStep

\* One more swap of the loop.
LEMMA ShuffleIInv ==
  ASSUME IInv, NEW t \in Thread, Shuffle(t)
  PROVE  IInv'
  <1>1. th[t].pc # "idle" /\ th[t].pc = "loop"
    BY DEF Shuffle
  <1>2. /\ th[t].x \in X /\ th[t].pr \in Index /\ th[t].pr \in Nat
        /\ Size \in Nat /\ Size > 0 /\ perm \in [Index -> Index]
    BY <1>1, InsideFacts
  <1>3. perm_x = th[t].x /\ perm_n # Magic /\ Settled(perm, perm_x, perm_n)
    BY <1>1 DEF IInv, LoopOK
  <1>4. perm_n \in 0..Size
    BY <1>3 DEF IInv, PermTypeOK
  <1>5. perm_n \in Index /\ perm_n + 1 \in 1..Size
    BY <1>2, <1>4 DEF Shuffle, Index
  <1>6. /\ perm' = Swap(perm, perm_n, Hash[perm_x][perm_n]) /\ perm_n' = perm_n + 1
        /\ perm_x' = perm_x /\ mutex' = mutex /\ th' = th
    BY <1>3 DEF Shuffle
  <1>7. Settled(perm', perm_x', perm_n') /\ perm' \in [Index -> Index]
    BY <1>2, <1>3, <1>5, <1>6, SwapSettles
  <1>8. perm_n' # Magic /\ perm_n' \in 0..Size
    BY <1>2, <1>5, <1>6, ConstantsAssumption DEF Magic
  <1>9. PermTypeOK'
    BY <1>6, <1>7, <1>8 DEF IInv, PermTypeOK
  <1>10. CacheOK'
    BY <1>2, <1>3, <1>6, <1>7, <1>8 DEF CacheOK
  <1> QED  BY <1>1, <1>3, <1>6, <1>7, <1>8, <1>9, <1>10, InsideStep

\* The entry is settled when the loop ends.
LEMMA FoundIInv ==
  ASSUME IInv, NEW t \in Thread, Found(t)
  PROVE  IInv'
  <1>1. th[t].pc # "idle" /\ th[t].pc = "loop"
    BY DEF Found
  <1>2. /\ th[t].x \in X /\ th[t].pr \in Index /\ th[t].pr \in Nat
        /\ Size \in Nat /\ perm \in [Index -> Index]
    BY <1>1, InsideFacts
  <1>3. perm_x = th[t].x /\ perm_n # Magic /\ Settled(perm, perm_x, perm_n)
    BY <1>1 DEF IInv, LoopOK
  <1>4. perm_n \in 0..Size
    BY <1>3 DEF IInv, PermTypeOK
  <1>5. th[t].pr \in 0..(perm_n - 1)
    BY <1>2, <1>4 DEF Found
  <1>6. perm[th[t].pr] = Perm[th[t].x][th[t].pr + 1][th[t].pr]
    BY <1>3, <1>5 DEF Settled
  <1>7. /\ perm' = perm /\ perm_n' = perm_n /\ perm_x' = perm_x /\ mutex' = mutex
        /\ th' = [th EXCEPT ![t].pc = "got", ![t].s = perm[th[t].pr]]
    BY DEF Found
  <1>8. perm[th[t].pr] \in Index
    BY <1>2
  <1>9. PermTypeOK'
    <2>1. th' \in [Thread -> [pc : {"idle", "held", "loop", "got"}, x : Nat, pr : Index, s : Index]]
      BY <1>7, <1>8 DEF IInv, PermTypeOK
    <2> QED  BY <1>7, <2>1 DEF IInv, PermTypeOK
  <1>10. /\ th'[t].pc = "got" /\ th'[t].x = th[t].x /\ th'[t].pr = th[t].pr
         /\ th'[t].s = perm[th[t].pr]
         /\ \A u \in Thread \ {t} : th'[u] = th[u]
    BY <1>7 DEF IInv, PermTypeOK
  <1>11. CacheOK'
    BY <1>7 DEF IInv, CacheOK
  <1> QED  BY <1>1, <1>6, <1>7, <1>9, <1>10, <1>11, InsideStep

\* Taking and leaving the mutex leave the cache alone.
LEMMA LockIInv ==
  ASSUME IInv, NEW t \in Thread, NEW x \in X, Lock(t, x)
  PROVE  IInv'
  <1>1. /\ perm' = perm /\ perm_n' = perm_n /\ perm_x' = perm_x /\ mutex' = t
        /\ th' = [th EXCEPT ![t].pc = "held", ![t].x = x]
    BY DEF Lock
  <1>2. x \in Nat
    BY ConstantsAssumption
  <1>3. PermTypeOK'
    <2>1. th' \in [Thread -> [pc : {"idle", "held", "loop", "got"}, x : Nat, pr : Index, s : Index]]
      BY <1>1, <1>2 DEF IInv, PermTypeOK
    <2> QED  BY <1>1, <2>1 DEF IInv, PermTypeOK
  <1>4. \A u \in Thread : th[u].pc = "idle"
    BY ConstantsAssumption DEF Lock, IInv, OwnerInside
  <1>5. /\ th'[t].pc = "held" /\ th'[t].x = x
        /\ \A u \in Thread \ {t} : th'[u].pc = "idle"
    BY <1>1, <1>4 DEF IInv, PermTypeOK
  <1>6. OwnerInside' /\ LoopOK' /\ ChoiceIsOfInput'
    BY <1>1, <1>5 DEF OwnerInside, LoopOK, ChoiceIsOfInput
  <1>7. CacheOK'
    BY <1>1 DEF IInv, CacheOK
  <1> QED  BY <1>3, <1>6, <1>7 DEF IInv

\* A thread that lets go of the mutex leaves the cache as it is.
LEMMA UnlockIInv ==
  ASSUME IInv, NEW t \in Thread, Unlock(t)
  PROVE  IInv'
  <1>1. /\ perm' = perm /\ perm_n' = perm_n /\ perm_x' = perm_x /\ mutex' = NoThread
        /\ th' = [th EXCEPT ![t] = [pc |-> "idle", x |-> 0, pr |-> 0, s |-> 0]]
    BY DEF Unlock
  <1>2. th[t].pc # "idle"
    BY DEF Unlock, Calling
  <1>3. 0 \in Index
    BY <1>2, InsideFacts
  <1>4. PermTypeOK'
    <2>1. th' \in [Thread -> [pc : {"idle", "held", "loop", "got"}, x : Nat, pr : Index, s : Index]]
      BY <1>1, <1>3 DEF IInv, PermTypeOK
    <2> QED  BY <1>1, <2>1 DEF IInv, PermTypeOK
  <1>5. \A u \in Thread \ {t} : th[u].pc = "idle"
    BY <1>2, Alone DEF IInv
  <1>6. \A u \in Thread : th'[u].pc = "idle"
    BY <1>1, <1>5 DEF IInv, PermTypeOK
  <1>7. OwnerInside' /\ LoopOK' /\ ChoiceIsOfInput'
    BY <1>6 DEF OwnerInside, LoopOK, ChoiceIsOfInput
  <1>8. CacheOK'
    BY <1>1 DEF IInv, CacheOK
  <1> QED  BY <1>4, <1>7, <1>8 DEF IInv

\* Every step keeps the invariant.
LEMMA NextIInv == IInv /\ [PermNext]_permVars => IInv'
  <1> SUFFICES ASSUME IInv, [PermNext]_permVars  PROVE IInv'
    OBVIOUS
  <1>1. CASE UNCHANGED permVars
    BY <1>1 DEF permVars, IInv, PermTypeOK, OwnerInside, CacheOK, LoopOK, Settled, ChoiceIsOfInput
  <1>2. ASSUME NEW t \in Thread, NEW x \in X, Lock(t, x)  PROVE IInv'
    BY <1>2, LockIInv
  <1>3. ASSUME NEW t \in Thread, Unlock(t)  PROVE IInv'
    BY <1>3, UnlockIInv
  <1>4. ASSUME NEW t \in Thread, Choose(t)  PROVE IInv'
    <2>1. \A r \in 0..(2 * Size) : r \in Nat
      BY ConstantsAssumption
    <2>2. ASSUME NEW r \in 0..(2 * Size), CallFirst(t, r)  PROVE IInv'
      BY <2>1, <2>2, CallFirstIInv
    <2>3. ASSUME NEW r \in 0..(2 * Size), CallNew(t, r)  PROVE IInv'
      BY <2>1, <2>3, CallNewIInv
    <2>4. ASSUME NEW r \in 0..(2 * Size), CallMagic(t, r)  PROVE IInv'
      BY <2>1, <2>4, CallMagicIInv
    <2>5. ASSUME NEW r \in 0..(2 * Size), CallCached(t, r)  PROVE IInv'
      BY <2>1, <2>5, CallCachedIInv
    <2>6. CASE Shuffle(t)
      BY <2>6, ShuffleIInv
    <2>7. CASE Found(t)
      BY <2>7, FoundIInv
    <2> QED  BY <1>4, <2>2, <2>3, <2>4, <2>5, <2>6, <2>7 DEF Choose
  <1> QED  BY <1>1, <1>2, <1>3, <1>4 DEF PermNext

\* bucket_perm_choose() is a function of its arguments: in every behaviour of
\* threads that share the bucket's cache under crush_scratch_mutex, each call
\* finds the entry of its own input's shuffle.
THEOREM PermChooseIsAFunction == PermSpec => []ChoiceIsOfInput
  <1>1. IInv => ChoiceIsOfInput
    BY DEF IInv
  <1> QED  BY <1>1, InitIInv, NextIInv, PTL DEF PermSpec

=============================================================================
