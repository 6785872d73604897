---------------------------- MODULE LayoutProofs ----------------------------
(***************************************************************************)
(* What the striping of files and the placement of objects rest on, for    *)
(* every layout and every size of a pool.                                  *)
(***************************************************************************)
EXTENDS OsdMap, TLAPS

\* A quotient and a remainder determine each other's number.
LEMMA Quotient ==
  ASSUME NEW a \in Nat, NEW d \in Nat \ {0}
  PROVE  a = d * (a \div d) + (a % d) /\ a \div d \in Nat /\ a % d \in Nat /\ a % d < d
  OBVIOUS

\* Multiples of d are d apart.
LEMMA Apart ==
  ASSUME NEW p \in Nat, NEW q \in Nat, NEW d \in Nat \ {0}, p < q
  PROVE  d * p + d <= d * q
  <1>1. PICK k \in Nat : q = (p + 1) + k
    <2>1. q - (p + 1) \in Nat /\ q = (p + 1) + (q - (p + 1))
      OBVIOUS
    <2> QED  BY <2>1
  <1>2. d * q = (d * p + d) + d * k
    BY <1>1
  <1>3. d * k \in Nat /\ d * p \in Nat
    OBVIOUS
  <1> QED  BY <1>2, <1>3

\* Division is unique.
LEMMA DivUnique ==
  ASSUME NEW p \in Nat, NEW q \in Nat, NEW d \in Nat \ {0}, NEW r \in Nat, NEW s \in Nat,
         r < d, s < d, d * p + r = d * q + s
  PROVE  p = q /\ r = s
  <1>1. d * p \in Nat /\ d * q \in Nat
    OBVIOUS
  <1>2. ~(p < q)
    <2> SUFFICES ASSUME p < q  PROVE FALSE
      OBVIOUS
    <2>1. d * p + d <= d * q
      BY Apart
    <2> QED  BY <1>1, <2>1
  <1>3. ~(q < p)
    <2> SUFFICES ASSUME q < p  PROVE FALSE
      OBVIOUS
    <2>1. d * q + d <= d * p
      BY Apart
    <2> QED  BY <1>1, <2>1
  <1>4. p = q
    BY <1>2, <1>3
  <1>5. d * p = d * q
    BY <1>4
  <1> QED  BY <1>1, <1>4, <1>5

----------------------------------------------------------------------------
(* Striping.                                                                *)

\* The layouts ceph_calc_file_object_mapping() accepts, and the offsets whose
\* stripe unit has a u32 number.
IsLayout(l) ==
  /\ l.su \in Nat \ {0} /\ l.sc \in Nat \ {0} /\ l.osize \in Nat
  /\ ValidLayout(l)
Reach(l, off) == off \div l.su < U32

\* What the numbers of an extent are made of: the object set, the stripe in
\* it, the position in the stripe and the offset in the stripe unit.
Split(l, off, e, set, j, pos, s) ==
  /\ j < su_per_object(l) /\ pos < l.sc /\ s < l.su
  /\ off = l.su * (l.sc * (su_per_object(l) * set + j) + pos) + s
  /\ e.ono = l.sc * set + pos
  /\ e.oxoff = l.su * j + s

\* Numbers below a bound are their own remainders.
LEMMA SmallMod ==
  ASSUME NEW a \in Nat, NEW d \in Nat \ {0}, a < d
  PROVE  a % d = a
  OBVIOUS

\* An extent is split as it should be.
LEMMA SplitExists ==
  ASSUME NEW l, IsLayout(l), NEW off \in Nat, Reach(l, off), NEW len,
         NEW e, e = file_object_mapping(l, off, len)
  PROVE  \E set, j, pos, s \in Nat : Split(l, off, e, set, j, pos, s)
  <1> DEFINE su == l.su
             sc == l.sc
             k == su_per_object(l)
             q == off \div su
             n == q \div sc
             pos == q % sc
             set == n \div k
             j == n % k
             s == off % su
  <1>1. su \in Nat \ {0} /\ sc \in Nat \ {0} /\ k \in Nat \ {0}
    <2>1. k \in Nat /\ k > 0
      BY DEF IsLayout, ValidLayout, su_per_object
    <2> QED  BY <2>1 DEF IsLayout
  <1>2. off = su * q + s /\ q \in Nat /\ s \in Nat /\ s < su
    BY <1>1, Quotient
  <1>3. q = sc * n + pos /\ n \in Nat /\ pos \in Nat /\ pos < sc
    BY <1>1, <1>2, Quotient
  <1>4. n = k * set + j /\ set \in Nat /\ j \in Nat /\ j < k
    BY <1>1, <1>3, Quotient
  <1>5. q % U32 = q
    BY <1>2, SmallMod, MapConstants DEF Reach
  <1>6. (set * sc + pos) % U32 = sc * set + pos
    <2>1. set <= n
      <3> HIDE DEF su, sc, q, n, pos, set, j, s, k
      <3>1. PICK i \in Nat : k = i + 1
        <4>1. k - 1 \in Nat /\ k = (k - 1) + 1
          BY <1>1
        <4> QED  BY <4>1
      <3>2. k * set = i * set + set /\ i * set \in Nat
        BY <1>4, <3>1
      <3> QED  BY <1>4, <3>2
    <2>2. sc * set <= sc * n
      <3> HIDE DEF su, sc, q, n, pos, set, j, s, k
      <3>1. CASE set = n
        <4>1. sc * set = sc * n /\ sc * n \in Nat
          BY <1>1, <1>3, <3>1
        <4> QED  BY <4>1
      <3>2. CASE set < n
        <4>1. sc * set + sc <= sc * n /\ sc * set \in Nat /\ sc * n \in Nat
          BY <1>1, <1>3, <1>4, <3>2, Apart
        <4> QED  BY <1>1, <4>1
      <3> QED  BY <1>3, <1>4, <2>1, <3>1, <3>2
    <2>3. sc * set \in Nat /\ sc * n \in Nat /\ set * sc = sc * set
      <3> HIDE DEF su, sc, q, n, pos, set, j, s, k
      <3> QED  BY <1>1, <1>3, <1>4
    <2>4. q < U32
      BY DEF Reach
    <2> HIDE DEF su, sc, q, n, pos, set, j, s, k
    <2>5. set * sc + pos \in Nat /\ set * sc + pos < U32
      BY <1>3, <2>2, <2>3, <2>4, MapConstants
    <2>6. (set * sc + pos) % U32 = set * sc + pos
      BY <2>5, SmallMod, MapConstants
    <2> QED  BY <2>3, <2>6
  <1>7. e.ono = sc * set + pos
    BY <1>5, <1>6 DEF file_object_mapping
  <1>8. e.oxoff = su * j + s
    <2>1. e.oxoff = s + j * su
      BY <1>5 DEF file_object_mapping
    <2> HIDE DEF su, sc, q, n, pos, set, j, s, k
    <2>2. j * su = su * j /\ su * j \in Nat
      BY <1>1, <1>4
    <2> QED  BY <1>2, <2>1, <2>2
  <1>9. off = su * (sc * (k * set + j) + pos) + s
    BY <1>2, <1>3, <1>4
  <1>10. Split(l, off, e, set, j, pos, s)
    <2> HIDE DEF q, n, pos, set, j, s
    <2> QED  BY <1>2, <1>3, <1>4, <1>7, <1>8, <1>9 DEF Split
  <1> HIDE DEF q, n, pos, set, j, s
  <1> QED  BY <1>2, <1>3, <1>4, <1>10

\* Two bytes of a file are never placed on the same byte of an object, whatever
\* the layout (ceph_calc_file_object_mapping()): for all files whose stripe
\* units can be numbered.
THEOREM StripesApart ==
  ASSUME NEW l, IsLayout(l),
         NEW off1 \in Nat, Reach(l, off1), NEW len1, NEW off2 \in Nat, Reach(l, off2), NEW len2,
         NEW e1, e1 = file_object_mapping(l, off1, len1),
         NEW e2, e2 = file_object_mapping(l, off2, len2),
         e1.ono = e2.ono, e1.oxoff = e2.oxoff
  PROVE  off1 = off2
  <1>1. PICK a1, j1, p1, s1 \in Nat : Split(l, off1, e1, a1, j1, p1, s1)
    BY SplitExists
  <1>2. PICK a2, j2, p2, s2 \in Nat : Split(l, off2, e2, a2, j2, p2, s2)
    BY SplitExists
  <1>3. a1 = a2 /\ p1 = p2
    <2>1. l.sc \in Nat \ {0} /\ l.sc * a1 + p1 = l.sc * a2 + p2 /\ p1 < l.sc /\ p2 < l.sc
      BY <1>1, <1>2 DEF Split, IsLayout
    <2> QED  BY <2>1, DivUnique
  <1>4. j1 = j2 /\ s1 = s2
    <2>1. l.su \in Nat \ {0} /\ l.su * j1 + s1 = l.su * j2 + s2 /\ s1 < l.su /\ s2 < l.su
      BY <1>1, <1>2 DEF Split, IsLayout
    <2> QED  BY <2>1, DivUnique
  <1> QED  BY <1>1, <1>2, <1>3, <1>4, Zenon DEF Split

----------------------------------------------------------------------------
(* Placement groups.                                                        *)

\* bmask is the mask calc_pg_masks() gives a pool of b placement groups: with
\* h the half of bmask + 1, more than h and at most twice as many.
MaskOf(b, bmask, h) == \/ b = 1 /\ bmask = 0 /\ h = 1
                       \/ h \in Nat \ {0} /\ bmask = 2 * h - 1 /\ h < b /\ b <= 2 * h

\* The remainder of half the modulus.
LEMMA HalfMod ==
  ASSUME NEW x \in Nat, NEW h \in Nat \ {0}
  PROVE  /\ x % (2 * h) < h => x % h = x % (2 * h)
         /\ x % (2 * h) >= h => x % h = (x % (2 * h)) - h
  <1> DEFINE q == x \div (2 * h)
             r == x % (2 * h)
             p == x \div h
             s == x % h
  <1>1. 2 * h \in Nat \ {0}
    OBVIOUS
  <1>2. x = (2 * h) * q + r /\ q \in Nat /\ r \in Nat /\ r < 2 * h
    BY <1>1, Quotient
  <1>3. x = h * p + s /\ p \in Nat /\ s \in Nat /\ s < h
    BY Quotient
  <1> HIDE DEF q, r, p, s
  <1>4. (2 * h) * q = h * (2 * q) /\ h * (2 * q) + h = h * (2 * q + 1)
    BY <1>2
  <1>5. CASE r < h
    <2>0. 2 * q \in Nat
      BY <1>2
    <2>1. h * p + s = h * (2 * q) + r
      <3> DEFINE a == h * p
                 b == (2 * h) * q
                 c == h * (2 * q)
      <3>1. x = a + s /\ x = b + r /\ b = c
        BY <1>2, <1>3, <1>4
      <3> HIDE DEF a, b, c
      <3>2. a + s = c + r
        BY <3>1
      <3> QED  BY <3>2 DEF a, c
    <2>2. s = r
      <3> DEFINE t == 2 * q
      <3>1. t \in Nat /\ h * p + s = h * t + r
        BY <2>0, <2>1
      <3> HIDE DEF t
      <3>2. r \in Nat /\ r < h /\ s \in Nat /\ s < h /\ p \in Nat
        BY <1>2, <1>3, <1>5
      <3> QED  BY <3>1, <3>2, DivUnique
    <2> QED  BY <1>2, <1>5, <2>2 DEF r, s
  <1>6. CASE r >= h
    <2>0. 2 * q \in Nat /\ 2 * q + 1 \in Nat
      BY <1>2
    <2>2. r - h \in Nat /\ r - h < h
      BY <1>2, <1>6
    <2>3. h * p + s = h * (2 * q + 1) + (r - h)
      <3> DEFINE a == h * p
                 b == (2 * h) * q
                 c == h * (2 * q)
                 d == h * (2 * q + 1)
      <3>1. x = a + s /\ x = b + r /\ b = c /\ c + h = d
        BY <1>2, <1>3, <1>4
      <3>2. \A i, k \in Nat : i * k \in Nat
        OBVIOUS
      <3>3. a \in Nat /\ c \in Nat
        BY <1>3, <2>0, <3>2
      <3> HIDE DEF a, b, c, d
      <3>4. a + s = d + (r - h)
        BY <1>2, <1>3, <2>2, <3>1, <3>3
      <3> QED  BY <3>4 DEF a, d
    <2>4. s = r - h
      <3> DEFINE t == 2 * q + 1
                 u == r - h
      <3>1. t \in Nat /\ u \in Nat /\ u < h /\ h * p + s = h * t + u
        BY <2>0, <2>2, <2>3
      <3> HIDE DEF t, u
      <3>2. s = u
        BY <1>3, <3>1, DivUnique
      <3> QED  BY <3>2 DEF u
    <2> QED  BY <1>2, <1>6, <2>4 DEF r, s
  <1> QED  BY <1>2, <1>5, <1>6 DEF r

\* A pool that grows by one placement group moves an object into the new one
\* or not at all, and before and after it the group is one of the pool's
\* (ceph_stable_mod()).
THEOREM GrowthMovesToNew ==
  ASSUME NEW x \in Nat, NEW b \in Nat \ {0},
         NEW m \in Nat, NEW h \in Nat \ {0}, MaskOf(b, m, h),
         NEW n \in Nat, NEW g \in Nat \ {0}, MaskOf(b + 1, n, g),
         g \in {h, 2 * h}     \* both are powers of two
  PROVE  /\ stable_mod(x, b, m) < b
         /\ stable_mod(x, b + 1, n) \in {stable_mod(x, b, m), b}
  <1>1. \A k \in Nat \ {0} : x % k \in Nat /\ x % k < k
    BY Quotient
  <1>2. CASE b = 1 /\ m = 0 /\ h = 1
    <2>1. n = 1 /\ g = 1
      BY <1>2 DEF MaskOf
    <2>2. stable_mod(x, b, m) = 0
      BY <1>1, <1>2 DEF stable_mod
    <2>3. stable_mod(x, b + 1, n) \in {0, 1}
      BY <1>1, <1>2, <2>1 DEF stable_mod
    <2> QED  BY <1>2, <2>2, <2>3
  <1>3. CASE m = 2 * h - 1 /\ h < b /\ b <= 2 * h
    <2>1. m + 1 = 2 * h /\ (m \div 2) + 1 = h
      BY <1>3
    <2>2. stable_mod(x, b, m) = IF x % (2 * h) < b THEN x % (2 * h) ELSE x % h
      BY <2>1 DEF stable_mod
    <2>3. n = 2 * g - 1 /\ g < b + 1 /\ b + 1 <= 2 * g
      BY <1>3 DEF MaskOf
    <2>4. n + 1 = 2 * g /\ (n \div 2) + 1 = g
      BY <2>3
    <2>5. stable_mod(x, b + 1, n) = IF x % (2 * g) < b + 1 THEN x % (2 * g) ELSE x % g
      BY <2>4 DEF stable_mod
    <2>6. x % h \in Nat /\ x % h < h /\ x % (2 * h) \in Nat /\ x % (2 * h) < 2 * h
      BY <1>1
    <2>7. CASE g = h
      BY <1>3, <2>2, <2>5, <2>6, <2>7
    <2>8. CASE b = 2 * h /\ g = 2 * h
      <3>1. /\ x % (2 * g) < g => x % g = x % (2 * g)
            /\ x % (2 * g) >= g => x % g = (x % (2 * g)) - g
        BY HalfMod
      <3> QED  BY <2>2, <2>5, <2>6, <2>8, <3>1
    <2> QED  BY <1>3, <2>3, <2>7, <2>8
  <1> QED  BY <1>2, <1>3 DEF MaskOf

=============================================================================
