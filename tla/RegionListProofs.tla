--------------------------- MODULE RegionListProofs ---------------------------
(***************************************************************************)
(* Lemmas about numbers - products, quotients, remainders, the least       *)
(* number of a set - and about the updates of RegionList: what each of     *)
(* them does to the set of free units, to the structures in the list, to   *)
(* the order of the list and to the seams in it, and what its searches     *)
(* find.  The proofs about FreeList and PlacedFreeList use both; the other *)
(* proofs use the lemmas about numbers, through an instance.               *)
(***************************************************************************)
EXTENDS RegionList, SequenceTheorems, WellFoundedInduction, TLAPS

-----------------------------------------------------------------------------
(* Numbers.                                                                *)

LEMMA ProductOrder ==
    ASSUME NEW s \in Nat, NEW u \in Int, NEW v \in Int, u <= v
    PROVE  u * s <= v * s
<1>1. (v - u) * s >= 0
      OBVIOUS
<1>2. (v - u) * s = v * s - u * s
      OBVIOUS
<1> QED BY <1>1, <1>2

LEMMA ProductNext ==
    ASSUME NEW s \in Nat, NEW u \in Int, NEW v \in Int, u < v
    PROVE  u * s + s <= v * s
<1>1. (u + 1) * s <= v * s
      BY ProductOrder
<1>2. (u + 1) * s = u * s + s
      OBVIOUS
<1> QED BY <1>1, <1>2

\* An address has one unit and one place in it.
LEMMA OneUnit ==
    ASSUME NEW s \in Nat \ {0}, NEW u \in Int, NEW v \in Int,
           NEW j \in 0..(s - 1), NEW k \in 0..(s - 1),
           u * s + j = v * s + k
    PROVE  u = v /\ j = k
<1> DEFINE us == u * s
           vs == v * s
<1>1. us \in Int /\ vs \in Int /\ s \in Nat /\ us + j = vs + k
      OBVIOUS
<1>2. u < v => us + s <= vs
      BY ProductNext
<1>3. v < u => vs + s <= us
      BY ProductNext
<1>4. u = v => us = vs
      OBVIOUS
<1> HIDE DEF us, vs
<1> QED BY <1>1, <1>2, <1>3, <1>4

LEMMA Division ==
    ASSUME NEW n \in Int, NEW s \in Nat \ {0}
    PROVE  /\ n \div s \in Int /\ n % s \in 0..(s - 1)
           /\ n = (n \div s) * s + (n % s)
<1>1. n \div s \in Int /\ n % s \in 0..(s - 1)
      OBVIOUS
<1>2. n = s * (n \div s) + (n % s)
      OBVIOUS
<1>3. s * (n \div s) = (n \div s) * s
      BY <1>1
<1> QED BY <1>1, <1>2, <1>3

\* A quotient is what its multiple says.
LEMMA Quotient ==
    ASSUME NEW s \in Nat \ {0}, NEW u \in Int, NEW n \in Int, n = u * s
    PROVE  n \div s = u /\ n % s = 0
<1>1. /\ n \div s \in Int /\ n % s \in 0..(s - 1)
      /\ n = (n \div s) * s + (n % s)
      BY Division
<1>2. 0 \in 0..(s - 1) /\ u * s + 0 = (n \div s) * s + (n % s)
      BY <1>1
<1> QED BY <1>1, <1>2, OneUnit

\* Adding a multiple leaves the remainder as it is.
LEMMA RemainderShift ==
    ASSUME NEW a \in Nat \ {0}, NEW n \in Int, NEW t \in Int
    PROVE  (n + t * a) % a = n % a
<1> DEFINE m == n + t * a
           p == n \div a
           q == m \div a
<1>1. t * a \in Int
      OBVIOUS
<1>2. m \in Int
      BY <1>1
<1>3. p \in Int /\ n % a \in 0..(a - 1) /\ n = p * a + (n % a)
      BY Division
<1> HIDE DEF p, m
<1>4. q \in Int /\ m % a \in 0..(a - 1) /\ m = q * a + (m % a)
      BY <1>2, Division
<1> HIDE DEF q
<1>5. (p + t) * a = p * a + t * a
      BY <1>3
<1>6. (p + t) * a + (n % a) = q * a + (m % a)
  <2> DEFINE pa == p * a
             ta == t * a
             r  == n % a
             both == (p + t) * a
  <2>1. /\ pa \in Int /\ ta \in Int /\ r \in Int
        /\ n = pa + r /\ m = n + ta /\ both = pa + ta
        BY <1>3, <1>5 DEF m
  <2> HIDE DEF pa, ta, r, both
  <2>2. both + r = m
        BY <2>1
  <2> QED BY <1>4, <2>2 DEF both, r
<1>7. p + t \in Int
      BY <1>3
<1>8. n % a = m % a
  <2> DEFINE j == n % a
             k == m % a
             u == p + t
  <2>1. /\ u \in Int /\ q \in Int
        /\ j \in 0..(a - 1) /\ k \in 0..(a - 1)
        /\ u * a + j = q * a + k
        BY <1>3, <1>4, <1>6, <1>7
  <2> HIDE DEF j, k, u
  <2>2. j = k
        BY <2>1, OneUnit
  <2> QED BY <2>2 DEF j, k
<1> QED BY <1>8 DEF m

\* Wrapping at a multiple of a leaves the remainder by a as it is.
LEMMA WrapKeepsRemainder ==
    ASSUME NEW a \in Nat \ {0}, NEW s \in Nat \ {0}, s % a = 0,
           NEW n \in Int, NEW x \in Int
    PROVE  ((n % s) + x) % a = (n + x) % a
<1> DEFINE q == n \div s
           k == s \div a
           r == n % s
<1>1. q \in Int /\ r \in Int /\ n = q * s + r
      BY Division
<1>2. k \in Int /\ s = k * a
  <2>1. k \in Int /\ s = k * a + (s % a)
        BY Division
  <2>2. k * a \in Int
        BY <2>1
  <2> QED BY <2>1, <2>2
<1> HIDE DEF q, k, r
<1>3. q * s = (q * k) * a /\ q * k \in Int
      BY <1>1, <1>2
<1>4. r + x \in Int
      BY <1>1
<1>5. ((r + x) + (q * k) * a) % a = (r + x) % a
      BY <1>3, <1>4, RemainderShift
<1>6. (r + x) + (q * k) * a = n + x
  <2> DEFINE qs == q * s
  <2>1. qs \in Int /\ n = qs + r
        BY <1>1
  <2> HIDE DEF qs
  <2>2. (r + x) + qs = n + x
        BY <1>1, <2>1
  <2> QED BY <1>3, <2>2 DEF qs
<1> QED BY <1>5, <1>6 DEF r

LEMMA WrapRemainder ==
    ASSUME NEW a \in Nat \ {0}, NEW s \in Nat \ {0}, s % a = 0, NEW n \in Int
    PROVE  (n % s) % a = n % a
<1> DEFINE r == n % s
<1>0. 0 \in Int
      OBVIOUS
<1>1. (r + 0) % a = (n + 0) % a
      BY <1>0, WrapKeepsRemainder, ZenonT(60)
<1>2. r \in Int
      BY Division
<1> HIDE DEF r
<1>3. r + 0 = r /\ n + 0 = n
      BY <1>2
<1> QED BY <1>1, <1>3 DEF r

\* Skipping what is missing to the next multiple ends at a multiple.
LEMMA SkipToMultiple ==
    ASSUME NEW a \in Nat \ {0}, NEW n \in Int, NEW d \in Int,
           d = IF n % a = 0 THEN 0 ELSE a - (n % a)
    PROVE  d \in 0..(a - 1) /\ (n + d) % a = 0
<1> DEFINE q == n \div a
           r == n % a
<1>1. q \in Int /\ r \in 0..(a - 1) /\ n = q * a + r
      BY Division
<1>2. d = IF r = 0 THEN 0 ELSE a - r
      OBVIOUS
<1> HIDE DEF q, r
<1>3. d \in 0..(a - 1)
      BY <1>1, <1>2
<1>4. CASE r = 0
  <2>1. n = q * a /\ n + d = n
    <3> DEFINE qa == q * a
    <3>1. qa \in Int /\ n = qa + r
          BY <1>1
    <3> HIDE DEF qa
    <3>2. n = qa /\ n + d = n
          BY <1>2, <1>4, <3>1
    <3> QED BY <3>2 DEF qa
  <2> QED BY <1>1, <1>3, <2>1, Quotient
<1>5. CASE r # 0
  <2>1. n + d = (q + 1) * a
    <3> DEFINE qa == q * a
    <3>1. qa \in Int /\ n = qa + r /\ d = a - r
          BY <1>1, <1>2, <1>5
    <3>2. (q + 1) * a = qa + a
          BY <1>1
    <3> HIDE DEF qa
    <3>3. n + d = qa + a
          BY <1>1, <3>1
    <3> QED BY <3>2, <3>3
  <2>2. q + 1 \in Int /\ n + d \in Int
        BY <1>1
  <2>3. (n + d) % a = 0
        BY <2>1, <2>2, Quotient
  <2> QED BY <1>3, <2>3
<1> QED BY <1>4, <1>5

\* A multiple has a factor.
LEMMA MultipleFactor ==
    ASSUME NEW a \in Nat \ {0}, NEW n \in Int, n % a = 0
    PROVE  /\ n \div a \in Int
           /\ n = (n \div a) * a
<1> DEFINE q == n \div a
<1>1. q \in Int /\ n = q * a + (n % a)
      BY Division
<1> HIDE DEF q
<1>2. q * a \in Int
      BY <1>1
<1>3. n = q * a
      BY <1>1, <1>2
<1> QED BY <1>1, <1>3 DEF q

\* A multiple moves the multiples to multiples, and nothing else to them.
LEMMA MultipleSum ==
    ASSUME NEW a \in Nat \ {0}, NEW m \in Int, NEW n \in Int, n % a = 0
    PROVE  (m + n) % a = m % a /\ (m - n) % a = m % a
<1> DEFINE t == n \div a
<1>1. t \in Int /\ n = t * a
      BY MultipleFactor, ZenonT(60)
<1> HIDE DEF t
<1>2. -t \in Int
      BY <1>1
<1>3. (m + t * a) % a = m % a
      BY <1>1, RemainderShift, ZenonT(60)
<1>4. (m + (-t) * a) % a = m % a
      BY <1>2, RemainderShift, ZenonT(60)
<1>5. m + (-t) * a = m - n
  <2>1. (-t) * a = -(t * a)
        BY <1>1
  <2> DEFINE ta == t * a
             oa == (-t) * a
  <2>2. ta \in Int /\ oa = -ta /\ n = ta
        BY <1>1, <2>1
  <2> HIDE DEF ta, oa
  <2>3. m + oa = m - n
        BY <2>2
  <2> QED BY <2>3 DEF oa
<1> QED BY <1>1, <1>3, <1>4, <1>5

LEMMA MultipleProduct ==
    ASSUME NEW a \in Nat \ {0}, NEW m \in Int, NEW k \in Int, m % a = 0
    PROVE  (k * m) % a = 0
<1> DEFINE t == m \div a
           km == k * m
           kt == k * t
<1>1. t \in Int /\ m = t * a
      BY MultipleFactor, ZenonT(60)
<1> HIDE DEF t
<1>2. km \in Int /\ kt \in Int
      BY <1>1
<1>3. km = kt * a
  <2>1. k * (t * a) = (k * t) * a
        BY <1>1
  <2> QED BY <1>1, <2>1
<1> HIDE DEF km, kt
<1>4. km % a = 0
      BY <1>2, <1>3, Quotient, ZenonT(60)
<1> QED BY <1>4 DEF km

\* Multiples of a multiple.
LEMMA MultipleOfMultiple ==
    ASSUME NEW a \in Nat \ {0}, NEW b \in Nat \ {0}, b % a = 0,
           NEW n \in Int, n % b = 0
    PROVE  n % a = 0
<1> DEFINE k == n \div b
<1>1. k \in Int /\ n = k * b
      BY MultipleFactor, ZenonT(60)
<1> HIDE DEF k
<1>2. b \in Int
      OBVIOUS
<1>3. (k * b) % a = 0
      BY <1>1, <1>2, MultipleProduct, ZenonT(60)
<1> QED BY <1>1, <1>3

\* Two multiples are equal or at least a apart.
LEMMA MultiplesApart ==
    ASSUME NEW a \in Nat \ {0}, NEW m \in Int, NEW n \in Int,
           m % a = 0, n % a = 0, m < n
    PROVE  m + a <= n
<1> DEFINE d == n - m
<1>1. d \in Int /\ d % a = 0
  <2>1. (n - m) % a = n % a
        BY MultipleSum, ZenonT(60)
  <2> QED BY <2>1
<1> DEFINE k == d \div a
<1>2. k \in Int /\ d = k * a
  <2> HIDE DEF d
  <2> QED BY <1>1, MultipleFactor, ZenonT(60)
<1>3. d > 0
      OBVIOUS
<1> HIDE DEF d, k
<1>4. k <= 0 => k * a <= 0 * a
      BY <1>2, ProductOrder
<1>5. 0 < k => 0 * a + a <= k * a
      BY <1>2, ProductNext
<1>6. 0 * a = 0
      OBVIOUS
<1> DEFINE z == 0 * a
<1> HIDE DEF z
<1>7. /\ k <= 0 => d <= z
      /\ 0 < k => z + a <= d
      /\ z = 0
      BY <1>2, <1>4, <1>5, <1>6 DEF z
<1>8. d >= a
      BY <1>1, <1>2, <1>3, <1>7
<1> QED BY <1>8 DEF d

\* Rounding up ends at the next multiple.
LEMMA RoundingUp ==
    ASSUME NEW a \in Nat \ {0}, NEW n \in Int
    PROVE  LET up == ((n + a - 1) \div a) * a
           IN  up \in Int /\ n <= up /\ up <= n + a - 1 /\ up % a = 0
<1> DEFINE m == n + a - 1
           q == m \div a
           up == q * a
<1>1. m \in Int
      OBVIOUS
<1>2. q \in Int /\ m % a \in 0..(a - 1) /\ m = up + (m % a)
  <2> HIDE DEF m
  <2> QED BY <1>1, Division, ZenonT(60)
<1>3. up \in Int
  <2> HIDE DEF q
  <2> QED BY <1>2
<1> HIDE DEF q
<1>4. up % a = 0
  <2> HIDE DEF up
  <2>1. up = q * a
        BY DEF up
  <2> QED BY <1>2, <1>3, <2>1, Quotient, ZenonT(60)
<1> DEFINE r == m % a
<1>5. r \in 0..(a - 1) /\ n + a - 1 = up + r
      BY <1>2
<1> HIDE DEF up, r
<1>6. n <= up /\ up <= n + a - 1
      BY <1>3, <1>5
<1> QED BY <1>3, <1>4, <1>6 DEF up, q, m

\* No multiple is skipped: the one that SkipToMultiple finds is the next.
LEMMA NextMultiple ==
    ASSUME NEW a \in Nat \ {0}, NEW n \in Int, NEW d \in Int,
           d = IF n % a = 0 THEN 0 ELSE a - (n % a),
           NEW m \in Int, n <= m, m % a = 0
    PROVE  n + d <= m
<1> DEFINE up == n + d
<1>1. d \in 0..(a - 1) /\ up % a = 0
      BY SkipToMultiple
<1>2. up \in Int /\ up = n + d
      OBVIOUS
<1> HIDE DEF up
<1>3. m < up => m + a <= up
      BY <1>1, <1>2, MultiplesApart, ZenonT(60)
<1>4. ~ (m < up)
      BY <1>1, <1>2, <1>3
<1> QED BY <1>2, <1>4

LEMMA ShiftedOrder ==
    ASSUME NEW u \in Int, NEW v \in Int, NEW x \in Int, NEW k \in Int,
           NEW n, NEW m, n = u + x, m = v + x, n + k <= m
    PROVE  u + k <= v
OBVIOUS

\* Where addresses wrap at s, a power of two like the alignment a: what is
\* skipped from start to be aligned with the offset x reaches the first
\* address that is.
LEMMA NearestAligned ==
    ASSUME NEW a \in Nat \ {0}, NEW s \in Nat \ {0}, s % a = 0,
           NEW start \in Int, NEW x \in Int, NEW skip \in Int,
           skip = IF ((start + x) % s) % a = 0 THEN 0
                  ELSE a - (((start + x) % s) % a),
           NEW at \in Int, start <= at, ((at + x) % s) % a = 0
    PROVE  skip \in 0..(a - 1) /\ start + skip <= at
<1> DEFINE n == start + x
           m == at + x
<1>1. n \in Int /\ m \in Int /\ n <= m
      OBVIOUS
<1>2. (n % s) % a = n % a /\ (m % s) % a = m % a
  <2> HIDE DEF n, m
  <2> QED BY <1>1, WrapRemainder
<1>3. /\ skip = IF n % a = 0 THEN 0 ELSE a - (n % a)
      /\ m % a = 0
      BY <1>2
<1>4. n = start + x /\ m = at + x
      OBVIOUS
<1> HIDE DEF n, m
<1>5. skip \in 0..(a - 1)
      BY <1>1, <1>3, SkipToMultiple
<1>6. n + skip <= m
      BY <1>1, <1>3, NextMultiple, ZenonT(60)
<1>7. start + skip <= at
      BY <1>4, <1>6, ShiftedOrder, ZenonT(60)
<1> QED BY <1>5, <1>7

-----------------------------------------------------------------------------
(* The least number of a set: what holds of a number because it holds of   *)
(* those below it is proved by looking at the least that it fails of.      *)

LEMMA LeastNumber ==
    ASSUME NEW T \in SUBSET Nat, T # {}
    PROVE  \E m \in T : \A n \in T : m <= n
<1> DEFINE R == OpToRel(<, Nat)
<1>1. IsWellFoundedOn(R, Nat)
      BY NatLessThanWellFounded
<1>2. PICK m \in T : \A n \in T : ~ (<<n, m>> \in R)
  <2> HIDE DEF R
  <2> QED BY <1>1, WFMin
<1>3. \A n \in T : ~ (n < m)
      BY <1>2 DEF OpToRel
<1> HIDE DEF R
<1>4. \A n \in T : m <= n
      BY <1>3
<1> QED BY <1>4

-----------------------------------------------------------------------------
(* Lists.                                                                  *)

\* A list whose structures live in Node: regions of any address, never empty.
ListType(Node) == Seq([node : Node, start : Nat, size : Nat \ {0}])

\* A well-formed list, of the given structures and free units.
ListOf(list, Node, nodes, units) ==
    /\ list \in ListType(Node)
    /\ Ordered(list)
    /\ DistinctNodes(list)
    /\ NodesOf(list) = nodes
    /\ FreeUnits(list) = units

-----------------------------------------------------------------------------
(* Sequences.                                                              *)

\* The elements of a sequence from which one has been removed.
LEMMA RemoveAtFacts ==
    ASSUME NEW S, NEW s \in Seq(S), NEW i \in 1..Len(s)
    PROVE  /\ RemoveAt(s, i) \in Seq(S)
           /\ Len(RemoveAt(s, i)) = Len(s) - 1
           /\ \A j \in 1..(Len(s) - 1) :
                 RemoveAt(s, i)[j] = IF j < i THEN s[j] ELSE s[j + 1]
<1> DEFINE a == SubSeq(s, 1, i - 1)
           b == SubSeq(s, i + 1, Len(s))
<1>1. Len(s) \in Nat /\ \A j \in 1..Len(s) : s[j] \in S
  BY LenProperties, ElementOfSeq
<1>2. a \in Seq(S) /\ Len(a) = i - 1 /\ \A j \in 1..(i - 1) : a[j] = s[j]
  <2>1. \A j \in 1..(i - 1) : s[j] \in S
    BY <1>1
  <2> QED
    BY <1>1, <2>1, SubSeqProperties
<1>3. /\ b \in Seq(S) /\ Len(b) = Len(s) - i
      /\ \A j \in 1..(Len(s) - i) : b[j] = s[i + j]
  <2>1. \A j \in (i + 1)..Len(s) : s[j] \in S
    BY <1>1
  <2> QED
    BY <1>1, <2>1, SubSeqProperties
<1>4. RemoveAt(s, i) = a \o b
  BY DEF RemoveAt
<1> HIDE DEF a, b
<1>5. /\ a \o b \in Seq(S)
      /\ Len(a \o b) = Len(a) + Len(b)
      /\ \A j \in 1..(Len(a) + Len(b)) :
            (a \o b)[j] = IF j <= Len(a) THEN a[j] ELSE b[j - Len(a)]
  BY <1>2, <1>3, ConcatProperties
<1> QED
  BY <1>1, <1>2, <1>3, <1>4, <1>5

\* The elements of a sequence into which one has been inserted.
LEMMA InsertAtFacts ==
    ASSUME NEW S, NEW s \in Seq(S), NEW i \in 1..(Len(s) + 1), NEW e \in S
    PROVE  /\ InsertAt(s, i, e) \in Seq(S)
           /\ Len(InsertAt(s, i, e)) = Len(s) + 1
           /\ \A j \in 1..(Len(s) + 1) :
                 InsertAt(s, i, e)[j] =
                    IF j < i THEN s[j] ELSE IF j = i THEN e ELSE s[j - 1]
<1> DEFINE a == SubSeq(s, 1, i - 1)
           b == SubSeq(s, i, Len(s))
           m == a \o <<e>>
<1>1. Len(s) \in Nat /\ \A j \in 1..Len(s) : s[j] \in S
  BY LenProperties, ElementOfSeq
<1>2. a \in Seq(S) /\ Len(a) = i - 1 /\ \A j \in 1..(i - 1) : a[j] = s[j]
  <2>1. \A j \in 1..(i - 1) : s[j] \in S
    BY <1>1
  <2> QED
    BY <1>1, <2>1, SubSeqProperties
<1>3. /\ b \in Seq(S) /\ Len(b) = Len(s) - i + 1
      /\ \A j \in 1..(Len(s) - i + 1) : b[j] = s[i + j - 1]
  <2>1. \A j \in i..Len(s) : s[j] \in S
    BY <1>1
  <2> QED
    BY <1>1, <2>1, SubSeqProperties
<1>4. InsertAt(s, i, e) = m \o b
  BY DEF InsertAt
<1>5. <<e>> \in Seq(S) /\ Len(<<e>>) = 1 /\ <<e>>[1] = e
  OBVIOUS
<1> HIDE DEF a, b
<1>6. /\ m \in Seq(S)
      /\ Len(m) = i
      /\ \A j \in 1..i : m[j] = IF j < i THEN a[j] ELSE e
  <2>1. /\ m \in Seq(S)
        /\ Len(m) = Len(a) + Len(<<e>>)
        /\ \A j \in 1..(Len(a) + Len(<<e>>)) :
              m[j] = IF j <= Len(a) THEN a[j] ELSE <<e>>[j - Len(a)]
    BY <1>2, <1>5, ConcatProperties
  <2> QED
    BY <1>2, <1>5, <2>1
<1> HIDE DEF m
<1>7. /\ m \o b \in Seq(S)
      /\ Len(m \o b) = Len(m) + Len(b)
      /\ \A j \in 1..(Len(m) + Len(b)) :
            (m \o b)[j] = IF j <= Len(m) THEN m[j] ELSE b[j - Len(m)]
  BY <1>3, <1>6, ConcatProperties
<1> QED
  BY <1>1, <1>2, <1>3, <1>4, <1>6, <1>7

\* A sequence whose elements are in T is a sequence over T.
LEMMA SeqByElements ==
    ASSUME NEW S, NEW T, NEW s \in Seq(S), \A j \in 1..Len(s) : s[j] \in T
    PROVE  s \in Seq(T)
  BY LenProperties, SeqDef

\* The sequence without its last element, and that element.
LEMMA FrontLastFacts ==
    ASSUME NEW S, NEW s \in Seq(S), Len(s) # 0
    PROVE  /\ Front(s) \in Seq(S)
           /\ Len(Front(s)) = Len(s) - 1
           /\ \A j \in 1..(Len(s) - 1) : Front(s)[j] = s[j]
           /\ Last(s) \in S
           /\ Last(s) = s[Len(s)]
<1>1. Len(s) \in Nat /\ \A j \in 1..Len(s) : s[j] \in S
  BY LenProperties, ElementOfSeq
<1>2. \A j \in 1..(Len(s) - 1) : s[j] \in S
  BY <1>1
<1>3. /\ Front(s) \in Seq(S)
      /\ Len(Front(s)) = Len(s) - 1
      /\ \A j \in 1..(Len(s) - 1) : Front(s)[j] = s[j]
  <2> DEFINE n == Len(s) - 1
  <2>1. n \in Int /\ n >= 0 /\ \A j \in 1..n : s[j] \in S
    BY <1>1, <1>2
  <2> HIDE DEF n
  <2>2. /\ SubSeq(s, 1, n) \in Seq(S)
        /\ Len(SubSeq(s, 1, n)) = IF 1 <= n THEN n - 1 + 1 ELSE 0
        /\ \A j \in 1..(n - 1 + 1) : SubSeq(s, 1, n)[j] = s[1 + j - 1]
    BY <2>1, SubSeqProperties
  <2>3. /\ SubSeq(s, 1, n) \in Seq(S)
        /\ Len(SubSeq(s, 1, n)) = n
        /\ \A j \in 1..n : SubSeq(s, 1, n)[j] = s[j]
    BY <2>1, <2>2
  <2> QED
    BY <2>3 DEF Front, n
<1>4. Last(s) \in S /\ Last(s) = s[Len(s)]
  BY <1>1 DEF Last
<1> QED
  BY <1>3, <1>4

-----------------------------------------------------------------------------
(* Regions and lists.                                                      *)

\* An interval split in two.
LEMMA IntervalFacts ==
    ASSUME NEW a \in Nat, NEW m \in Nat, NEW n \in Nat
    PROVE  /\ UnitsFrom(a, m + n) = UnitsFrom(a, m) \cup UnitsFrom(a + m, n)
           /\ UnitsFrom(a, m) \cap UnitsFrom(a + m, n) = {}
<1>1. /\ UnitsFrom(a, m) = a .. (a + m - 1)
      /\ UnitsFrom(a + m, n) = (a + m) .. (a + m + n - 1)
      /\ UnitsFrom(a, m + n) = a .. (a + m + n - 1)
  BY DEF UnitsFrom
<1> QED
  BY <1>1

\* p has the units of the regions q and t (or of q) and those of the range.
Extends(p, q, address, size) ==
    Span(p) = Span(q) \cup UnitsFrom(address, size)

Joins(p, q, t, address, size) ==
    Span(p) = (Span(q) \cup Span(t)) \cup UnitsFrom(address, size)

\* The units of a region that has grown by a range behind it, by a range
\* before it, or by a range and the region behind that.
LEMMA GrownBackSpan ==
    ASSUME NEW p, NEW q, NEW address \in Nat, NEW size \in Nat,
           q.start \in Nat, q.size \in Nat,
           p.start = q.start, p.size = q.size + size, End(q) = address
    PROVE  Extends(p, q, address, size)
<1> DEFINE a == q.start
           m == q.size
<1>1. /\ a \in Nat /\ m \in Nat /\ a + m = address
      /\ Span(q) = a .. (a + m - 1)
      /\ Span(p) = a .. (a + (m + size) - 1)
      /\ UnitsFrom(address, size) = address .. (address + size - 1)
  BY DEF Span, UnitsFrom, End
<1> HIDE DEF a, m
<1> QED
  BY <1>1 DEF Extends

LEMMA GrownFrontSpan ==
    ASSUME NEW p, NEW q, NEW address \in Nat, NEW size \in Nat,
           q.start \in Nat, q.size \in Nat,
           p.start = address, p.size = size + q.size, address + size = q.start
    PROVE  Extends(p, q, address, size)
<1> DEFINE a == q.start
           m == q.size
<1>1. /\ a \in Nat /\ m \in Nat /\ address + size = a
      /\ Span(q) = a .. (a + m - 1)
      /\ Span(p) = address .. (address + (size + m) - 1)
      /\ UnitsFrom(address, size) = address .. (address + size - 1)
  BY DEF Span, UnitsFrom, End
<1> HIDE DEF a, m
<1> QED
  BY <1>1 DEF Extends

LEMMA JoinedSpan ==
    ASSUME NEW p, NEW q, NEW t, NEW address \in Nat, NEW size \in Nat,
           q.start \in Nat, q.size \in Nat, t.size \in Nat,
           p.start = q.start, p.size = q.size + (size + t.size),
           End(q) = address, address + size = t.start
    PROVE  Joins(p, q, t, address, size)
<1> DEFINE a == q.start
           m == q.size
           l == t.size
           b == t.start
<1>1. /\ a \in Nat /\ m \in Nat /\ l \in Nat
      /\ a + m = address /\ address + size = b
  BY DEF End
<1>2. /\ Span(q) = a .. (a + m - 1)
      /\ Span(t) = b .. (b + l - 1)
      /\ Span(p) = a .. (a + (m + (size + l)) - 1)
      /\ UnitsFrom(address, size) = address .. (address + size - 1)
  BY DEF Span, UnitsFrom
<1> HIDE DEF a, m, l, b
<1> QED
  BY <1>1, <1>2 DEF Joins

\* The room that a sorted list leaves around one of its regions.
LEMMA OrderedFacts ==
    ASSUME NEW Node, NEW list \in ListType(Node), Ordered(list),
           NEW i \in 1..Len(list), NEW j \in 1..Len(list)
    PROVE  /\ j < i => End(list[j]) <= list[i].start
           /\ i < j => End(list[i]) <= list[j].start
  BY LenProperties DEF Ordered, ListType

\* What the type of a list says of its elements.
LEMMA ListTypeFacts ==
    ASSUME NEW Node, NEW list \in ListType(Node)
    PROVE  /\ Len(list) \in Nat
           /\ DOMAIN list = 1..Len(list)
           /\ \A i \in 1..Len(list) :
                 /\ list[i] \in [node : Node, start : Nat, size : Nat \ {0}]
                 /\ list[i].node \in Node
                 /\ list[i].start \in Nat
                 /\ list[i].size \in Nat \ {0}
                 /\ End(list[i]) \in Nat
                 /\ End(list[i]) = list[i].start + list[i].size
                 /\ list[i].start < End(list[i])
<1>1. Len(list) \in Nat /\ DOMAIN list = 1..Len(list)
  BY LenProperties DEF ListType
<1>2. \A i \in 1..Len(list) :
         list[i] \in [node : Node, start : Nat, size : Nat \ {0}]
  BY ElementOfSeq DEF ListType
<1> QED
  BY <1>1, <1>2 DEF End

\* A unit is free when it lies in one of the regions.
LEMMA FreeUnitsFacts ==
    ASSUME NEW Node, NEW list \in ListType(Node), NEW c
    PROVE  c \in FreeUnits(list) <=>
              /\ c \in Nat
              /\ \E i \in 1..Len(list) :
                    list[i].start <= c /\ c < End(list[i])
<1>1. c \in FreeUnits(list) <=> \E i \in 1..Len(list) : c \in Span(list[i])
  BY ListTypeFacts DEF FreeUnits
<1>2. ASSUME NEW i \in 1..Len(list)
      PROVE  c \in Span(list[i]) <=>
                c \in Nat /\ list[i].start <= c /\ c < End(list[i])
  BY ListTypeFacts, <1>2 DEF Span, UnitsFrom, End
<1> QED
  BY <1>1, <1>2

\* The update of one region in place, within the room its neighbours leave:
\* only that region's units change.
LEMMA ResizeFacts ==
    ASSUME NEW Node, NEW list \in ListType(Node), NEW i \in 1..Len(list),
           NEW r \in [node : Node, start : Nat, size : Nat \ {0}],
           r.node = list[i].node,
           Ordered(list), DistinctNodes(list),
           \A j \in 1..Len(list) : j < i => End(list[j]) <= r.start,
           \A j \in 1..Len(list) : i < j => End(r) <= list[j].start
    PROVE  ListOf(ReplaceAt(list, i, r), Node, NodesOf(list),
                  (FreeUnits(list) \ Span(list[i])) \cup Span(r))
<1> DEFINE new == ReplaceAt(list, i, r)
           S == [node : Node, start : Nat, size : Nat \ {0}]
<1>0. list \in Seq(S) /\ r \in S /\ ListType(Node) = Seq(S)
  BY DEF ListType
<1> HIDE DEF S
<1>1. /\ new \in ListType(Node)
      /\ Len(new) = Len(list)
      /\ \A j \in 1..Len(list) : new[j] = IF j = i THEN r ELSE list[j]
  BY <1>0, ExceptSeq DEF ReplaceAt
<1> HIDE DEF new
<1>2. DOMAIN new = 1..Len(list) /\ DOMAIN list = 1..Len(list)
  BY <1>1, ListTypeFacts
<1>3. Ordered(new)
  BY <1>1, <1>2 DEF Ordered
<1>4. NodesOf(new) = NodesOf(list)
  BY <1>1, <1>2 DEF NodesOf
<1>5. DistinctNodes(new)
  BY <1>1, <1>2 DEF DistinctNodes
<1>6. Span(r) = {c \in Nat : r.start <= c /\ c < End(r)}
  BY DEF Span, UnitsFrom, End
<1>7. Span(list[i]) = {c \in Nat : list[i].start <= c /\ c < End(list[i])}
  BY ListTypeFacts DEF Span, UnitsFrom, End
<1>8. ASSUME NEW c \in Nat, NEW j \in 1..Len(list), j # i,
             list[j].start <= c, c < End(list[j])
      PROVE  ~ (list[i].start <= c /\ c < End(list[i]))
  <2>1. j < i => End(list[j]) <= list[i].start
    BY <1>2, <1>8 DEF Ordered
  <2>2. i < j => End(list[i]) <= list[j].start
    BY <1>2, <1>8 DEF Ordered
  <2>3. /\ list[i].start \in Nat /\ End(list[i]) \in Nat
        /\ list[j].start \in Nat /\ End(list[j]) \in Nat
    BY ListTypeFacts
  <2> DEFINE p == list[i].start
             q == End(list[i])
             u == list[j].start
             v == End(list[j])
  <2>4. /\ p \in Nat /\ q \in Nat /\ u \in Nat /\ v \in Nat
        /\ u <= c /\ c < v
        /\ v <= p \/ q <= u
    BY <1>2, <1>8, <2>1, <2>2, <2>3
  <2> HIDE DEF p, q, u, v
  <2>5. ~ (p <= c /\ c < q)
    BY <2>4
  <2> QED
    BY <2>5 DEF p, q
<1>9. ASSUME NEW c
      PROVE  c \in FreeUnits(new) <=>
                c \in (FreeUnits(list) \ Span(list[i])) \cup Span(r)
  <2>1. c \in FreeUnits(new) <=>
           c \in Nat /\ \E j \in 1..Len(list) :
                           new[j].start <= c /\ c < End(new[j])
    BY <1>1, FreeUnitsFacts
  <2>2. c \in FreeUnits(list) <=>
           c \in Nat /\ \E j \in 1..Len(list) :
                           list[j].start <= c /\ c < End(list[j])
    BY FreeUnitsFacts
  <2> QED
    BY <1>1, <1>6, <1>7, <1>8, <2>1, <2>2
<1>10. FreeUnits(new) = (FreeUnits(list) \ Span(list[i])) \cup Span(r)
  BY <1>9
<1> QED
  BY <1>1, <1>3, <1>4, <1>5, <1>10 DEF ListOf, new

\* Remove: the region's units and its structure are gone, and nothing else.
LEMMA RemoveFacts ==
    ASSUME NEW Node, NEW list \in ListType(Node), NEW i \in 1..Len(list),
           Ordered(list), DistinctNodes(list)
    PROVE  ListOf(RemoveAt(list, i), Node, NodesOf(list) \ {list[i].node},
                  FreeUnits(list) \ Span(list[i]))
<1> DEFINE new == RemoveAt(list, i)
           old(j) == IF j < i THEN j ELSE j + 1
<1>1. /\ new \in ListType(Node)
      /\ Len(new) = Len(list) - 1
      /\ \A j \in 1..(Len(list) - 1) :
            new[j] = IF j < i THEN list[j] ELSE list[j + 1]
  BY RemoveAtFacts DEF ListType
<1> HIDE DEF new
<1>2. /\ DOMAIN new = 1..(Len(list) - 1)
      /\ DOMAIN list = 1..Len(list)
      /\ Len(list) \in Nat
  BY <1>1, ListTypeFacts
<1>old. ASSUME NEW j \in DOMAIN new
        PROVE  old(j) \in DOMAIN list /\ new[j] = list[old(j)]
  BY <1>1, <1>2
<1>3. Ordered(new)
  <2>1. SUFFICES ASSUME NEW j \in DOMAIN new, NEW k \in DOMAIN new, j < k
                 PROVE  End(new[j]) <= new[k].start
    BY DEF Ordered
  <2>2. old(j) < old(k)
    BY <1>2, <2>1
  <2> HIDE DEF old
  <2> QED
    BY <1>old, <2>2 DEF Ordered
<1>4. DistinctNodes(new)
  <2>1. SUFFICES ASSUME NEW j \in DOMAIN new, NEW k \in DOMAIN new,
                        new[j].node = new[k].node
                 PROVE  j = k
    BY DEF DistinctNodes
  <2>2. old(j) = old(k)
    BY <1>old, <2>1 DEF DistinctNodes
  <2> QED
    BY <1>2, <2>2
<1>5. ASSUME NEW j \in 1..Len(list), j # i
      PROVE  \E k \in 1..(Len(list) - 1) : new[k] = list[j]
  <2>1. CASE j < i
    BY <1>1, <1>2, <2>1
  <2>2. CASE j > i
    <3>1. j - 1 \in 1..(Len(list) - 1) /\ new[j - 1] = list[j]
      BY <1>1, <1>2, <2>2
    <3> QED
      BY <3>1
  <2> QED
    BY <1>5, <2>1, <2>2
<1>6. ASSUME NEW k \in 1..(Len(list) - 1)
      PROVE  \E j \in 1..Len(list) : j # i /\ new[k] = list[j]
  <2>1. CASE k < i
    BY <1>1, <1>2, <2>1
  <2>2. CASE ~ (k < i)
    <3>1. k + 1 \in 1..Len(list) /\ k + 1 # i /\ new[k] = list[k + 1]
      BY <1>1, <1>2, <2>2
    <3> QED
      BY <3>1
  <2> QED
    BY <2>1, <2>2
<1>7. NodesOf(new) = NodesOf(list) \ {list[i].node}
  <2>1. ASSUME NEW k \in DOMAIN new
        PROVE  new[k].node \in NodesOf(list) \ {list[i].node}
    <3>1. PICK j \in 1..Len(list) : j # i /\ new[k] = list[j]
      BY <1>2, <1>6
    <3> QED
      BY <1>2, <3>1 DEF NodesOf, DistinctNodes
  <2>2. ASSUME NEW j \in DOMAIN list, list[j].node # list[i].node
        PROVE  list[j].node \in NodesOf(new)
    <3>1. PICK k \in 1..(Len(list) - 1) : new[k] = list[j]
      BY <1>2, <1>5, <2>2
    <3> QED
      BY <1>2, <3>1 DEF NodesOf
  <2> QED
    BY <2>1, <2>2 DEF NodesOf
<1>8. Span(list[i]) = {c \in Nat : list[i].start <= c /\ c < End(list[i])}
  BY ListTypeFacts DEF Span, UnitsFrom, End
<1>9. ASSUME NEW c \in Nat, NEW j \in 1..Len(list), j # i,
             list[j].start <= c, c < End(list[j])
      PROVE  ~ (list[i].start <= c /\ c < End(list[i]))
  <2>1. j < i => End(list[j]) <= list[i].start
    BY <1>2, <1>9 DEF Ordered
  <2>2. i < j => End(list[i]) <= list[j].start
    BY <1>2, <1>9 DEF Ordered
  <2>3. /\ i \in Int /\ j \in Int /\ list[i].start \in Int /\ End(list[i]) \in Int
        /\ list[j].start \in Int /\ End(list[j]) \in Int
    BY <1>9, ListTypeFacts
  <2> QED
    BY <1>9, <2>1, <2>2, <2>3
<1>10. ASSUME NEW c
       PROVE  c \in FreeUnits(new) <=> c \in FreeUnits(list) \ Span(list[i])
  <2>1. c \in FreeUnits(new) <=>
           c \in Nat /\ \E j \in 1..(Len(list) - 1) :
                           new[j].start <= c /\ c < End(new[j])
    BY <1>1, FreeUnitsFacts
  <2>2. c \in FreeUnits(list) <=>
           c \in Nat /\ \E j \in 1..Len(list) :
                           list[j].start <= c /\ c < End(list[j])
    BY FreeUnitsFacts
  <2> QED
    BY <1>5, <1>6, <1>8, <1>9, <2>1, <2>2
<1>11. FreeUnits(new) = FreeUnits(list) \ Span(list[i])
  BY <1>10
<1> QED
  BY <1>1, <1>3, <1>4, <1>7, <1>11 DEF ListOf, new

\* There is room for the range between the regions i and i + 1.
FitsGap(list, i, start, size) ==
    /\ i \in 0..Len(list)
    /\ \A j \in 1..Len(list) : j <= i => End(list[j]) <= start
    /\ \A j \in 1..Len(list) : i < j => start + size <= list[j].start

\* InsertAfter, in the gap between two regions: one region more, whose units
\* become free and whose structure is in use.
LEMMA InsertFacts ==
    ASSUME NEW Node, NEW list \in ListType(Node), NEW i,
           NEW node \in Node, NEW start \in Nat, NEW size \in Nat \ {0},
           Ordered(list), DistinctNodes(list), node \notin NodesOf(list),
           FitsGap(list, i, start, size)
    PROVE  ListOf(InsertAfter(list, i, node, start, size), Node,
                  NodesOf(list) \cup {node},
                  FreeUnits(list) \cup UnitsFrom(start, size))
<1> DEFINE r == Region(node, start, size)
           new == InsertAt(list, i + 1, r)
           S == [node : Node, start : Nat, size : Nat \ {0}]
           old(j) == IF j <= i THEN j ELSE j - 1
<1>0. /\ list \in Seq(S) /\ r \in S /\ ListType(Node) = Seq(S)
      /\ r.node = node /\ r.start = start /\ r.size = size
      /\ End(r) = start + size
      /\ InsertAfter(list, i, node, start, size) = new
      /\ Len(list) \in Nat
      /\ i \in 0..Len(list)
      /\ \A j \in 1..Len(list) : j <= i => End(list[j]) <= start
      /\ \A j \in 1..Len(list) : i < j => start + size <= list[j].start
  BY ListTypeFacts DEF FitsGap, ListType, Region, End, InsertAfter
<1> HIDE DEF S, r
<1>1. /\ new \in ListType(Node)
      /\ Len(new) = Len(list) + 1
      /\ \A j \in 1..(Len(list) + 1) :
            new[j] = IF j < i + 1 THEN list[j]
                     ELSE IF j = i + 1 THEN r ELSE list[j - 1]
  <2> DEFINE k == i + 1
  <2>1. k \in 1..(Len(list) + 1) /\ list \in Seq(S) /\ r \in S
    BY <1>0
  <2> HIDE DEF k
  <2>2. /\ InsertAt(list, k, r) \in Seq(S)
        /\ Len(InsertAt(list, k, r)) = Len(list) + 1
        /\ \A j \in 1..(Len(list) + 1) :
              InsertAt(list, k, r)[j] =
                 IF j < k THEN list[j] ELSE IF j = k THEN r ELSE list[j - 1]
    BY <2>1, InsertAtFacts
  <2> QED
    BY <1>0, <2>2 DEF k
<1> HIDE DEF new
<1>2. /\ DOMAIN new = 1..(Len(list) + 1)
      /\ DOMAIN list = 1..Len(list)
  BY <1>0, <1>1, ListTypeFacts
<1>3. ASSUME NEW j \in DOMAIN new, j # i + 1
      PROVE  old(j) \in DOMAIN list /\ new[j] = list[old(j)]
  BY <1>0, <1>1, <1>2, <1>3
<1>4. i + 1 \in DOMAIN new /\ new[i + 1] = r
  BY <1>0, <1>1, <1>2
<1>5. ASSUME NEW j \in DOMAIN list
      PROVE  \E k \in DOMAIN new : k # i + 1 /\ new[k] = list[j]
  <2>1. CASE j <= i
    BY <1>0, <1>1, <1>2, <2>1
  <2>2. CASE ~ (j <= i)
    <3>1. j + 1 \in DOMAIN new /\ j + 1 # i + 1 /\ new[j + 1] = list[j]
      BY <1>0, <1>1, <1>2, <2>2
    <3> QED
      BY <3>1
  <2> QED
    BY <2>1, <2>2
<1>6. Ordered(new)
  <2>1. SUFFICES ASSUME NEW j \in DOMAIN new, NEW k \in DOMAIN new, j < k
                 PROVE  End(new[j]) <= new[k].start
    BY DEF Ordered
  <2>2. CASE j = i + 1
    <3>1. k # i + 1 /\ i < old(k)
      BY <1>0, <1>2, <2>1, <2>2
    <3> HIDE DEF old
    <3> QED
      BY <1>0, <1>2, <1>3, <1>4, <2>2, <3>1
  <2>3. CASE k = i + 1
    <3>1. j # i + 1 /\ old(j) <= i
      BY <1>0, <1>2, <2>1, <2>3
    <3> HIDE DEF old
    <3> QED
      BY <1>0, <1>2, <1>3, <1>4, <2>3, <3>1
  <2>4. CASE j # i + 1 /\ k # i + 1
    <3>1. old(j) < old(k)
      BY <1>0, <1>2, <2>1, <2>4
    <3> HIDE DEF old
    <3> QED
      BY <1>3, <2>4, <3>1 DEF Ordered
  <2> QED
    BY <2>2, <2>3, <2>4
<1>7. NodesOf(new) = NodesOf(list) \cup {node}
  <2>1. ASSUME NEW k \in DOMAIN new
        PROVE  new[k].node \in NodesOf(list) \cup {node}
    <3>1. CASE k = i + 1
      BY <1>0, <1>4, <3>1
    <3>2. CASE k # i + 1
      BY <1>3, <3>2 DEF NodesOf
    <3> QED
      BY <3>1, <3>2
  <2>2. ASSUME NEW j \in DOMAIN list
        PROVE  list[j].node \in NodesOf(new)
    BY <1>5, <2>2 DEF NodesOf
  <2>3. node \in NodesOf(new)
    BY <1>0, <1>4 DEF NodesOf
  <2> QED
    BY <2>1, <2>2, <2>3 DEF NodesOf
<1>8. DistinctNodes(new)
  <2>1. SUFFICES ASSUME NEW j \in DOMAIN new, NEW k \in DOMAIN new,
                        new[j].node = new[k].node
                 PROVE  j = k
    BY DEF DistinctNodes
  <2>2. CASE j = i + 1 \/ k = i + 1
    <3>1. \A l \in DOMAIN new : l # i + 1 => new[l].node # node
      BY <1>3 DEF NodesOf
    <3> QED
      BY <1>0, <1>4, <2>1, <2>2, <3>1
  <2>3. CASE j # i + 1 /\ k # i + 1
    <3>1. old(j) = old(k)
      BY <1>3, <2>1, <2>3 DEF DistinctNodes
    <3> QED
      BY <1>0, <1>2, <2>3, <3>1
  <2> QED
    BY <2>2, <2>3
<1>9. ASSUME NEW c
      PROVE  c \in FreeUnits(new) <=>
                c \in FreeUnits(list) \cup UnitsFrom(start, size)
  <2>1. c \in FreeUnits(new) <=>
           c \in Nat /\ \E j \in DOMAIN new :
                           new[j].start <= c /\ c < End(new[j])
    BY <1>1, <1>2, FreeUnitsFacts
  <2>2. c \in FreeUnits(list) <=>
           c \in Nat /\ \E j \in DOMAIN list :
                           list[j].start <= c /\ c < End(list[j])
    BY <1>2, FreeUnitsFacts
  <2>3. c \in UnitsFrom(start, size) <=>
           c \in Nat /\ r.start <= c /\ c < End(r)
    BY <1>0 DEF UnitsFrom
  <2> HIDE DEF old
  <2> QED
    BY <1>3, <1>4, <1>5, <2>1, <2>2, <2>3
<1>10. FreeUnits(new) = FreeUnits(list) \cup UnitsFrom(start, size)
  BY <1>9
<1> QED
  BY <1>0, <1>1, <1>6, <1>7, <1>8, <1>10 DEF ListOf

-----------------------------------------------------------------------------
(* Alloc and OffsetAlign.                                                  *)

\* The units of a region, and of its part behind skip units, as intervals.
LEMMA SpanFacts ==
    ASSUME NEW Node, NEW list \in ListType(Node), NEW i \in 1..Len(list)
    PROVE  /\ Span(list[i]) = UnitsFrom(list[i].start, list[i].size)
           /\ Span(list[i]) \subseteq FreeUnits(list)
           /\ list[i].start \in FreeUnits(list)
           /\ list[i].node \in NodesOf(list)
<1>1. Span(list[i]) \subseteq FreeUnits(list) /\ list[i].node \in NodesOf(list)
  BY ListTypeFacts DEF FreeUnits, NodesOf
<1>2. list[i].start \in Span(list[i])
  BY ListTypeFacts DEF Span, UnitsFrom
<1> QED
  BY <1>1, <1>2 DEF Span

\* A part of a region is free.
LEMMA PartIsFree ==
    ASSUME NEW Node, NEW list \in ListType(Node), NEW i \in 1..Len(list),
           NEW skip \in Nat, NEW size \in Nat, skip + size <= list[i].size
    PROVE  UnitsFrom(list[i].start + skip, size) \subseteq FreeUnits(list)
<1> DEFINE a == list[i].start
           m == list[i].size
<1>1. a \in Nat /\ m \in Nat /\ skip + size <= m
  BY ListTypeFacts
<1>2. UnitsFrom(a, m) \subseteq FreeUnits(list)
  BY SpanFacts
<1> HIDE DEF a, m
<1>3. UnitsFrom(a + skip, size) \subseteq UnitsFrom(a, m)
  BY <1>1 DEF UnitsFrom
<1> QED
  BY <1>2, <1>3 DEF a

\* TakeHead takes exactly the head of the region from the free units, and the
\* region's structure out of the list when nothing of the region is left.
LEMMA TakeHeadFacts ==
    ASSUME NEW Node, NEW list \in ListType(Node), NEW i \in 1..Len(list),
           NEW size \in Nat, size <= list[i].size,
           Ordered(list), DistinctNodes(list)
    PROVE  ListOf(TakeHead(list, i, size), Node,
                  IF Exact(list, i, size)
                  THEN NodesOf(list) \ {list[i].node} ELSE NodesOf(list),
                  FreeUnits(list) \ UnitsFrom(list[i].start, size))
<1>0. /\ list[i] \in [node : Node, start : Nat, size : Nat \ {0}]
      /\ list[i].node \in Node
      /\ list[i].start \in Nat
      /\ list[i].size \in Nat \ {0}
      /\ End(list[i]) = list[i].start + list[i].size
      /\ DOMAIN list = 1..Len(list)
  BY ListTypeFacts
<1>1. CASE Exact(list, i, size)
  <2>1. Span(list[i]) = UnitsFrom(list[i].start, size)
    BY <1>1 DEF Span, Exact
  <2> QED
    BY <1>1, <2>1, RemoveFacts DEF TakeHead, ListOf
<1>2. CASE ~ Exact(list, i, size)
  <2> DEFINE r == [list[i] EXCEPT !.start = @ + size, !.size = @ - size]
  <2>1. /\ r \in [node : Node, start : Nat, size : Nat \ {0}]
        /\ r.node = list[i].node
        /\ r.start = list[i].start + size
        /\ r.size = list[i].size - size
        /\ End(r) = End(list[i])
    <3>1. list[i].start + size \in Nat /\ list[i].size - size \in Nat \ {0}
      BY <1>0, <1>2 DEF Exact
    <3> DEFINE a == list[i].start + size
               n == list[i].size - size
    <3>2. a \in Nat /\ n \in Nat \ {0}
      BY <3>1
    <3>3. r = [list[i] EXCEPT !.start = a, !.size = n]
      OBVIOUS
    <3> HIDE DEF a, n, r
    <3>4. /\ r \in [node : Node, start : Nat, size : Nat \ {0}]
          /\ r.node = list[i].node
          /\ r.start = a
          /\ r.size = n
          /\ End(r) = a + n
      BY <1>0, <3>2, <3>3 DEF End
    <3> QED
      BY <1>0, <3>4 DEF a, n
  <2>2. TakeHead(list, i, size) = ReplaceAt(list, i, r)
    BY <1>2 DEF TakeHead
  <2> HIDE DEF r
  <2>3. ASSUME NEW j \in 1..Len(list), j < i
        PROVE  End(list[j]) <= r.start
    <3>1. End(list[j]) \in Nat /\ End(list[j]) <= list[i].start
      BY <1>0, <2>3, ListTypeFacts DEF Ordered
    <3> QED
      BY <1>0, <2>1, <3>1
  <2>4. ASSUME NEW j \in 1..Len(list), i < j
        PROVE  End(r) <= list[j].start
    BY <1>0, <2>1, <2>4 DEF Ordered
  <2>5. /\ Span(list[i]) = UnitsFrom(list[i].start, size) \cup Span(r)
        /\ UnitsFrom(list[i].start, size) \cap Span(r) = {}
    <3> DEFINE a == list[i].start
               n == list[i].size - size
    <3>1. /\ a \in Nat /\ n \in Nat
          /\ Span(r) = UnitsFrom(a + size, n)
          /\ Span(list[i]) = UnitsFrom(a, list[i].size)
          /\ list[i].size = size + n
      BY <1>0, <2>1 DEF Span
    <3> HIDE DEF a, n
    <3>2. /\ UnitsFrom(a, size + n) = UnitsFrom(a, size) \cup UnitsFrom(a + size, n)
          /\ UnitsFrom(a, size) \cap UnitsFrom(a + size, n) = {}
      BY <3>1, IntervalFacts
    <3> QED
      BY <3>1, <3>2 DEF a
  <2>7. ListOf(ReplaceAt(list, i, r), Node, NodesOf(list),
               (FreeUnits(list) \ Span(list[i])) \cup Span(r))
    BY <2>1, <2>3, <2>4, ResizeFacts
  <2> QED
    BY <1>2, <2>2, <2>5, <2>7, SpanFacts DEF ListOf
<1> QED
  BY <1>1, <1>2

\* Shrink gives up what lies behind the first skip units of a region.
LEMMA ShrinkFacts ==
    ASSUME NEW Node, NEW list \in ListType(Node), NEW i \in 1..Len(list),
           NEW skip \in Nat \ {0}, skip <= list[i].size,
           Ordered(list), DistinctNodes(list)
    PROVE  LET new == Shrink(list, i, skip) IN
           /\ new \in ListType(Node)
           /\ Ordered(new)
           /\ NodesOf(new) = NodesOf(list)
           /\ DistinctNodes(new)
           /\ FreeUnits(new) =
                 FreeUnits(list)
                    \ UnitsFrom(list[i].start + skip, list[i].size - skip)
           /\ Len(new) = Len(list)
           /\ End(new[i]) = list[i].start + skip
           /\ \A j \in 1..Len(list) : j # i => new[j] = list[j]
<1> DEFINE r == [list[i] EXCEPT !.size = skip]
<1>0. /\ list[i] \in [node : Node, start : Nat, size : Nat \ {0}]
      /\ list[i].node \in Node
      /\ list[i].start \in Nat
      /\ list[i].size \in Nat \ {0}
      /\ End(list[i]) = list[i].start + list[i].size
      /\ DOMAIN list = 1..Len(list)
      /\ Len(list) \in Nat
  BY ListTypeFacts
<1>1. /\ r \in [node : Node, start : Nat, size : Nat \ {0}]
      /\ r.node = list[i].node
      /\ r.start = list[i].start
      /\ r.size = skip
      /\ End(r) = list[i].start + skip
      /\ End(r) <= End(list[i])
  BY <1>0 DEF End
<1>2. Shrink(list, i, skip) = ReplaceAt(list, i, r)
  BY DEF Shrink
<1> HIDE DEF r
<1>3. \A j \in 1..Len(list) : j < i => End(list[j]) <= r.start
  BY <1>0, <1>1 DEF Ordered
<1>4. ASSUME NEW j \in 1..Len(list), i < j
      PROVE  End(r) <= list[j].start
  <2>1. End(list[i]) <= list[j].start /\ list[j].start \in Nat
    BY <1>0, <1>4, ListTypeFacts DEF Ordered
  <2> QED
    BY <1>0, <1>1, <2>1
<1>5. /\ Span(list[i]) = Span(r) \cup
            UnitsFrom(list[i].start + skip, list[i].size - skip)
      /\ Span(r) \cap
            UnitsFrom(list[i].start + skip, list[i].size - skip) = {}
  <2> DEFINE a == list[i].start
             n == list[i].size - skip
  <2>1. /\ a \in Nat /\ n \in Nat /\ skip \in Nat
        /\ Span(r) = UnitsFrom(a, skip)
        /\ Span(list[i]) = UnitsFrom(a, list[i].size)
        /\ list[i].size = skip + n
    BY <1>0, <1>1 DEF Span
  <2> HIDE DEF a, n
  <2>2. /\ UnitsFrom(a, skip + n) = UnitsFrom(a, skip) \cup UnitsFrom(a + skip, n)
        /\ UnitsFrom(a, skip) \cap UnitsFrom(a + skip, n) = {}
    BY <2>1, IntervalFacts
  <2> QED
    BY <2>1, <2>2 DEF a, n
<1>6. ListOf(ReplaceAt(list, i, r), Node, NodesOf(list),
             (FreeUnits(list) \ Span(list[i])) \cup Span(r))
  BY <1>1, <1>3, <1>4, ResizeFacts
<1>7. /\ Len(ReplaceAt(list, i, r)) = Len(list)
      /\ \A j \in 1..Len(list) :
            ReplaceAt(list, i, r)[j] = IF j = i THEN r ELSE list[j]
  <2> DEFINE S == [node : Node, start : Nat, size : Nat \ {0}]
  <2>1. list \in Seq(S) /\ r \in S
    BY <1>1 DEF ListType
  <2> HIDE DEF S
  <2> QED
    BY <2>1, ExceptSeq DEF ReplaceAt
<1> QED
  BY <1>1, <1>2, <1>5, <1>6, <1>7, SpanFacts DEF ListOf

\* The fifth case of OffsetAlign: the range that is handed out is the only
\* one that leaves the free units, and one structure enters the list.
LEMMA CarveFacts ==
    ASSUME NEW Node, NEW list \in ListType(Node), NEW i \in 1..Len(list),
           NEW skip \in Nat \ {0}, NEW size \in Nat,
           skip + size < list[i].size,
           NEW node \in Node, node \notin NodesOf(list),
           Ordered(list), DistinctNodes(list)
    PROVE  LET new == InsertAfter(Shrink(list, i, skip), i, node,
                                  list[i].start + skip + size,
                                  TailSize(list[i], skip, size))
           IN  ListOf(new, Node, NodesOf(list) \cup {node},
                      FreeUnits(list)
                         \ UnitsFrom(list[i].start + skip, size))
<1> DEFINE cut  == Shrink(list, i, skip)
           tail == TailSize(list[i], skip, size)
           from == list[i].start + skip
<1>0. /\ list[i].start \in Nat
      /\ list[i].size \in Nat \ {0}
      /\ End(list[i]) = list[i].start + list[i].size
      /\ DOMAIN list = 1..Len(list)
      /\ Len(list) \in Nat
  BY ListTypeFacts
<1>1. /\ cut \in ListType(Node) /\ Ordered(cut) /\ DistinctNodes(cut)
      /\ NodesOf(cut) = NodesOf(list)
      /\ FreeUnits(cut) = FreeUnits(list) \ UnitsFrom(from, list[i].size - skip)
      /\ Len(cut) = Len(list)
      /\ End(cut[i]) = from
      /\ \A j \in 1..Len(list) : j # i => cut[j] = list[j]
  <2>1. skip <= list[i].size
    BY <1>0
  <2> QED
    BY <2>1, ShrinkFacts
<1>2. /\ tail \in Nat \ {0}
      /\ from \in Nat
      /\ list[i].start <= from
      /\ from + size + tail = End(list[i])
      /\ list[i].size - skip = size + tail
  <2> DEFINE a == list[i].start
             m == list[i].size
  <2>1. /\ a \in Nat /\ m \in Nat
        /\ skip + size < m
        /\ End(list[i]) = a + m
        /\ from = a + skip
        /\ tail = m - (skip + size)
    BY <1>0 DEF TailSize
  <2> HIDE DEF a, m, tail, from
  <2>2. /\ tail \in Nat \ {0} /\ from \in Nat /\ a <= from
        /\ from + size + tail = a + m
        /\ m - skip = size + tail
    BY <2>1
  <2> QED
    BY <2>1, <2>2 DEF a, m
<1>3. UnitsFrom(from, size + tail) \subseteq FreeUnits(list)
  <2> DEFINE a == list[i].start
             m == list[i].size
             n == size + tail
  <2>1. a \in Nat /\ m \in Nat /\ from = a + skip /\ m - skip = n
    BY <1>0, <1>2
  <2>2. Span(list[i]) = UnitsFrom(a, m)
    BY DEF Span
  <2>3. Span(list[i]) \subseteq FreeUnits(list)
    BY SpanFacts
  <2>4. n \in Nat
    BY <1>2
  <2> HIDE DEF a, m, n, from
  <2>5. m = skip + n
    BY <2>1, <2>4
  <2>6. UnitsFrom(a + skip, n) \subseteq UnitsFrom(a, m)
    BY <2>1, <2>4, <2>5 DEF UnitsFrom
  <2> QED
    BY <2>1, <2>2, <2>3, <2>6 DEF n
<1>4. /\ UnitsFrom(from, size + tail)
            = UnitsFrom(from, size) \cup UnitsFrom(from + size, tail)
      /\ UnitsFrom(from, size) \cap UnitsFrom(from + size, tail) = {}
  BY <1>2, IntervalFacts
<1> HIDE DEF cut, tail, from
<1>5. ASSUME NEW j \in 1..Len(cut), j <= i
      PROVE  End(cut[j]) <= from + size
  <2>1. CASE j = i
    BY <1>1, <1>2, <2>1
  <2>2. CASE j < i
    <3>1. /\ cut[j] = list[j]
          /\ End(list[j]) <= list[i].start
          /\ End(list[j]) \in Nat
      <4>1. j \in 1..Len(list) /\ j # i
        BY <1>0, <1>1, <2>2
      <4>2. End(list[j]) <= list[i].start
        BY <2>2, <4>1, OrderedFacts
      <4>3. End(list[j]) \in Nat
        BY <4>1, ListTypeFacts
      <4> QED
        BY <1>1, <4>1, <4>2, <4>3
    <3> DEFINE e == End(list[j])
               a == list[i].start
    <3>2. /\ e \in Nat /\ a \in Nat /\ from \in Nat
          /\ e <= a /\ a <= from /\ End(cut[j]) = e
      BY <1>0, <1>2, <3>1
    <3> HIDE DEF e, a
    <3> QED
      BY <3>2
  <2> QED
    BY <1>0, <1>5, <2>1, <2>2
<1>6. ASSUME NEW j \in 1..Len(cut), i < j
      PROVE  from + size + tail <= cut[j].start
  <2>1. j \in 1..Len(list) /\ j # i
    BY <1>0, <1>1, <1>6
  <2>2. End(list[i]) <= list[j].start
    BY <1>6, <2>1, OrderedFacts
  <2> QED
    BY <1>1, <1>2, <2>1, <2>2
<1>at. PICK at \in Nat : at = from + size
  BY <1>2
<1>7. ListOf(InsertAfter(cut, i, node, at, tail), Node,
             NodesOf(cut) \cup {node}, FreeUnits(cut) \cup UnitsFrom(at, tail))
  <2>1. FitsGap(cut, i, at, tail)
    BY <1>0, <1>1, <1>5, <1>6, <1>at DEF FitsGap
  <2> QED
    BY <1>1, <1>2, <2>1, InsertFacts
<1>8. FreeUnits(cut) \cup UnitsFrom(from + size, tail) =
         FreeUnits(list) \ UnitsFrom(from, size)
  BY <1>1, <1>2, <1>3, <1>4
<1> QED
  BY <1>1, <1>7, <1>8, <1>at DEF cut, tail, from

-----------------------------------------------------------------------------
(* Dealloc.                                                                *)

\* Dealloc's search finds the gap that the freed range lies in.
LEMMA NeighbourFacts ==
    ASSUME NEW Node, NEW list \in ListType(Node), Ordered(list),
           NEW address \in Nat, NEW size \in Nat \ {0},
           UnitsFrom(address, size) \cap FreeUnits(list) = {},
           NEW i, Before(list, address, i)
    PROVE  FitsGap(list, i, address, size)
<1>0. Len(list) \in Nat /\ DOMAIN list = 1..Len(list) /\ i \in 0..Len(list)
  BY ListTypeFacts DEF Before
<1>1. ASSUME NEW j \in 1..Len(list), j <= i
      PROVE  End(list[j]) <= address
  <2>1. list[j].start <= address
    BY <1>0, <1>1 DEF Before
  <2>2. address \in UnitsFrom(address, size)
    BY DEF UnitsFrom
  <2>3. ~ (list[j].start <= address /\ address < End(list[j]))
    BY <2>2, FreeUnitsFacts
  <2>4. End(list[j]) \in Nat
    BY ListTypeFacts
  <2> QED
    BY <2>1, <2>3, <2>4
<1>2. ASSUME NEW j \in 1..Len(list), i < j
      PROVE  address + size <= list[j].start
  <2>1. i + 1 \in 1..Len(list) /\ address < list[i + 1].start
    BY <1>0, <1>2 DEF Before
  <2>2. /\ list[j].start \in Nat /\ list[i + 1].start \in Nat
        /\ End(list[i + 1]) \in Nat /\ list[i + 1].start < End(list[i + 1])
    BY <2>1, ListTypeFacts
  <2>3. list[i + 1].start <= list[j].start
    <3>1. CASE j = i + 1
      BY <2>2, <3>1
    <3>2. CASE j # i + 1
      <4>1. i + 1 < j
        BY <1>0, <1>2, <3>2
      <4>2. End(list[i + 1]) <= list[j].start
        BY <1>0, <2>1, <4>1 DEF Ordered
      <4> QED
        BY <2>2, <4>2
    <3> QED
      BY <3>1, <3>2
  <2>4. list[j].start \notin UnitsFrom(address, size)
    BY SpanFacts
  <2> QED
    BY <2>1, <2>2, <2>3, <2>4 DEF UnitsFrom
<1> QED
  BY <1>0, <1>1, <1>2 DEF FitsGap
\* Only empty space lies between the freed range and the regions around it.
LEMMA GapClear ==
    ASSUME NEW Node, NEW list \in ListType(Node), NEW i,
           NEW address \in Nat, NEW size \in Nat \ {0},
           FitsGap(list, i, address, size)
    PROVE  ClearOfAfter(list, i, address, size)
  BY ListTypeFacts DEF FitsGap, ClearOfAfter

\* The freed range is added to the region it follows.
LEMMA GrowBeforeFacts ==
    ASSUME NEW Node, NEW list \in ListType(Node), NEW i,
           NEW address \in Nat, NEW size \in Nat \ {0},
           Ordered(list), DistinctNodes(list),
           FitsGap(list, i, address, size), TouchesBefore(list, i, address)
    PROVE  ListOf(GrowBefore(list, i, size), Node, NodesOf(list),
                  FreeUnits(list) \cup UnitsFrom(address, size))
<1> DEFINE r == [list[i] EXCEPT !.size = @ + size]
<1>0. /\ i \in 1..Len(list)
      /\ list[i] \in [node : Node, start : Nat, size : Nat \ {0}]
      /\ list[i].node \in Node
      /\ list[i].start \in Nat
      /\ list[i].size \in Nat \ {0}
      /\ End(list[i]) = list[i].start + list[i].size
      /\ End(list[i]) = address
      /\ DOMAIN list = 1..Len(list)
      /\ Len(list) \in Nat
  <2>1. Len(list) \in Nat
    BY ListTypeFacts
  <2>2. i \in 1..Len(list)
    BY <2>1 DEF FitsGap, TouchesBefore
  <2> QED
    BY <2>1, <2>2, ListTypeFacts DEF TouchesBefore
<1>1. /\ r \in [node : Node, start : Nat, size : Nat \ {0}]
      /\ r.node = list[i].node
      /\ r.start = list[i].start
      /\ r.size = list[i].size + size
      /\ End(r) = address + size
  <2> DEFINE n == list[i].size + size
  <2>1. n \in Nat \ {0}
    BY <1>0
  <2>2. r = [list[i] EXCEPT !.size = n]
    OBVIOUS
  <2>3. list[i].start + n = address + size
    BY <1>0
  <2> HIDE DEF n, r
  <2>4. /\ r \in [node : Node, start : Nat, size : Nat \ {0}]
        /\ r.node = list[i].node /\ r.start = list[i].start /\ r.size = n
    BY <1>0, <2>1, <2>2
  <2> QED
    BY <2>3, <2>4 DEF n, End
<1>2. GrowBefore(list, i, size) = ReplaceAt(list, i, r)
  BY DEF GrowBefore
<1> HIDE DEF r
<1>3. \A j \in 1..Len(list) : j < i => End(list[j]) <= r.start
  BY <1>0, <1>1, OrderedFacts
<1>4. \A j \in 1..Len(list) : i < j => End(r) <= list[j].start
  BY <1>1 DEF FitsGap
<1>5. Extends(r, list[i], address, size)
  <2>1. /\ list[i].start \in Nat /\ list[i].size \in Nat
        /\ r.start = list[i].start /\ r.size = list[i].size + size
        /\ End(list[i]) = address
    BY <1>0, <1>1
  <2> QED
    BY <2>1, GrownBackSpan
<1>6. ListOf(ReplaceAt(list, i, r), Node, NodesOf(list),
             (FreeUnits(list) \ Span(list[i])) \cup Span(r))
  BY <1>0, <1>1, <1>3, <1>4, ResizeFacts
<1> QED
  BY <1>0, <1>2, <1>5, <1>6, SpanFacts DEF ListOf, Extends

\* The freed range is added to the region it precedes.
LEMMA GrowAfterFacts ==
    ASSUME NEW Node, NEW list \in ListType(Node), NEW i,
           NEW address \in Nat, NEW size \in Nat \ {0},
           Ordered(list), DistinctNodes(list),
           FitsGap(list, i, address, size),
           TouchesAfter(list, i, address, size)
    PROVE  ListOf(GrowAfter(list, i, size), Node, NodesOf(list),
                  FreeUnits(list) \cup UnitsFrom(address, size))
<1> PICK k \in Int : k = i + 1
  BY ListTypeFacts DEF FitsGap
<1> DEFINE r == [list[k] EXCEPT !.start = @ - size, !.size = @ + size]
<1>0. /\ k \in 1..Len(list)
      /\ i \in 0..Len(list)
      /\ i < k
      /\ list[k] \in [node : Node, start : Nat, size : Nat \ {0}]
      /\ list[k].node \in Node
      /\ list[k].start \in Nat
      /\ list[k].size \in Nat \ {0}
      /\ End(list[k]) = list[k].start + list[k].size
      /\ address + size = list[k].start
      /\ DOMAIN list = 1..Len(list)
      /\ Len(list) \in Nat
  <2>1. Len(list) \in Nat
    BY ListTypeFacts
  <2>2. k \in 1..Len(list) /\ i \in 0..Len(list) /\ i < k
    BY <2>1 DEF FitsGap, TouchesAfter
  <2> QED
    BY <2>1, <2>2, ListTypeFacts DEF TouchesAfter
<1>1. /\ r \in [node : Node, start : Nat, size : Nat \ {0}]
      /\ r.node = list[k].node
      /\ r.start = address
      /\ r.size = size + list[k].size
      /\ End(r) = End(list[k])
  <2> DEFINE n == list[k].size + size
             a == list[k].start - size
  <2>1. n \in Nat \ {0} /\ a = address /\ n = size + list[k].size
    BY <1>0
  <2>2. r = [list[k] EXCEPT !.start = a, !.size = n]
    OBVIOUS
  <2>3. a + n = End(list[k])
    BY <1>0
  <2> HIDE DEF n, r, a
  <2>4. /\ r \in [node : Node, start : Nat, size : Nat \ {0}]
        /\ r.node = list[k].node /\ r.start = a /\ r.size = n
    BY <1>0, <2>1, <2>2
  <2> QED
    BY <2>1, <2>3, <2>4 DEF End
<1>2. GrowAfter(list, i, size) = ReplaceAt(list, k, r)
  BY DEF GrowAfter
<1> HIDE DEF r
<1>3. ASSUME NEW j \in 1..Len(list), j < k
      PROVE  End(list[j]) <= r.start
  <2>1. j <= i
    BY <1>0, <1>3
  <2> QED
    BY <1>1, <2>1 DEF FitsGap
<1>4. \A j \in 1..Len(list) : k < j => End(r) <= list[j].start
  BY <1>0, <1>1, OrderedFacts
<1>5. Extends(r, list[k], address, size)
  <2>1. /\ list[k].start \in Nat /\ list[k].size \in Nat
        /\ r.start = address /\ r.size = size + list[k].size
        /\ address + size = list[k].start
    BY <1>0, <1>1
  <2> QED
    BY <2>1, GrownFrontSpan
<1>6. ListOf(ReplaceAt(list, k, r), Node, NodesOf(list),
             (FreeUnits(list) \ Span(list[k])) \cup Span(r))
  BY <1>0, <1>1, <1>3, <1>4, ResizeFacts
<1> QED
  BY <1>0, <1>2, <1>5, <1>6, SpanFacts DEF ListOf, Extends

\* An element is replaced and a later one removed in either order.
LEMMA ReplaceRemoveCommute ==
    ASSUME NEW S, NEW s \in Seq(S), NEW i \in 1..Len(s), NEW k \in 1..Len(s),
           i < k, NEW e \in S
    PROVE  RemoveAt(ReplaceAt(s, i, e), k) = ReplaceAt(RemoveAt(s, k), i, e)
<1> DEFINE more == ReplaceAt(s, i, e)
           less == RemoveAt(s, k)
           new  == ReplaceAt(less, i, e)
<1>0. Len(s) \in Nat
  BY LenProperties
<1>1. /\ less \in Seq(S)
      /\ Len(less) = Len(s) - 1
      /\ \A j \in 1..(Len(s) - 1) : less[j] = IF j < k THEN s[j] ELSE s[j + 1]
  BY RemoveAtFacts
<1>2. /\ more \in Seq(S)
      /\ Len(more) = Len(s)
      /\ \A j \in 1..Len(s) : more[j] = IF j = i THEN e ELSE s[j]
  BY ExceptSeq DEF ReplaceAt
<1> HIDE DEF more, less
<1>3. /\ new \in Seq(S)
      /\ Len(new) = Len(less)
      /\ \A j \in 1..Len(less) : new[j] = IF j = i THEN e ELSE less[j]
  <2>1. i \in 1..Len(less)
    BY <1>0, <1>1
  <2> QED
    BY <1>1, <2>1, ExceptSeq DEF ReplaceAt
<1>4. /\ RemoveAt(more, k) \in Seq(S)
      /\ Len(RemoveAt(more, k)) = Len(s) - 1
      /\ \A j \in 1..(Len(s) - 1) :
            RemoveAt(more, k)[j] = IF j < k THEN more[j] ELSE more[j + 1]
  BY <1>2, RemoveAtFacts
<1> HIDE DEF new
<1>5. ASSUME NEW j \in 1..(Len(s) - 1)
      PROVE  RemoveAt(more, k)[j] = new[j]
  <2>1. j \in 1..Len(s) /\ j + 1 \in 1..Len(s)
    BY <1>0
  <2>2. CASE j < k
    BY <1>1, <1>2, <1>3, <1>4, <2>1, <2>2
  <2>3. CASE ~ (j < k)
    <3>1. j # i /\ j + 1 # i
      BY <1>0, <2>3
    <3> QED
      BY <1>1, <1>2, <1>3, <1>4, <2>1, <2>3, <3>1
  <2> QED
    BY <2>2, <2>3
<1>6. RemoveAt(more, k) = new
  BY <1>1, <1>3, <1>4, <1>5, SeqEqual
<1> QED
  BY <1>6 DEF more, less, new

\* The freed range joins the regions on both sides of it; the structure of
\* the second one leaves the list.
LEMMA JoinBothFacts ==
    ASSUME NEW Node, NEW list \in ListType(Node), NEW i,
           NEW address \in Nat, NEW size \in Nat \ {0},
           Ordered(list), DistinctNodes(list),
           FitsGap(list, i, address, size),
           TouchesBefore(list, i, address),
           TouchesAfter(list, i, address, size)
    PROVE  ListOf(JoinBoth(list, i, size), Node,
                  NodesOf(list) \ {list[i + 1].node},
                  FreeUnits(list) \cup UnitsFrom(address, size))
<1> PICK k \in Int : k = i + 1
  BY ListTypeFacts DEF FitsGap
<1> DEFINE S    == [node : Node, start : Nat, size : Nat \ {0}]
           n    == size + list[k].size
           r    == [list[i] EXCEPT !.size = @ + n]
           less == RemoveAt(list, k)
           new  == ReplaceAt(less, i, r)
<1>0. /\ Len(list) \in Nat
      /\ DOMAIN list = 1..Len(list)
      /\ i \in 1..Len(list) /\ k \in 1..Len(list) /\ i < k
      /\ i \in 1..(Len(list) - 1)
      /\ list[i] \in S /\ list[k] \in S
      /\ list[i].start \in Nat /\ list[i].size \in Nat \ {0}
      /\ list[k].start \in Nat /\ list[k].size \in Nat \ {0}
      /\ End(list[i]) = address
      /\ End(list[i]) = list[i].start + list[i].size
      /\ address + size = list[k].start
      /\ End(list[k]) = list[k].start + list[k].size
  <2>1. Len(list) \in Nat
    BY ListTypeFacts
  <2>2. /\ i \in 1..Len(list) /\ k \in 1..Len(list) /\ i < k
        /\ i \in 1..(Len(list) - 1)
    BY <2>1 DEF FitsGap, TouchesBefore, TouchesAfter
  <2> QED
    BY <2>1, <2>2, ListTypeFacts DEF TouchesBefore, TouchesAfter
<1>1. /\ r \in S
      /\ r.node = list[i].node
      /\ r.start = list[i].start
      /\ r.size = list[i].size + n
      /\ End(r) = End(list[k])
  <2> DEFINE m == list[i].size + n
  <2>0. m \in Nat \ {0} /\ list[i].start + m = End(list[k])
    <3> DEFINE a == list[i].start
               l == list[i].size
               b == list[k].start
               t == list[k].size
    <3>1. /\ a \in Nat /\ l \in Nat \ {0} /\ b \in Nat /\ t \in Nat \ {0}
          /\ address = a + l /\ address + size = b
          /\ End(list[k]) = b + t
          /\ m = l + (size + t)
      BY <1>0
    <3> HIDE DEF a, l, b, t, m
    <3>2. m \in Nat \ {0} /\ a + m = End(list[k])
      BY <3>1
    <3> QED
      BY <3>2 DEF a
  <2>1. m \in Nat \ {0}
    BY <2>0
  <2>2. r = [list[i] EXCEPT !.size = m]
    OBVIOUS
  <2>3. list[i].start + m = End(list[k])
    BY <2>0
  <2> HIDE DEF m, r
  <2>4. r \in S /\ r.node = list[i].node /\ r.start = list[i].start /\ r.size = m
    BY <1>0, <2>1, <2>2
  <2> QED
    BY <2>3, <2>4 DEF m, End
<1>2. JoinBoth(list, i, size) = RemoveAt(ReplaceAt(list, i, r), k)
  BY DEF JoinBoth, GrowBefore
<1>3. Joins(r, list[i], list[k], address, size)
  <2>1. r.size = list[i].size + (size + list[k].size)
    BY <1>1
  <2> HIDE DEF r, n
  <2>2. /\ list[i].start \in Nat /\ list[i].size \in Nat
        /\ list[k].size \in Nat /\ r.start = list[i].start
        /\ End(list[i]) = address /\ address + size = list[k].start
    BY <1>0, <1>1
  <2> QED
    BY <2>1, <2>2, JoinedSpan
<1> HIDE DEF r, n
<1> HIDE DEF S
<1>S. list \in Seq(S) /\ ListType(Node) = Seq(S)
  BY DEF ListType, S
<1>4. /\ less \in Seq(S)
      /\ Len(less) = Len(list) - 1
      /\ \A j \in 1..(Len(list) - 1) :
            less[j] = IF j < k THEN list[j] ELSE list[j + 1]
  BY <1>0, <1>S, RemoveAtFacts
<1>5. ListOf(less, Node, NodesOf(list) \ {list[k].node},
             FreeUnits(list) \ Span(list[k]))
  BY <1>0, RemoveFacts
<1>6. less[i] = list[i]
  BY <1>0, <1>4
<1> HIDE DEF less
<1>8. RemoveAt(ReplaceAt(list, i, r), k) = new
  <2>1. /\ i \in 1..Len(list) /\ k \in 1..Len(list) /\ i < k
        /\ list \in Seq(S) /\ r \in S
    BY <1>0, <1>1, <1>S
  <2> QED
    BY <2>1, ReplaceRemoveCommute DEF less
<1>9. \A j \in 1..Len(less) : j < i => End(less[j]) <= r.start
  <2>1. ASSUME NEW j \in 1..Len(less), j < i
        PROVE  End(less[j]) <= r.start
    <3>1. j \in 1..(Len(list) - 1) /\ j < k
      BY <1>0, <1>4, <2>1
    <3>2. j \in 1..Len(list) /\ less[j] = list[j]
      <4>1. j \in 1..Len(list)
        BY <1>0, <3>1
      <4>2. less[j] = list[j]
        BY <1>4, <3>1
      <4> QED
        BY <4>1, <4>2
    <3> QED
      BY <1>0, <1>1, <2>1, <3>2, OrderedFacts
  <2> QED
    BY <2>1
<1>10. \A j \in 1..Len(less) : i < j => End(r) <= less[j].start
  <2>1. ASSUME NEW j \in 1..Len(less), i < j
        PROVE  End(r) <= less[j].start
    <3>1. j + 1 \in 1..Len(list) /\ less[j] = list[j + 1] /\ k < j + 1
      BY <1>0, <1>4, <2>1
    <3> HIDE DEF less
    <3> QED
      BY <1>0, <1>1, <3>1, OrderedFacts
  <2> QED
    BY <2>1
<1>11. ListOf(new, Node, NodesOf(less),
              (FreeUnits(less) \ Span(less[i])) \cup Span(r))
  <2>1. i \in 1..Len(less)
    BY <1>0, <1>4
  <2> QED
    <3>1. less \in ListType(Node) /\ Ordered(less) /\ DistinctNodes(less)
      BY <1>5 DEF ListOf
    <3>2. r \in [node : Node, start : Nat, size : Nat \ {0}]
      BY <1>1 DEF S
    <3>3. r.node = less[i].node
      BY <1>1, <1>6
    <3> HIDE DEF new
    <3>4. ListOf(ReplaceAt(less, i, r), Node, NodesOf(less),
                 (FreeUnits(less) \ Span(less[i])) \cup Span(r))
      BY <1>9, <1>10, <2>1, <3>1, <3>2, <3>3, ResizeFacts
    <3> QED
      BY <3>4 DEF new
<1> HIDE DEF new
<1>12. FreeUnits(new) = FreeUnits(list) \cup UnitsFrom(address, size)
  <2>1. Span(list[i]) \subseteq FreeUnits(list) /\ Span(list[k]) \subseteq FreeUnits(list)
    BY <1>0, SpanFacts
  <2> QED
    BY <1>3, <1>5, <1>6, <1>11, <2>1 DEF ListOf, Joins
<1> QED
  BY <1>2, <1>5, <1>8, <1>11, <1>12 DEF ListOf
-----------------------------------------------------------------------------
(* Sizes.                                                                  *)

\* No region is larger than SizeType can say.
Sized(list) == \A j \in 1..Len(list) : list[j].size <= SizeMax

LEMMA ReplaceSized ==
    ASSUME NEW Node, NEW list \in ListType(Node), NEW i \in 1..Len(list),
           NEW r \in [node : Node, start : Nat, size : Nat \ {0}],
           Sized(list), r.size <= SizeMax
    PROVE  Sized(ReplaceAt(list, i, r))
<1> DEFINE S == [node : Node, start : Nat, size : Nat \ {0}]
<1>1. list \in Seq(S) /\ r \in S
  BY DEF ListType
<1> HIDE DEF S
<1>2. /\ Len(ReplaceAt(list, i, r)) = Len(list)
      /\ \A j \in 1..Len(list) :
            ReplaceAt(list, i, r)[j] = IF j = i THEN r ELSE list[j]
  BY <1>1, ExceptSeq DEF ReplaceAt
<1> QED
  BY <1>2 DEF Sized

LEMMA RemoveSized ==
    ASSUME NEW Node, NEW list \in ListType(Node), NEW i \in 1..Len(list),
           Sized(list)
    PROVE  Sized(RemoveAt(list, i))
<1>1. Len(list) \in Nat
  BY ListTypeFacts
<1>2. /\ Len(RemoveAt(list, i)) = Len(list) - 1
      /\ \A j \in 1..(Len(list) - 1) :
            RemoveAt(list, i)[j] = IF j < i THEN list[j] ELSE list[j + 1]
  BY RemoveAtFacts DEF ListType
<1>3. \A j \in 1..(Len(list) - 1) : j \in 1..Len(list) /\ j + 1 \in 1..Len(list)
  BY <1>1
<1> QED
  BY <1>2, <1>3 DEF Sized

LEMMA InsertSized ==
    ASSUME NEW Node, NEW list \in ListType(Node), NEW i \in 0..Len(list),
           NEW node \in Node, NEW start \in Nat, NEW size \in 1..SizeMax,
           Sized(list)
    PROVE  Sized(InsertAfter(list, i, node, start, size))
<1> DEFINE r == Region(node, start, size)
           k == i + 1
           S == [node : Node, start : Nat, size : Nat \ {0}]
<1>1. /\ list \in Seq(S) /\ r \in S /\ r.size <= SizeMax
      /\ Len(list) \in Nat
  BY ListTypeFacts DEF ListType, Region
<1> HIDE DEF S, r
<1>2. k \in 1..(Len(list) + 1) /\ list \in Seq(S) /\ r \in S
  BY <1>1
<1>k. k \in Int /\ k = i + 1
  OBVIOUS
<1> HIDE DEF k
<1>3. /\ InsertAt(list, k, r) \in Seq(S)
      /\ Len(InsertAt(list, k, r)) = Len(list) + 1
      /\ \A j \in 1..(Len(list) + 1) :
            InsertAt(list, k, r)[j] =
               IF j < k THEN list[j] ELSE IF j = k THEN r ELSE list[j - 1]
  BY <1>2, InsertAtFacts
<1> DEFINE new == InsertAt(list, k, r)
<1>n. /\ Len(new) = Len(list) + 1
      /\ \A j \in 1..(Len(list) + 1) :
            new[j] = IF j < k THEN list[j] ELSE IF j = k THEN r ELSE list[j - 1]
  BY <1>3
<1> HIDE DEF new
<1>4. ASSUME NEW j \in 1..(Len(list) + 1)
      PROVE  new[j].size <= SizeMax
  <2>1. CASE j < k
    <3>1. j \in 1..Len(list)
      BY <1>1, <1>2, <2>1
    <3> QED
      BY <1>n, <2>1, <3>1 DEF Sized
  <2>2. CASE j = k
    BY <1>1, <1>2, <1>n, <2>2
  <2>3. CASE j > k
    <3>1. j - 1 \in 1..Len(list)
      BY <1>1, <1>2, <2>3
    <3>2. new[j] = list[j - 1]
      BY <1>1, <1>2, <1>n, <2>3
    <3> QED
      BY <3>1, <3>2 DEF Sized
  <2> QED
    BY <1>1, <1>2, <2>1, <2>2, <2>3
<1> QED
  BY <1>n, <1>4 DEF Sized, InsertAfter, r, new, k

LEMMA TakeHeadSized ==
    ASSUME NEW Node, NEW list \in ListType(Node), NEW i \in 1..Len(list),
           NEW size \in Nat, size <= list[i].size, Sized(list)
    PROVE  Sized(TakeHead(list, i, size))
<1>1. /\ list[i] \in [node : Node, start : Nat, size : Nat \ {0}]
      /\ list[i].start \in Nat /\ list[i].size \in Nat \ {0}
      /\ list[i].size <= SizeMax
  BY ListTypeFacts DEF Sized
<1>2. CASE Exact(list, i, size)
  BY <1>2, RemoveSized DEF TakeHead
<1>3. CASE ~ Exact(list, i, size)
  <2> DEFINE a == list[i].start + size
             n == list[i].size - size
             r == [list[i] EXCEPT !.start = a, !.size = n]
  <2>1. a \in Nat /\ n \in Nat \ {0} /\ n <= SizeMax
    BY <1>1, <1>3, WidthAssumption DEF Exact
  <2> HIDE DEF a, n
  <2>2. r \in [node : Node, start : Nat, size : Nat \ {0}] /\ r.size <= SizeMax
    BY <1>1, <2>1
  <2> HIDE DEF r
  <2>3. Sized(ReplaceAt(list, i, r))
    BY <2>2, ReplaceSized
  <2> QED
    BY <1>3, <2>3 DEF TakeHead, r, a, n
<1> QED
  BY <1>2, <1>3

LEMMA ShrinkSized ==
    ASSUME NEW Node, NEW list \in ListType(Node), NEW i \in 1..Len(list),
           NEW skip \in Nat \ {0}, skip <= list[i].size, Sized(list)
    PROVE  Sized(Shrink(list, i, skip))
<1> DEFINE r == [list[i] EXCEPT !.size = skip]
<1>1. /\ list[i] \in [node : Node, start : Nat, size : Nat \ {0}]
      /\ list[i].size \in Nat /\ list[i].size <= SizeMax
  BY ListTypeFacts DEF Sized
<1>2. r \in [node : Node, start : Nat, size : Nat \ {0}] /\ r.size = skip
  BY <1>1
<1> HIDE DEF r
<1>3. r.size <= SizeMax
  BY <1>1, <1>2, WidthAssumption
<1> QED
  BY <1>2, <1>3, ReplaceSized DEF Shrink, r

LEMMA GrowBeforeSized ==
    ASSUME NEW Node, NEW list \in ListType(Node), NEW i \in 1..Len(list),
           NEW size \in Nat, list[i].size + size <= SizeMax, Sized(list)
    PROVE  Sized(GrowBefore(list, i, size))
<1> DEFINE n == list[i].size + size
           r == [list[i] EXCEPT !.size = n]
<1>1. /\ list[i] \in [node : Node, start : Nat, size : Nat \ {0}]
      /\ list[i].size \in Nat \ {0}
  BY ListTypeFacts
<1>2. n \in Nat \ {0} /\ n <= SizeMax
  BY <1>1
<1> HIDE DEF n
<1>3. r \in [node : Node, start : Nat, size : Nat \ {0}] /\ r.size <= SizeMax
  BY <1>1, <1>2
<1> HIDE DEF r
<1>4. Sized(ReplaceAt(list, i, r))
  BY <1>3, ReplaceSized
<1> QED
  BY <1>4 DEF GrowBefore, r, n

LEMMA GrowAfterSized ==
    ASSUME NEW Node, NEW list \in ListType(Node), NEW i, i + 1 \in 1..Len(list),
           NEW size \in Nat, size <= list[i + 1].start,
           list[i + 1].size + size <= SizeMax, Sized(list)
    PROVE  Sized(GrowAfter(list, i, size))
<1> PICK k \in 1..Len(list) : k = i + 1
  OBVIOUS
<1> DEFINE a == list[k].start - size
           n == list[k].size + size
           r == [list[k] EXCEPT !.start = a, !.size = n]
<1>1. /\ list[k] \in [node : Node, start : Nat, size : Nat \ {0}]
      /\ list[k].size \in Nat \ {0} /\ list[k].start \in Nat
  BY ListTypeFacts
<1>2. n \in Nat \ {0} /\ n <= SizeMax /\ a \in Nat
  BY <1>1
<1> HIDE DEF a, n
<1>3. r \in [node : Node, start : Nat, size : Nat \ {0}] /\ r.size <= SizeMax
  BY <1>1, <1>2
<1> HIDE DEF r
<1>4. Sized(ReplaceAt(list, k, r))
  BY <1>3, ReplaceSized
<1> QED
  BY <1>4 DEF GrowAfter, r, a, n

LEMMA JoinBothSized ==
    ASSUME NEW Node, NEW list \in ListType(Node), NEW i \in 1..Len(list),
           i + 1 \in 1..Len(list), NEW size \in Nat,
           list[i].size + (size + list[i + 1].size) <= SizeMax, Sized(list)
    PROVE  Sized(JoinBoth(list, i, size))
<1> PICK k \in 1..Len(list) : k = i + 1
  OBVIOUS
<1> DEFINE n    == list[i].size + (size + list[k].size)
           r    == [list[i] EXCEPT !.size = n]
           grown == ReplaceAt(list, i, r)
           S    == [node : Node, start : Nat, size : Nat \ {0}]
<1>1. /\ list[i] \in [node : Node, start : Nat, size : Nat \ {0}]
      /\ list[i].size \in Nat \ {0} /\ list[k].size \in Nat
  BY ListTypeFacts
<1>2. n \in Nat \ {0} /\ n <= SizeMax
  <2> DEFINE a == list[i].size
             b == list[k].size
  <2>1. n = a + (size + b) /\ n <= SizeMax
    OBVIOUS
  <2> HIDE DEF a, b, n
  <2>2. a \in Nat \ {0} /\ b \in Nat
    BY <1>1 DEF a, b
  <2> QED
    BY <2>1, <2>2
<1> HIDE DEF n
<1>3. r \in S /\ r.size <= SizeMax
  BY <1>1, <1>2
<1> HIDE DEF r
<1>4. Sized(grown)
  BY <1>3, ReplaceSized
<1>5. grown \in ListType(Node) /\ Len(grown) = Len(list)
  <2>1. list \in Seq(S) /\ ListType(Node) = Seq(S)
    BY DEF ListType
  <2> HIDE DEF S
  <2> QED
    BY <1>3, <2>1, ExceptSeq DEF ReplaceAt
<1> HIDE DEF grown
<1>6. Sized(RemoveAt(grown, k))
  BY <1>4, <1>5, RemoveSized
<1> QED
  BY <1>6 DEF JoinBoth, GrowBefore, grown, r, n

-----------------------------------------------------------------------------
(* Alignment.                                                              *)

\* The part of a region that OffsetAlign hands out, and its address: it lies
\* in the region, and it is aligned where the alignment divides the number of
\* addresses, as a power of two does.
LEMMA AlignedPart ==
    ASSUME NEW region, region.start \in Nat, region.size \in Nat,
           End(region) <= AddressSpan,
           NEW align \in Nat \ {0}, NEW offset \in Nat, NEW size \in Nat,
           AlignedFits(region, align, offset, size)
    PROVE  LET skip == Compensation(region, align, offset)
               at   == AlignedAddress(region, skip)
           IN  /\ skip \in Nat
               /\ skip + size <= region.size
               /\ at \in 0..(AddressSpan - 1)
               /\ TailSize(region, skip, size) \in Nat
               /\ skip + size + TailSize(region, skip, size) = region.size
               /\ TailSize(region, skip, size) # 0 => at = region.start + skip
               /\ UnitsFrom(at, size) = UnitsFrom(region.start + skip, size)
               /\ AddressSpan % align = 0 =>
                     ((at + offset) % AddressSpan) % align = 0
<1> DEFINE start == region.start
           total == region.size
           place == (start + offset) % AddressSpan
           skip  == Compensation(region, align, offset)
           at    == AlignedAddress(region, skip)
<1>0. AddressSpan \in Nat \ {0}
  BY WidthAssumption
<1>1. start \in Nat /\ total \in Nat /\ start + total <= AddressSpan
  BY DEF End
<1>2. place \in Nat /\ start + offset \in Int
  BY <1>0, <1>1
<1>3. skip = IF place % align = 0 THEN 0 ELSE align - (place % align)
  BY DEF Compensation
<1>4. skip <= total /\ total - skip >= size
  BY DEF AlignedFits
<1>5. at = (start + skip) % AddressSpan
  BY DEF AlignedAddress
<1>p. place = (start + offset) % AddressSpan
  OBVIOUS
<1> HIDE DEF start, total, skip, at, place
<1>6. skip \in 0..(align - 1)
  <2>1. place % align \in 0..(align - 1)
    BY <1>2
  <2> QED
    BY <1>3, <2>1
<1>7. skip \in Nat /\ skip + size <= total /\ start + skip + size <= AddressSpan
  BY <1>0, <1>1, <1>4, <1>6
<1>8. at \in 0..(AddressSpan - 1)
  BY <1>0, <1>1, <1>5, <1>7
<1>9. /\ start + skip + size < AddressSpan => at = start + skip
      /\ UnitsFrom(at, size) = UnitsFrom(start + skip, size)
  <2> DEFINE from == start + skip
  <2>1. from \in Nat /\ from + size <= AddressSpan /\ at = from % AddressSpan
    BY <1>1, <1>5, <1>7
  <2> HIDE DEF from
  <2>2. CASE from < AddressSpan
    <3>1. at = from
      BY <1>0, <2>1, <2>2
    <3> QED
      BY <3>1 DEF from
  <2>3. CASE from = AddressSpan
    <3>1. at = 0 /\ size = 0
      BY <1>0, <2>1, <2>3
    <3>2. UnitsFrom(at, size) = UnitsFrom(from, size)
      BY <1>0, <2>3, <3>1 DEF UnitsFrom
    <3>3. ~ (from + size < AddressSpan)
      BY <1>0, <2>3, <3>1
    <3> QED
      BY <3>2, <3>3 DEF from
  <2> QED
    BY <1>0, <2>1, <2>2, <2>3
<1>10. ASSUME AddressSpan % align = 0
       PROVE  ((at + offset) % AddressSpan) % align = 0
  <2> DEFINE asked == start + offset
             begin == start + skip
             given == at + offset
  <2>1. /\ asked \in Int /\ begin \in Int /\ given \in Int
        /\ asked + skip = begin + offset
    BY <1>1, <1>2, <1>7, <1>8
  <2>2. place = asked % AddressSpan /\ at = begin % AddressSpan
    BY <1>5, <1>p
  <2> HIDE DEF asked, begin
  <2>0. offset \in Int /\ skip \in Int
    BY <1>7
  <2>3. place % align = asked % align
    BY <1>0, <1>10, <2>1, <2>2, WrapRemainder
  <2>4. (asked + skip) % align = 0
    <3>1. skip = IF asked % align = 0 THEN 0 ELSE align - (asked % align)
      BY <1>3, <2>3
    <3> QED
      BY <2>0, <2>1, <3>1, SkipToMultiple, Zenon
  <2>5. given % align = (begin + offset) % align
    <3>1. ((begin % AddressSpan) + offset) % align = (begin + offset) % align
      BY <1>0, <1>10, <2>0, <2>1, WrapKeepsRemainder, ZenonT(60)
    <3> QED
      BY <2>2, <3>1
  <2> HIDE DEF given
  <2>6. (given % AddressSpan) % align = given % align
    BY <1>0, <1>10, <2>1, WrapRemainder
  <2> QED
    BY <2>1, <2>4, <2>5, <2>6 DEF given
<1>11. /\ total - (skip + size) \in Nat
       /\ skip + size + (total - (skip + size)) = total
       /\ total - (skip + size) # 0 => at = start + skip
  BY <1>0, <1>1, <1>7, <1>9
<1>12. TailSize(region, skip, size) = total - (skip + size)
  BY DEF TailSize, total
<1> QED
  BY <1>7, <1>8, <1>9, <1>10, <1>11, <1>12 DEF start, total, skip, at

-----------------------------------------------------------------------------
(* Seams.                                                                  *)

StartsOf(list) == {list[i].start : i \in 1..Len(list)}

EndsOf(list) == {End(list[i]) : i \in 1..Len(list)}

\* A region that begins where another one ends is the next in the list.
LEMMA NextInList ==
    ASSUME NEW Node, NEW list \in ListType(Node), Ordered(list),
           NEW i \in 1..Len(list), NEW j \in 1..Len(list),
           End(list[i]) = list[j].start
    PROVE  i < Len(list) /\ j = i + 1
<1>1. /\ Len(list) \in Nat /\ DOMAIN list = 1..Len(list)
      /\ \A k \in 1..Len(list) :
            /\ list[k].start \in Nat /\ End(list[k]) \in Nat
            /\ list[k].start < End(list[k])
  BY ListTypeFacts
<1>2. i < j
  <2>1. j < i => End(list[j]) <= list[i].start
    BY OrderedFacts
  <2> QED
    BY <1>1, <2>1
<1>3. i + 1 \in 1..Len(list)
  BY <1>1, <1>2
<1>4. ~ (i + 1 < j)
  <2>1. End(list[i]) <= list[i + 1].start
    <3>1. i < i + 1
      BY <1>1
    <3> QED
      BY <1>3, <3>1, OrderedFacts
  <2>2. i + 1 < j => End(list[i + 1]) <= list[j].start
    BY <1>3, OrderedFacts
  <2> QED
    BY <1>1, <1>3, <2>1, <2>2
<1> QED
  BY <1>1, <1>2, <1>3, <1>4

\* A seam is where one region begins and one ends.
LEMMA SeamFacts ==
    ASSUME NEW Node, NEW list \in ListType(Node)
    PROVE  /\ Seams(list) \subseteq StartsOf(list) \cap EndsOf(list)
           /\ Ordered(list) => StartsOf(list) \cap EndsOf(list) = Seams(list)
<1>1. Len(list) \in Nat /\ DOMAIN list = 1..Len(list)
  BY ListTypeFacts
<1>2. \A s \in Seams(list) : s \in StartsOf(list) \cap EndsOf(list)
  <2> SUFFICES ASSUME NEW i \in 1..Len(list), i < Len(list),
                      End(list[i]) = list[i + 1].start
               PROVE  End(list[i]) \in StartsOf(list) \cap EndsOf(list)
    BY <1>1 DEF Seams
  <2>1. i + 1 \in 1..Len(list)
    BY <1>1
  <2> QED
    BY <2>1 DEF StartsOf, EndsOf
<1>3. ASSUME Ordered(list), NEW i \in 1..Len(list), NEW j \in 1..Len(list),
             End(list[i]) = list[j].start
      PROVE  End(list[i]) \in Seams(list)
  <2>1. i < Len(list) /\ j = i + 1
    BY <1>3, NextInList
  <2> QED
    BY <1>1, <1>3, <2>1 DEF Seams
<1>4. Ordered(list) =>
         \A s \in StartsOf(list) \cap EndsOf(list) : s \in Seams(list)
  BY <1>3 DEF StartsOf, EndsOf
<1> QED
  BY <1>2, <1>4

\* No region begins or ends inside of another one.
LEMMA NothingInside ==
    ASSUME NEW Node, NEW list \in ListType(Node), Ordered(list),
           NEW i \in 1..Len(list), NEW x \in Int,
           list[i].start < x, x < End(list[i])
    PROVE  x \notin StartsOf(list) /\ x \notin EndsOf(list)
<1>1. \A k \in 1..Len(list) :
         /\ list[k].start \in Nat /\ End(list[k]) \in Nat
         /\ list[k].start < End(list[k])
  BY ListTypeFacts
<1>2. ASSUME NEW j \in 1..Len(list)
      PROVE  x # list[j].start /\ x # End(list[j])
  <2>1. /\ j < i => End(list[j]) <= list[i].start
        /\ i < j => End(list[i]) <= list[j].start
    BY OrderedFacts
  <2>2. i \in Int /\ j \in Int
    OBVIOUS
  <2> QED
    BY <1>1, <2>1, <2>2
<1> QED
  BY <1>2 DEF StartsOf, EndsOf

\* The starts and ends after one region has been replaced, removed, inserted.
LEMMA ReplaceBounds ==
    ASSUME NEW Node, NEW list \in ListType(Node), NEW i \in 1..Len(list),
           NEW r \in [node : Node, start : Nat, size : Nat \ {0}]
    PROVE  LET new == ReplaceAt(list, i, r)
           IN  /\ new \in ListType(Node) /\ Len(new) = Len(list)
               /\ \A j \in 1..Len(list) : new[j] = IF j = i THEN r ELSE list[j]
               /\ StartsOf(new) \subseteq StartsOf(list) \cup {r.start}
               /\ EndsOf(new) \subseteq EndsOf(list) \cup {End(r)}
<1> DEFINE new == ReplaceAt(list, i, r)
           S   == [node : Node, start : Nat, size : Nat \ {0}]
<1>1. list \in Seq(S) /\ r \in S /\ ListType(Node) = Seq(S)
  BY DEF ListType
<1> HIDE DEF S
<1>2. /\ new \in ListType(Node) /\ Len(new) = Len(list)
      /\ \A j \in 1..Len(list) : new[j] = IF j = i THEN r ELSE list[j]
  BY <1>1, ExceptSeq DEF ReplaceAt
<1> HIDE DEF new
<1>3. \A j \in 1..Len(new) : new[j] = r \/ \E k \in 1..Len(list) : new[j] = list[k]
  BY <1>2
<1>4. /\ StartsOf(new) \subseteq StartsOf(list) \cup {r.start}
      /\ EndsOf(new) \subseteq EndsOf(list) \cup {End(r)}
  <2>1. StartsOf(new) \subseteq StartsOf(list) \cup {r.start}
    BY <1>3 DEF StartsOf
  <2>2. EndsOf(new) \subseteq EndsOf(list) \cup {End(r)}
    BY <1>3 DEF EndsOf
  <2> QED
    BY <2>1, <2>2
<1> QED
  BY <1>2, <1>4 DEF new

LEMMA RemoveBounds ==
    ASSUME NEW Node, NEW list \in ListType(Node), NEW i \in 1..Len(list)
    PROVE  LET new == RemoveAt(list, i)
           IN  /\ new \in ListType(Node)
               /\ StartsOf(new) \subseteq {list[k].start : k \in 1..Len(list) \ {i}}
               /\ EndsOf(new) \subseteq {End(list[k]) : k \in 1..Len(list) \ {i}}
<1> DEFINE new == RemoveAt(list, i)
<1>1. Len(list) \in Nat
  BY ListTypeFacts
<1>2. /\ new \in ListType(Node)
      /\ Len(new) = Len(list) - 1
      /\ \A j \in 1..(Len(list) - 1) : new[j] = IF j < i THEN list[j] ELSE list[j + 1]
  BY RemoveAtFacts DEF ListType
<1> HIDE DEF new
<1>3. ASSUME NEW j \in 1..Len(new)
      PROVE  \E k \in 1..Len(list) \ {i} : new[j] = list[k]
  <2>1. CASE j < i
    <3>1. j \in 1..Len(list) \ {i} /\ new[j] = list[j]
      BY <1>1, <1>2, <2>1
    <3> QED
      BY <3>1
  <2>2. CASE ~ (j < i)
    <3>1. j + 1 \in 1..Len(list) \ {i} /\ new[j] = list[j + 1]
      BY <1>1, <1>2, <2>2
    <3> QED
      BY <3>1
  <2> QED
    BY <2>1, <2>2
<1>4. /\ StartsOf(new) \subseteq {list[k].start : k \in 1..Len(list) \ {i}}
      /\ EndsOf(new) \subseteq {End(list[k]) : k \in 1..Len(list) \ {i}}
  BY <1>3 DEF StartsOf, EndsOf
<1> QED
  BY <1>2, <1>4 DEF new

LEMMA InsertBounds ==
    ASSUME NEW Node, NEW list \in ListType(Node), NEW i \in 0..Len(list),
           NEW node \in Node, NEW start \in Nat, NEW size \in Nat \ {0}
    PROVE  LET new == InsertAfter(list, i, node, start, size)
           IN  /\ new \in ListType(Node)
               /\ StartsOf(new) \subseteq StartsOf(list) \cup {start}
               /\ EndsOf(new) \subseteq EndsOf(list) \cup {start + size}
<1> DEFINE r == Region(node, start, size)
           k == i + 1
           S == [node : Node, start : Nat, size : Nat \ {0}]
<1>1. /\ list \in Seq(S) /\ r \in S /\ ListType(Node) = Seq(S)
      /\ r.start = start /\ End(r) = start + size /\ Len(list) \in Nat
      /\ InsertAfter(list, i, node, start, size) = InsertAt(list, k, r)
  BY ListTypeFacts DEF ListType, Region, End, InsertAfter
<1> HIDE DEF S, r
<1>2. k \in 1..(Len(list) + 1) /\ list \in Seq(S) /\ r \in S
  BY <1>1
<1>k. k \in Int /\ k = i + 1
  OBVIOUS
<1> HIDE DEF k
<1>6. /\ InsertAt(list, k, r) \in Seq(S)
      /\ Len(InsertAt(list, k, r)) = Len(list) + 1
      /\ \A j \in 1..(Len(list) + 1) :
            InsertAt(list, k, r)[j] =
               IF j < k THEN list[j] ELSE IF j = k THEN r ELSE list[j - 1]
  <2>1. InsertAt(list, k, r) \in Seq(S)
    BY <1>2, InsertAtFacts
  <2>2. Len(InsertAt(list, k, r)) = Len(list) + 1
    BY <1>2, InsertAtFacts
  <2>3. ASSUME NEW j \in 1..(Len(list) + 1)
        PROVE  InsertAt(list, k, r)[j] =
                  IF j < k THEN list[j] ELSE IF j = k THEN r ELSE list[j - 1]
    BY <1>2, InsertAtFacts
  <2> QED
    BY <2>1, <2>2, <2>3
<1> DEFINE new == InsertAt(list, k, r)
<1>3. /\ new \in Seq(S)
      /\ Len(new) = Len(list) + 1
      /\ \A j \in 1..(Len(list) + 1) :
            new[j] = IF j < k THEN list[j] ELSE IF j = k THEN r ELSE list[j - 1]
      /\ InsertAfter(list, i, node, start, size) = new
  BY <1>1, <1>6
<1> HIDE DEF new
<1>4. ASSUME NEW j \in 1..Len(new)
      PROVE  new[j] = r \/ \E l \in 1..Len(list) : new[j] = list[l]
  <2>1. CASE j < k
    <3>1. j \in 1..Len(list) /\ new[j] = list[j]
      BY <1>1, <1>2, <1>3, <2>1
    <3> QED
      BY <3>1
  <2>2. CASE j = k
    BY <1>2, <1>3, <2>2
  <2>3. CASE j > k
    <3>1. j - 1 \in 1..Len(list) /\ new[j] = list[j - 1]
      BY <1>1, <1>2, <1>3, <2>3
    <3> QED
      BY <3>1
  <2> QED
    BY <1>1, <1>2, <1>3, <2>1, <2>2, <2>3
<1>5. /\ StartsOf(new) \subseteq StartsOf(list) \cup {r.start}
      /\ EndsOf(new) \subseteq EndsOf(list) \cup {End(r)}
  BY <1>4 DEF StartsOf, EndsOf
<1> QED
  BY <1>1, <1>3, <1>5

\* TakeHead moves a start within its region.
LEMMA TakeHeadSeams ==
    ASSUME NEW Node, NEW list \in ListType(Node), NEW i \in 1..Len(list),
           NEW size \in Nat, size <= list[i].size, Ordered(list)
    PROVE  Seams(TakeHead(list, i, size)) \subseteq Seams(list)
<1>1. /\ list[i] \in [node : Node, start : Nat, size : Nat \ {0}]
      /\ list[i].start \in Nat /\ list[i].size \in Nat \ {0}
      /\ End(list[i]) = list[i].start + list[i].size
  BY ListTypeFacts
<1>2. StartsOf(list) \cap EndsOf(list) = Seams(list)
  BY SeamFacts
<1>3. CASE Exact(list, i, size)
  <2> DEFINE new == RemoveAt(list, i)
  <2>1. /\ new \in ListType(Node)
        /\ StartsOf(new) \subseteq {list[k].start : k \in 1..Len(list) \ {i}}
        /\ EndsOf(new) \subseteq {End(list[k]) : k \in 1..Len(list) \ {i}}
    BY RemoveBounds
  <2> HIDE DEF new
  <2>2. Seams(new) \subseteq StartsOf(new) \cap EndsOf(new)
    BY <2>1, SeamFacts
  <2>3. StartsOf(new) \subseteq StartsOf(list) /\ EndsOf(new) \subseteq EndsOf(list)
    BY <2>1 DEF StartsOf, EndsOf
  <2>4. TakeHead(list, i, size) = new
    BY <1>3 DEF TakeHead, new
  <2> QED
    BY <1>2, <2>2, <2>3, <2>4
<1>4. CASE ~ Exact(list, i, size)
  <2> DEFINE a == list[i].start + size
             n == list[i].size - size
             r == [list[i] EXCEPT !.start = a, !.size = n]
             new == ReplaceAt(list, i, r)
  <2>1. a \in Nat /\ n \in Nat \ {0} /\ a + n = End(list[i]) /\ a < End(list[i])
    BY <1>1, <1>4 DEF Exact
  <2>2. size = 0 => a = list[i].start
    BY <1>1
  <2>3. size # 0 => list[i].start < a
    BY <1>1
  <2>4. TakeHead(list, i, size) = new
    BY <1>4 DEF TakeHead
  <2> HIDE DEF a, n
  <2>5. /\ r \in [node : Node, start : Nat, size : Nat \ {0}]
        /\ r.start = a /\ End(r) = a + n
    BY <1>1, <2>1 DEF End
  <2> HIDE DEF r
  <2>6. /\ new \in ListType(Node)
        /\ StartsOf(new) \subseteq StartsOf(list) \cup {a}
        /\ EndsOf(new) \subseteq EndsOf(list) \cup {End(r)}
    BY <2>5, ReplaceBounds
  <2> HIDE DEF new
  <2>7. End(r) \in EndsOf(list) /\ list[i].start \in StartsOf(list)
    BY <2>1, <2>5 DEF EndsOf, StartsOf
  <2>8. a \in EndsOf(list) => a \in Seams(list)
    <3>1. CASE size = 0
      BY <1>2, <2>2, <2>7, <3>1
    <3>2. CASE size # 0
      BY <2>1, <2>3, <3>2, NothingInside
    <3> QED
      BY <3>1, <3>2
  <2>9. Seams(new) \subseteq StartsOf(new) \cap EndsOf(new)
    BY <2>6, SeamFacts
  <2> QED
    BY <1>2, <2>4, <2>6, <2>7, <2>8, <2>9
<1> QED
  BY <1>3, <1>4

\* Shrink moves an end within its region.
LEMMA ShrinkSeams ==
    ASSUME NEW Node, NEW list \in ListType(Node), NEW i \in 1..Len(list),
           NEW skip \in Nat \ {0}, skip <= list[i].size, Ordered(list)
    PROVE  LET new == Shrink(list, i, skip)
           IN  /\ new \in ListType(Node) /\ Len(new) = Len(list)
               /\ StartsOf(new) \subseteq StartsOf(list)
               /\ EndsOf(new) \subseteq EndsOf(list) \cup {list[i].start + skip}
               /\ Seams(new) \subseteq Seams(list)
<1> DEFINE e   == list[i].start + skip
           r   == [list[i] EXCEPT !.size = skip]
           new == ReplaceAt(list, i, r)
<1>1. /\ list[i] \in [node : Node, start : Nat, size : Nat \ {0}]
      /\ list[i].start \in Nat /\ list[i].size \in Nat \ {0}
      /\ End(list[i]) = list[i].start + list[i].size
  BY ListTypeFacts
<1>2. StartsOf(list) \cap EndsOf(list) = Seams(list)
  BY SeamFacts
<1>3. /\ r \in [node : Node, start : Nat, size : Nat \ {0}]
      /\ r.start = list[i].start /\ End(r) = e
  BY <1>1 DEF End
<1>4. /\ e \in Int /\ list[i].start < e /\ e <= End(list[i])
      /\ End(list[i]) \in EndsOf(list) /\ list[i].start \in StartsOf(list)
  BY <1>1 DEF EndsOf, StartsOf
<1>5. Shrink(list, i, skip) = new
  BY DEF Shrink
<1> HIDE DEF e, r
<1>6. /\ new \in ListType(Node) /\ Len(new) = Len(list)
      /\ StartsOf(new) \subseteq StartsOf(list) \cup {r.start}
      /\ EndsOf(new) \subseteq EndsOf(list) \cup {End(r)}
  BY <1>3, ReplaceBounds
<1> HIDE DEF new
<1>7. e \in StartsOf(list) => e \in Seams(list)
  <2>1. CASE e = End(list[i])
    BY <1>2, <1>4, <2>1
  <2>2. CASE e # End(list[i])
    <3>1. e < End(list[i])
      BY <1>1, <1>4, <2>2
    <3> QED
      BY <1>4, <3>1, NothingInside
  <2> QED
    BY <2>1, <2>2
<1>8. Seams(new) \subseteq StartsOf(new) \cap EndsOf(new)
  BY <1>6, SeamFacts
<1>9. Seams(new) \subseteq Seams(list)
  BY <1>2, <1>3, <1>4, <1>6, <1>7, <1>8
<1>10. StartsOf(new) \subseteq StartsOf(list) /\ EndsOf(new) \subseteq EndsOf(list) \cup {e}
  BY <1>3, <1>4, <1>6
<1> QED
  BY <1>5, <1>6, <1>9, <1>10 DEF e

\* What OffsetAlign cuts out of a region has regions that touch on its sides
\* only if it is empty.
LEMMA CarveSeams ==
    ASSUME NEW Node, NEW list \in ListType(Node), NEW i \in 1..Len(list),
           NEW skip \in Nat \ {0}, NEW size \in Nat, NEW rest \in Nat \ {0},
           skip + size + rest = list[i].size,
           NEW node \in Node, Ordered(list)
    PROVE  LET at == list[i].start + skip
           IN  Seams(InsertAfter(Shrink(list, i, skip), i, node, at + size, rest))
                  \subseteq Seams(list) \cup (IF size = 0 THEN {at} ELSE {})
<1> DEFINE at  == list[i].start + skip
           cut == Shrink(list, i, skip)
           b   == at + size
           new == InsertAfter(cut, i, node, b, rest)
<1>1. /\ list[i].start \in Nat /\ list[i].size \in Nat \ {0}
      /\ End(list[i]) = list[i].start + list[i].size
      /\ Len(list) \in Nat
  BY ListTypeFacts
<1>2. StartsOf(list) \cap EndsOf(list) = Seams(list)
  BY SeamFacts
<1>3. /\ at \in Nat /\ b \in Nat /\ b + rest = End(list[i])
      /\ list[i].start < at /\ at <= b /\ b < End(list[i])
      /\ skip <= list[i].size
      /\ size # 0 => at # b
  <2> DEFINE s == list[i].start
             m == list[i].size
             e == End(list[i])
  <2>1. s \in Nat /\ m \in Nat /\ skip + size + rest = m /\ at = s + skip
        /\ e = s + m /\ b = at + size
    BY <1>1
  <2> HIDE DEF s, m, e, b, at
  <2>2. at \in Nat /\ s < at
    BY <2>1
  <2>3. b \in Nat /\ at <= b
    BY <2>1
  <2>4. size # 0 => at # b
    BY <2>1
  <2>5. skip <= m
    BY <2>1
  <2>6. b + rest = e
    BY <2>1
  <2>7. b < e
    BY <2>1, <2>3, <2>6
  <2> QED
    BY <2>2, <2>3, <2>4, <2>5, <2>6, <2>7 DEF s, m, e
<1>4. End(list[i]) \in EndsOf(list)
  BY DEF EndsOf
<1> HIDE DEF b, at
<1>5. /\ cut \in ListType(Node) /\ Len(cut) = Len(list)
      /\ StartsOf(cut) \subseteq StartsOf(list)
      /\ EndsOf(cut) \subseteq EndsOf(list) \cup {at}
  BY <1>3, ShrinkSeams DEF at
<1> HIDE DEF cut
<1>6. i \in 0..Len(cut)
  BY <1>1, <1>5
<1>7. /\ new \in ListType(Node)
      /\ StartsOf(new) \subseteq StartsOf(cut) \cup {b}
      /\ EndsOf(new) \subseteq EndsOf(cut) \cup {b + rest}
  BY <1>3, <1>5, <1>6, InsertBounds
<1> HIDE DEF new
<1>8. at \notin StartsOf(list) /\ b \notin EndsOf(list)
  <2>1. at < End(list[i]) /\ list[i].start < b
    BY <1>1, <1>3
  <2> QED
    BY <1>3, <2>1, NothingInside
<1>9. Seams(new) \subseteq StartsOf(new) \cap EndsOf(new)
  BY <1>7, SeamFacts
<1>10. Seams(new) \subseteq Seams(list) \cup (IF size = 0 THEN {at} ELSE {})
  BY <1>2, <1>3, <1>4, <1>5, <1>7, <1>8, <1>9
<1> QED
  BY <1>10 DEF new, cut, b, at

\* Where a range that lies in the gap found by Dealloc does not touch the
\* regions around it, it touches none.
LEMMA GapTouchesNone ==
    ASSUME NEW Node, NEW list \in ListType(Node), Ordered(list),
           NEW address \in Nat, NEW size \in Nat \ {0}, NEW i,
           FitsGap(list, i, address, size)
    PROVE  /\ ~ TouchesBefore(list, i, address) => address \notin EndsOf(list)
           /\ ~ TouchesAfter(list, i, address, size) =>
                 address + size \notin StartsOf(list)
<1>1. /\ Len(list) \in Nat /\ i \in 0..Len(list) /\ DOMAIN list = 1..Len(list)
      /\ \A k \in 1..Len(list) :
            /\ list[k].start \in Nat /\ End(list[k]) \in Nat
            /\ list[k].start < End(list[k])
            /\ k <= i => End(list[k]) <= address
            /\ i < k => address + size <= list[k].start
  BY ListTypeFacts DEF FitsGap
<1>2. ASSUME NEW j \in 1..Len(list), End(list[j]) = address
      PROVE  TouchesBefore(list, i, address)
  <2>1. j <= i
    BY <1>1, <1>2
  <2>2. i \in 1..Len(list)
    BY <1>1, <2>1
  <2>3. j = i
    <3>1. j < i => End(list[j]) <= list[i].start
      BY <2>2, OrderedFacts
    <3> QED
      BY <1>1, <1>2, <2>1, <2>2, <3>1
  <2> QED
    BY <1>1, <1>2, <2>2, <2>3 DEF TouchesBefore
<1>3. ASSUME NEW j \in 1..Len(list), list[j].start = address + size
      PROVE  TouchesAfter(list, i, address, size)
  <2>1. i < j
    BY <1>1, <1>3
  <2>2. i + 1 \in 1..Len(list)
    BY <1>1, <2>1
  <2>3. j = i + 1
    <3>1. i + 1 < j => End(list[i + 1]) <= list[j].start
      BY <2>2, OrderedFacts
    <3>2. /\ address + size <= list[i + 1].start
          /\ list[i + 1].start \in Nat /\ End(list[i + 1]) \in Nat
          /\ list[i + 1].start < End(list[i + 1])
      <4>1. i < i + 1
        BY <1>1
      <4> QED
        BY <1>1, <2>2, <4>1
    <3> DEFINE e == End(list[i + 1])
               s == list[i + 1].start
               m == address + size
    <3>3. i + 1 < j => e <= m
      BY <1>3, <3>1
    <3>4. m \in Nat /\ m <= s /\ s \in Nat /\ e \in Nat /\ s < e
      BY <3>2
    <3> HIDE DEF e, s, m
    <3>5. ~ (e <= m)
      BY <3>4
    <3>6. ~ (i + 1 < j)
      BY <3>3, <3>5
    <3> QED
      BY <1>1, <2>1, <3>6
  <2> QED
    BY <1>1, <1>3, <2>2, <2>3 DEF TouchesAfter
<1> QED
  BY <1>2, <1>3 DEF StartsOf, EndsOf

LEMMA InsertSeams ==
    ASSUME NEW Node, NEW list \in ListType(Node), Ordered(list),
           NEW address \in Nat, NEW size \in Nat \ {0}, NEW i,
           FitsGap(list, i, address, size), NEW node \in Node,
           ~ TouchesBefore(list, i, address), ~ TouchesAfter(list, i, address, size)
    PROVE  Seams(InsertAfter(list, i, node, address, size)) \subseteq Seams(list)
<1> DEFINE new == InsertAfter(list, i, node, address, size)
           e   == address + size
<1>1. i \in 0..Len(list)
  BY DEF FitsGap
<1>2. /\ new \in ListType(Node)
      /\ StartsOf(new) \subseteq StartsOf(list) \cup {address}
      /\ EndsOf(new) \subseteq EndsOf(list) \cup {e}
  BY <1>1, InsertBounds
<1>3. address \notin EndsOf(list) /\ e \notin StartsOf(list) /\ address # e
  BY GapTouchesNone
<1>4. StartsOf(list) \cap EndsOf(list) = Seams(list)
  BY SeamFacts
<1> HIDE DEF new, e
<1>5. Seams(new) \subseteq StartsOf(new) \cap EndsOf(new)
  BY <1>2, SeamFacts
<1> QED
  BY <1>2, <1>3, <1>4, <1>5 DEF new

LEMMA GrowBeforeSeams ==
    ASSUME NEW Node, NEW list \in ListType(Node), Ordered(list),
           NEW address \in Nat, NEW size \in Nat \ {0}, NEW i,
           FitsGap(list, i, address, size),
           TouchesBefore(list, i, address), ~ TouchesAfter(list, i, address, size)
    PROVE  Seams(GrowBefore(list, i, size)) \subseteq Seams(list)
<1> DEFINE e   == address + size
           r   == [list[i] EXCEPT !.size = @ + size]
           new == ReplaceAt(list, i, r)
<1>1. i \in 1..Len(list) /\ End(list[i]) = address
  <2>1. i \in 0..Len(list) /\ Len(list) \in Nat
    BY ListTypeFacts DEF FitsGap
  <2> QED
    BY <2>1 DEF TouchesBefore
<1>2. /\ list[i] \in [node : Node, start : Nat, size : Nat \ {0}]
      /\ list[i].start \in Nat /\ list[i].size \in Nat \ {0}
      /\ list[i].start + list[i].size = address
      /\ list[i].start \in StartsOf(list)
  BY <1>1, ListTypeFacts DEF StartsOf
<1>3. /\ r \in [node : Node, start : Nat, size : Nat \ {0}]
      /\ r.start = list[i].start /\ End(r) = e
  BY <1>2 DEF End
<1>4. e \notin StartsOf(list)
  BY GapTouchesNone
<1>5. GrowBefore(list, i, size) = new
  BY DEF GrowBefore
<1> HIDE DEF r, e
<1>6. /\ new \in ListType(Node)
      /\ StartsOf(new) \subseteq StartsOf(list) \cup {r.start}
      /\ EndsOf(new) \subseteq EndsOf(list) \cup {End(r)}
  BY <1>1, <1>3, ReplaceBounds
<1>7. StartsOf(list) \cap EndsOf(list) = Seams(list)
  BY SeamFacts
<1> HIDE DEF new
<1>8. Seams(new) \subseteq StartsOf(new) \cap EndsOf(new)
  BY <1>6, SeamFacts
<1> QED
  BY <1>2, <1>3, <1>4, <1>5, <1>6, <1>7, <1>8

LEMMA GrowAfterSeams ==
    ASSUME NEW Node, NEW list \in ListType(Node), Ordered(list),
           NEW address \in Nat, NEW size \in Nat \ {0}, NEW i,
           FitsGap(list, i, address, size),
           ~ TouchesBefore(list, i, address), TouchesAfter(list, i, address, size)
    PROVE  Seams(GrowAfter(list, i, size)) \subseteq Seams(list)
<1> DEFINE k   == i + 1
           r   == [list[k] EXCEPT !.start = @ - size, !.size = @ + size]
           new == ReplaceAt(list, k, r)
<1>1. k \in 1..Len(list) /\ address + size = list[k].start
  <2>1. i \in 0..Len(list) /\ Len(list) \in Nat
    BY ListTypeFacts DEF FitsGap
  <2> QED
    BY <2>1 DEF TouchesAfter
<1>5. GrowAfter(list, i, size) = new
  BY DEF GrowAfter
<1> HIDE DEF k
<1>2. /\ list[k] \in [node : Node, start : Nat, size : Nat \ {0}]
      /\ list[k].start \in Nat /\ list[k].size \in Nat \ {0}
      /\ End(list[k]) = list[k].start + list[k].size
      /\ End(list[k]) \in EndsOf(list)
  BY <1>1, ListTypeFacts DEF EndsOf
<1>3. /\ r \in [node : Node, start : Nat, size : Nat \ {0}]
      /\ r.start = address /\ End(r) = End(list[k])
  <2>1. /\ list[k].start - size = address
        /\ list[k].size + size \in Nat \ {0}
        /\ address + (list[k].size + size) = list[k].start + list[k].size
    BY <1>1, <1>2
  <2>2. /\ r.start = address /\ r.size = list[k].size + size
        /\ r \in [node : Node, start : Nat, size : Nat \ {0}]
    BY <1>2, <2>1
  <2> HIDE DEF r
  <2> QED
    BY <1>2, <2>1, <2>2 DEF End
<1>4. address \notin EndsOf(list)
  BY GapTouchesNone
<1> HIDE DEF r
<1>6. /\ new \in ListType(Node)
      /\ StartsOf(new) \subseteq StartsOf(list) \cup {r.start}
      /\ EndsOf(new) \subseteq EndsOf(list) \cup {End(r)}
  BY <1>1, <1>3, ReplaceBounds
<1>7. StartsOf(list) \cap EndsOf(list) = Seams(list)
  BY SeamFacts
<1> HIDE DEF new
<1>8. Seams(new) \subseteq StartsOf(new) \cap EndsOf(new)
  BY <1>6, SeamFacts
<1> QED
  BY <1>2, <1>3, <1>4, <1>5, <1>6, <1>7, <1>8

LEMMA JoinBothSeams ==
    ASSUME NEW Node, NEW list \in ListType(Node), Ordered(list),
           NEW address \in Nat, NEW size \in Nat \ {0}, NEW i,
           FitsGap(list, i, address, size),
           TouchesBefore(list, i, address), TouchesAfter(list, i, address, size)
    PROVE  Seams(JoinBoth(list, i, size)) \subseteq Seams(list)
<1> DEFINE k     == i + 1
           r     == [list[i] EXCEPT !.size = @ + (size + list[k].size)]
           grown == ReplaceAt(list, i, r)
           new   == RemoveAt(grown, k)
<1>1. /\ i \in 1..Len(list) /\ k \in 1..Len(list) /\ k # i
      /\ End(list[i]) = address /\ address + size = list[k].start
  <2>1. i \in 0..Len(list) /\ Len(list) \in Nat
    BY ListTypeFacts DEF FitsGap
  <2> QED
    BY <2>1 DEF TouchesBefore, TouchesAfter
<1>2. JoinBoth(list, i, size) = new
  BY DEF JoinBoth, GrowBefore
<1> HIDE DEF k
<1>3. /\ list[i] \in [node : Node, start : Nat, size : Nat \ {0}]
      /\ list[i].start \in Nat /\ list[i].size \in Nat \ {0}
      /\ list[i].start + list[i].size = address
      /\ list[k].start \in Nat /\ list[k].size \in Nat \ {0}
      /\ End(list[k]) = list[k].start + list[k].size
  BY <1>1, ListTypeFacts
<1>4. /\ r \in [node : Node, start : Nat, size : Nat \ {0}]
      /\ r.start = list[i].start /\ End(r) = End(list[k])
  <2>1. /\ list[i].size + (size + list[k].size) \in Nat \ {0}
        /\ list[i].start + (list[i].size + (size + list[k].size)) =
              list[k].start + list[k].size
    <3> DEFINE s == list[i].start
               l == list[i].size
               t == list[k].start
               n == list[k].size
    <3>1. /\ s \in Nat /\ l \in Nat \ {0} /\ t \in Nat /\ n \in Nat \ {0}
          /\ s + l = address /\ address + size = t
      BY <1>1, <1>3
    <3> HIDE DEF s, l, t, n
    <3>2. l + (size + n) \in Nat \ {0} /\ s + (l + (size + n)) = t + n
      BY <3>1
    <3> QED
      BY <3>2 DEF s, l, t, n
  <2>2. /\ r.start = list[i].start /\ r.size = list[i].size + (size + list[k].size)
        /\ r \in [node : Node, start : Nat, size : Nat \ {0}]
    BY <1>3, <2>1
  <2> HIDE DEF r
  <2> QED
    BY <1>3, <2>1, <2>2 DEF End
<1> HIDE DEF r
<1>5. /\ grown \in ListType(Node) /\ Len(grown) = Len(list)
      /\ \A j \in 1..Len(list) : grown[j] = IF j = i THEN r ELSE list[j]
  BY <1>1, <1>4, ReplaceBounds
<1> HIDE DEF grown
<1>6. /\ new \in ListType(Node)
      /\ StartsOf(new) \subseteq {grown[j].start : j \in 1..Len(list) \ {k}}
      /\ EndsOf(new) \subseteq {End(grown[j]) : j \in 1..Len(list) \ {k}}
  BY <1>1, <1>5, RemoveBounds
<1> HIDE DEF new
<1>7. ASSUME NEW j \in 1..Len(list)
      PROVE  grown[j].start \in StartsOf(list) /\ End(grown[j]) \in EndsOf(list)
  <2>1. CASE j = i
    <3>1. grown[j] = r
      BY <1>5, <2>1
    <3> QED
      BY <1>1, <1>4, <3>1 DEF StartsOf, EndsOf
  <2>2. CASE j # i
    <3>1. grown[j] = list[j]
      BY <1>5, <2>2
    <3> QED
      BY <3>1 DEF StartsOf, EndsOf
  <2> QED
    BY <2>1, <2>2
<1>8. StartsOf(new) \subseteq StartsOf(list) /\ EndsOf(new) \subseteq EndsOf(list)
  BY <1>6, <1>7
<1>9. Seams(new) \subseteq StartsOf(new) \cap EndsOf(new)
  BY <1>6, SeamFacts
<1>10. StartsOf(list) \cap EndsOf(list) = Seams(list)
  BY SeamFacts
<1> QED
  BY <1>2, <1>8, <1>9, <1>10

-----------------------------------------------------------------------------
(* Searches.                                                               *)

\* Free units that no seam interrupts lie in one region.
LEMMA UsableWithin ==
    ASSUME NEW Node, NEW list \in ListType(Node), Ordered(list),
           NEW a \in Nat, NEW size \in Nat \ {0}, NEW align, NEW offset,
           Usable(list, a, align, offset, size)
    PROVE  \E i \in 1..Len(list) :
              list[i].start <= a /\ a + size <= End(list[i])
<1>1. /\ UnitsFrom(a, size) \subseteq FreeUnits(list)
      /\ Seams(list) \cap ((a + 1)..(a + size - 1)) = {}
  BY DEF Usable
<1>2. \A k \in 1..Len(list) :
         /\ list[k].start \in Nat /\ End(list[k]) \in Nat
         /\ list[k].start < End(list[k])
  BY ListTypeFacts
<1>3. PICK i \in 1..Len(list) : list[i].start <= a /\ a < End(list[i])
  <2>1. a \in UnitsFrom(a, size)
    BY DEF UnitsFrom
  <2> QED
    BY <1>1, <2>1, FreeUnitsFacts
<1> DEFINE e == End(list[i])
<1>4. e \in Nat /\ a < e
  BY <1>2, <1>3
<1>5. ASSUME e < a + size PROVE FALSE
  <2>1. e \in UnitsFrom(a, size) /\ e \in (a + 1)..(a + size - 1)
    BY <1>4, <1>5 DEF UnitsFrom
  <2>2. PICK j \in 1..Len(list) : list[j].start <= e /\ e < End(list[j])
    BY <1>1, <2>1, FreeUnitsFacts
  <2>3. list[j].start = e
    <3>1. j < i => End(list[j]) <= list[i].start
      BY OrderedFacts
    <3>2. i < j => End(list[i]) <= list[j].start
      BY OrderedFacts
    <3>3. i \in Int /\ j \in Int
      OBVIOUS
    <3> QED
      BY <1>2, <1>3, <2>2, <3>1, <3>2, <3>3
  <2>4. e \in StartsOf(list) \cap EndsOf(list)
    BY <2>3 DEF StartsOf, EndsOf
  <2>5. e \in Seams(list)
    BY <2>4, SeamFacts
  <2> QED
    BY <1>1, <2>1, <2>5
<1> QED
  BY <1>3, <1>4, <1>5

\* Any aligned part of a region is usable.
LEMMA PartIsUsable ==
    ASSUME NEW Node, NEW list \in ListType(Node), Ordered(list),
           NEW i \in 1..Len(list), NEW a \in Nat, NEW size \in Nat,
           list[i].start <= a, a + size <= End(list[i]),
           NEW align, NEW offset, ((a + offset) % AddressSpan) % align = 0
    PROVE  Usable(list, a, align, offset, size)
<1>1. /\ list[i].start \in Nat /\ list[i].size \in Nat \ {0}
      /\ End(list[i]) = list[i].start + list[i].size
  BY ListTypeFacts
<1>2. UnitsFrom(a, size) \subseteq FreeUnits(list)
  <2>1. UnitsFrom(a, size) \subseteq UnitsFrom(list[i].start, list[i].size)
    BY <1>1 DEF UnitsFrom
  <2> QED
    BY <2>1, SpanFacts
<1>3. ASSUME NEW s \in (a + 1)..(a + size - 1)
      PROVE  s \notin Seams(list)
  <2> DEFINE b == list[i].start
             e == End(list[i])
  <2>0. b \in Nat /\ e \in Nat /\ b <= a /\ a + size <= e
    BY <1>1
  <2> HIDE DEF b, e
  <2>1. s \in Int /\ b < s /\ s < e
    BY <2>0
  <2>2. s \notin StartsOf(list)
    BY <2>1, NothingInside DEF b, e
  <2> QED
    BY <2>2, SeamFacts
<1> QED
  BY <1>2, <1>3 DEF Usable

\* The first aligned address of a region is at or before every other one.
LEMMA FirstAlignedThere ==
    ASSUME NEW align \in Nat \ {0}, AddressSpan % align = 0,
           AddressSpan \in Nat \ {0},
           NEW offset \in Int, NEW a \in Int, NEW start \in Int, start <= a,
           ((a + offset) % AddressSpan) % align = 0, NEW skip \in Int,
           skip = IF ((start + offset) % AddressSpan) % align = 0 THEN 0
                  ELSE align - (((start + offset) % AddressSpan) % align)
    PROVE  skip \in 0..(align - 1) /\ start + skip <= a
  BY NearestAligned, ZenonT(60)

\* A region with an aligned part that is large enough is accepted by the
\* search, and the part that it takes is the first.
LEMMA AlignedThere ==
    ASSUME NEW region, region.start \in Nat, region.size \in Nat,
           region.size <= SizeMax,
           NEW align \in Nat \ {0}, AddressSpan % align = 0,
           NEW offset \in Nat, NEW size \in Nat,
           NEW a \in Nat, region.start <= a, a + size <= End(region),
           ((a + offset) % AddressSpan) % align = 0
    PROVE  /\ AlignedFits(region, align, offset, size)
           /\ region.start + Compensation(region, align, offset) <= a
<1> DEFINE start == region.start
           total == region.size
           skip  == Compensation(region, align, offset)
<1>1. /\ start \in Int /\ total \in Int /\ total <= SizeMax
      /\ start <= a /\ a + size <= start + total
  BY DEF End
<1>2. skip = IF ((start + offset) % AddressSpan) % align = 0 THEN 0
             ELSE align - (((start + offset) % AddressSpan) % align)
  BY DEF Compensation
<1>3. SizeMax \in Nat /\ AddressSpan \in Nat \ {0}
  BY WidthAssumption
<1>4. skip \in Int
  <2> DEFINE m == ((start + offset) % AddressSpan) % align
  <2>1. m \in Int
    <3>1. start + offset \in Int
      BY <1>1
    <3>2. (start + offset) % AddressSpan \in 0..(AddressSpan - 1)
      BY <1>3, <3>1, Division, Zenon
    <3>3. (start + offset) % AddressSpan \in Int
      BY <3>2
    <3>4. m \in 0..(align - 1)
      BY <3>3, Division, Zenon
    <3> QED
      BY <3>4
  <2> HIDE DEF m, skip
  <2>2. skip = IF m = 0 THEN 0 ELSE align - m
    BY <1>2 DEF m
  <2> QED
    BY <2>1, <2>2
<1> HIDE DEF start, total, skip
<1>5. /\ offset \in Int /\ a \in Int /\ align \in Nat \ {0}
      /\ AddressSpan % align = 0
      /\ ((a + offset) % AddressSpan) % align = 0
      /\ start \in Int /\ start <= a
  BY <1>1
<1>6. skip \in 0..(align - 1) /\ start + skip <= a
  BY <1>2, <1>3, <1>4, <1>5, FirstAlignedThere
<1>7. skip \in Nat /\ skip <= total /\ total - skip >= size /\ skip <= SizeMax
  BY <1>1, <1>3, <1>6
<1> QED
  BY <1>6, <1>7 DEF AlignedFits, skip, start, total

\* Where no region is accepted the request fits nowhere.
LEMMA NoneUsable ==
    ASSUME NEW Node, NEW list \in ListType(Node), Ordered(list), Sized(list),
           NEW align \in Nat \ {0}, AddressSpan % align = 0,
           NEW offset \in Nat, NEW size \in Nat \ {0},
           NoAlignedFit(list, align, offset, size), NEW a \in Nat
    PROVE  ~ Usable(list, a, align, offset, size)
<1> SUFFICES ASSUME Usable(list, a, align, offset, size) PROVE FALSE
  OBVIOUS
<1>1. PICK i \in 1..Len(list) : list[i].start <= a /\ a + size <= End(list[i])
  BY UsableWithin
<1>2. /\ list[i].start \in Nat /\ list[i].size \in Nat /\ list[i].size <= SizeMax
      /\ i \in DOMAIN list
  BY ListTypeFacts DEF Sized
<1>3. ((a + offset) % AddressSpan) % align = 0
  BY DEF Usable
<1>4. AlignedFits(list[i], align, offset, size)
  BY <1>1, <1>2, <1>3, AlignedThere
<1> QED
  BY <1>2, <1>4 DEF NoAlignedFit

\* The first region that is accepted holds the lowest address at which the
\* request fits, and it is the one that is answered.
LEMMA FirstIsLowest ==
    ASSUME NEW Node, NEW list \in ListType(Node), Ordered(list), Sized(list),
           \A j \in 1..Len(list) : End(list[j]) <= AddressSpan,
           NEW align \in Nat \ {0}, AddressSpan % align = 0,
           NEW offset \in Nat, NEW size \in Nat \ {0}, NEW i,
           FirstAligned(list, align, offset, size, i),
           NEW at, at = AlignedAddress(list[i], Compensation(list[i], align, offset))
    PROVE  /\ Usable(list, at, align, offset, size)
           /\ \A a \in 0..(at - 1) : ~ Usable(list, a, align, offset, size)
<1> DEFINE skip == Compensation(list[i], align, offset)
<1>1. \A k \in 1..Len(list) :
         /\ list[k].start \in Nat /\ list[k].size \in Nat \ {0}
         /\ End(list[k]) \in Nat /\ list[k].start < End(list[k])
         /\ End(list[k]) = list[k].start + list[k].size
         /\ list[k].size <= SizeMax
  BY ListTypeFacts DEF Sized
<1>2. /\ i \in 1..Len(list)
      /\ AlignedFits(list[i], align, offset, size)
      /\ \A j \in 1..(i - 1) : ~ AlignedFits(list[j], align, offset, size)
  BY ListTypeFacts DEF FirstAligned
<1>3. /\ skip \in Nat /\ skip + size <= list[i].size
      /\ ((at + offset) % AddressSpan) % align = 0
  <2>1. list[i].size \in Nat /\ size \in Nat
    BY <1>1, <1>2
  <2> QED
    BY <1>1, <1>2, <2>1, AlignedPart, SMTT(60)
<1>4. at = list[i].start + skip
  <2> DEFINE s == list[i].start
             m == list[i].size
  <2>1. /\ s \in Nat /\ m \in Nat /\ s + m <= AddressSpan
        /\ at = (s + skip) % AddressSpan
    BY <1>1, <1>2 DEF AlignedAddress
  <2>2. skip + size <= m /\ skip \in Nat
    BY <1>3
  <2> HIDE DEF s, m, skip
  <2> DEFINE b == s + skip
  <2>3. b \in 0..(AddressSpan - 1)
    BY <2>1, <2>2, WidthAssumption
  <2>4. at = b % AddressSpan
    BY <2>1
  <2> HIDE DEF b
  <2>5. at = b
    BY <2>3, <2>4, WidthAssumption
  <2> QED
    BY <2>5 DEF s, b
<1> HIDE DEF skip
<1>5. at \in Nat /\ list[i].start <= at /\ at + size <= End(list[i])
  <2> DEFINE s == list[i].start
             m == list[i].size
             e == End(list[i])
  <2>1. /\ s \in Nat /\ m \in Nat /\ skip \in Nat /\ skip + size <= m
        /\ e = s + m /\ at = s + skip
    BY <1>1, <1>2, <1>3, <1>4
  <2> HIDE DEF s, m, e
  <2>2. at \in Nat /\ s <= at /\ at + size <= e
    BY <2>1
  <2> QED
    BY <2>2 DEF s, e
<1>6. Usable(list, at, align, offset, size)
  BY <1>2, <1>3, <1>5, PartIsUsable
<1>7. ASSUME NEW a \in 0..(at - 1), Usable(list, a, align, offset, size)
      PROVE  FALSE
  <2>0. a \in Nat /\ a < at /\ ((a + offset) % AddressSpan) % align = 0
    BY <1>5, <1>7 DEF Usable
  <2>1. PICK j \in 1..Len(list) : list[j].start <= a /\ a + size <= End(list[j])
    BY <1>7, <2>0, UsableWithin
  <2>2. /\ AlignedFits(list[j], align, offset, size)
        /\ list[j].start + Compensation(list[j], align, offset) <= a
    <3>1. list[j].start \in Nat /\ list[j].size \in Nat /\ list[j].size <= SizeMax
      BY <1>1
    <3> QED
      BY <2>0, <2>1, <3>1, AlignedThere
  <2>3. ~ (j < i)
    BY <1>2, <2>2
  <2>4. j # i
    BY <1>4, <1>5, <2>0, <2>2 DEF skip
  <2>5. ~ (i < j)
    <3> DEFINE e == End(list[i])
               s == list[j].start
    <3>1. i < j => e <= s
      BY <1>2, OrderedFacts
    <3>2. /\ e \in Nat /\ s \in Nat /\ at \in Nat /\ a \in Nat
          /\ at + size <= e /\ a < at /\ s <= a
      BY <1>1, <1>2, <1>5, <2>0, <2>1
    <3> HIDE DEF e, s
    <3>3. ~ (e <= s)
      BY <3>2
    <3> QED
      BY <3>1, <3>3
  <2> QED
    BY <1>2, <2>3, <2>4, <2>5
<1> QED
  BY <1>6, <1>7

\* Alloc's search is OffsetAlign's for an alignment of 1.
LEMMA FirstFitIsAligned ==
    ASSUME NEW region, region.start \in Nat, region.size \in Nat,
           region.size <= SizeMax, NEW size \in Nat
    PROVE  /\ Compensation(region, 1, 0) = 0
           /\ Fits(region, size) <=> AlignedFits(region, 1, 0, size)
<1> DEFINE m == (region.start + 0) % AddressSpan
<1>1. m \in Nat /\ SizeMax \in Nat
  BY WidthAssumption
<1> HIDE DEF m
<1>2. m % 1 = 0
  BY <1>1
<1>3. Compensation(region, 1, 0) = 0
  BY <1>2 DEF Compensation, m
<1>4. AlignedFits(region, 1, 0, size) <=>
         0 <= SizeMax /\ 0 <= region.size /\ region.size - 0 >= size
  BY <1>3 DEF AlignedFits
<1> QED
  BY <1>1, <1>3, <1>4 DEF Fits
===============================================================================
