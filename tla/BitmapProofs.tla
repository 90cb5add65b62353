----------------------------- MODULE BitmapProofs -----------------------------
(***************************************************************************)
(* The safety of Bitmap for every number of bits, width of a unit and of   *)
(* SizeType, and every request: which bits are 1, that the searches find   *)
(* the first range that fits, and that the bitmap keeps the contract of an *)
(* OffsetAligner.                                                          *)
(*                                                                         *)
(* The searches are recursive functions of the index they have reached.    *)
(* Each step of theirs moves on, so that a function with their equation    *)
(* exists (LoopExists), and what it returns is proved from the last index  *)
(* down (Downward): from what the search returns at the index it moves on  *)
(* to, and from the step having passed over no address that would do.      *)
(***************************************************************************)
EXTENDS Bitmap, TLAPS

\* The lemmas about numbers.  They name no constant, but the module they are in
\* assumes something of its own.
Numbers == INSTANCE RegionListProofs WITH AddressSpan <- 2, SizeMax <- 1

\* What that module assumes holds of the two numbers given to it here.
LEMMA Widths == Numbers!WidthAssumption
BY DEF Numbers!WidthAssumption

USE Widths

-----------------------------------------------------------------------------
(* Loops.                                                                  *)

\* Induction from above, over a set.
LEMMA Downward ==
    ASSUME NEW N \in Nat, NEW G,
           \A i \in 0..N : (\A j \in (i + 1)..N : j \in G) => i \in G
    PROVE  \A i \in 0..N : i \in G
<1> SUFFICES ASSUME NEW z \in 0..N, z \notin G PROVE FALSE
  OBVIOUS
<1> DEFINE T == {k \in 0..N : N - k \notin G}
<1>1. T \in SUBSET Nat /\ N - z \in T
  BY DEF T
<1>2. PICK k \in T : \A l \in T : k <= l
  BY <1>1, Numbers!LeastNumber
<1>3. N - k \in 0..N /\ N - k \notin G
  OBVIOUS
<1>4. \A j \in ((N - k) + 1)..N : j \in G
  <2> SUFFICES ASSUME NEW j \in ((N - k) + 1)..N, j \notin G PROVE FALSE
    OBVIOUS
  <2>1. N - j \in T /\ ~ (k <= N - j)
    OBVIOUS
  <2> QED
    BY <1>2, <2>1
<1> QED
  BY <1>3, <1>4

\* A loop over 0..N: it stops with r[i] at an i of Stop, and else goes on.
IsLoop(f, N, Stop, r, nx) ==
    /\ f = [i \in 0..N |-> f[i]]
    /\ \A i \in 0..N : f[i] = IF i \in Stop THEN r[i] ELSE f[nx[i]]

\* A loop that only moves on defines a function.
LEMMA LoopExists ==
    ASSUME NEW N \in Nat, NEW Stop, NEW r, NEW nx,
           \A i \in 0..N : i \notin Stop => nx[i] \in (i + 1)..N
    PROVE  \E f : IsLoop(f, N, Stop, r, nx)
<1> DEFINE P(k, f) == f = [i \in k..N |-> IF i \in Stop THEN r[i] ELSE f[nx[i]]]
           G == {k \in 0..N : \E f : P(k, f)}
<1>1. ASSUME NEW k \in 0..N, \A j \in (k + 1)..N : j \in G
      PROVE  k \in G
  <2>1. PICK g : \A i \in (k + 1)..N :
                    g[i] = IF i \in Stop THEN r[i] ELSE g[nx[i]]
    <3>1. CASE k = N
      BY <3>1
    <3>2. CASE k # N
      <4>1. k + 1 \in (k + 1)..N
        BY <3>2
      <4>2. PICK f : P(k + 1, f)
        BY <1>1, <4>1
      <4>3. \A i \in (k + 1)..N : f[i] = IF i \in Stop THEN r[i] ELSE f[nx[i]]
        BY <4>2
      <4> QED
        BY <4>3
    <3> QED
      BY <3>1, <3>2
  <2> DEFINE first == IF k \in Stop THEN r[k] ELSE g[nx[k]]
             h == [i \in k..N |-> IF i = k THEN first ELSE g[i]]
  <2>2. \A i \in k..N : h[i] = IF i \in Stop THEN r[i] ELSE h[nx[i]]
    <3> TAKE i \in k..N
    <3>1. i \notin Stop => nx[i] \in (i + 1)..N
      OBVIOUS
    <3>2. i \notin Stop => nx[i] \in k..N /\ nx[i] # k
      BY <3>1
    <3>3. i \notin Stop => h[nx[i]] = g[nx[i]]
      BY <3>2
    <3>4. CASE i = k
      BY <3>3, <3>4
    <3>5. CASE i # k
      <4>1. i \in (k + 1)..N
        BY <3>5
      <4>2. h[i] = g[i]
        BY <3>5
      <4> QED
        BY <2>1, <3>3, <4>1, <4>2
    <3> QED
      BY <3>4, <3>5
  <2>3. h = [i \in k..N |-> h[i]]
    OBVIOUS
  <2> HIDE DEF h
  <2>4. P(k, h)
    BY <2>2, <2>3
  <2> QED
    BY <2>4
<1>2. 0 \in G
  <2> HIDE DEF G
  <2>1. \A k \in 0..N : (\A j \in (k + 1)..N : j \in G) => k \in G
    BY <1>1
  <2>2. \A k \in 0..N : k \in G
    BY <2>1, Downward
  <2> QED
    BY <2>2
<1>3. PICK f : f = [i \in 0..N |-> IF i \in Stop THEN r[i] ELSE f[nx[i]]]
  BY <1>2
<1>4. IsLoop(f, N, Stop, r, nx)
  BY <1>3 DEF IsLoop
<1> QED
  BY <1>4

-----------------------------------------------------------------------------
(* Facts about the constants and the bits.                                 *)

\* What BitmapAssumption says of the constants, one by one.
LEMMA ConstantFacts ==
    /\ AddressSpan \in Nat \ {0} /\ SizeMax \in Nat \ {0}
    /\ SizeMax < AddressSpan
    /\ BitCount \in Nat \ {0} /\ BitCount <= SizeMax
    /\ UnitBitCount \in Nat \ {0}
    /\ AllocSizes \cup AlignSizes \subseteq 0..SizeMax
    /\ Aligns \cup AlignOffsets \subseteq 0..(AddressSpan - 1)
    /\ NotFound = SizeMax + 1 /\ NotFound \in Nat
    /\ Asserts = SizeMax + 2
  BY BitmapAssumption DEF NotFound, Asserts

\* The least element of a set of numbers.
LEMMA MinFacts ==
    ASSUME NEW T \in SUBSET Nat, T # {}
    PROVE  Min(T) \in T /\ \A n \in T : Min(T) <= n
<1>1. \E m \in T : \A n \in T : m <= n
  BY Numbers!LeastNumber
<1> QED
  BY <1>1 DEF Min

\* BitScanRight(~unit): the bits before the first 0 bit are 1 bits.
LEMMA OnesFacts ==
    ASSUME NEW i \in Nat
    PROVE  /\ Ones(i) \in Nat
           /\ \A j \in Nat : j < Ones(i) => i + j \in used
           /\ i \in used => Ones(i) # 0
<1> DEFINE T == {j \in 0..(UnitBitCount - 1) : i + j \notin used} \cup {UnitBitCount}
<1>1. T \in SUBSET Nat /\ T # {} /\ UnitBitCount \in T
  BY ConstantFacts
<1>2. Ones(i) = Min(T)
  BY DEF Ones
<1> HIDE DEF T
<1>3. Ones(i) \in T /\ \A n \in T : Ones(i) <= n
  BY <1>1, <1>2, MinFacts
<1>6. Ones(i) \in Nat /\ Ones(i) <= UnitBitCount /\ UnitBitCount \in Nat
  BY <1>1, <1>3, ConstantFacts
<1>4. ASSUME NEW j \in Nat, j < Ones(i), i + j \notin used
      PROVE  FALSE
  <2>1. j < UnitBitCount
    <3> DEFINE o == Ones(i)
    <3>1. o \in Nat /\ o <= UnitBitCount /\ UnitBitCount \in Nat /\ j < o
      BY <1>4, <1>6
    <3> HIDE DEF o
    <3> QED
      BY <3>1
  <2>2. j \in T
    BY <1>4, <2>1, ConstantFacts DEF T
  <2>3. Ones(i) <= j
    BY <1>3, <2>2
  <2> QED
    BY <1>4, <1>6, <2>3
<1>5. i \in used => 0 \notin T
  BY ConstantFacts DEF T
<1> QED
  BY <1>3, <1>4, <1>5, <1>6

\* NextFree goes on from a 1 bit over 1 bits only.
LEMMA PastUsedFacts ==
    ASSUME NEW i \in 0..(BitCount - 1), i \in used
    PROVE  /\ PastUsed(i) \in (i + 1)..NotFound
           /\ \A j \in i..(PastUsed(i) - 1) : j < BitCount => j \in used
<1>1. i \in Nat /\ i < BitCount
  BY ConstantFacts
<1>2. PICK n \in Nat : /\ n > i
                       /\ \A j \in i..(n - 1) : j \in used
                       /\ PastUsed(i) = Index(n)
  <2>1. CASE i % UnitBitCount # 0
    <3>1. /\ i + 1 \in Nat /\ i + 1 > i /\ \A j \in i..((i + 1) - 1) : j \in used
          /\ PastUsed(i) = Index(i + 1)
      BY <1>1, <2>1 DEF PastUsed
    <3> QED
      BY <3>1
  <2>2. CASE i % UnitBitCount = 0
    <3> DEFINE k == Ones(i)
    <3>1. k \in Nat /\ k # 0 /\ \A j \in Nat : j < k => i + j \in used
      BY <1>1, OnesFacts
    <3>2. PastUsed(i) = Index(i + k)
      BY <2>2 DEF PastUsed
    <3> HIDE DEF k
    <3>3. \A j \in i..((i + k) - 1) : j \in used
      <4> TAKE j \in i..((i + k) - 1)
      <4>1. j - i \in Nat /\ j - i < k /\ i + (j - i) = j
        BY <1>1, <3>1
      <4> QED
        BY <3>1, <4>1
    <3>4. i + k \in Nat /\ i + k > i
      BY <1>1, <3>1
    <3> QED
      BY <3>2, <3>3, <3>4
  <2> QED
    BY <2>1, <2>2
<1>3. CASE n > SizeMax
  <2>1. PastUsed(i) = NotFound
    BY <1>2, <1>3 DEF Index
  <2> QED
    BY <1>1, <1>2, <1>3, <2>1, ConstantFacts
<1>4. CASE ~ (n > SizeMax)
  <2>1. PastUsed(i) = n
    BY <1>2, <1>4 DEF Index
  <2> QED
    BY <1>1, <1>2, <1>4, <2>1, ConstantFacts
<1> QED
  BY <1>3, <1>4

-----------------------------------------------------------------------------
(* What the searches find.                                                 *)

\* An address that the alignment allows.
Allowed(j, a, x) == ((j + x) % AddressSpan) % a = 0

\* Wrapping addresses does not change which of them an alignment allows.
LEMMA AllowedMultiple ==
    ASSUME NEW a \in Nat \ {0}, AddressSpan % a = 0, NEW x \in Int, NEW j \in Int
    PROVE  Allowed(j, a, x) <=> (j + x) % a = 0
<1> DEFINE n == j + x
<1>1. /\ n \in Int /\ AddressSpan \in Nat \ {0}
      /\ a \in Nat \ {0} /\ AddressSpan % a = 0
  BY ConstantFacts
<1> HIDE DEF n
<1>2. \A k \in Int : (k % AddressSpan) % a = k % a
  BY <1>1, Numbers!WrapRemainder
<1> QED
  BY <1>1, <1>2 DEF Allowed, n

\* Every address is a multiple of 1.
LEMMA OneAllows ==
    ASSUME NEW j \in Int, NEW x \in Int
    PROVE  Allowed(j, 1, x)
<1> DEFINE n == (j + x) % AddressSpan
<1>1. n \in Int
  BY ConstantFacts
<1> HIDE DEF n
<1>2. n % 1 = 0
  BY <1>1
<1> QED
  BY <1>2 DEF Allowed, n

\* n is the first address from i on that is allowed, and AlignIndex finds it.
AlignsTo(n, i, a, x) ==
    /\ n >= i
    /\ Allowed(n, a, x)
    /\ \A j \in i..(n - 1) : ~ Allowed(j, a, x)
    /\ AlignIndex(i, a, x) = Index(n)

\* AlignIndex moves on to the next address that is allowed.
LEMMA AlignIndexFacts ==
    ASSUME NEW i \in Nat, NEW a \in Nat \ {0}, AddressSpan % a = 0, NEW x \in Nat
    PROVE  \E n \in Nat : AlignsTo(n, i, a, x)
<1> DEFINE start == i + x
           r     == start % a
           d     == IF r = 0 THEN 0 ELSE a - r
<1>1. start \in Int /\ x + i = start /\ AddressSpan \in Nat \ {0} /\ i \in Int
  BY ConstantFacts
<1> HIDE DEF start
<1>2. (start % AddressSpan) % a = r
  BY <1>1, Numbers!WrapRemainder
<1>3. AlignIndex(i, a, x) = Index(IF r = 0 THEN i ELSE i + (a - r))
  BY <1>1, <1>2 DEF AlignIndex
<1>4. r \in 0..(a - 1)
  BY <1>1, Numbers!Division, Zenon
<1>5. d \in Int /\ d = IF start % a = 0 THEN 0 ELSE a - (start % a)
  BY <1>4
<1>6. AlignIndex(i, a, x) = Index(i + d)
  <2>1. (IF r = 0 THEN i ELSE i + (a - r)) = i + d
    BY <1>4
  <2> QED
    BY <1>3, <2>1
<1> HIDE DEF d, r
<1>7. d \in 0..(a - 1) /\ (start + d) % a = 0
  BY <1>1, <1>5, Numbers!SkipToMultiple, ZenonT(30)
<1> DEFINE n == i + d
<1>8. n \in Nat /\ n >= i
  BY <1>7
<1>9. Allowed(n, a, x)
  <2>1. n + x = start + d
    BY <1>1, <1>7 DEF start
  <2>2. n \in Int /\ x \in Int
    BY <1>8
  <2> HIDE DEF n
  <2> QED
    BY <1>7, <2>1, <2>2, AllowedMultiple
<1>10. ASSUME NEW j \in i..(n - 1), Allowed(j, a, x)
       PROVE  FALSE
  <2> DEFINE m == j + x
  <2>1. m \in Int /\ start <= m /\ ~ (start + d <= m)
    BY <1>1, <1>7 DEF start
  <2>2. j \in Int /\ x \in Int
    OBVIOUS
  <2>4. (j + x) % a = 0
    BY <1>10, <2>2, AllowedMultiple, ZenonT(30)
  <2>5. m % a = 0
    BY <2>4
  <2> HIDE DEF m
  <2>3. start + d <= m
    BY <1>1, <1>5, <2>1, <2>5, Numbers!NextMultiple, ZenonT(30)
  <2> QED
    BY <2>1, <2>3
<1> QED
  BY <1>6, <1>8, <1>9, <1>10 DEF AlignsTo

\* The next allowed address after an allowed one is a apart.
LEMMA NextAllowed ==
    ASSUME NEW i \in Nat, NEW a \in Nat \ {0}, AddressSpan % a = 0, NEW x \in Nat,
           Allowed(i, a, x)
    PROVE  /\ Allowed(i + a, a, x)
           /\ \A j \in (i + 1)..(i + a - 1) : ~ Allowed(j, a, x)
<1> DEFINE m == i + x
<1>1. m \in Int /\ a \in Int /\ m % a = 0
  <2>1. i \in Int /\ x \in Int /\ a \in Int
    OBVIOUS
  <2>2. (i + x) % a = 0
    BY <2>1, AllowedMultiple, ZenonT(30)
  <2> QED
    BY <2>1, <2>2
<1>2. Allowed(i + a, a, x)
  <2>1. a % a = 0
    <3>1. 1 \in Int /\ a \in Int /\ a = 1 * a
      OBVIOUS
    <3> QED
      BY <3>1, Numbers!Quotient, Zenon
  <2> HIDE DEF m
  <2>2. (m + a) % a = 0
    BY <1>1, <2>1, Numbers!MultipleSum, ZenonT(30)
  <2>3. m + a = (i + a) + x
    BY DEF m
  <2>4. i + a \in Int /\ x \in Int
    OBVIOUS
  <2> QED
    BY <2>2, <2>3, <2>4, AllowedMultiple
<1>3. ASSUME NEW j \in (i + 1)..(i + a - 1), Allowed(j, a, x)
      PROVE  FALSE
  <2> DEFINE n == j + x
  <2>1. n \in Int /\ m < n /\ ~ (m + a <= n)
    OBVIOUS
  <2>2. j \in Int /\ x \in Int
    OBVIOUS
  <2>4. (j + x) % a = 0
    BY <1>3, <2>2, AllowedMultiple, ZenonT(30)
  <2>5. n % a = 0
    BY <2>4
  <2> HIDE DEF m, n
  <2>3. m + a <= n
    BY <1>1, <2>1, <2>5, Numbers!MultiplesApart
  <2> QED
    BY <2>1, <2>3
<1> QED
  BY <1>2, <1>3

\* NextFreeAligned goes on from a 1 bit over no 0 bit that is allowed.
LEMMA PastAlignedFacts ==
    ASSUME NEW i \in 0..(BitCount - 1), i \in used,
           NEW a \in Nat \ {0}, AddressSpan % a = 0, NEW x \in Nat
    PROVE  \E n \in Nat :
              /\ n > i
              /\ PastUsedAligned(i, a, x) = Index(n)
              /\ Allowed(i, a, x) =>
                    /\ n <= SizeMax => Allowed(n, a, x)
                    /\ \A j \in i..(n - 1) : Allowed(j, a, x) => j \in used
<1>1. i \in Nat /\ i < BitCount
  BY ConstantFacts
<1>2. CASE UnitBitCount > a /\ i % UnitBitCount = 0
  <2> DEFINE k == Ones(i)
             b == i + k
  <2>1. k \in Nat /\ k # 0 /\ \A j \in Nat : j < k => i + j \in used
    BY <1>1, OnesFacts
  <2>2. PastUsedAligned(i, a, x) =
           IF Index(b) = NotFound THEN NotFound ELSE AlignIndex(b, a, x)
    BY <1>2 DEF PastUsedAligned
  <2> HIDE DEF k
  <2>3. \A j \in i..(b - 1) : j \in used
    <3> TAKE j \in i..(b - 1)
    <3>1. j - i \in Nat /\ j - i < k /\ i + (j - i) = j
      BY <1>1, <2>1
    <3> QED
      BY <2>1, <3>1
  <2>4. b \in Nat /\ b > i
    BY <1>1, <2>1
  <2> HIDE DEF b
  <2>5. CASE b > SizeMax
    <3>1. PastUsedAligned(i, a, x) = Index(b) /\ ~ (b <= SizeMax)
      BY <2>2, <2>4, <2>5, ConstantFacts DEF Index
    <3> QED
      BY <2>3, <2>4, <3>1
  <2>6. CASE ~ (b > SizeMax)
    <3>1. Index(b) # NotFound
      BY <2>4, <2>6, ConstantFacts DEF Index
    <3>2. PICK n \in Nat : /\ n >= b
                           /\ Allowed(n, a, x)
                           /\ \A j \in b..(n - 1) : ~ Allowed(j, a, x)
                           /\ AlignIndex(b, a, x) = Index(n)
      <4>1. \E n \in Nat : AlignsTo(n, b, a, x)
        BY <2>4, AlignIndexFacts
      <4> QED
        BY <4>1 DEF AlignsTo
    <3>3. \A j \in i..(n - 1) : Allowed(j, a, x) => j \in used
      <4> TAKE j \in i..(n - 1)
      <4>1. j \in i..(b - 1) \/ j \in b..(n - 1)
        BY <1>1, <2>4, <3>2
      <4> QED
        BY <2>3, <3>2, <4>1
    <3>4. n > i /\ PastUsedAligned(i, a, x) = Index(n)
      BY <1>1, <2>2, <2>4, <3>1, <3>2
    <3> QED
      BY <3>2, <3>3, <3>4
  <2> QED
    BY <2>5, <2>6
<1>3. CASE ~ (UnitBitCount > a /\ i % UnitBitCount = 0)
  <2>1. PastUsedAligned(i, a, x) = Index(i + a)
    BY <1>3 DEF PastUsedAligned
  <2>2. i + a \in Nat /\ i + a > i
    BY <1>1
  <2>3. Allowed(i, a, x) =>
           /\ Allowed(i + a, a, x)
           /\ \A j \in i..(i + a - 1) : Allowed(j, a, x) => j \in used
    <3> SUFFICES ASSUME Allowed(i, a, x)
                 PROVE  /\ Allowed(i + a, a, x)
                        /\ \A j \in i..(i + a - 1) : Allowed(j, a, x) => j \in used
      OBVIOUS
    <3>1. /\ Allowed(i + a, a, x)
          /\ \A j \in (i + 1)..(i + a - 1) : ~ Allowed(j, a, x)
      BY <1>1, NextAllowed
    <3>2. \A j \in i..(i + a - 1) : j = i \/ j \in (i + 1)..(i + a - 1)
      BY <1>1
    <3> QED
      BY <3>1, <3>2
  <2> QED
    BY <2>1, <2>2, <2>3
<1> QED
  BY <1>2, <1>3

\* The result of a search from i for a free address of Good before last.
FirstFree(r, i, last, Good) ==
    \/ /\ r = NotFound
       /\ \A j \in i..(last - 1) : j \in Good => j \in used
    \/ /\ r \in i..(last - 1)
       /\ r \in Good
       /\ r \notin used
       /\ \A j \in i..(r - 1) : j \in Good => j \in used

\* A step of a search passes over no free address of Good.
PassesUsed(i, n, last, Good) ==
    /\ n \in (i + 1)..NotFound
    /\ i \in Good =>
          /\ n \in Good \/ n = NotFound
          /\ \A j \in i..(n - 1) : j < last /\ j \in Good => j \in used

\* A loop of such steps finds the first free address of Good.
LEMMA LoopResult ==
    ASSUME NEW last \in Nat, last <= BitCount, NEW Good, NEW nx, NEW f,
           \A i \in 0..(last - 1) : i \in used => PassesUsed(i, nx[i], last, Good),
           \A i \in 0..NotFound : f[i] = IF i >= last THEN NotFound
                                         ELSE IF i \notin used THEN i
                                         ELSE f[nx[i]]
    PROVE  \A i \in 0..NotFound :
              i \in Good \/ i = NotFound => FirstFree(f[i], i, last, Good)
<1> DEFINE G == {i \in 0..NotFound :
                    i \in Good \/ i = NotFound => FirstFree(f[i], i, last, Good)}
<1>1. NotFound \in Nat /\ last < NotFound
  BY ConstantFacts
<1>2. ASSUME NEW i \in 0..NotFound, \A j \in (i + 1)..NotFound : j \in G
      PROVE  i \in G
  <2> SUFFICES ASSUME i \in Good \/ i = NotFound
               PROVE  FirstFree(f[i], i, last, Good)
    OBVIOUS
  <2>1. CASE i >= last
    BY <1>1, <2>1 DEF FirstFree
  <2>2. CASE i < last /\ i \notin used
    BY <1>1, <2>2 DEF FirstFree
  <2>3. CASE i < last /\ i \in used
    <3> DEFINE n == nx[i]
    <3>1. i \in 0..(last - 1) /\ i \in Good /\ f[i] = f[n]
      BY <1>1, <2>3
    <3>2. /\ n \in (i + 1)..NotFound /\ (n \in Good \/ n = NotFound)
          /\ \A j \in i..(n - 1) : j < last /\ j \in Good => j \in used
      BY <2>3, <3>1 DEF PassesUsed
    <3>3. FirstFree(f[n], n, last, Good)
      BY <1>2, <3>2
    <3> HIDE DEF n
    <3>4. CASE /\ f[n] = NotFound
               /\ \A j \in n..(last - 1) : j \in Good => j \in used
      <4>1. \A j \in i..(last - 1) : \/ j \in i..(n - 1) /\ j < last
                                     \/ j \in n..(last - 1)
        BY <3>1, <3>2
      <4> QED
        BY <3>1, <3>2, <3>4, <4>1 DEF FirstFree
    <3>5. CASE /\ f[n] \in n..(last - 1) /\ f[n] \in Good /\ f[n] \notin used
               /\ \A j \in n..(f[n] - 1) : j \in Good => j \in used
      <4> DEFINE r == f[n]
      <4>1. r \in n..(last - 1) /\ f[i] = r
        BY <3>1, <3>5
      <4> HIDE DEF r
      <4>2. /\ r \in i..(last - 1)
            /\ \A j \in i..(r - 1) : (j \in i..(n - 1) /\ j < last) \/ j \in n..(r - 1)
        BY <3>1, <3>2, <4>1
      <4>3. \A j \in i..(r - 1) : j \in Good => j \in used
        BY <3>2, <3>5, <4>2 DEF r
      <4>4. r \in Good /\ r \notin used
        BY <3>5 DEF r
      <4> QED
        BY <4>1, <4>2, <4>3, <4>4 DEF FirstFree
    <3> QED
      BY <3>3, <3>4, <3>5 DEF FirstFree
  <2> QED
    BY <1>1, <2>1, <2>2, <2>3
<1> HIDE DEF G
<1>3. \A i \in 0..NotFound : i \in G
  BY <1>1, <1>2, Downward
<1> QED
  BY <1>3 DEF G

\* The loop of a search that goes on from a used i at nx[i].
SearchLoop(f, last, nx) ==
    /\ f = [i \in 0..NotFound |-> f[i]]
    /\ \A i \in 0..NotFound : f[i] = IF i >= last THEN NotFound
                                      ELSE IF i \notin used THEN i
                                      ELSE f[nx[i]]

\* Such a loop is a function of its index.
LEMMA LoopDefined ==
    ASSUME NEW last \in Nat, last <= BitCount, NEW Good, NEW nx,
           \A i \in 0..(last - 1) : i \in used => PassesUsed(i, nx[i], last, Good)
    PROVE  \E f : SearchLoop(f, last, nx)
<1> DEFINE Stop == {i \in 0..NotFound : i >= last \/ i \notin used}
           r == [i \in 0..NotFound |-> IF i >= last THEN NotFound ELSE i]
<1>1. NotFound \in Nat
  BY ConstantFacts
<1>2. \A i \in 0..NotFound : i \notin Stop => nx[i] \in (i + 1)..NotFound
  <2> SUFFICES ASSUME NEW i \in 0..NotFound, i < last, i \in used
               PROVE  nx[i] \in (i + 1)..NotFound
    BY <1>1
  <2> QED
    BY <1>1 DEF PassesUsed
<1>3. \A i \in 0..NotFound : r[i] = (IF i >= last THEN NotFound ELSE i)
                             /\ (i \in Stop <=> i >= last \/ i \notin used)
  OBVIOUS
<1> HIDE DEF Stop, r
<1>4. PICK f : IsLoop(f, NotFound, Stop, r, nx)
  BY <1>1, <1>2, LoopExists
<1>5. \A i \in 0..NotFound : f[i] = IF i >= last THEN NotFound
                                    ELSE IF i \notin used THEN i
                                    ELSE f[nx[i]]
  BY <1>3, <1>4 DEF IsLoop
<1> QED
  BY <1>4, <1>5 DEF IsLoop, SearchLoop

\* NextFree finds the first free address.
LEMMA NextFreeFound ==
    ASSUME NEW idx \in 0..NotFound, NEW size \in 1..BitCount
    PROVE  FirstFree(NextFree(idx, size - 1), idx, BitCount - (size - 1), Nat)
<1> DEFINE last == BitCount - (size - 1)
           nx == [i \in 0..NotFound |-> PastUsed(i)]
           Loop(f) == f = [i \in 0..NotFound |->
                              IF i >= last THEN NotFound
                              ELSE IF i \notin used THEN i
                              ELSE f[PastUsed(i)]]
           from == CHOOSE f : Loop(f)
<1>1. last \in Nat /\ last <= BitCount /\ BitCount < NotFound /\ NotFound \in Nat
  BY ConstantFacts
<1>2. NextFree(idx, size - 1) = from[idx]
  BY DEF NextFree
<1> HIDE DEF last
<1>3. \A i \in 0..(last - 1) : i \in used => PassesUsed(i, nx[i], last, Nat)
  <2> SUFFICES ASSUME NEW i \in 0..(last - 1), i \in used
               PROVE  PassesUsed(i, nx[i], last, Nat)
    OBVIOUS
  <2>1. i \in 0..(BitCount - 1) /\ nx[i] = PastUsed(i)
    BY <1>1, ConstantFacts
  <2>2. /\ PastUsed(i) \in (i + 1)..NotFound
        /\ \A j \in i..(PastUsed(i) - 1) : j < BitCount => j \in used
    BY <2>1, PastUsedFacts
  <2>3. \A j \in i..(PastUsed(i) - 1) : j < last => j < BitCount
    BY <1>1, <2>2, ConstantFacts
  <2>4. PastUsed(i) \in Nat
    BY <1>1, <2>1, <2>2
  <2> QED
    BY <2>1, <2>2, <2>3, <2>4 DEF PassesUsed
<1>4. \E f : Loop(f)
  <2>1. PICK f : SearchLoop(f, last, nx)
    <3> HIDE DEF nx
    <3> QED
      BY <1>1, <1>3, LoopDefined
  <2>2. \A i \in 0..NotFound : f[i] = IF i >= last THEN NotFound
                                      ELSE IF i \notin used THEN i
                                      ELSE f[PastUsed(i)]
    BY <2>1 DEF SearchLoop
  <2>3. Loop(f)
    BY <2>1, <2>2 DEF SearchLoop
  <2> QED
    BY <2>3
<1>5. Loop(from)
  BY <1>4
<1> HIDE DEF from
<1>6. \A i \in 0..NotFound : from[i] = IF i >= last THEN NotFound
                                       ELSE IF i \notin used THEN i
                                       ELSE from[nx[i]]
  BY <1>5
<1> HIDE DEF nx, Loop
<1>7. FirstFree(from[idx], idx, last, Nat)
  <2>1. idx \in Nat
    BY <1>1
  <2>2. \A i \in 0..NotFound :
           i \in Nat \/ i = NotFound => FirstFree(from[i], i, last, Nat)
    BY <1>1, <1>3, <1>6, LoopResult
  <2> QED
    BY <2>1, <2>2
<1> QED
  BY <1>2, <1>7 DEF last

\* The addresses that an alignment allows.
Places(a, x) == {j \in Nat : Allowed(j, a, x)}

\* What a search for size bits from idx may answer: an address, or that there
\* is none.  Where the alignment is too wide for SizeType an assertion may fail
\* instead, or the address may be too close to the end of the bitmap.
NextFound(at, idx, size, Good, wide) ==
    \/ at = Asserts /\ wide
    \/ /\ at = NotFound
       /\ \A j \in idx..(BitCount - size) : j \in Good => j \in used
    \/ /\ at \in idx..(BitCount - 1)
       /\ at + size <= BitCount \/ wide
       /\ at \in Good
       /\ at \notin used
       /\ \A j \in idx..(at - 1) : j \in Good => j \in used

\* What the loops find is an answer to a search for size bits.
LEMMA FirstIsNext ==
    ASSUME NEW idx \in Nat, NEW size \in 1..BitCount, NEW Good, NEW r,
           FirstFree(r, idx, BitCount - (size - 1), Good), NEW wide
    PROVE  NextFound(r, idx, size, Good, wide)
<1> DEFINE last == BitCount - (size - 1)
<1>1. /\ last \in Nat /\ last <= BitCount /\ last - 1 = BitCount - size
      /\ BitCount \in Nat
  BY ConstantFacts
<1>2. CASE r = NotFound /\ \A j \in idx..(last - 1) : j \in Good => j \in used
  BY <1>1, <1>2 DEF NextFound
<1>3. CASE /\ r \in idx..(last - 1) /\ r \in Good /\ r \notin used
           /\ \A j \in idx..(r - 1) : j \in Good => j \in used
  <2> HIDE DEF last
  <2>1. r \in idx..(BitCount - 1) /\ r + size <= BitCount
    BY <1>1, <1>3
  <2> QED
    BY <1>3, <2>1 DEF NextFound
<1> QED
  BY <1>2, <1>3 DEF FirstFree

\* The loop of NextFreeAligned finds the first free address it may.
LEMMA AlignedLoop ==
    ASSUME NEW size \in 1..BitCount, NEW a \in Nat \ {0}, AddressSpan % a = 0,
           NEW x \in Nat, NEW first \in 0..NotFound,
           first \in Places(a, x) \/ first = NotFound
    PROVE  LET from[i \in 0..NotFound] ==
                  IF i >= BitCount - (size - 1) THEN NotFound
                  ELSE IF i \notin used THEN i
                  ELSE from[PastUsedAligned(i, a, x)]
           IN  FirstFree(from[first], first, BitCount - (size - 1), Places(a, x))
<1> DEFINE last == BitCount - (size - 1)
           nx == [i \in 0..NotFound |-> PastUsedAligned(i, a, x)]
           Loop(f) == f = [i \in 0..NotFound |->
                              IF i >= last THEN NotFound
                              ELSE IF i \notin used THEN i
                              ELSE f[PastUsedAligned(i, a, x)]]
           from == CHOOSE f : Loop(f)
           Good == Places(a, x)
<1>1. last \in Nat /\ last <= BitCount /\ BitCount < NotFound /\ NotFound \in Nat
  BY ConstantFacts
<1> SUFFICES FirstFree(from[first], first, last, Good)
  OBVIOUS
<1> HIDE DEF last
<1>3. \A i \in 0..(last - 1) : i \in used => PassesUsed(i, nx[i], last, Good)
  <2> SUFFICES ASSUME NEW i \in 0..(last - 1), i \in used
               PROVE  PassesUsed(i, nx[i], last, Good)
    OBVIOUS
  <2>1. i \in 0..(BitCount - 1) /\ nx[i] = PastUsedAligned(i, a, x)
    BY <1>1, ConstantFacts
  <2>2. PICK n \in Nat : /\ n > i
                         /\ PastUsedAligned(i, a, x) = Index(n)
                         /\ Allowed(i, a, x) =>
                               /\ n <= SizeMax => Allowed(n, a, x)
                               /\ \A j \in i..(n - 1) : Allowed(j, a, x) => j \in used
    BY <2>1, PastAlignedFacts
  <2>3. /\ SizeMax \in Nat /\ NotFound = SizeMax + 1 /\ i \in Nat
        /\ last <= SizeMax
    BY <1>1, <2>1, ConstantFacts
  <2>4. i \in Good => Allowed(i, a, x)
    BY DEF Places
  <2>5. CASE n > SizeMax
    <3>1. nx[i] = NotFound
      BY <2>1, <2>2, <2>5 DEF Index
    <3>2. NotFound \in (i + 1)..NotFound
      BY <1>1, <2>3
    <3>3. \A j \in i..(NotFound - 1) : j < last => j \in i..(n - 1)
      BY <2>3, <2>5
    <3>4. \A j \in Good : Allowed(j, a, x)
      BY DEF Places
    <3> QED
      BY <2>2, <2>4, <3>1, <3>2, <3>3, <3>4 DEF PassesUsed
  <2>6. CASE n <= SizeMax
    <3>1. nx[i] = n
      BY <2>1, <2>2, <2>3, <2>6 DEF Index
    <3>2. n \in (i + 1)..NotFound
      BY <2>2, <2>3, <2>6
    <3>3. i \in Good => n \in Good
      BY <2>2, <2>4, <2>6 DEF Places
    <3>4. \A j \in Good : Allowed(j, a, x)
      BY DEF Places
    <3> QED
      BY <2>2, <2>4, <3>1, <3>2, <3>3, <3>4 DEF PassesUsed
  <2> QED
    BY <2>2, <2>3, <2>5, <2>6
<1> HIDE DEF Good
<1>4. \E f : Loop(f)
  <2>1. PICK f : SearchLoop(f, last, nx)
    <3> HIDE DEF nx
    <3> QED
      BY <1>1, <1>3, LoopDefined
  <2>2. \A i \in 0..NotFound : f[i] = IF i >= last THEN NotFound
                                      ELSE IF i \notin used THEN i
                                      ELSE f[PastUsedAligned(i, a, x)]
    BY <2>1 DEF SearchLoop
  <2>3. Loop(f)
    BY <2>1, <2>2 DEF SearchLoop
  <2> QED
    BY <2>3
<1>5. Loop(from)
  BY <1>4
<1> HIDE DEF from
<1>6. \A i \in 0..NotFound : from[i] = IF i >= last THEN NotFound
                                       ELSE IF i \notin used THEN i
                                       ELSE from[nx[i]]
  BY <1>5
<1> HIDE DEF nx, Loop
<1>7. \A i \in 0..NotFound :
         i \in Good \/ i = NotFound => FirstFree(from[i], i, last, Good)
  BY <1>1, <1>3, <1>6, LoopResult
<1> QED
  BY <1>7 DEF Good

\* NextFreeAligned finds the first free address that the alignment allows, or
\* fails an assertion.
LEMMA NextFreeAlignedFound ==
    ASSUME NEW idx \in 0..NotFound, NEW size \in 1..BitCount,
           NEW a \in Nat \ {0}, AddressSpan % a = 0, NEW x \in Nat
    PROVE  NextFound(NextFreeAligned(idx, x, a, size - 1), idx, size, Places(a, x),
                     a > SizeMax)
<1> DEFINE at == NextFreeAligned(idx, x, a, size - 1)
           first == AlignIndex(idx, a, x)
           Good == Places(a, x)
           last == BitCount - (size - 1)
<1> SUFFICES NextFound(at, idx, size, Good, a > SizeMax)
  OBVIOUS
<1>1. /\ SizeMax \in Nat /\ NotFound = SizeMax + 1 /\ NotFound \in Nat
      /\ BitCount \in Nat /\ BitCount <= SizeMax /\ idx \in Nat
      /\ last - 1 = BitCount - size /\ last <= BitCount /\ last \in Nat
  BY ConstantFacts
<1>2. PICK n \in Nat : /\ n >= idx
                       /\ Allowed(n, a, x)
                       /\ \A j \in idx..(n - 1) : ~ Allowed(j, a, x)
                       /\ first = Index(n)
  <2>1. idx \in Nat
    BY <1>1
  <2>2. \E n \in Nat : AlignsTo(n, idx, a, x)
    BY <2>1, AlignIndexFacts
  <2> QED
    BY <2>2 DEF AlignsTo
<1>3. \A j \in Nat : j \in Good <=> Allowed(j, a, x)
  BY DEF Places
<1>4. \A j \in idx..(n - 1) : j \notin Good
  BY <1>1, <1>2, <1>3
<1>5. first = IF n > SizeMax THEN NotFound ELSE n
  BY <1>2 DEF Index
<1>6. first \in 0..NotFound /\ (first \in Good \/ first = NotFound)
  BY <1>1, <1>2, <1>3, <1>5
<1>7. CASE a > SizeMax
  <2>1. at = SingleAttempt(first)
    BY <1>7 DEF NextFreeAligned
  <2>2. CASE n > SizeMax
    <3>1. at = NotFound
      BY <2>1, <2>2, <1>5 DEF SingleAttempt
    <3>2. \A j \in idx..(BitCount - size) : j \in idx..(n - 1)
      BY <1>1, <2>2
    <3> HIDE DEF at, Good
    <3> QED
      BY <1>7, <1>4, <3>1, <3>2 DEF NextFound
  <2>3. CASE n <= SizeMax /\ n >= BitCount
    <3>1. at = Asserts
      BY <1>1, <1>5, <2>1, <2>3 DEF SingleAttempt
    <3> QED
      BY <1>7, <3>1 DEF NextFound
  <2>4. CASE n < BitCount /\ n \in used
    <3>1. at = NotFound
      BY <1>1, <1>5, <2>1, <2>4 DEF SingleAttempt
    <3>2. \A j \in (n + 1)..(n + a - 1) : ~ Allowed(j, a, x)
      BY <1>2, NextAllowed
    <3>3. \A j \in idx..(BitCount - size) :
             j \in idx..(n - 1) \/ j = n \/ j \in (n + 1)..(n + a - 1)
      BY <1>1, <1>2, <1>7
    <3>4. \A j \in idx..(BitCount - size) : j \in Good => j \in used
      BY <1>1, <1>2, <1>3, <1>4, <2>4, <3>2, <3>3
    <3> HIDE DEF at, Good
    <3> QED
      BY <1>7, <3>1, <3>4 DEF NextFound
  <2>5. CASE n < BitCount /\ n \notin used
    <3>1. at = n
      BY <1>1, <1>5, <2>1, <2>5 DEF SingleAttempt
    <3>2. n \in idx..(BitCount - 1) /\ n \in Good
      BY <1>1, <1>2, <1>3, <2>5
    <3> HIDE DEF at, Good
    <3> QED
      BY <1>7, <1>4, <2>5, <3>1, <3>2 DEF NextFound
  <2> QED
    BY <1>1, <2>2, <2>3, <2>4, <2>5
<1>8. CASE ~ (a > SizeMax)
  <2>1. FirstFree(at, first, last, Good)
    BY <1>6, <1>8, AlignedLoop DEF NextFreeAligned
  <2> HIDE DEF at, Good
  <2>2. \A j \in idx..(first - 1) : j < last => j \notin Good
    BY <1>1, <1>2, <1>4, <1>5
  <2>3. idx <= first \/ first = NotFound
    BY <1>2, <1>5
  <2>4. FirstFree(at, idx, last, Good)
    <3>1. CASE at = NotFound /\ \A j \in first..(last - 1) : j \in Good => j \in used
      <4>1. \A j \in idx..(last - 1) :
               (j \in idx..(first - 1) /\ j < last) \/ j \in first..(last - 1)
        BY <1>1, <1>6
      <4> QED
        BY <2>2, <3>1, <4>1 DEF FirstFree
    <3>2. CASE /\ at \in first..(last - 1) /\ at \in Good /\ at \notin used
               /\ \A j \in first..(at - 1) : j \in Good => j \in used
      <4>1. at \in idx..(last - 1)
        BY <1>1, <1>6, <2>3, <3>2
      <4>2. \A j \in idx..(at - 1) :
               (j \in idx..(first - 1) /\ j < last) \/ j \in first..(at - 1)
        BY <1>1, <1>6, <3>2
      <4> QED
        BY <2>2, <3>2, <4>1, <4>2 DEF FirstFree
    <3> QED
      BY <2>1, <3>1, <3>2 DEF FirstFree
  <2> QED
    BY <1>1, <2>4, FirstIsNext DEF last
<1> QED
  BY <1>7, <1>8

\* The alignment that a search keeps: one below 2 allows every address.
Kept(align) == IF align < 2 THEN 1 ELSE align

\* NextFree and NextFreeAligned answer what a search may answer.
LEMMA NextIndexFound ==
    ASSUME NEW idx \in 0..NotFound, NEW size \in 1..BitCount,
           NEW align \in Nat, align >= 2 => AddressSpan % align = 0, NEW x \in Nat
    PROVE  NextFound(NextIndex(idx, align, x, size), idx, size,
                     Places(Kept(align), x), align > SizeMax)
<1>1. CASE align < 2
  <2>1. Places(Kept(align), x) = Nat
    <3>1. Kept(align) = 1
      BY <1>1 DEF Kept
    <3>2. ASSUME NEW j \in Nat PROVE Allowed(j, 1, x)
      <4>1. j \in Int /\ x \in Int
        OBVIOUS
      <4> QED
        BY <4>1, OneAllows
    <3> QED
      BY <3>1, <3>2 DEF Places
  <2>2. NextIndex(idx, align, x, size) = NextFree(idx, size - 1)
    BY <1>1 DEF NextIndex
  <2>3. idx \in Nat
    BY ConstantFacts
  <2> QED
    BY <2>1, <2>2, <2>3, NextFreeFound, FirstIsNext
<1>2. CASE ~ (align < 2)
  <2>1. NextIndex(idx, align, x, size) = NextFreeAligned(idx, x, align, size - 1)
    BY <1>2 DEF NextIndex
  <2>2. Kept(align) = align /\ align \in Nat \ {0} /\ AddressSpan % align = 0
    BY <1>2 DEF Kept
  <2> QED
    BY <2>1, <2>2, NextFreeAlignedFound
<1> QED
  BY <1>1, <1>2

-----------------------------------------------------------------------------
(* The reservation.                                                        *)

\* The addresses a range of size bits may be given at.
Fitting(a, x, size) ==
    {j \in Places(a, x) : UnitsFrom(j, size) \subseteq Bits \ used}

\* What the attempts from idx on may answer: the least address that fits.
Attempted(r, idx, fitting, wide) ==
    \/ r = Asserts /\ wide
    \/ r = NotFound /\ \A j \in fitting : j < idx
    \/ r \in fitting /\ idx <= r /\ \A j \in fitting : j < idx \/ r <= j

\* A range that fits begins at a free bit and ends in the bitmap.
LEMMA FittingFacts ==
    ASSUME NEW a, NEW x, NEW size \in 1..BitCount, NEW j \in Fitting(a, x, size)
    PROVE  /\ j \in Nat /\ j \in Places(a, x) /\ j \notin used
           /\ j \in 0..(BitCount - size)
           /\ \A k \in j..(j + size - 1) : k \notin used
<1>1. j \in Nat /\ j \in Places(a, x) /\ UnitsFrom(j, size) \subseteq Bits \ used
  BY DEF Fitting, Places
<1>2. BitCount \in Nat /\ size \in Nat /\ size >= 1
  BY ConstantFacts
<1>3. \A k \in j..(j + size - 1) : k \in 0..(BitCount - 1) /\ k \notin used
  BY <1>1 DEF UnitsFrom, Bits
<1>4. j \in j..(j + size - 1) /\ j + size - 1 \in j..(j + size - 1)
  BY <1>1, <1>2
<1>5. j \notin used /\ j + size - 1 \in 0..(BitCount - 1)
  BY <1>3, <1>4
<1> QED
  BY <1>1, <1>2, <1>3, <1>5

\* One attempt: where it fails, no range that fits begins before the first bit
\* that was in the way.
LEMMA AttemptFacts ==
    ASSUME NEW idx \in 0..NotFound, NEW size \in 1..BitCount,
           NEW a, NEW x, NEW at, NEW wide,
           NextFound(at, idx, size, Places(a, x), wide)
    PROVE  LET fitting  == Fitting(a, x, size)
               blocking == Blocking(at + 1, size - 1)
           IN  /\ at = Asserts => wide
               /\ at \notin {NotFound, Asserts} /\ at + size > BitCount => wide
               /\ at = NotFound => Attempted(NotFound, idx, fitting, wide)
               /\ at \notin {NotFound, Asserts} =>
                     \/ at + size > BitCount
                     \/ blocking = {} /\ Attempted(at, idx, fitting, wide)
                     \/ /\ blocking # {}
                        /\ Min(blocking) \in (idx + 1)..NotFound
                        /\ \A j \in fitting : j < idx \/ Min(blocking) <= j
<1> DEFINE fitting == Fitting(a, x, size)
           blocking == Blocking(at + 1, size - 1)
           Good == Places(a, x)
<1>1. /\ BitCount \in Nat \ {0} /\ NotFound \in Nat /\ BitCount < NotFound
      /\ NotFound # Asserts /\ idx \in Nat /\ size \in Nat /\ size >= 1
  BY ConstantFacts
<1>2. Good \subseteq Nat
  BY DEF Places
<1>3. \A j \in fitting : /\ j \in Nat /\ j \in Good /\ j \notin used
                         /\ j \in 0..(BitCount - size)
                         /\ \A k \in j..(j + size - 1) : k \notin used
  BY FittingFacts
<1> SUFFICES /\ at = Asserts => wide
             /\ at \notin {NotFound, Asserts} /\ at + size > BitCount => wide
             /\ at = NotFound => Attempted(NotFound, idx, fitting, wide)
             /\ at \notin {NotFound, Asserts} =>
                   \/ at + size > BitCount
                   \/ blocking = {} /\ Attempted(at, idx, fitting, wide)
                   \/ /\ blocking # {}
                      /\ Min(blocking) \in (idx + 1)..NotFound
                      /\ \A j \in fitting : j < idx \/ Min(blocking) <= j
  OBVIOUS
<1>4. ASSUME at = NotFound PROVE Attempted(NotFound, idx, fitting, wide)
  <2>1. \A j \in idx..(BitCount - size) : j \in Good => j \in used
    BY <1>1, <1>4 DEF NextFound
  <2> HIDE DEF Good, fitting
  <2>2. \A j \in fitting : j < idx
    <3> SUFFICES ASSUME NEW j \in fitting, ~ (j < idx) PROVE FALSE
      OBVIOUS
    <3>1. j \in idx..(BitCount - size) /\ j \in Good /\ j \notin used
      BY <1>1, <1>3
    <3> QED
      BY <2>1, <3>1
  <2> QED
    BY <2>2 DEF Attempted
<1>5. ASSUME at \notin {NotFound, Asserts}, at + size <= BitCount
      PROVE  \/ blocking = {} /\ Attempted(at, idx, fitting, wide)
             \/ /\ blocking # {}
                /\ Min(blocking) \in (idx + 1)..NotFound
                /\ \A j \in fitting : j < idx \/ Min(blocking) <= j
  <2>1. /\ at \in idx..(BitCount - 1) /\ at \in Good /\ at \notin used
        /\ \A j \in idx..(at - 1) : j \in Good => j \in used
    BY <1>5 DEF NextFound
  <2>2. \A j \in fitting : j < idx \/ at <= j
    <3> HIDE DEF Good, fitting
    <3> SUFFICES ASSUME NEW j \in fitting, ~ (j < idx), ~ (at <= j) PROVE FALSE
      OBVIOUS
    <3>1. j \in idx..(at - 1) /\ j \in Good /\ j \notin used
      BY <1>1, <1>3, <2>1
    <3> QED
      BY <2>1, <3>1
  <2>3. CASE blocking = {}
    <3>1. \A k \in at..(at + size - 1) :
             k = at \/ k \in (at + 1)..(at + 1 + (size - 1) - 1)
      BY <1>1, <2>1
    <3>2. \A k \in (at + 1)..(at + 1 + (size - 1) - 1) : k \notin used
      BY <2>3 DEF Blocking, UnitsFrom
    <3>3. \A k \in at..(at + size - 1) : k \notin used
      BY <2>1, <3>1, <3>2
    <3>4. \A k \in at..(at + size - 1) : k \in Bits
      BY <1>1, <1>5, <2>1 DEF Bits
    <3>5. at \in fitting
      BY <2>1, <3>3, <3>4 DEF Fitting, UnitsFrom
    <3>6. idx <= at
      BY <1>1, <2>1
    <3> HIDE DEF fitting
    <3> QED
      BY <2>2, <2>3, <3>5, <3>6 DEF Attempted
  <2>4. CASE blocking # {}
    <3> DEFINE m == Min(blocking)
    <3>1. blocking \in SUBSET Nat
      BY <1>1, <2>1 DEF Blocking, UnitsFrom
    <3> HIDE DEF blocking
    <3>2. m \in blocking
      BY <2>4, <3>1, MinFacts
    <3> HIDE DEF m
    <3>3. m \in used /\ m \in (at + 1)..(at + size - 1)
      BY <1>1, <2>1, <3>2 DEF blocking, Blocking, UnitsFrom
    <3>4. m \in (idx + 1)..NotFound
      BY <1>1, <1>5, <2>1, <3>3
    <3>5. \A j \in fitting : j < idx \/ m <= j
      <4> HIDE DEF Good, fitting
      <4> SUFFICES ASSUME NEW j \in fitting, ~ (j < idx), ~ (m <= j) PROVE FALSE
        OBVIOUS
      <4>1. j \in Nat /\ at <= j
        BY <1>3, <2>2
      <4>2. m \in j..(j + size - 1)
        BY <1>1, <2>1, <3>3, <4>1
      <4> QED
        BY <1>3, <3>3, <4>2
    <3> QED
      BY <2>4, <3>4, <3>5 DEF m
  <2> QED
    BY <2>3, <2>4
<1>6. at \notin {NotFound, Asserts} =>
         /\ at + size > BitCount => wide
         /\ at + size > BitCount \/ at + size <= BitCount
  <2> SUFFICES ASSUME at \notin {NotFound, Asserts}
               PROVE  /\ at + size > BitCount => wide
                      /\ at + size > BitCount \/ at + size <= BitCount
    OBVIOUS
  <2>1. at \in Nat
    BY <1>1 DEF NextFound
  <2>2. at + size <= BitCount \/ wide
    BY DEF NextFound
  <2> QED
    BY <1>1, <2>1, <2>2
<1>7. at = Asserts => wide
  BY <1>1, ConstantFacts DEF NextFound
<1> HIDE DEF fitting, blocking
<1> QED
  BY <1>4, <1>5, <1>6, <1>7

\* The loop of Alloc and OffsetAlign finds the least address where the range
\* fits, or that there is none, unless an assertion fails on its way.
LEMMA ReservedFound ==
    ASSUME NEW size \in 1..BitCount,
           NEW align \in Nat, align >= 2 => AddressSpan % align = 0, NEW x \in Nat
    PROVE  Attempted(Reserved(align, x, size), 0, Fitting(Kept(align), x, size),
                     align > SizeMax)
<1> DEFINE wide == align > SizeMax
           next(i) == NextIndex(i, align, x, size)
           blocking(i) == Blocking(next(i) + 1, size - 1)
           fitting == Fitting(Kept(align), x, size)
           body(f, i) == IF next(i) \in {NotFound, Asserts} THEN next(i)
                         ELSE IF next(i) + size > BitCount THEN Asserts
                         ELSE IF blocking(i) = {} THEN next(i)
                         ELSE f[Min(blocking(i))]
           Loop(f) == f = [i \in 0..NotFound |-> body(f, i)]
           attempt == CHOOSE f : Loop(f)
           Stop == {i \in 0..NotFound : \/ next(i) \in {NotFound, Asserts}
                                        \/ next(i) + size > BitCount
                                        \/ blocking(i) = {}}
           r == [i \in 0..NotFound |-> IF next(i) \in {NotFound, Asserts} THEN next(i)
                                       ELSE IF next(i) + size > BitCount THEN Asserts
                                       ELSE next(i)]
           nx == [i \in 0..NotFound |-> Min(blocking(i))]
<1>1. Reserved(align, x, size) = attempt[0]
  BY DEF Reserved
<1>2. NotFound \in Nat
  BY ConstantFacts
<1>3. \A i \in 0..NotFound :
         /\ next(i) = Asserts => wide
         /\ next(i) \notin {NotFound, Asserts} /\ next(i) + size > BitCount => wide
         /\ next(i) = NotFound => Attempted(NotFound, i, fitting, wide)
         /\ next(i) \notin {NotFound, Asserts} =>
               \/ next(i) + size > BitCount
               \/ blocking(i) = {} /\ Attempted(next(i), i, fitting, wide)
               \/ /\ blocking(i) # {}
                  /\ Min(blocking(i)) \in (i + 1)..NotFound
                  /\ \A j \in fitting : j < i \/ Min(blocking(i)) <= j
  <2> TAKE i \in 0..NotFound
  <2>1. NextFound(next(i), i, size, Places(Kept(align), x), wide)
    BY NextIndexFound
  <2> QED
    <3> HIDE DEF wide
    <3> QED
      BY <2>1, AttemptFacts
<1>4. \A j \in fitting : j \in Nat
  BY FittingFacts
<1>5. \A i \in 0..NotFound : i \notin Stop => nx[i] \in (i + 1)..NotFound
  BY <1>3
<1>6. \A i \in 0..NotFound : \A f : f[nx[i]] = f[Min(blocking(i))]
  OBVIOUS
<1>7. \A i \in 0..NotFound : \A f :
         body(f, i) = IF i \in Stop THEN r[i] ELSE f[nx[i]]
  OBVIOUS
<1>8. \E f : Loop(f)
  <2> HIDE DEF nx, r, Stop
  <2>1. PICK f : IsLoop(f, NotFound, Stop, r, nx)
    BY <1>2, <1>5, LoopExists
  <2>2. \A i \in 0..NotFound : f[i] = body(f, i)
    <3> HIDE DEF body
    <3>1. \A i \in 0..NotFound : f[i] = IF i \in Stop THEN r[i] ELSE f[nx[i]]
      BY <2>1 DEF IsLoop
    <3> QED
      BY <1>7, <3>1
  <2>3. f = [i \in 0..NotFound |-> f[i]]
    BY <2>1 DEF IsLoop
  <2> HIDE DEF body
  <2>4. Loop(f)
    BY <2>2, <2>3
  <2> QED
    BY <2>4
<1>9. Loop(attempt)
  BY <1>8
<1> HIDE DEF attempt
<1>10. \A i \in 0..NotFound : attempt[i] = body(attempt, i)
  BY <1>9
<1> HIDE DEF Loop, Stop, r, nx, next, blocking, fitting, wide
<1> DEFINE G == {i \in 0..NotFound : Attempted(attempt[i], i, fitting, wide)}
<1>11. ASSUME NEW i \in 0..NotFound, \A j \in (i + 1)..NotFound : j \in G
       PROVE  i \in G
  <2>1. attempt[i] = body(attempt, i)
    BY <1>10
  <2>2. CASE next(i) \in {NotFound, Asserts} \/ next(i) + size > BitCount
    <3>1. \/ attempt[i] = Asserts /\ wide
          \/ attempt[i] = NotFound /\ next(i) = NotFound
      BY <1>3, <2>1, <2>2
    <3>2. wide => Attempted(Asserts, i, fitting, wide)
      BY DEF Attempted
    <3> QED
      BY <1>3, <3>1, <3>2
  <2>3. CASE ~ (next(i) \in {NotFound, Asserts} \/ next(i) + size > BitCount)
    <3>1. CASE blocking(i) = {}
      BY <1>3, <2>1, <2>3, <3>1
    <3>2. CASE blocking(i) # {}
      <4> DEFINE m == Min(blocking(i))
      <4>1. /\ attempt[i] = attempt[m] /\ m \in (i + 1)..NotFound
            /\ \A j \in fitting : j < i \/ m <= j
        BY <1>3, <2>1, <2>3, <3>2
      <4> HIDE DEF m
      <4>2. Attempted(attempt[m], m, fitting, wide) /\ i < m /\ m \in Nat /\ i \in Nat
        BY <1>2, <1>11, <4>1
      <4> DEFINE v == attempt[m]
      <4>3. Attempted(v, i, fitting, wide)
        <5> HIDE DEF v
        <5>1. Attempted(v, m, fitting, wide)
          BY <4>2 DEF v
        <5>2. CASE v = Asserts /\ wide
          BY <5>2 DEF Attempted
        <5>3. CASE v = NotFound /\ \A j \in fitting : j < m
          <6>1. \A j \in fitting : j < i
            BY <1>4, <4>1, <4>2, <5>3
          <6> QED
            BY <5>3, <6>1 DEF Attempted
        <5>4. CASE v \in fitting /\ m <= v /\ \A j \in fitting : j < m \/ v <= j
          <6>1. i <= v
            BY <1>4, <4>2, <5>4
          <6>2. \A j \in fitting : j < i \/ v <= j
            BY <1>4, <4>1, <4>2, <5>4
          <6> QED
            BY <5>4, <6>1, <6>2 DEF Attempted
        <5> QED
          BY <5>1, <5>2, <5>3, <5>4 DEF Attempted
      <4> QED
        BY <4>1, <4>3
    <3> QED
      BY <3>1, <3>2
  <2> QED
    BY <2>2, <2>3
<1> HIDE DEF G
<1>12. \A i \in 0..NotFound : i \in G
  BY <1>2, <1>11, Downward
<1>13. Attempted(attempt[0], 0, fitting, wide)
  BY <1>2, <1>12 DEF G
<1> QED
  BY <1>1, <1>13 DEF fitting, wide

-----------------------------------------------------------------------------
(* The steps.                                                              *)

\* The bits that are 1 are accounted for, each by what it is for.
IInv ==
    /\ UsedExactly
    /\ held \subseteq Bits
    /\ foreign \subseteq Memory \ Bits

\* The units that hold the bits reach to the last bit.
LEMMA BitsInMemory == Bits \subseteq Memory
<1> DEFINE up == ((BitCount + UnitBitCount - 1) \div UnitBitCount) * UnitBitCount
<1>1. BitCount \in Int /\ UnitBitCount \in Nat \ {0}
  BY ConstantFacts
<1>2. up \in Int /\ BitCount <= up
  BY <1>1, Numbers!RoundingUp
<1> HIDE DEF up
<1>3. 0..(BitCount - 1) \subseteq 0..(up - 1)
  BY <1>1, <1>2
<1> QED
  BY <1>3 DEF Bits, Memory, up

\* The constructor clears the bitmap's bits and no others.
LEMMA ClearedFacts ==
    ASSUME NEW memory
    PROVE  Cleared(memory) = memory \ Bits
<1> DEFINE q == BitCount \div UnitBitCount
           full == q * UnitBitCount
<1>1. BitCount \in Nat \ {0} /\ UnitBitCount \in Nat \ {0} /\ BitCount \in Int
  BY ConstantFacts
<1>2. /\ q \in Int /\ BitCount % UnitBitCount \in 0..(UnitBitCount - 1)
      /\ BitCount = q * UnitBitCount + (BitCount % UnitBitCount)
  BY <1>1, Numbers!Division, Zenon
<1> HIDE DEF q
<1>3. full \in Int /\ full <= BitCount
  BY <1>1, <1>2
<1>4. 0 <= full
  <2>1. CASE q < 0
    <3>1. q * UnitBitCount + UnitBitCount <= 0 * UnitBitCount
      BY <1>1, <1>2, <2>1, Numbers!ProductNext
    <3> QED
      BY <1>1, <1>2, <3>1
  <2>2. CASE 0 <= q
    <3>1. 0 * UnitBitCount <= q * UnitBitCount
      BY <1>1, <1>2, <2>2, Numbers!ProductOrder
    <3> QED
      BY <1>1, <1>2, <3>1
  <2> QED
    BY <1>2, <2>1, <2>2
<1> HIDE DEF full
<1>5. 0..(full - 1) \cup full..(BitCount - 1) = Bits
  BY <1>1, <1>3, <1>4 DEF Bits
<1>6. Cleared(memory) = memory \ (0..(full - 1) \cup full..(BitCount - 1))
  BY DEF Cleared, full, q
<1> QED
  BY <1>5, <1>6

\* The constructor leaves only bits that are not the bitmap's.
LEMMA InitInvariant == Init => IInv
<1> SUFFICES ASSUME Init PROVE IInv
  OBVIOUS
<1>1. PICK memory \in SUBSET Memory :
         used = Cleared(memory) /\ foreign = memory \ Bits
  BY DEF Init
<1>2. Cleared(memory) = memory \ Bits
  BY ClearedFacts
<1> QED
  BY <1>1, <1>2 DEF Init, IInv, UsedExactly

\* A search takes the least range that fits, or refuses since there is none,
\* or fails an assertion.
LEMMA SearchFacts ==
    ASSUME NEW size \in 1..BitCount,
           NEW align \in Nat, align >= 2 => AddressSpan % align = 0, NEW offset \in Nat,
           Search(align, offset, size)
    PROVE  LET fitting == Fitting(Kept(align), offset, size)
           IN  \/ \E at \in fitting : /\ Give(at, align, offset, size)
                                      /\ \A j \in fitting : at <= j
               \/ fitting = {} /\ Deny(align, offset, size)
               \/ align > SizeMax /\ Assert
<1> DEFINE fitting == Fitting(Kept(align), offset, size)
           at == Reserved(align, offset, size)
<1>1. Attempted(at, 0, fitting, align > SizeMax)
  BY ReservedFound
<1>2. \A j \in fitting : j \in Nat
  BY FittingFacts
<1>3. /\ NotFound \notin Bits /\ Asserts \notin Bits /\ NotFound # Asserts
  BY ConstantFacts DEF Bits
<1>4. fitting \subseteq Bits
  <2>1. \A j \in fitting : j \in 0..(BitCount - size)
    BY FittingFacts
  <2> QED
    BY <2>1, ConstantFacts DEF Bits
<1>5. \/ at \in Bits /\ Give(at, align, offset, size)
      \/ at = NotFound /\ Deny(align, offset, size)
      \/ at = Asserts /\ Assert
  BY DEF Search
<1> HIDE DEF at, fitting
<1>6. CASE at \in Bits /\ Give(at, align, offset, size)
  <2>1. at \in fitting /\ \A j \in fitting : j < 0 \/ at <= j
    BY <1>1, <1>3, <1>6 DEF Attempted
  <2>2. \A j \in fitting : at <= j
    BY <1>2, <2>1
  <2> QED
    BY <1>6, <2>1, <2>2 DEF fitting
<1>7. CASE at = NotFound /\ Deny(align, offset, size)
  <2>1. \A j \in fitting : j < 0
    BY <1>1, <1>3, <1>4, <1>7 DEF Attempted
  <2>2. fitting = {}
    BY <1>2, <2>1
  <2> QED
    BY <1>7, <2>2 DEF fitting
<1>8. CASE at = Asserts /\ Assert
  BY <1>1, <1>3, <1>4, <1>8 DEF Attempted
<1> QED
  BY <1>5, <1>6, <1>7, <1>8

\* What Alloc does: it takes the least range, or nothing when it asks for
\* nothing, or refuses.
LEMMA AllocFacts ==
    ASSUME NEW size \in 0..SizeMax, NEW offset \in Nat, AllocFor(offset, size)
    PROVE  LET fitting == Fitting(1, offset, size)
           IN  \/ /\ size \in 1..BitCount
                  /\ \E at \in fitting : /\ Give(at, 1, offset, size)
                                         /\ \A j \in fitting : at <= j
               \/ size = 0 /\ Give(0, 1, offset, 0)
               \/ size > BitCount /\ Deny(1, offset, size)
               \/ size \in 1..BitCount /\ fitting = {} /\ Deny(1, offset, size)
<1>1. CASE size \in 1..BitCount /\ Search(1, offset, size)
  <2>1. Kept(1) = 1 /\ 1 \in Nat /\ ~ (1 >= 2) /\ ~ (1 > SizeMax)
    BY ConstantFacts DEF Kept
  <2> QED
    BY <1>1, <2>1, SearchFacts
<1> QED
  BY <1>1 DEF AllocFor

\* An alignment of two or more is searched for; the others are Alloc's.
LEMMA OffsetAlignFacts ==
    ASSUME NEW align \in Aligns, NEW offset \in Nat, NEW size \in 0..SizeMax,
           OffsetAlign(align, offset, size)
    PROVE  \/ size > BitCount /\ Deny(align, offset, size)
           \/ (align < 2 \/ size = 0) /\ AllocFor(offset, size)
           \/ /\ align >= 2 /\ size \in 1..BitCount
              /\ LET fitting == Fitting(align, offset, size)
                 IN  \/ \E at \in fitting : /\ Give(at, align, offset, size)
                                            /\ \A j \in fitting : at <= j
                     \/ fitting = {} /\ Deny(align, offset, size)
                     \/ align > SizeMax /\ Assert
<1>1. CASE align >= 2 /\ size \in 1..BitCount /\ Search(align, offset, size)
  <2>1. align \in Nat
    BY ConstantFacts
  <2>2. Kept(align) = align /\ align \in Aligns \ {0}
    BY <1>1, <2>1 DEF Kept
  <2>3. AddressSpan % align = 0
    BY <2>2, AlignAssumption
  <2>4. LET fitting == Fitting(Kept(align), offset, size)
        IN  \/ \E at \in fitting : /\ Give(at, align, offset, size)
                                   /\ \A j \in fitting : at <= j
            \/ fitting = {} /\ Deny(align, offset, size)
            \/ align > SizeMax /\ Assert
    BY <1>1, <2>1, <2>3, SearchFacts
  <2> QED
    BY <1>1, <2>2, <2>4
<1> QED
  BY <1>1 DEF OffsetAlign

\* What is given is recorded in both places.
LEMMA GiveInvariant ==
    ASSUME IInv, NEW size \in 1..BitCount, NEW a, NEW offset, NEW align,
           NEW at \in Fitting(a, offset, size), Give(at, align, offset, size)
    PROVE  IInv'
<1>1. UnitsFrom(at, size) \subseteq Bits
  BY DEF Fitting
<1> QED
  BY <1>1 DEF IInv, Give, UsedExactly, Bits, Memory

\* A range of size 0 has no bit to set.
LEMMA EmptyInvariant ==
    ASSUME IInv, NEW offset, Give(0, 1, offset, 0)
    PROVE  IInv'
<1>1. UnitsFrom(0, 0) = {}
  BY DEF UnitsFrom
<1> QED
  BY <1>1 DEF IInv, Give, UsedExactly, Bits, Memory

\* A refusal changes no bit.
LEMMA DenyInvariant ==
    ASSUME IInv, NEW align, NEW offset, NEW size, Deny(align, offset, size)
    PROVE  IInv'
  BY DEF IInv, Deny, UsedExactly, Bits, Memory

\* Neither does an assertion that fails.
LEMMA AssertInvariant ==
    ASSUME IInv, Assert
    PROVE  IInv'
  BY DEF IInv, Assert, UsedExactly, Bits, Memory

\* What is freed is cleared in both places.
LEMMA DeallocInvariant ==
    ASSUME IInv, NEW address, NEW size, Dealloc(address, size)
    PROVE  IInv'
  BY DEF IInv, Dealloc, UsedExactly, Bits, Memory

\* The requests are those that the types of the code can express.
LEMMA RequestFacts ==
    /\ \A size \in AllocSizes \cup AlignSizes : size \in 0..SizeMax
    /\ \A offset \in AlignOffsets : offset \in Nat
    /\ 0 \in Nat
  BY ConstantFacts

\* The invariant over a call of Alloc.
LEMMA AllocInvariant ==
    ASSUME IInv, NEW size \in 0..SizeMax, NEW offset \in Nat, AllocFor(offset, size)
    PROVE  IInv'
  BY AllocFacts, GiveInvariant, EmptyInvariant, DenyInvariant, AssertInvariant

\* The invariant over a call of OffsetAlign.
LEMMA OffsetAlignInvariant ==
    ASSUME IInv, NEW align \in Aligns, NEW offset \in Nat, NEW size \in 0..SizeMax,
           OffsetAlign(align, offset, size)
    PROVE  IInv'
  BY OffsetAlignFacts, AllocInvariant, GiveInvariant, DenyInvariant, AssertInvariant

\* IInv is inductive.
LEMMA Invariance == Spec => []IInv
<1>1. IInv /\ [Next]_vars => IInv'
  <2> SUFFICES ASSUME IInv, [Next]_vars PROVE IInv'
    OBVIOUS
  <2>1. CASE UNCHANGED vars
    BY <2>1 DEF vars, IInv, UsedExactly, Bits, Memory
  <2>2. ASSUME NEW size \in AllocSizes, Alloc(size)
        PROVE  IInv'
    BY <2>2, RequestFacts, AllocInvariant DEF Alloc
  <2>3. ASSUME NEW align \in Aligns, NEW offset \in AlignOffsets,
               NEW size \in AlignSizes, OffsetAlign(align, offset, size)
        PROVE  IInv'
    BY <2>3, RequestFacts, OffsetAlignInvariant
  <2>4. ASSUME NEW address \in Bits, NEW size \in 0..BitCount, Dealloc(address, size)
        PROVE  IInv'
    BY <2>4, DeallocInvariant
  <2> QED
    BY <2>1, <2>2, <2>3, <2>4 DEF Next
<1> QED
  BY <1>1, InitInvariant, PTL DEF Spec

\* The bits that are 1 are those of what the client holds, and those behind the
\* bitmap that were 1 before it was made: no failed reservation leaves one.
THEOREM UsedExactlyTheorem == Spec => []UsedExactly
<1>1. IInv => UsedExactly
  BY DEF IInv
<1> QED
  BY <1>1, Invariance, PTL

-----------------------------------------------------------------------------
(* The contract, call by call.                                             *)

\* A range that fits is one the contract allows to grant.
LEMMA GiveGrants ==
    ASSUME IInv, NEW size \in 1..BitCount,
           NEW align \in 1..AddressSpan, NEW offset \in 0..(AddressSpan - 1),
           NEW at \in Fitting(align, offset, size), Give(at, align, offset, size)
    PROVE  Contract!Grant
<1>1. /\ AddressSpan \in Nat \ {0} /\ BitCount \in Nat \ {0}
      /\ BitCount < AddressSpan /\ size \in 0..AddressSpan
      /\ align \in 0..AddressSpan
  BY ConstantFacts
<1>2. /\ UnitsFrom(at, size) \subseteq Bits \ used /\ Allowed(at, align, offset)
      /\ at \in 0..(AddressSpan - 1)
  <2>1. at \in 0..(BitCount - size) /\ at \in Places(align, offset)
    BY FittingFacts
  <2> QED
    BY <1>1, <2>1 DEF Fitting, Places
<1>3. /\ used' = used \cup UnitsFrom(at, size) /\ held' = held \cup UnitsFrom(at, size)
      /\ answer' = [ok |-> TRUE, address |-> at, align |-> align,
                    offset |-> offset, size |-> size]
  BY DEF Give, Answered
<1>4. answer' \in Contract!Answers
  BY <1>1, <1>2, <1>3 DEF Contract!Answers
<1>5. /\ answer'.ok
      /\ ((answer'.address + answer'.offset) % AddressSpan) % answer'.align = 0
      /\ answer'.address .. (answer'.address + answer'.size - 1) = UnitsFrom(at, size)
  BY <1>2, <1>3 DEF Allowed, UnitsFrom
<1>6. (Bits \ used)' \subseteq (Bits \ used) \ UnitsFrom(at, size)
  BY <1>3 DEF Bits
<1> QED
  BY <1>2, <1>3, <1>4, <1>5, <1>6 DEF Contract!Grant

\* So is the empty range at address 0, aligned or not: it counts as aligned
\* by 1.
LEMMA EmptyGrants ==
    ASSUME NEW offset \in 0..(AddressSpan - 1), Give(0, 1, offset, 0)
    PROVE  Contract!Grant
<1>1. AddressSpan \in Nat \ {0}
  BY ConstantFacts
<1>2. UnitsFrom(0, 0) = {}
  BY DEF UnitsFrom
<1>3. /\ used' = used /\ held' = held
      /\ answer' = [ok |-> TRUE, address |-> 0, align |-> 1,
                    offset |-> offset, size |-> 0]
  BY <1>2 DEF Give, Answered
<1>4. answer' \in Contract!Answers
  BY <1>1, <1>3 DEF Contract!Answers
<1>5. Allowed(0, 1, offset)
  <2>1. 0 \in Int /\ offset \in Int
    OBVIOUS
  <2> QED
    BY <2>1, OneAllows
<1>6. /\ answer'.ok
      /\ ((answer'.address + answer'.offset) % AddressSpan) % answer'.align = 0
      /\ answer'.address .. (answer'.address + answer'.size - 1) = {}
  BY <1>3, <1>5 DEF Allowed
<1>7. (Bits \ used)' = Bits \ used
  BY <1>3 DEF Bits
<1> QED
  BY <1>3, <1>4, <1>6, <1>7 DEF Contract!Grant

\* A request that is refused leaves the free addresses as they were.
LEMMA DenyRefuses ==
    ASSUME NEW align \in 0..AddressSpan, NEW offset \in 0..(AddressSpan - 1),
           NEW size \in 0..SizeMax, Deny(align, offset, size)
    PROVE  Contract!Refuse
<1>1. AddressSpan \in Nat \ {0} /\ size \in 0..AddressSpan
  BY ConstantFacts
<1>2. answer' = [ok |-> FALSE, address |-> 0, align |-> align,
                 offset |-> offset, size |-> size]
  BY DEF Deny, Answered
<1>3. answer' \in Contract!Answers
  BY <1>1, <1>2 DEF Contract!Answers
<1>4. (Bits \ used)' = Bits \ used /\ held' = held
  BY DEF Deny, Bits
<1> QED
  BY <1>2, <1>3, <1>4 DEF Contract!Refuse

\* The contract does not see an assertion fail: the call never returns.
LEMMA AssertStutters ==
    ASSUME Assert
    PROVE  UNCHANGED Contract!vars
  BY DEF Assert, Contract!vars, Bits

\* The requests are among those the contract has answers for.
LEMMA ContractFacts ==
    /\ \A size \in AllocSizes \cup AlignSizes : size \in 0..SizeMax
    /\ \A offset \in AlignOffsets : offset \in 0..(AddressSpan - 1) /\ offset \in Nat
    /\ \A align \in Aligns : /\ align \in 0..AddressSpan
                             /\ align >= 2 => align \in 1..AddressSpan
    /\ 0 \in 0..(AddressSpan - 1) /\ 0 \in Nat
    /\ 1 \in 0..AddressSpan /\ 1 \in 1..AddressSpan
  BY ConstantFacts

\* Alloc is a step of the contract.
LEMMA AllocContract ==
    ASSUME IInv, NEW size \in 0..SizeMax,
           NEW offset \in 0..(AddressSpan - 1), offset \in Nat, AllocFor(offset, size)
    PROVE  Contract!Grant \/ Contract!Refuse \/ UNCHANGED Contract!vars
  BY AllocFacts, ContractFacts, GiveGrants, EmptyGrants, DenyRefuses, AssertStutters

\* OffsetAlign is a step of the contract.
LEMMA OffsetAlignContract ==
    ASSUME IInv, NEW align \in Aligns, NEW offset \in AlignOffsets,
           NEW size \in 0..SizeMax, OffsetAlign(align, offset, size)
    PROVE  Contract!Grant \/ Contract!Refuse \/ UNCHANGED Contract!vars
<1>1. /\ offset \in 0..(AddressSpan - 1) /\ offset \in Nat /\ align \in 0..AddressSpan
      /\ align >= 2 => align \in 1..AddressSpan
  BY ContractFacts
<1>2. CASE size > BitCount /\ Deny(align, offset, size)
  BY <1>1, <1>2, DenyRefuses
<1>3. CASE AllocFor(offset, size)
  BY <1>1, <1>3, AllocContract
<1>4. CASE align >= 2 /\ size \in 1..BitCount
           /\ LET fitting == Fitting(align, offset, size)
              IN  \/ \E at \in fitting : /\ Give(at, align, offset, size)
                                         /\ \A j \in fitting : at <= j
                  \/ fitting = {} /\ Deny(align, offset, size)
                  \/ Assert
  BY <1>1, <1>4, GiveGrants, DenyRefuses, AssertStutters
<1> QED
  BY <1>1, <1>2, <1>3, <1>4, OffsetAlignFacts

\* Dealloc is a step of the contract: only what the client held becomes free.
LEMMA DeallocContract ==
    ASSUME IInv, NEW address, NEW size, Dealloc(address, size)
    PROVE  Contract!Release
<1>1. answer' = Contract!NoAnswer
  BY DEF Dealloc, NoAnswer, Answered, Contract!NoAnswer, Contract!Answered
<1>2. held' = held \ UnitsFrom(address, size) /\ used' = used \ UnitsFrom(address, size)
      /\ UnitsFrom(address, size) \subseteq held
  BY DEF Dealloc
<1>3. (Bits \ used)' \subseteq (Bits \ used) \cup (held \ held')
  BY <1>2 DEF Bits
<1> QED
  BY <1>1, <1>2, <1>3 DEF Contract!Release

\* The variables have their types: no step takes a bit outside of the bitmap.
THEOREM TypeTheorem == Spec => []TypeOK
<1> DEFINE Reported == answer \in Contract!Answers /\ asserted \in BOOLEAN
<1>1. Init => Reported
  <2>1. AddressSpan \in Nat \ {0}
    BY ConstantFacts
  <2> QED
    <3>1. Init => asserted \in BOOLEAN
      BY Zenon DEF Init
    <3>2. Init => answer \in Contract!Answers
      BY <2>1 DEF Init, NoAnswer, Answered, Contract!Answers
    <3> QED
      BY <3>1, <3>2
<1>2. IInv /\ Reported /\ [Next]_vars => Reported'
  <2> SUFFICES ASSUME IInv, Reported, [Next]_vars PROVE Reported'
    OBVIOUS
  <2>1. CASE UNCHANGED vars
    BY <2>1 DEF vars, Contract!Answers
  <2>2. ASSUME Next PROVE asserted' \in BOOLEAN
    <3>1. /\ \A address, align, offset, size :
                Give(address, align, offset, size) => asserted' = asserted
          /\ \A align, offset, size : Deny(align, offset, size) => asserted' = asserted
          /\ \A address, size : Dealloc(address, size) => asserted' = asserted
          /\ Assert => asserted' = TRUE
      BY Zenon DEF Give, Deny, Dealloc, Assert
    <3>2. \A align, offset, size :
             Search(align, offset, size) => asserted' = asserted \/ asserted' = TRUE
      BY <3>1, Zenon DEF Search
    <3>3. \A offset, size :
             AllocFor(offset, size) => asserted' = asserted \/ asserted' = TRUE
      BY <3>1, <3>2, Zenon DEF AllocFor
    <3>4. asserted' = asserted \/ asserted' = TRUE
      BY <2>2, <3>1, <3>2, <3>3, Zenon DEF Next, Alloc, OffsetAlign
    <3> QED
      BY <3>4, Zenon
  <2>3. Contract!Grant \/ Contract!Refuse => answer' \in Contract!Answers
    BY DEF Contract!Grant, Contract!Refuse
  <2>4. UNCHANGED Contract!vars => (answer \in Contract!Answers)'
    BY DEF Contract!vars, Contract!Answers
  <2>5. answer' \in Contract!Answers => (answer \in Contract!Answers)'
    BY DEF Contract!Answers
  <2>6. ASSUME NEW size \in AllocSizes, Alloc(size)
        PROVE  (answer \in Contract!Answers)'
    BY <2>3, <2>4, <2>5, <2>6, ContractFacts, AllocContract DEF Alloc
  <2>7. ASSUME NEW align \in Aligns, NEW offset \in AlignOffsets,
               NEW size \in AlignSizes, OffsetAlign(align, offset, size)
        PROVE  (answer \in Contract!Answers)'
    BY <2>3, <2>4, <2>5, <2>7, ContractFacts, OffsetAlignContract
  <2>8. ASSUME NEW address \in Bits, NEW size \in 0..BitCount, Dealloc(address, size)
        PROVE  (answer \in Contract!Answers)'
    <3>1. AddressSpan \in Nat \ {0}
      BY ConstantFacts
    <3> QED
      BY <2>8, <3>1 DEF Dealloc, NoAnswer, Answered, Contract!Answers
  <2> QED
    BY <2>1, <2>2, <2>6, <2>7, <2>8 DEF Next
<1>3. IInv /\ Reported => TypeOK
  BY BitsInMemory DEF IInv, UsedExactly, TypeOK
<1> QED
  BY <1>1, <1>2, <1>3, Invariance, PTL DEF Spec

\* Bitmap is an OffsetAligner: what it grants was free and is aligned, what it
\* refuses changes nothing, and what is freed is all that becomes free.
THEOREM ContractTheorem == Spec => BitmapContract
<1>1. Init => Contract!Init
  BY DEF Init, NoAnswer, Answered, Contract!Init, Contract!NoAnswer, Contract!Answered
<1>2. IInv /\ [Next]_vars => [Contract!Next]_(Contract!vars)
  <2> SUFFICES ASSUME IInv, [Next]_vars
               PROVE  Contract!Next \/ UNCHANGED Contract!vars
    OBVIOUS
  <2>1. CASE UNCHANGED vars
    BY <2>1 DEF vars, Contract!vars, Bits
  <2>2. ASSUME NEW size \in AllocSizes, Alloc(size)
        PROVE  Contract!Next \/ UNCHANGED Contract!vars
    BY <2>2, ContractFacts, AllocContract DEF Alloc, Contract!Next
  <2>3. ASSUME NEW align \in Aligns, NEW offset \in AlignOffsets,
               NEW size \in AlignSizes, OffsetAlign(align, offset, size)
        PROVE  Contract!Next \/ UNCHANGED Contract!vars
    BY <2>3, ContractFacts, OffsetAlignContract DEF Contract!Next
  <2>4. ASSUME NEW address \in Bits, NEW size \in 0..BitCount, Dealloc(address, size)
        PROVE  Contract!Next \/ UNCHANGED Contract!vars
    BY <2>4, DeallocContract DEF Contract!Next
  <2> QED
    BY <2>1, <2>2, <2>3, <2>4 DEF Next
<1> QED
  BY <1>1, <1>2, Invariance, PTL DEF Spec, BitmapContract, Contract!Spec

-----------------------------------------------------------------------------
(* The searches, as the client sees them.                                  *)

\* An alignment of 0 counts as 1.
LEMMA EffectiveAlign ==
    ASSUME NEW align \in Nat
    PROVE  Max({align, 1}) = IF align = 0 THEN 1 ELSE align
  BY DEF Max

\* The client's view of a range that would do is the searches' view of it.
LEMMA UsableFits ==
    ASSUME NEW a, NEW offset, NEW size, NEW j \in Nat
    PROVE  Usable(j, a, offset, size) <=> j \in Fitting(a, offset, size)
  BY DEF Usable, Fitting, Places, Allowed

\* The property of one step.
Exact ==
    answer'.size > 0 =>
       LET fits(a) == Usable(a, Max({answer'.align, 1}), answer'.offset, answer'.size)
       IN  /\ answer'.ok /\ held' # held =>
                 /\ fits(answer'.address)
                 /\ \A a \in 0..(answer'.address - 1) : ~ fits(a)
           /\ ~ answer'.ok /\ answer' # answer => \A a \in Bits : ~ fits(a)

\* The least range that fits is the first one.
LEMMA GiveExact ==
    ASSUME NEW size \in 1..BitCount, NEW align \in Nat \ {0}, NEW offset,
           NEW at \in Fitting(align, offset, size), Give(at, align, offset, size),
           \A j \in Fitting(align, offset, size) : at <= j
    PROVE  Exact
<1>1. answer' = [ok |-> TRUE, address |-> at, align |-> align,
                 offset |-> offset, size |-> size]
  BY DEF Give, Answered
<1>2. Max({align, 1}) = align
  BY EffectiveAlign
<1>3. at \in Nat /\ Usable(at, align, offset, size)
  <2>1. at \in Nat
    BY FittingFacts
  <2> QED
    BY <2>1, UsableFits
<1>4. \A a \in 0..(at - 1) : ~ Usable(a, align, offset, size)
  <2> SUFFICES ASSUME NEW a \in 0..(at - 1), Usable(a, align, offset, size)
               PROVE  FALSE
    OBVIOUS
  <2>1. a \in Nat /\ a < at
    BY <1>3
  <2>2. at <= a
    BY <2>1, UsableFits
  <2> QED
    BY <1>3, <2>1, <2>2
<1> QED
  BY <1>1, <1>2, <1>3, <1>4 DEF Exact

\* A request that is larger than the bitmap, or for which nothing fits, is
\* refused for a reason.
LEMMA DenyExact ==
    ASSUME NEW size \in 1..SizeMax, NEW align \in Nat, NEW offset \in Nat,
           Deny(align, offset, size),
           LET a == IF align = 0 THEN 1 ELSE align
           IN  size > BitCount \/ Fitting(a, offset, size) = {}
    PROVE  Exact
<1> DEFINE k == IF align = 0 THEN 1 ELSE align
<1>1. answer' = [ok |-> FALSE, address |-> 0, align |-> align,
                 offset |-> offset, size |-> size]
  BY DEF Deny, Answered
<1>2. Max({align, 1}) = k
  BY EffectiveAlign
<1>3. \A a \in Bits : ~ Usable(a, k, offset, size)
  <2> SUFFICES ASSUME NEW a \in Bits, Usable(a, k, offset, size)
               PROVE  FALSE
    OBVIOUS
  <2>1. a \in Nat /\ BitCount \in Nat
    BY ConstantFacts DEF Bits
  <2>2. CASE size > BitCount
    <3>1. a + size - 1 \in UnitsFrom(a, size) /\ ~ (a + size - 1 \in Bits)
      BY <2>1, <2>2 DEF UnitsFrom, Bits
    <3> QED
      BY <3>1 DEF Usable
  <2>3. CASE Fitting(k, offset, size) = {}
    <3> HIDE DEF k
    <3> QED
      BY <2>1, <2>3, UsableFits
  <2> QED
    BY <2>2, <2>3
<1> HIDE DEF k
<1> QED
  BY <1>1, <1>2, <1>3 DEF Exact

\* The steps that report nothing new.
LEMMA SilentExact ==
    \/ Assert
    \/ \E offset : Give(0, 1, offset, 0)
    \/ \E address, size : Dealloc(address, size)
    \/ \E align, offset : Deny(align, offset, 0)
    => Exact
<1>1. ASSUME Assert PROVE Exact
  BY <1>1 DEF Assert, Exact
<1>2. ASSUME NEW offset, Give(0, 1, offset, 0) PROVE Exact
  BY <1>2 DEF Give, Answered, Exact
<1>3. ASSUME NEW address, NEW size, Dealloc(address, size) PROVE Exact
  BY <1>3 DEF Dealloc, NoAnswer, Answered, Exact
<1>4. ASSUME NEW align, NEW offset, Deny(align, offset, 0) PROVE Exact
  BY <1>4 DEF Deny, Answered, Exact
<1> QED
  BY <1>1, <1>2, <1>3, <1>4

\* Alloc finds the first range.
LEMMA AllocExact ==
    ASSUME NEW size \in 0..SizeMax, NEW offset \in Nat, AllocFor(offset, size)
    PROVE  Exact
<1>1. CASE size > BitCount /\ Deny(1, offset, size)
  <2>1. size \in 1..SizeMax
    BY <1>1, ConstantFacts
  <2> QED
    BY <1>1, <2>1, DenyExact
<1>2. CASE /\ size \in 1..BitCount /\ Fitting(1, offset, size) = {}
           /\ Deny(1, offset, size)
  <2>1. size \in 1..SizeMax
    BY <1>2, ConstantFacts
  <2> QED
    BY <1>2, <2>1, DenyExact
<1>3. CASE /\ size \in 1..BitCount
           /\ \E at \in Fitting(1, offset, size) :
                 /\ Give(at, 1, offset, size)
                 /\ \A j \in Fitting(1, offset, size) : at <= j
  BY <1>3, GiveExact
<1> QED
  BY <1>1, <1>2, <1>3, AllocFacts, SilentExact

\* OffsetAlign finds the first range.
LEMMA OffsetAlignExact ==
    ASSUME NEW align \in Aligns, NEW offset \in Nat, NEW size \in 0..SizeMax,
           OffsetAlign(align, offset, size)
    PROVE  Exact
<1>1. align \in Nat
  BY ConstantFacts
<1>2. CASE size > BitCount /\ Deny(align, offset, size)
  <2>1. size \in 1..SizeMax
    BY <1>2, ConstantFacts
  <2> QED
    BY <1>1, <1>2, <2>1, DenyExact
<1>3. CASE AllocFor(offset, size)
  BY <1>3, AllocExact
<1>4. CASE align >= 2 /\ size \in 1..BitCount
           /\ LET fitting == Fitting(align, offset, size)
              IN  \/ \E at \in fitting : /\ Give(at, align, offset, size)
                                         /\ \A j \in fitting : at <= j
                  \/ fitting = {} /\ Deny(align, offset, size)
                  \/ Assert
  <2>1. align \in Nat \ {0} /\ size \in 1..SizeMax
    BY <1>1, <1>4, ConstantFacts
  <2> QED
    BY <1>4, <2>1, GiveExact, DenyExact, SilentExact
<1> QED
  BY <1>2, <1>3, <1>4, OffsetAlignFacts

\* First fit: what is granted is the lowest range that would do, and a request
\* is refused only when there is none.
THEOREM SearchExactTheorem == Spec => SearchExact
<1>1. [Next]_vars => [Exact]_vars
  <2> SUFFICES ASSUME Next PROVE Exact
    OBVIOUS
  <2>1. ASSUME NEW size \in AllocSizes, Alloc(size)
        PROVE  Exact
    BY <2>1, RequestFacts, AllocExact DEF Alloc
  <2>2. ASSUME NEW align \in Aligns, NEW offset \in AlignOffsets,
               NEW size \in AlignSizes, OffsetAlign(align, offset, size)
        PROVE  Exact
    BY <2>2, RequestFacts, OffsetAlignExact
  <2>3. ASSUME NEW address \in Bits, NEW size \in 0..BitCount, Dealloc(address, size)
        PROVE  Exact
    BY <2>3, SilentExact
  <2> QED
    BY <2>1, <2>2, <2>3 DEF Next
<1> QED
  BY <1>1, PTL DEF Spec, SearchExact, Exact

\* No alignment is larger than the maximum of SizeType.
NarrowAligns == \A align \in Aligns : align <= SizeMax

\* An alignment that SizeType cannot represent is the only way for an assertion
\* to fail: every other search looks at bits of the bitmap only.
THEOREM AssertionsHoldTheorem ==
    ASSUME NarrowAligns
    PROVE  Spec => []AssertionsHold
<1>1. Init => AssertionsHold
  BY Zenon DEF Init, AssertionsHold
<1>2. AssertionsHold /\ [Next]_vars => AssertionsHold'
  <2> SUFFICES ASSUME AssertionsHold, [Next]_vars PROVE AssertionsHold'
    OBVIOUS
  <2>1. CASE UNCHANGED vars
    BY <2>1, Zenon DEF vars, AssertionsHold
  <2>2. /\ \A address, align, offset, size :
              Give(address, align, offset, size) => AssertionsHold'
        /\ \A align, offset, size : Deny(align, offset, size) => AssertionsHold'
        /\ \A address, size : Dealloc(address, size) => AssertionsHold'
    BY Zenon DEF Give, Deny, Dealloc, AssertionsHold
  <2>3. ASSUME NEW size \in AllocSizes, Alloc(size)
        PROVE  AssertionsHold'
    BY <2>2, <2>3, RequestFacts, AllocFacts DEF Alloc
  <2>4. ASSUME NEW align \in Aligns, NEW offset \in AlignOffsets,
               NEW size \in AlignSizes, OffsetAlign(align, offset, size)
        PROVE  AssertionsHold'
    <3>1. offset \in Nat /\ size \in 0..SizeMax
      BY RequestFacts
    <3>2. ~ (align > SizeMax)
      BY ConstantFacts DEF NarrowAligns
    <3>3. CASE AllocFor(offset, size)
      BY <2>2, <3>1, <3>3, AllocFacts
    <3> QED
      BY <2>2, <2>4, <3>1, <3>2, <3>3, OffsetAlignFacts
  <2>5. ASSUME NEW address \in Bits, NEW size \in 0..BitCount, Dealloc(address, size)
        PROVE  AssertionsHold'
    BY <2>2, <2>5
  <2> QED
    BY <2>1, <2>3, <2>4, <2>5 DEF Next
<1> QED
  BY <1>1, <1>2, PTL DEF Spec
===============================================================================
