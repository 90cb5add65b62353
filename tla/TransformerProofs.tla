--------------------------- MODULE TransformerProofs --------------------------
(***************************************************************************)
(* Proof that a transformer translates what it frees the way it translated *)
(* what it allocated, for every scale, offset and size: HeldIsGranted is   *)
(* inductive with the types of the variables it relates.  What has to be   *)
(* shown is arithmetic: a range of units and the range of addresses that   *)
(* stands for it determine each other.                                     *)
(***************************************************************************)
EXTENDS Transformer, TLAPS

\* The lemmas about numbers.  They name no constant, but the module they are in
\* assumes something of its own.
Numbers == INSTANCE RegionListProofs WITH AddressSpan <- 2, SizeMax <- 1

\* What that module assumes holds of the two numbers given to it here.
LEMMA Widths == Numbers!WidthAssumption
BY DEF Numbers!WidthAssumption

USE Widths

IInv ==
    /\ scale \in Scales /\ offset \in Offsets
    /\ free \subseteq Space
    /\ HeldIsGranted

-----------------------------------------------------------------------------
(* Units and addresses.                                                    *)

\* The addresses of some units are those of these units only.
LEMMA AddressesWithout ==
    ASSUME scale \in Nat \ {0}, offset \in Nat,
           NEW U \in SUBSET Nat, NEW V \in SUBSET Nat
    PROVE  AddressesOf(U \ V) = AddressesOf(U) \ AddressesOf(V)
<1>1. ASSUME NEW u \in U, NEW k \in 0..(scale - 1), u \notin V
      PROVE  u * scale + offset + k \notin AddressesOf(V)
  <2> SUFFICES ASSUME NEW v \in V, NEW j \in 0..(scale - 1),
                      u * scale + offset + k = v * scale + offset + j
               PROVE  FALSE
      BY DEF AddressesOf
  <2> DEFINE us == u * scale
             vs == v * scale
  <2>1. us \in Int /\ vs \in Int /\ us + offset + k = vs + offset + j
        OBVIOUS
  <2> HIDE DEF us, vs
  <2>2. us + k = vs + j
        BY <2>1
  <2>3. u = v
        BY <2>2, Numbers!OneUnit DEF us, vs
  <2> QED BY <2>3, <1>1
<1>2. AddressesOf(U \ V) \subseteq AddressesOf(U) \ AddressesOf(V)
  <2> SUFFICES ASSUME NEW u \in U \ V, NEW k \in 0..(scale - 1)
               PROVE  u * scale + offset + k \in AddressesOf(U) \ AddressesOf(V)
      BY DEF AddressesOf
  <2>1. u * scale + offset + k \in AddressesOf(U)
        BY DEF AddressesOf
  <2> QED BY <2>1, <1>1
<1>3. AddressesOf(U) \ AddressesOf(V) \subseteq AddressesOf(U \ V)
      BY DEF AddressesOf
<1> QED BY <1>2, <1>3

LEMMA AddressesTogether ==
    ASSUME NEW U, NEW V
    PROVE  AddressesOf(U \cup V) = AddressesOf(U) \cup AddressesOf(V)
BY DEF AddressesOf

\* A range of units stands for a range of addresses.
LEMMA AddressesOfRange ==
    ASSUME scale \in Nat \ {0}, offset \in Nat, NEW u \in Nat, NEW n \in Nat
    PROVE  AddressesOf(From(u, n)) = From(u * scale + offset, n * scale)
<1> DEFINE us == u * scale
           ns == n * scale
<1>1. /\ us \in Int /\ ns \in Int
      /\ (u + n) * scale = us + ns
      OBVIOUS
<1>2. ASSUME NEW w \in From(u, n), NEW k \in 0..(scale - 1)
      PROVE  w * scale + offset + k \in From(us + offset, ns)
  <2> DEFINE ws == w * scale
  <2>1. w \in Int /\ u <= w /\ w < u + n
        BY DEF From
  <2>2. ws \in Int
        BY <2>1
  <2>3. us <= ws
        BY <2>1, Numbers!ProductOrder
  <2>4. ws + scale <= us + ns
        BY <2>1, <1>1, Numbers!ProductNext
  <2> HIDE DEF ws, us, ns
  <2>5. ws + offset + k \in From(us + offset, ns)
        BY <1>1, <2>2, <2>3, <2>4 DEF From
  <2> QED BY <2>5 DEF ws
<1>3. ASSUME NEW a \in From(us + offset, ns)
      PROVE  a \in AddressesOf(From(u, n))
  <2> DEFINE b == a - offset - us
             q == b \div scale
             k == b % scale
  <2> HIDE DEF us, ns
  <2>1. a \in Int /\ b \in Int /\ 0 <= b /\ b < ns
        BY <1>1 DEF From
  <2> HIDE DEF b
  <2>2. q \in Int /\ k \in 0..(scale - 1) /\ b = q * scale + k
        BY <2>1, Numbers!Division
  <2> HIDE DEF q, k
  <2>3. (q + 1) * scale = q * scale + scale /\ q * scale \in Int
        BY <2>2
  <2>4. q >= 0
    <3>1. q < 0 => q * scale + scale <= 0 * scale
          BY <2>2, Numbers!ProductNext
    <3> QED BY <3>1, <2>1, <2>2, <2>3
  <2>5. q < n
    <3>1. n <= q => ns <= q * scale
          BY <2>2, Numbers!ProductOrder DEF ns
    <3> QED BY <3>1, <2>1, <2>2, <2>3, <1>1
  <2>6. u + q \in From(u, n)
        BY <2>2, <2>4, <2>5 DEF From
  <2>7. (u + q) * scale = us + q * scale
        BY <2>2 DEF us
  <2>8. a = (u + q) * scale + offset + k
        BY <2>1, <2>2, <2>3, <2>7, <1>1 DEF b
  <2> QED BY <2>2, <2>6, <2>8 DEF AddressesOf
<1>4. AddressesOf(From(u, n)) \subseteq From(us + offset, ns)
      BY <1>2 DEF AddressesOf
<1> QED BY <1>3, <1>4

\* Sizes are rounded up to the addresses of the units that are asked for.
LEMMA WholeUnits ==
    ASSUME scale \in Nat \ {0}, NEW size \in Nat
    PROVE  ScaleSize(size) \in Nat /\ Whole(size) = ScaleSize(size) * scale
<1> DEFINE d == ScaleSize(size)
           m == d * scale
           r == (size + scale - 1) % scale
           W == {n \in size..(size + scale - 1) : n % scale = 0}
<1>1. d \in Int /\ r \in 0..(scale - 1) /\ size + scale - 1 = m + r
  <2>1. size + scale - 1 \in Int /\ d = (size + scale - 1) \div scale
        BY DEF ScaleSize, RoundUpDiv
  <2> QED BY <2>1, Numbers!Division
<1> HIDE DEF d, r
<1>2. m \in Int
      BY <1>1
<1>3. m % scale = 0
      BY <1>1, <1>2, Numbers!Quotient
<1>4. m \in W
  <2> HIDE DEF m
  <2> QED BY <1>1, <1>2, <1>3
<1>5. ASSUME NEW n \in W
      PROVE  m <= n
  <2> DEFINE q == n \div scale
  <2>1. n \in Int /\ size <= n /\ n % scale = 0
        OBVIOUS
  <2>2. q \in Int /\ n = q * scale
        BY <2>1, Numbers!Division
  <2> HIDE DEF q
  <2>3. q < d => q * scale + scale <= m
        BY <1>1, <2>2, Numbers!ProductNext
  <2>4. d <= q => m <= q * scale
        BY <1>1, <2>2, Numbers!ProductOrder
  <2> HIDE DEF m
  <2> QED BY <1>1, <1>2, <2>1, <2>2, <2>3, <2>4
<1>6. d >= 0
  <2>1. d < 0 => m + scale <= 0 * scale
        BY <1>1, Numbers!ProductNext
  <2> HIDE DEF m
  <2> QED BY <2>1, <1>1, <1>2
<1>7. W \subseteq Int
      OBVIOUS
<1>8. Min(W) = m
  <2> HIDE DEF m, W
  <2>1. \A n \in W : m <= n
        BY <1>5
  <2>2. Min(W) \in W /\ \A n \in W : Min(W) <= n
        BY <2>1, <1>4 DEF Min
  <2>3. Min(W) \in Int /\ m <= Min(W) /\ Min(W) <= m
        BY <1>4, <1>7, <2>1, <2>2
  <2> QED BY <1>2, <2>3
<1> QED BY <1>1, <1>6, <1>8 DEF Whole, d

-----------------------------------------------------------------------------
(* The actions.                                                            *)

\* The constants and the values that the invariant allows.
LEMMA ValueFacts ==
    ASSUME IInv
    PROVE  /\ scale \in Nat \ {0} /\ offset \in Nat
           /\ Space \subseteq Nat /\ free \subseteq Space
           /\ \A unit \in Space : OutputAddress(unit) = unit * scale + offset
<1>1. /\ scale \in Nat \ {0} /\ offset \in Nat
      /\ Space \subseteq Nat /\ free \subseteq Space
      /\ Units * scale + offset <= AddressSpan
      /\ AddressSpan \in Nat \ {0} /\ Units \in Nat
      BY TransformerAssumption DEF IInv, Space
<1>2. ASSUME NEW unit \in Space
      PROVE  OutputAddress(unit) = unit * scale + offset
  <2>1. unit \in Int /\ 0 <= unit /\ unit < Units
        BY <1>1 DEF Space
  <2>2. unit * scale + scale <= Units * scale
        BY <1>1, <2>1, Numbers!ProductNext
  <2>3. 0 * scale <= unit * scale
        BY <1>1, <2>1, Numbers!ProductOrder
  <2> DEFINE a == unit * scale
             all == Units * scale
  <2>4. a \in Int /\ all \in Int /\ 0 <= a /\ a + scale <= all
        BY <1>1, <2>1, <2>2, <2>3
  <2> HIDE DEF a, all
  <2>5. all + offset <= AddressSpan
        BY <1>1 DEF all
  <2>6. a + offset \in 0..(AddressSpan - 1)
        BY <1>1, <2>4, <2>5
  <2>7. (a + offset) % AddressSpan = a + offset
        BY <1>1, <2>6
  <2> QED BY <2>7 DEF OutputAddress, a
<1> QED BY <1>1, <1>2

\* What the wrapped allocator grants is what the client receives.
LEMMA GiveInvariant ==
    ASSUME IInv, NEW unit \in Space, NEW align, NEW wrappedAlign,
           NEW anOffset, NEW wrappedOffset, NEW size \in Nat,
           WrappedGrants(unit, wrappedAlign, wrappedOffset, ScaleSize(size)),
           Give(unit, align, anOffset, size)
    PROVE  IInv'
<1> DEFINE granted == From(unit, ScaleSize(size))
<1>1. /\ scale \in Nat \ {0} /\ offset \in Nat
      /\ Space \subseteq Nat /\ free \subseteq Space /\ unit \in Nat
      /\ OutputAddress(unit) = unit * scale + offset
      BY ValueFacts
<1>2. ScaleSize(size) \in Nat /\ Whole(size) = ScaleSize(size) * scale
      BY <1>1, WholeUnits
<1>3. /\ granted \subseteq free /\ free' = free \ granted
      /\ held' = held \cup From(OutputAddress(unit), Whole(size))
      /\ scale' = scale /\ offset' = offset
      BY DEF WrappedGrants, Give
<1>4. AddressesOf(granted) = From(OutputAddress(unit), Whole(size))
      BY <1>1, <1>2, AddressesOfRange
<1> HIDE DEF granted
<1>5. held' = AddressesOf((Space \ free) \cup granted)
      BY <1>3, <1>4, AddressesTogether DEF IInv, HeldIsGranted
<1>6. (Space \ free) \cup granted = Space \ free'
      BY <1>1, <1>3
<1>7. HeldIsGranted'
      BY <1>3, <1>5, <1>6 DEF HeldIsGranted, AddressesOf
<1> QED BY <1>1, <1>3, <1>7 DEF IInv

LEMMA DenyInvariant ==
    ASSUME IInv, NEW align, NEW anOffset, NEW size, Deny(align, anOffset, size)
    PROVE  IInv'
BY DEF IInv, HeldIsGranted, AddressesOf, Deny

LEMMA AllocForInvariant ==
    ASSUME IInv, NEW align, NEW anOffset, NEW size \in Nat,
           AllocFor(align, anOffset, size)
    PROVE  IInv'
<1>1. CASE Deny(align, anOffset, size)
      BY <1>1, DenyInvariant
<1>2. CASE \E unit \in Space :
              /\ WrappedGrants(unit, 1, 0, ScaleSize(size))
              /\ Give(unit, align, anOffset, size)
      BY <1>2, GiveInvariant
<1> QED BY <1>1, <1>2 DEF AllocFor

LEMMA OffsetAlignInvariant ==
    ASSUME IInv, NEW align, NEW anOffset, NEW size \in Nat,
           OffsetAlign(align, anOffset, size)
    PROVE  IInv'
<1>1. CASE Deny(align, anOffset, size)
      BY <1>1, DenyInvariant
<1>2. CASE AllocFor(align, anOffset, size)
      BY <1>2, AllocForInvariant
<1>3. CASE \E unit \in Space :
              /\ WrappedGrants(unit, ScaleAlign(align),
                               SpecificOffset(anOffset), ScaleSize(size))
              /\ Give(unit, align, anOffset, size)
      BY <1>3, GiveInvariant
<1> QED BY <1>1, <1>2, <1>3 DEF OffsetAlign

\* What the client frees is what the wrapped allocator had granted: a held
\* range that begins with a unit is translated back to the units it stands for.
LEMMA DeallocFacts ==
    ASSUME IInv, NEW address \in offset..(AddressSpan - 1), NEW size \in Nat,
           Dealloc(address, size)
    PROVE  LET freed == From(InputAddress(address), ScaleSize(size))
           IN  /\ AddressesOf(freed) = From(address, Whole(size))
               /\ freed \in SUBSET Nat
               /\ free' = free \cup freed
<1> DEFINE u == InputAddress(address)
           freed == From(u, ScaleSize(size))
           range == From(address, Whole(size))
<1>1. /\ scale \in Nat \ {0} /\ offset \in Nat
      /\ Space \subseteq Nat /\ free \subseteq Space
      /\ AddressSpan \in Nat \ {0}
      BY ValueFacts, TransformerAssumption
<1>2. ScaleSize(size) \in Nat /\ Whole(size) = ScaleSize(size) * scale
      BY <1>1, WholeUnits
<1>3. /\ range \subseteq held /\ (address - offset) % scale = 0
      /\ free' = free \cup freed /\ held' = held \ range
      /\ scale' = scale /\ offset' = offset
      BY DEF Dealloc, WrappedDealloc
<1>4. /\ address - offset \in 0..(AddressSpan - 1)
      /\ address \in Int
      BY <1>1
<1>5. (address - offset) % AddressSpan = address - offset
      BY <1>1, <1>4
<1>6. u \in Nat /\ address = u * scale + offset
  <2>1. u = (address - offset) \div scale
        BY <1>5 DEF InputAddress
  <2> DEFINE a == address - offset
  <2>2. u \in Int /\ a = u * scale + 0
    <3>1. a \in Int /\ a % scale = 0 /\ u = a \div scale
          BY <1>3, <1>4, <2>1
    <3> HIDE DEF a, u
    <3>2. u \in Int /\ a = u * scale + (a % scale)
          BY <1>1, <3>1, Numbers!Division
    <3> QED BY <3>1, <3>2
  <2> HIDE DEF u
  <2>3. u < 0 => u * scale + scale <= 0 * scale
        BY <1>1, <2>2, Numbers!ProductNext
  <2> DEFINE us == u * scale
  <2>4. us \in Int /\ 0 * scale = 0
        BY <1>1, <2>2
  <2> HIDE DEF us
  <2>5. u < 0 => us + scale <= 0
        BY <2>3, <2>4 DEF us
  <2>6. address - offset = us
        BY <2>2, <2>4 DEF us
  <2>7. u \in Nat /\ address = us + offset
        BY <1>1, <1>4, <2>2, <2>4, <2>5, <2>6
  <2> QED BY <2>7 DEF us
<1> HIDE DEF u
<1>7. AddressesOf(freed) = range
      BY <1>1, <1>2, <1>6, AddressesOfRange
<1>8. freed \subseteq Nat
      BY <1>2, <1>6 DEF From
<1> QED BY <1>3, <1>7, <1>8 DEF u

LEMMA DeallocInvariant ==
    ASSUME IInv, NEW address \in offset..(AddressSpan - 1), NEW size \in Nat,
           Dealloc(address, size)
    PROVE  IInv'
<1> DEFINE freed == From(InputAddress(address), ScaleSize(size))
           range == From(address, Whole(size))
<1>1. /\ scale \in Nat \ {0} /\ offset \in Nat
      /\ Space \subseteq Nat /\ free \subseteq Space
      BY ValueFacts
<1>2. /\ range \subseteq held /\ held' = held \ range
      /\ scale' = scale /\ offset' = offset
      BY DEF Dealloc
<1>3. /\ AddressesOf(freed) = range /\ freed \in SUBSET Nat
      /\ free' = free \cup freed
      BY DeallocFacts
<1> HIDE DEF freed, range
<1>4. AddressesOf(freed) \subseteq AddressesOf(Space \ free)
      BY <1>2, <1>3 DEF IInv, HeldIsGranted
<1>5. freed \subseteq Space \ free
  <2>1. Space \ free \in SUBSET Nat
        BY <1>1
  <2>2. AddressesOf(freed \ (Space \ free))
            = AddressesOf(freed) \ AddressesOf(Space \ free)
        BY <1>1, <1>3, <2>1, AddressesWithout
  <2>3. AddressesOf(freed \ (Space \ free)) = {}
        BY <1>4, <2>2
  <2>4. \A w \in freed \ (Space \ free) :
            w * scale + offset + 0 \in AddressesOf(freed \ (Space \ free))
        BY <1>1 DEF AddressesOf
  <2> QED BY <2>3, <2>4
<1>6. held' = AddressesOf((Space \ free) \ freed)
      BY <1>1, <1>2, <1>3, AddressesWithout DEF IInv, HeldIsGranted
<1>7. (Space \ free) \ freed = Space \ free'
      BY <1>3
<1>8. HeldIsGranted'
      BY <1>2, <1>6, <1>7 DEF HeldIsGranted, AddressesOf
<1>9. free' \subseteq Space
      BY <1>1, <1>3, <1>5
<1> QED BY <1>2, <1>8, <1>9 DEF IInv

LEMMA Invariance == Spec => []IInv
<1>1. Init => IInv
  <2>1. Init => AddressesOf(Space \ free) = {}
        BY DEF Init, AddressesOf
  <2> QED BY <2>1 DEF Init, IInv, HeldIsGranted
<1>2. IInv /\ [Next]_vars => IInv'
  <2> SUFFICES ASSUME IInv, [Next]_vars PROVE IInv'
      OBVIOUS
  <2>1. Sizes \subseteq Nat
        BY TransformerAssumption
  <2>2. CASE UNCHANGED vars
        BY <2>2 DEF vars, IInv, HeldIsGranted, AddressesOf
  <2>3. ASSUME NEW size \in Sizes, Alloc(size) PROVE IInv'
        BY <2>1, <2>3, AllocForInvariant DEF Alloc
  <2>4. ASSUME NEW align \in Aligns, NEW anOffset \in AlignOffsets,
               NEW size \in Sizes, OffsetAlign(align, anOffset, size)
        PROVE  IInv'
        BY <2>1, <2>4, OffsetAlignInvariant
  <2>5. ASSUME NEW address \in offset..(AddressSpan - 1), NEW size \in Sizes,
               Dealloc(address, size)
        PROVE  IInv'
        BY <2>1, <2>5, DeallocInvariant
  <2> QED BY <2>2, <2>3, <2>4, <2>5 DEF Next
<1> QED BY <1>1, <1>2, PTL DEF Spec

-----------------------------------------------------------------------------
\* What the wrapped allocator has handed out is what the client holds, to the
\* address, for every scale, offset and size: InputAddress and the rounding of
\* a Dealloc undo OutputAddress and the rounding of the Allocs before it.
THEOREM HeldIsGrantedTheorem == Spec => []HeldIsGranted
<1>1. IInv => HeldIsGranted
      BY DEF IInv
<1> QED BY <1>1, Invariance, PTL

-----------------------------------------------------------------------------
(* The answers.                                                            *)

\* What the wrapped allocator grants of its units are addresses that exist.
LEMMA GrantedSize ==
    ASSUME IInv, NEW unit \in Space, NEW n \in Nat, From(unit, n) \subseteq Space
    PROVE  n * scale \in 0..AddressSpan
<1>1. /\ scale \in Nat \ {0} /\ offset \in Nat /\ Units \in Nat
      /\ Units * scale + offset <= AddressSpan /\ AddressSpan \in Nat
      BY TransformerAssumption DEF IInv
<1>2. n <= Units
  <2>1. CASE n = 0
        BY <1>1, <2>1
  <2>2. CASE n # 0
    <3>1. unit \in Int /\ unit >= 0
          BY DEF Space
    <3>2. unit + n - 1 \in From(unit, n)
          BY <2>2, <3>1 DEF From
    <3>3. unit + n - 1 \in Space
          BY <3>2
    <3>4. unit + n - 1 <= Units - 1
          BY <1>1, <3>1, <3>3 DEF Space
    <3> QED BY <1>1, <3>1, <3>4
  <2> QED BY <2>1, <2>2
<1>3. n * scale <= Units * scale /\ 0 * scale <= n * scale
      BY <1>1, <1>2, Numbers!ProductOrder
<1> DEFINE ns == n * scale
           all == Units * scale
<1>4. ns \in Int /\ all \in Int /\ 0 <= ns /\ ns <= all /\ all + offset <= AddressSpan
      BY <1>1, <1>3
<1> HIDE DEF ns, all
<1>5. ns \in 0..AddressSpan
      BY <1>1, <1>4
<1> QED BY <1>5 DEF ns

\* An alignment of 0 counts as 1.
LEMMA EffectiveAlign ==
    ASSUME NEW align \in Nat
    PROVE  Max({align, 1}) = IF align = 0 THEN 1 ELSE align
BY DEF Max

LEMMA GiveAnswers ==
    ASSUME IInv, NEW unit \in Space, NEW align \in 0..AddressSpan,
           NEW wrappedAlign, NEW anOffset \in 0..(AddressSpan - 1),
           NEW wrappedOffset, NEW size \in Nat,
           WrappedGrants(unit, wrappedAlign, wrappedOffset, ScaleSize(size)),
           Give(unit, align, anOffset, size)
    PROVE  answer' \in Contract!Answers
<1>1. /\ scale \in Nat \ {0} /\ offset \in Nat /\ AddressSpan \in Nat \ {0}
      BY TransformerAssumption DEF IInv
<1>2. ScaleSize(size) \in Nat /\ Whole(size) = ScaleSize(size) * scale
      BY <1>1, WholeUnits
<1>3. From(unit, ScaleSize(size)) \subseteq Space
      BY DEF WrappedGrants, IInv
<1>4. Whole(size) \in 0..AddressSpan
      BY <1>2, <1>3, GrantedSize
<1>5. OutputAddress(unit) \in 0..(AddressSpan - 1)
  <2>1. unit \in Int /\ unit * scale + offset \in Int
        BY <1>1 DEF Space
  <2> QED BY <1>1, <2>1, Numbers!Division DEF OutputAddress
<1>6. Max({align, 1}) \in 0..AddressSpan
      BY <1>1, EffectiveAlign
<1> QED BY <1>4, <1>5, <1>6 DEF Give, Answered, Contract!Answers

LEMMA DenyAnswers ==
    ASSUME IInv, NEW align \in 0..AddressSpan,
           NEW anOffset \in 0..(AddressSpan - 1), NEW size \in 0..(AddressSpan - 1),
           Deny(align, anOffset, size)
    PROVE  answer' \in Contract!Answers /\ ~ answer'.ok
<1>1. /\ AddressSpan \in Nat \ {0}
      BY TransformerAssumption
<1>2. Max({align, 1}) \in 0..AddressSpan
      BY <1>1, EffectiveAlign
<1> QED BY <1>1, <1>2 DEF Deny, Answered, Contract!Answers

-----------------------------------------------------------------------------
(* The alignments.                                                         *)

\* Multiples of a are where a wants them, wrapped sums included.
LEMMA WrappedMultiple ==
    ASSUME NEW a \in Nat \ {0}, NEW s \in Nat \ {0}, s % a = 0,
           NEW x \in Int, NEW y \in Int, (x + y) % a = 0
    PROVE  (((x % s) + y) % s) % a = 0
<1>1. x % s \in Int /\ (x % s) + y \in Int /\ x + y \in Int
      BY Numbers!Division
<1>2. (((x % s) + y) % s) % a = ((x % s) + y) % a
  <2> DEFINE n == (x % s) + y
  <2>1. n \in Int
        BY <1>1
  <2> HIDE DEF n
  <2>2. (n % s) % a = n % a
        BY <2>1, Numbers!WrapRemainder
  <2> QED BY <2>2 DEF n
<1>3. ((x % s) + y) % a = (x + y) % a
      BY Numbers!WrapKeepsRemainder
<1> QED BY <1>2, <1>3

\* Of a scale and an alignment, one is a multiple of the other; ScaleAlign
\* tells which, and divides when there is something to divide.
LEMMA AlignsAndScales ==
    ASSUME IInv, IsPowerOfTwo(scale), NEW align \in Aligns \ {0}
    PROVE  /\ ScaleAlign(align) \in Nat \ {0}
           /\ ScaleAlign(align) <= 1 => scale % align = 0
           /\ ScaleAlign(align) > 1 => align = ScaleAlign(align) * scale
<1> DEFINE m == ScaleAlign(align)
           n == align + scale - 1
           k == align \div scale
<1>1. /\ scale \in Nat \ {0} /\ align \in Nat \ {0}
      /\ (scale % align = 0) \/ (align % scale = 0)
      BY TransformerAssumption, AlignAssumption DEF IInv
<1>2. /\ m \in Int /\ n % scale \in 0..(scale - 1)
      /\ n = m * scale + (n % scale)
  <2>1. n \in Int /\ m = n \div scale
        BY <1>1 DEF ScaleAlign, RoundUpDiv
  <2> QED BY <1>1, <2>1, Numbers!Division
<1>3. /\ k \in Int /\ align % scale \in 0..(scale - 1)
      /\ align = k * scale + (align % scale)
      BY <1>1, Numbers!Division
<1> DEFINE ms == m * scale
           ks == k * scale
           r == n % scale
           q == align % scale
<1>4. /\ ms \in Int /\ ks \in Int /\ r \in 0..(scale - 1) /\ q \in 0..(scale - 1)
      /\ align + scale - 1 = ms + r /\ align = ks + q
  <2> HIDE DEF m, k
  <2>1. ms \in Int /\ ks \in Int
        BY <1>1, <1>2, <1>3
  <2> QED BY <1>2, <1>3, <2>1
<1>5. /\ m <= 0 => ms <= 0
      /\ m <= 1 => ms <= scale
      /\ 1 < m => scale + scale <= ms
      /\ k <= 0 => ks <= 0
      /\ 0 < k => scale <= ks
  <2>1. 0 * scale = 0 /\ 1 * scale = scale
        BY <1>1
  <2>2. /\ m <= 0 => m * scale <= 0 * scale
        /\ m <= 1 => m * scale <= 1 * scale
        /\ 1 < m => 1 * scale + scale <= m * scale
        /\ k <= 0 => k * scale <= 0 * scale
        /\ 0 < k => 0 * scale + scale <= k * scale
    <3> HIDE DEF m, k
    <3> QED BY <1>1, <1>2, <1>3, Numbers!ProductOrder, Numbers!ProductNext
  <2> HIDE DEF m, k
  <2> DEFINE zero == 0 * scale
             one == 1 * scale
  <2> HIDE DEF zero, one
  <2>3. zero = 0 /\ one = scale
        BY <2>1 DEF zero, one
  <2>4. /\ m <= 0 => ms <= zero
        /\ m <= 1 => ms <= one
        /\ 1 < m => one + scale <= ms
        /\ k <= 0 => ks <= zero
        /\ 0 < k => zero + scale <= ks
        BY <2>2 DEF zero, one
  <2> HIDE DEF ms, ks
  <2> QED BY <1>1, <2>3, <2>4
<1>6. align % scale = 0 => m * scale = align
  <2>1. k < m => ks + scale <= ms
    <3> HIDE DEF m, k
    <3> QED BY <1>1, <1>2, <1>3, Numbers!ProductNext
  <2>2. m < k => ms + scale <= ks
    <3> HIDE DEF m, k
    <3> QED BY <1>1, <1>2, <1>3, Numbers!ProductNext
  <2>3. m = k => ms = ks
        OBVIOUS
  <2> HIDE DEF m, k, ms, ks, r
  <2>4. q = 0 => ms = align
        BY <1>1, <1>2, <1>3, <1>4, <2>1, <2>2, <2>3
  <2> QED BY <2>4 DEF q, ms, m
<1>7. m >= 1
  <2> HIDE DEF m, ms, ks, r, q
  <2> QED BY <1>1, <1>2, <1>4, <1>5
<1>8. m <= 1 => align <= scale
  <2> HIDE DEF m, ms, ks, r, q
  <2> QED BY <1>1, <1>2, <1>4, <1>5
<1>9. m > 1 => scale < align
  <2> HIDE DEF m, ms, ks, r, q
  <2> QED BY <1>1, <1>2, <1>4, <1>5
<1>10. align <= scale /\ align % scale = 0 => align = scale
  <2>1. k <= 0 => ks <= 0
        BY <1>5
  <2> HIDE DEF m, ms, ks, r
  <2>2. align <= scale /\ q = 0 => align = scale
        BY <1>1, <1>3, <1>4, <1>5
  <2> QED BY <2>2 DEF q
<1>11. scale < align => scale % align # 0
      BY <1>1
<1>12. scale % scale = 0
      BY <1>1
<1> HIDE DEF m, n, k
<1> QED BY <1>1, <1>2, <1>6, <1>7, <1>8, <1>9, <1>10, <1>11, <1>12 DEF m

\* The alignment that an answer reports is met.
Aligned(unit, align, anOffset) ==
    ((OutputAddress(unit) + anOffset) % AddressSpan) % Max({align, 1}) = 0

\* Every unit has the alignments that divide the scale.
LEMMA TriviallyAligned ==
    ASSUME IInv, IsAligner, NEW align \in Aligns, NEW anOffset \in AlignOffsets,
           anOffset % scale = 0, ScaleAlign(align) <= 1, NEW unit \in Space
    PROVE  Aligned(unit, align, anOffset)
<1> DEFINE a == Max({align, 1})
<1>1. /\ scale \in Nat \ {0} /\ offset \in Nat /\ align \in Nat
      /\ anOffset \in Nat /\ AddressSpan \in Nat \ {0} /\ unit \in Int
      BY TransformerAssumption DEF IInv, Space
<1>2. /\ a \in Nat \ {0} /\ AddressSpan % a = 0 /\ scale % a = 0
  <2>1. CASE align = 0
    <3>1. a = 1
          BY <2>1, EffectiveAlign
    <3>2. AddressSpan % 1 = 0 /\ scale % 1 = 0
          BY <1>1
    <3> QED BY <3>1, <3>2
  <2>2. CASE align # 0
    <3>1. a = align
          BY <1>1, <2>2, EffectiveAlign
    <3> QED BY <1>1, <2>2, <3>1, AlignAssumption, AlignsAndScales DEF IsAligner
  <2> QED BY <2>1, <2>2
<1> HIDE DEF a
<1> DEFINE k == scale \div a
           p == offset \div scale
           q == anOffset \div scale
<1>3. k \in Int /\ scale = k * a
  <2>1. k \in Int /\ scale = k * a + (scale % a)
        BY <1>1, <1>2, Numbers!Division
  <2> HIDE DEF k
  <2> QED BY <1>1, <1>2, <2>1
<1>4. p \in Int /\ q \in Int /\ offset = p * scale /\ anOffset = q * scale
  <2>1. /\ p \in Int /\ offset = p * scale + (offset % scale)
        /\ q \in Int /\ anOffset = q * scale + (anOffset % scale)
        BY <1>1, Numbers!Division
  <2>2. offset % scale = 0
        BY DEF IsAligner
  <2> HIDE DEF p, q
  <2> QED BY <1>1, <2>1, <2>2
<1> HIDE DEF k, p, q
<1> DEFINE x == unit * scale + offset
           t == (unit + p + q) * k
<1>5. x \in Int /\ t \in Int /\ x + anOffset = t * a
  <2>1. x + anOffset = (unit + p + q) * scale
        BY <1>1, <1>4
  <2>2. (unit + p + q) * (k * a) = t * a
        BY <1>1, <1>2, <1>3, <1>4
  <2> QED BY <1>1, <1>3, <1>4, <2>1, <2>2
<1> HIDE DEF x, t
<1>6. (((x % AddressSpan) + anOffset) % AddressSpan) % a = 0
  <2>1. anOffset \in Int /\ x + anOffset \in Int
        BY <1>1, <1>5
  <2>2. (x + anOffset) % a = 0
        BY <1>2, <1>5, <2>1, Numbers!Quotient
  <2> QED BY <1>1, <1>2, <1>5, <2>1, <2>2, WrappedMultiple, Zenon
<1> QED BY <1>6 DEF Aligned, OutputAddress, a, x

\* The alignments that the scale divides were asked of the wrapped aligner.
LEMMA ScaledAligned ==
    ASSUME IInv, IsAligner, NEW align \in Aligns, NEW anOffset \in AlignOffsets,
           anOffset % scale = 0, ScaleAlign(align) > 1, NEW unit \in Space,
           ((unit + SpecificOffset(anOffset)) % AddressSpan) % ScaleAlign(align) = 0
    PROVE  Aligned(unit, align, anOffset)
<1> DEFINE m == ScaleAlign(align)
<1>1. /\ scale \in Nat \ {0} /\ offset \in Nat /\ align \in Nat
      /\ anOffset \in Nat /\ AddressSpan \in Nat \ {0} /\ unit \in Int
      BY TransformerAssumption DEF IInv, Space
<1>2. align # 0
  <2>1. (0 + scale - 1) \div scale = 0
        BY <1>1
  <2> QED BY <2>1 DEF ScaleAlign, RoundUpDiv
<1>3. /\ m \in Nat \ {0} /\ align = m * scale
      /\ Max({align, 1}) = align /\ AddressSpan % align = 0
      BY <1>1, <1>2, AlignsAndScales, AlignAssumption, EffectiveAlign DEF IsAligner
<1> HIDE DEF m
<1> DEFINE p == offset \div scale
           q == anOffset \div scale
<1>4. p \in Int /\ q \in Int /\ offset = p * scale /\ anOffset = q * scale
  <2>1. offset \in Int /\ anOffset \in Int /\ scale \in Nat \ {0}
        BY <1>1
  <2>2. /\ p \in Int /\ offset = p * scale + (offset % scale)
        /\ q \in Int /\ anOffset = q * scale + (anOffset % scale)
        BY <2>1, Numbers!Division, Zenon
  <2>3. offset % scale = 0
        BY DEF IsAligner
  <2> HIDE DEF p, q
  <2> QED BY <1>1, <2>2, <2>3
<1>5. ((unit + ((p + q) % AddressSpan)) % AddressSpan) % m = 0
      BY DEF SpecificOffset, m
<1> HIDE DEF p, q
<1>6. AddressSpan % m = 0
  <2> DEFINE l == AddressSpan \div align
  <2>1. l \in Int /\ AddressSpan = l * align
    <3>1. align \in Nat \ {0} /\ AddressSpan \in Int
          BY <1>1, <1>2
    <3>2. l \in Int /\ AddressSpan = l * align + (AddressSpan % align)
          BY <3>1, Numbers!Division
    <3> HIDE DEF l
    <3> QED BY <1>3, <3>1, <3>2
  <2> HIDE DEF l
  <2>2. AddressSpan = (l * scale) * m /\ l * scale \in Int
        BY <1>1, <1>3, <2>1
  <2> DEFINE ls == l * scale
  <2>3. ls \in Int /\ AddressSpan \in Int /\ AddressSpan = ls * m
        BY <1>1, <2>2
  <2> HIDE DEF ls
  <2> QED BY <1>3, <2>3, Numbers!Quotient, Zenon
<1> DEFINE n == unit + (p + q)
           s == (p + q) % AddressSpan
<1>7. n % m = 0
  <2>1. p + q \in Int /\ s \in Int /\ s + unit \in Int /\ n = (p + q) + unit
        BY <1>1, <1>4, Numbers!Division
  <2>2. (s + unit) % m = ((p + q) + unit) % m
    <3>1. \A k, z \in Int : ((k % AddressSpan) + z) % m = (k + z) % m
          BY <1>1, <1>3, <1>6, Numbers!WrapKeepsRemainder
    <3>2. unit \in Int
          BY <1>1
    <3> QED BY <2>1, <3>1, <3>2
  <2>3. ((unit + s) % AddressSpan) % m = (unit + s) % m
    <3> HIDE DEF s
    <3>1. unit + s \in Int
          BY <1>1, <2>1
    <3>2. \A k \in Int : (k % AddressSpan) % m = k % m
          BY <1>1, <1>3, <1>6, Numbers!WrapRemainder
    <3> QED BY <3>1, <3>2
  <2>4. unit + s = s + unit
        BY <1>1, <2>1
  <2> HIDE DEF s, n
  <2> QED BY <1>5, <2>1, <2>2, <2>3, <2>4 DEF s
<1> DEFINE t == n \div m
           x == unit * scale + offset
<1>8. t \in Int /\ n = t * m
  <2>1. n \in Int
        BY <1>1, <1>4
  <2> HIDE DEF n
  <2>2. t \in Int /\ n = t * m + (n % m)
        BY <1>3, <2>1, Numbers!Division
  <2> HIDE DEF t
  <2> QED BY <1>3, <1>7, <2>1, <2>2
<1> HIDE DEF t
<1>9. x \in Int /\ x + anOffset = t * align
  <2>1. x + anOffset = n * scale
        BY <1>1, <1>4
  <2> HIDE DEF n
  <2>2. (t * m) * scale = t * (m * scale)
        BY <1>1, <1>3, <1>8
  <2> QED BY <1>1, <1>3, <1>8, <2>1, <2>2
<1> HIDE DEF n, x
<1>10. (((x % AddressSpan) + anOffset) % AddressSpan) % align = 0
  <2>1. anOffset \in Int /\ align \in Nat \ {0}
        BY <1>1, <1>2
  <2>2. x + anOffset \in Int
        BY <1>9, <2>1
  <2>3. (x + anOffset) % align = 0
        BY <1>8, <1>9, <2>1, <2>2, Numbers!Quotient
  <2> QED BY <1>1, <1>3, <1>9, <2>1, <2>3, WrappedMultiple, ZenonT(60)
<1> QED BY <1>3, <1>10 DEF Aligned, OutputAddress, x

-----------------------------------------------------------------------------
(* The contract, call by call.                                             *)

LEMMA GiveGrants ==
    ASSUME IInv, NEW unit \in Space, NEW align \in 0..AddressSpan,
           NEW wrappedAlign, NEW anOffset \in 0..(AddressSpan - 1),
           NEW wrappedOffset, NEW size \in Nat,
           WrappedGrants(unit, wrappedAlign, wrappedOffset, ScaleSize(size)),
           Give(unit, align, anOffset, size),
           Aligned(unit, align, anOffset)
    PROVE  Contract!Grant
<1> DEFINE granted == From(unit, ScaleSize(size))
           range == From(OutputAddress(unit), Whole(size))
<1>1. /\ scale \in Nat \ {0} /\ offset \in Nat /\ unit \in Nat
      /\ Space \subseteq Nat /\ free \subseteq Space
      /\ OutputAddress(unit) = unit * scale + offset
      BY ValueFacts
<1>2. ScaleSize(size) \in Nat /\ Whole(size) = ScaleSize(size) * scale
      BY <1>1, WholeUnits
<1>3. /\ granted \subseteq free /\ free' = free \ granted
      /\ held' = held \cup range /\ scale' = scale /\ offset' = offset
      /\ answer' = Answered(TRUE, OutputAddress(unit), Max({align, 1}), anOffset,
                            Whole(size))
      BY DEF WrappedGrants, Give
<1>4. AddressesOf(granted) = range
      BY <1>1, <1>2, AddressesOfRange
<1>5. AddressesOf(free)' = AddressesOf(free') /\ range \subseteq AddressesOf(free)
      BY <1>3, <1>4 DEF AddressesOf
<1>6. AddressesOf(free') = AddressesOf(free) \ range
  <2>1. free \in SUBSET Nat /\ granted \in SUBSET Nat
        BY <1>1, <1>3
  <2>2. AddressesOf(free \ granted) = AddressesOf(free) \ AddressesOf(granted)
        BY <1>1, <2>1, AddressesWithout
  <2> QED BY <1>3, <1>4, <2>2
<1>7. range = answer'.address .. (answer'.address + answer'.size - 1)
      BY <1>3 DEF From, Answered
<1>8. answer' \in Contract!Answers /\ answer'.ok
      BY <1>3, GiveAnswers DEF Answered
<1>9. ((answer'.address + answer'.offset) % AddressSpan) % answer'.align = 0
      BY <1>3 DEF Aligned, Answered
<1> HIDE DEF range, granted
<1> QED BY <1>3, <1>5, <1>6, <1>7, <1>8, <1>9 DEF Contract!Grant

LEMMA DenyRefuses ==
    ASSUME IInv, NEW align \in 0..AddressSpan,
           NEW anOffset \in 0..(AddressSpan - 1), NEW size \in 0..(AddressSpan - 1),
           Deny(align, anOffset, size)
    PROVE  Contract!Refuse
<1>1. AddressesOf(free)' = AddressesOf(free) /\ held' = held
      BY DEF Deny, AddressesOf
<1> QED BY <1>1, DenyAnswers DEF Contract!Refuse

LEMMA AllocContract ==
    ASSUME IInv, NEW size \in Sizes, Alloc(size)
    PROVE  Contract!Grant \/ Contract!Refuse
<1>1. /\ size \in 0..(AddressSpan - 1) /\ size \in Nat
      /\ AddressSpan \in Nat \ {0}
      BY TransformerAssumption
<1>2. CASE \E unit \in Space :
              /\ WrappedGrants(unit, 1, 0, ScaleSize(size))
              /\ Give(unit, 1, 0, size)
  <2> PICK unit \in Space : /\ WrappedGrants(unit, 1, 0, ScaleSize(size))
                            /\ Give(unit, 1, 0, size)
      BY <1>2
  <2>1. Max({1, 1}) = 1
        BY EffectiveAlign
  <2>2. (OutputAddress(unit) + 0) % AddressSpan \in Int
    <3>1. unit * scale + offset \in Int
          BY ValueFacts
    <3>2. OutputAddress(unit) \in Int
          BY <1>1, <3>1, Numbers!Division DEF OutputAddress
    <3> QED BY <1>1, <3>2, Numbers!Division
  <2>3. Aligned(unit, 1, 0)
        BY <2>1, <2>2 DEF Aligned
  <2>4. 1 \in 0..AddressSpan /\ 0 \in 0..(AddressSpan - 1)
        BY <1>1
  <2> QED BY <1>1, <2>3, <2>4, GiveGrants
<1>3. CASE Deny(1, 0, size)
  <2>1. 1 \in 0..AddressSpan /\ 0 \in 0..(AddressSpan - 1)
        BY <1>1
  <2> QED BY <1>1, <1>3, <2>1, DenyRefuses
<1> QED BY <1>2, <1>3 DEF Alloc, AllocFor
LEMMA OffsetAlignContract ==
    ASSUME IInv, NEW align \in Aligns, NEW anOffset \in AlignOffsets,
           NEW size \in Sizes, OffsetAlign(align, anOffset, size)
    PROVE  Contract!Grant \/ Contract!Refuse
<1>1. /\ size \in 0..(AddressSpan - 1) /\ size \in Nat
      /\ align \in 0..AddressSpan /\ anOffset \in 0..(AddressSpan - 1)
      /\ IsAligner
      BY TransformerAssumption DEF OffsetAlign
<1>2. CASE Deny(align, anOffset, size)
      BY <1>1, <1>2, DenyRefuses
<1>3. CASE /\ anOffset % scale = 0 /\ ScaleAlign(align) <= 1
           /\ \E unit \in Space : /\ WrappedGrants(unit, 1, 0, ScaleSize(size))
                                  /\ Give(unit, align, anOffset, size)
  <2> PICK unit \in Space : /\ WrappedGrants(unit, 1, 0, ScaleSize(size))
                            /\ Give(unit, align, anOffset, size)
      BY <1>3
  <2>1. Aligned(unit, align, anOffset)
        BY <1>1, <1>3, TriviallyAligned
  <2> QED BY <1>1, <2>1, GiveGrants
<1>4. CASE /\ anOffset % scale = 0 /\ ScaleAlign(align) > 1
           /\ \E unit \in Space :
                /\ WrappedGrants(unit, ScaleAlign(align),
                                 SpecificOffset(anOffset), ScaleSize(size))
                /\ Give(unit, align, anOffset, size)
  <2> PICK unit \in Space :
                /\ WrappedGrants(unit, ScaleAlign(align),
                                 SpecificOffset(anOffset), ScaleSize(size))
                /\ Give(unit, align, anOffset, size)
      BY <1>4
  <2>1. ((unit + SpecificOffset(anOffset)) % AddressSpan) % ScaleAlign(align) = 0
        BY DEF WrappedGrants
  <2>2. Aligned(unit, align, anOffset)
        BY <1>1, <1>4, <2>1, ScaledAligned
  <2> QED BY <1>1, <2>2, GiveGrants
<1> QED BY <1>2, <1>3, <1>4 DEF OffsetAlign, AllocFor

LEMMA DeallocContract ==
    ASSUME IInv, NEW address \in offset..(AddressSpan - 1), NEW size \in Sizes,
           Dealloc(address, size)
    PROVE  Contract!Release
<1> DEFINE freed == From(InputAddress(address), ScaleSize(size))
           range == From(address, Whole(size))
<1>1. /\ range \subseteq held /\ held' = held \ range
      /\ scale' = scale /\ offset' = offset
      /\ answer' = Answered(FALSE, 0, 1, 0, 0)
      BY DEF Dealloc
<1>2. AddressesOf(freed) = range /\ free' = free \cup freed
      BY TransformerAssumption, DeallocFacts
<1> HIDE DEF freed, range
<1>3. AddressesOf(free') = AddressesOf(free) \cup range
      BY <1>2, AddressesTogether
<1>4. AddressesOf(free)' = AddressesOf(free')
      BY <1>1 DEF AddressesOf
<1>5. answer' = Contract!NoAnswer
      BY <1>1 DEF Answered, Contract!NoAnswer, Contract!Answered
<1> QED BY <1>1, <1>3, <1>4, <1>5 DEF Contract!Release

-----------------------------------------------------------------------------
\* The variables have their types; sizes that clients are told fit.
THEOREM TypeTheorem == Spec => []TypeOK
<1> DEFINE Reported == answer \in Contract!Answers
<1>1. Init => Reported
  <2>1. AddressSpan \in Nat \ {0}
        BY TransformerAssumption
  <2> QED BY <2>1 DEF Init, Answered, Contract!Answers
<1>2. IInv /\ Reported /\ [Next]_vars => Reported'
  <2> SUFFICES ASSUME IInv, Reported, [Next]_vars PROVE Reported'
      OBVIOUS
  <2>1. CASE UNCHANGED vars
        BY <2>1 DEF vars, Contract!Answers
  <2>2. ASSUME NEW size \in Sizes, Alloc(size) PROVE Reported'
        BY <2>2, AllocContract DEF Contract!Grant, Contract!Refuse
  <2>3. ASSUME NEW align \in Aligns, NEW anOffset \in AlignOffsets,
               NEW size \in Sizes, OffsetAlign(align, anOffset, size)
        PROVE  Reported'
        BY <2>3, OffsetAlignContract DEF Contract!Grant, Contract!Refuse
  <2>4. ASSUME NEW address \in offset..(AddressSpan - 1), NEW size \in Sizes,
               Dealloc(address, size)
        PROVE  Reported'
    <3>1. AddressSpan \in Nat \ {0}
          BY TransformerAssumption
    <3> QED BY <2>4, <3>1 DEF Dealloc, Answered, Contract!Answers
  <2> QED BY <2>1, <2>2, <2>3, <2>4 DEF Next
<1>3. IInv => held \subseteq 0..(AddressSpan - 1)
  <2> SUFFICES ASSUME IInv, NEW unit \in Space, NEW k \in 0..(scale - 1)
               PROVE  unit * scale + offset + k \in 0..(AddressSpan - 1)
      BY DEF IInv, HeldIsGranted, AddressesOf
  <2>1. /\ scale \in Nat \ {0} /\ offset \in Nat /\ Units \in Nat
        /\ Units * scale + offset <= AddressSpan /\ AddressSpan \in Nat
        /\ unit \in Int /\ 0 <= unit /\ unit < Units
        BY TransformerAssumption DEF IInv, Space
  <2>2. 0 * scale <= unit * scale /\ unit * scale + scale <= Units * scale
        BY <2>1, Numbers!ProductOrder, Numbers!ProductNext
  <2> DEFINE us == unit * scale
             all == Units * scale
  <2>3. us \in Int /\ all \in Int /\ 0 <= us /\ us + scale <= all
        BY <2>1, <2>2
  <2>4. all + offset <= AddressSpan
        BY <2>1
  <2> HIDE DEF us, all
  <2>5. us + offset + k \in 0..(AddressSpan - 1)
        BY <2>1, <2>3, <2>4
  <2> QED BY <2>5 DEF us
<1>4. IInv /\ Reported => TypeOK
      BY <1>3 DEF IInv, TypeOK
<1> QED BY <1>1, <1>2, <1>4, Invariance, PTL DEF Spec

\* A transformer is an allocator, and an aligner one that keeps every alignment
\* and offset: OffsetAlign's answers are aligned although both were divided by
\* the scale and their sum wrapped, and what is granted was free.
THEOREM ContractTheorem == Spec => TransformerContract
<1>1. Init => Contract!Init
  <2>1. Init => Answered(FALSE, 0, 1, 0, 0) = Contract!NoAnswer
        BY DEF Answered, Contract!NoAnswer, Contract!Answered
  <2> QED BY <2>1 DEF Init, Contract!Init
<1>2. IInv /\ [Next]_vars => [Contract!Next]_(Contract!vars)
  <2> SUFFICES ASSUME IInv, [Next]_vars
               PROVE  Contract!Next \/ UNCHANGED Contract!vars
      OBVIOUS
  <2>1. CASE UNCHANGED vars
        BY <2>1 DEF vars, Contract!vars, AddressesOf
  <2>2. ASSUME NEW size \in Sizes, Alloc(size) PROVE Contract!Next
        BY <2>2, AllocContract DEF Contract!Next
  <2>3. ASSUME NEW align \in Aligns, NEW anOffset \in AlignOffsets,
               NEW size \in Sizes, OffsetAlign(align, anOffset, size)
        PROVE  Contract!Next
        BY <2>3, OffsetAlignContract DEF Contract!Next
  <2>4. ASSUME NEW address \in offset..(AddressSpan - 1), NEW size \in Sizes,
               Dealloc(address, size)
        PROVE  Contract!Next
        BY <2>4, DeallocContract DEF Contract!Next
  <2> QED BY <2>1, <2>2, <2>3, <2>4 DEF Next
<1> QED BY <1>1, <1>2, Invariance, PTL DEF Spec, TransformerContract, Contract!Spec
===============================================================================
