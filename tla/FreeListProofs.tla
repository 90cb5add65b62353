---------------------------- MODULE FreeListProofs ----------------------------
(***************************************************************************)
(* The safety of FreeList for every address space, every supply of node    *)
(* memory and every request, and its refinement of the contract of an      *)
(* OffsetAligner.                                                          *)
(*                                                                         *)
(* The invariants of the module are not inductive: they do not say what a  *)
(* call that is in InsertAfter's loop is about to do.  IInv adds it: a     *)
(* Dealloc has the gap it found, and an OffsetAlign has divided its region *)
(* in three without having touched it.  From there every action is shown   *)
(* to keep IInv and to be a step of the contract or a stutter.             *)
(***************************************************************************)
EXTENDS FreeList, RegionListProofs

-----------------------------------------------------------------------------
(* The inductive invariant.                                                *)

\* The four places of a unit: free, the client's, taken from the client by a
\* Dealloc that has not inserted it yet, dropped.
Apart(f, h, t, d) ==
    /\ f \cap (h \cup t \cup d) = {}
    /\ h \cap (t \cup d) = {}
    /\ t \cap d = {}

Together(f, h, t, d) == f \cup h \cup t \cup d

ListInv ==
    /\ ListOf(regions, Nodes, NodesOf(regions), FreeUnits(regions))
    /\ Sized(regions)

NodesInv ==
    /\ NodesOf(regions) \cup spare = Nodes
    /\ NodesOf(regions) \cap spare = {}

UnitsInv ==
    /\ Apart(FreeUnits(regions), held, InTransit, dropped)
    /\ Together(FreeUnits(regions), held, InTransit, dropped) \subseteq Units
    /\ status # "destroying" =>
          Units \subseteq Together(FreeUnits(regions), held, InTransit, dropped)

\* A Dealloc in InsertAfter has the gap it found to insert into, which has
\* room on both sides.
DeallocWaits(i, a, n) ==
    /\ pending = Insertion("Dealloc", i, a, n, 0, NoAnswer)
    /\ FitsGap(regions, i, a, n)
    /\ ~ TouchesBefore(regions, i, a)
    /\ ~ TouchesAfter(regions, i, a, n)
    /\ answer = NoAnswer

\* An OffsetAlign in InsertAfter has divided the first region that fits in
\* three, without having touched it: skip units, the answer, and the rest.
AlignWaits(i, skip, rest, align, offset, size) ==
    LET at == regions[i].start + skip
    IN  /\ pending = Insertion("OffsetAlign", i, at + size, rest, skip,
                               Answered(TRUE, at, align, offset, size))
        /\ FirstAligned(regions, align, offset, size, i)
        /\ skip = Compensation(regions[i], align, offset)
        /\ skip + size + rest = regions[i].size
        /\ ((at + offset) % AddressSpan) % align = 0

PendingInv ==
    pending # NoInsert =>
        /\ status = "live"
        /\ \/ \E i \in 0..Len(regions), a \in Nat, n \in 1..SizeMax :
                 DeallocWaits(i, a, n)
           \/ \E i \in 1..Len(regions), skip, rest \in 1..SizeMax,
                 align \in Aligns \ {0}, offset \in AlignOffsets,
                 size \in AllocSizes :
                 AlignWaits(i, skip, rest, align, offset, size)

IInv ==
    /\ ListInv
    /\ NodesInv
    /\ UnitsInv
    /\ PendingInv
    /\ answer \in Contract!Answers
    /\ status \in {"live", "destroying", "trapped"}
-----------------------------------------------------------------------------
(* Facts about the constants and about the list.                           *)

LEMMA ConstantFacts ==
    /\ AddressSpan \in Nat \ {0} /\ SizeMax \in Nat \ {0}
    /\ SizeMax < AddressSpan
    /\ AllocSizes \subseteq Nat /\ AlignOffsets \subseteq Nat
    /\ Aligns \subseteq Nat
    /\ \A align \in Aligns \ {0} : AddressSpan % align = 0
  BY WidthAssumption, RequestAssumption, AlignAssumption

LEMMA AnswerType ==
    /\ NoAnswer \in Contract!Answers
    /\ \A ok \in BOOLEAN, at \in Units, align \in Aligns \cup {1},
          offset \in AlignOffsets \cup {0}, size \in AllocSizes :
          Answered(ok, at, align, offset, size) \in Contract!Answers
  BY WidthAssumption, RequestAssumption
  DEF NoAnswer, Units, Answered, Contract!Answers

\* Where a range of units can be.
LEMMA RangeInSpace ==
    ASSUME NEW a \in Nat, NEW n \in Nat \ {0}, UnitsFrom(a, n) \subseteq Units
    PROVE  a \in Units /\ a + n <= AddressSpan
<1>1. a \in UnitsFrom(a, n) /\ a + n - 1 \in UnitsFrom(a, n)
  BY DEF UnitsFrom
<1>2. a \in 0..(AddressSpan - 1) /\ a + n - 1 \in 0..(AddressSpan - 1)
  BY <1>1 DEF Units
<1> QED
  BY <1>2, ConstantFacts DEF Units

LEMMA ListFacts ==
    ASSUME IInv
    PROVE  /\ regions \in ListType(Nodes)
           /\ Ordered(regions) /\ DistinctNodes(regions)
           /\ Sized(regions)
           /\ Len(regions) \in Nat /\ DOMAIN regions = 1..Len(regions)
           /\ FreeUnits(regions) \subseteq Units
<1>1. regions \in ListType(Nodes) /\ Ordered(regions) /\ DistinctNodes(regions)
  BY DEF IInv, ListInv, ListOf
<1>2. Len(regions) \in Nat /\ DOMAIN regions = 1..Len(regions)
  BY <1>1, ListTypeFacts
<1>3. FreeUnits(regions) \subseteq Units
  BY DEF IInv, UnitsInv, Together
<1> QED
  BY <1>1, <1>2, <1>3 DEF IInv, ListInv

LEMMA RegionFacts ==
    ASSUME IInv, NEW i \in 1..Len(regions)
    PROVE  /\ regions[i].node \in Nodes
           /\ regions[i].node \in NodesOf(regions)
           /\ regions[i].start \in Nat
           /\ regions[i].start \in Units
           /\ regions[i].size \in Nat \ {0}
           /\ regions[i].size <= SizeMax
           /\ regions[i].start + regions[i].size <= AddressSpan
           /\ End(regions[i]) <= AddressSpan
           /\ UnitsFrom(regions[i].start, regions[i].size)
                 \subseteq FreeUnits(regions)
<1>1. /\ regions \in ListType(Nodes) /\ Sized(regions)
      /\ FreeUnits(regions) \subseteq Units
  BY ListFacts
<1>2. /\ regions[i].node \in Nodes
      /\ regions[i].start \in Nat
      /\ regions[i].size \in Nat \ {0}
  BY <1>1, ListTypeFacts
<1>3. /\ UnitsFrom(regions[i].start, regions[i].size) \subseteq FreeUnits(regions)
      /\ regions[i].node \in NodesOf(regions)
  BY <1>1, SpanFacts
<1>4. UnitsFrom(regions[i].start, regions[i].size) \subseteq Units
  BY <1>1, <1>3
<1>5. /\ regions[i].start \in Units
      /\ regions[i].start + regions[i].size <= AddressSpan
  BY <1>2, <1>4, RangeInSpace
<1>6. regions[i].size <= SizeMax
  BY <1>1 DEF Sized
<1> QED
  BY <1>2, <1>3, <1>5, <1>6 DEF End

\* Outside InsertAfter nothing is in transit.
LEMMA NothingInTransit == pending = NoInsert => InTransit = {}
  BY DEF InTransit, NoInsert, Insertion

-----------------------------------------------------------------------------
(* Every action preserves it.                                              *)

LEMMA InitInvariant == Init => IInv
<1> SUFFICES ASSUME Init PROVE IInv
  OBVIOUS
<1>1. ListInv
  <2>1. /\ regions = <<>> /\ regions \in ListType(Nodes)
        /\ DOMAIN regions = {} /\ Len(regions) = 0
    BY DEF Init, ListType
  <2>2. Ordered(regions) /\ DistinctNodes(regions) /\ Sized(regions)
    BY <2>1 DEF Ordered, DistinctNodes, Sized
  <2> QED
    BY <2>1, <2>2 DEF ListInv, ListOf
<1>2. NodesOf(regions) = {} /\ FreeUnits(regions) = {}
  BY DEF Init, NodesOf, FreeUnits
<1>3. NodesInv
  BY <1>2 DEF NodesInv, Init
<1>4. UnitsInv
  <2>1. InTransit = {}
    BY NothingInTransit DEF Init
  <2> QED
    BY <1>2, <2>1 DEF UnitsInv, Apart, Together, Init
<1>5. PendingInv
  BY DEF Init, PendingInv
<1> QED
  BY <1>1, <1>3, <1>4, <1>5, AnswerType DEF IInv, Init

\* Every step of the list's is one of the contract's, or changes nothing the
\* contract speaks of.
ContractStep == [Contract!Next]_(Contract!vars)

Kept == IInv' /\ ContractStep

\* Units of the list's become the client's in a step between two calls.
LEMMA GrantKept ==
    ASSUME IInv, Idle, NEW nodes, NEW at \in Units, NEW size \in AllocSizes,
           NEW align \in Aligns \cup {1}, NEW offset \in AlignOffsets \cup {0},
           ((at + offset) % AddressSpan) % align = 0,
           UnitsFrom(at, size) \subseteq FreeUnits(regions),
           ListOf(regions', Nodes, nodes,
                  FreeUnits(regions) \ UnitsFrom(at, size)),
           Sized(regions'),
           nodes \cup spare' = Nodes, nodes \cap spare' = {},
           Give(at, align, offset, size),
           UNCHANGED <<pending, dropped, status>>
    PROVE  Kept
<1> DEFINE U == UnitsFrom(at, size)
<1>1. nodes = NodesOf(regions') /\ FreeUnits(regions') = FreeUnits(regions) \ U
  BY DEF ListOf
<1>2. ListInv'
  BY <1>1 DEF ListInv
<1>3. NodesInv'
  BY <1>1 DEF NodesInv
<1>4. InTransit = {} /\ InTransit' = {}
  BY DEF Idle, InTransit, NoInsert, Insertion
<1>5. /\ held' = held \cup U
      /\ answer' = Answered(TRUE, at, align, offset, size)
      /\ answer' \in Contract!Answers
  BY AnswerType DEF Give
<1>6. Contract!Grant
  <2>1. /\ answer'.ok /\ answer'.address = at /\ answer'.align = align
        /\ answer'.offset = offset /\ answer'.size = size
    BY <1>5 DEF Answered
  <2>2. U = answer'.address .. (answer'.address + answer'.size - 1)
    BY <2>1 DEF UnitsFrom
  <2> HIDE DEF U
  <2> QED
    BY <1>1, <1>5, <2>1, <2>2 DEF Contract!Grant, U
<1> HIDE DEF U
<1>7. UnitsInv'
  <2>1. U \subseteq FreeUnits(regions)
    BY DEF U
  <2> QED
    BY <1>1, <1>4, <1>5, <2>1 DEF IInv, UnitsInv, Apart, Together
<1>8. PendingInv'
  BY DEF PendingInv, Idle
<1> QED
  BY <1>2, <1>3, <1>5, <1>6, <1>7, <1>8
  DEF IInv, Kept, ContractStep, Contract!Next

\* Alloc, and the first two cases of OffsetAlign.
LEMMA HeadKept ==
    ASSUME IInv, Idle, NEW i \in 1..Len(regions), NEW size \in AllocSizes,
           NEW align \in Aligns \cup {1}, NEW offset \in AlignOffsets \cup {0},
           ((regions[i].start + offset) % AddressSpan) % align = 0,
           size <= regions[i].size,
           regions' = TakeHead(regions, i, size),
           ReturnNode(i, Exact(regions, i, size)),
           Give(regions[i].start, align, offset, size),
           UNCHANGED <<pending, dropped, status>>
    PROVE  Kept
<1> DEFINE at    == regions[i].start
           nodes == IF Exact(regions, i, size)
                    THEN NodesOf(regions) \ {regions[i].node}
                    ELSE NodesOf(regions)
<1>1. /\ regions \in ListType(Nodes) /\ Ordered(regions)
      /\ DistinctNodes(regions) /\ Sized(regions)
      /\ size \in Nat
  BY ListFacts, ConstantFacts
<1>2. /\ at \in Nat /\ at \in Units /\ regions[i].size \in Nat
      /\ regions[i].node \in NodesOf(regions)
  BY RegionFacts
<1>3. ListOf(regions', Nodes, nodes, FreeUnits(regions) \ UnitsFrom(at, size))
  BY <1>1, TakeHeadFacts
<1>4. Sized(regions')
  BY <1>1, TakeHeadSized
<1>5. UnitsFrom(at, size) \subseteq FreeUnits(regions)
  <2>1. UnitsFrom(at + 0, size) \subseteq FreeUnits(regions)
    <3>1. 0 \in Nat /\ 0 + size <= regions[i].size
      BY <1>1
    <3> QED
      BY <1>1, <3>1, ListFacts, PartIsFree
  <2> QED
    BY <1>2, <2>1
<1>6. nodes \cup spare' = Nodes /\ nodes \cap spare' = {}
  BY <1>2 DEF IInv, NodesInv, ReturnNode
<1> HIDE DEF nodes, at
<1>7. /\ ((at + offset) % AddressSpan) % align = 0
      /\ Give(at, align, offset, size)
  BY DEF at
<1> QED
  BY <1>2, <1>3, <1>4, <1>5, <1>6, <1>7, GrantKept

LEMMA DenyKept ==
    ASSUME IInv, NEW align \in Aligns \cup {1},
           NEW offset \in AlignOffsets \cup {0}, NEW size \in AllocSizes,
           Idle, Deny(align, offset, size)
    PROVE  Kept
<1>1. 0 \in Units
  BY ConstantFacts DEF Units
<1>2. answer' = Answered(FALSE, 0, align, offset, size)
  BY DEF Deny
<1>3. answer' \in Contract!Answers /\ ~ answer'.ok
  BY <1>1, <1>2, AnswerType DEF Answered
<1>4. /\ ListInv' /\ NodesInv' /\ UnitsInv' /\ PendingInv'
  BY DEF Deny, Idle, IInv, ListInv, NodesInv, UnitsInv, PendingInv, InTransit
<1>5. Contract!Refuse
  BY <1>3 DEF Contract!Refuse, Deny
<1> QED
  BY <1>3, <1>4, <1>5 DEF Kept, IInv, ContractStep, Contract!Next, Deny

LEMMA AllocKept ==
    ASSUME IInv, NEW size \in AllocSizes, Alloc(size)
    PROVE  Kept
<1>1. CASE NoFit(regions, size) /\ Deny(1, 0, size)
  BY <1>1, DenyKept DEF Alloc
<1>2. ASSUME NEW i \in DOMAIN regions,
             FirstFit(regions, size, i),
             regions' = TakeHead(regions, i, size),
             ReturnNode(i, Exact(regions, i, size)),
             Give(regions[i].start, 1, 0, size),
             UNCHANGED <<pending, dropped, status>>
      PROVE  Kept
  <2>1. i \in 1..Len(regions)
    BY ListFacts
  <2>2. size <= regions[i].size
    BY <1>2, <2>1, RegionFacts, ConstantFacts DEF FirstFit, Fits
  <2>3. ((regions[i].start + 0) % AddressSpan) % 1 = 0
    <3> DEFINE n == (regions[i].start + 0) % AddressSpan
    <3>1. n \in Nat
      BY <2>1, RegionFacts, ConstantFacts
    <3> HIDE DEF n
    <3>2. n % 1 = 0
      BY <3>1
    <3> QED
      BY <3>2 DEF n
  <2> QED
    BY <1>2, <2>1, <2>2, <2>3, HeadKept DEF Alloc
<1> QED
  BY <1>1, <1>2 DEF Alloc

LEMMA AlignHeadKept ==
    ASSUME IInv, Idle, NEW align \in Aligns \ {0}, NEW offset \in AlignOffsets,
           NEW size \in AllocSizes, NEW i \in 1..Len(regions),
           AlignedFits(regions[i], align, offset, size),
           AlignHead(i, align, offset, size)
    PROVE  Kept
<1> DEFINE m == ((regions[i].start + offset) % AddressSpan) % align
<1>1. /\ regions[i].start \in Nat /\ regions[i].size \in Nat
      /\ size \in Nat /\ align \in Nat \ {0} /\ offset \in Nat
  BY RegionFacts, ConstantFacts
<1>2. m \in 0..(align - 1)
  <2>1. regions[i].start + offset \in Int /\ AddressSpan \in Nat \ {0}
    BY <1>1, ConstantFacts
  <2>2. (regions[i].start + offset) % AddressSpan \in Int
    <3>1. (regions[i].start + offset) % AddressSpan \in 0..(AddressSpan - 1)
      BY <2>1, Division, Zenon
    <3> QED
      BY <3>1
  <2> QED
    BY <1>1, <2>2, Division, Zenon
<1>3. Compensation(regions[i], align, offset) = IF m = 0 THEN 0 ELSE align - m
  BY DEF Compensation
<1>4. Compensation(regions[i], align, offset) = 0
  BY DEF AlignHead
<1> HIDE DEF m
<1>5. m = 0
  BY <1>1, <1>2, <1>3, <1>4
<1>6. size <= regions[i].size
  BY <1>1, <1>4 DEF AlignedFits
<1> QED
  BY <1>5, <1>6, HeadKept DEF AlignHead, m

LEMMA AlignTailKept ==
    ASSUME IInv, Idle, NEW align \in Aligns \ {0}, NEW offset \in AlignOffsets,
           NEW size \in AllocSizes, NEW i \in 1..Len(regions),
           AlignedFits(regions[i], align, offset, size),
           AlignTail(i, align, offset, size)
    PROVE  Kept
<1> DEFINE skip == Compensation(regions[i], align, offset)
           at   == AlignedAddress(regions[i], skip)
<1>1. /\ regions[i].start \in Nat /\ regions[i].size \in Nat
      /\ End(regions[i]) <= AddressSpan
      /\ size \in Nat /\ align \in Nat \ {0} /\ offset \in Nat
      /\ AddressSpan % align = 0
      /\ regions \in ListType(Nodes) /\ Ordered(regions)
      /\ DistinctNodes(regions) /\ Sized(regions)
  BY RegionFacts, ConstantFacts, ListFacts
<1>2. /\ skip \in Nat
      /\ skip + size <= regions[i].size
      /\ at \in 0..(AddressSpan - 1)
      /\ UnitsFrom(at, size) = UnitsFrom(regions[i].start + skip, size)
      /\ ((at + offset) % AddressSpan) % align = 0
  BY <1>1, AlignedPart, SMTT(60)
<1>3. /\ skip # 0
      /\ TailSize(regions[i], skip, size) = 0
      /\ regions' = Shrink(regions, i, skip)
      /\ Give(at, align, offset, size)
      /\ UNCHANGED <<spare, pending, dropped, status>>
  BY DEF AlignTail
<1> HIDE DEF skip, at
<1>4. /\ skip \in Nat \ {0} /\ skip <= regions[i].size
      /\ regions[i].size - skip = size
  <2> DEFINE total == regions[i].size
  <2>1. /\ skip \in Nat /\ size \in Nat /\ total \in Nat
        /\ skip # 0 /\ total - (skip + size) = 0
    BY <1>1, <1>2, <1>3 DEF TailSize
  <2> HIDE DEF total
  <2>2. /\ skip \in Nat \ {0} /\ skip <= total
        /\ total - skip = size
    BY <2>1
  <2> QED
    BY <2>2 DEF total
<1>5. ListOf(regions', Nodes, NodesOf(regions),
             FreeUnits(regions) \ UnitsFrom(at, size))
  BY <1>1, <1>2, <1>3, <1>4, ShrinkFacts, SMTT(30) DEF ListOf
<1>6. Sized(regions')
  BY <1>1, <1>3, <1>4, ShrinkSized
<1>7. UnitsFrom(at, size) \subseteq FreeUnits(regions)
  BY <1>1, <1>2, ListFacts, PartIsFree
<1>8. /\ NodesOf(regions) \cup spare' = Nodes
      /\ NodesOf(regions) \cap spare' = {}
  BY <1>3 DEF IInv, NodesInv
<1>9. at \in Units
  BY <1>2 DEF Units
<1> QED
  BY <1>2, <1>3, <1>5, <1>6, <1>7, <1>8, <1>9, GrantKept

\* The call enters InsertAfter: nothing has happened to the list.
LEMMA AlignMiddleKept ==
    ASSUME IInv, Idle, NEW align \in Aligns \ {0}, NEW offset \in AlignOffsets,
           NEW size \in AllocSizes, NEW i \in 1..Len(regions),
           FirstAligned(regions, align, offset, size, i),
           AlignMiddle(i, align, offset, size)
    PROVE  Kept
<1> DEFINE k == Compensation(regions[i], align, offset)
           p == AlignedAddress(regions[i], k)
           t == TailSize(regions[i], k, size)
<1>1. /\ regions[i].start \in Nat /\ regions[i].size \in Nat
      /\ regions[i].size <= SizeMax
      /\ End(regions[i]) <= AddressSpan
      /\ size \in Nat /\ align \in Nat \ {0} /\ offset \in Nat
      /\ AddressSpan % align = 0
      /\ AlignedFits(regions[i], align, offset, size)
  BY RegionFacts, ConstantFacts DEF FirstAligned
<1>2. /\ k \in Nat
      /\ t \in Nat
      /\ k + size + t = regions[i].size
      /\ t # 0 => p = regions[i].start + k
      /\ ((p + offset) % AddressSpan) % align = 0
  BY <1>1, AlignedPart, SMTT(60)
<1>3. /\ k # 0 /\ t # 0
      /\ pending' = Insertion("OffsetAlign", i, p + size, t, k,
                              Answered(TRUE, p, align, offset, size))
      /\ UNCHANGED <<regions, spare, held, dropped, answer, status>>
  BY DEF AlignMiddle
<1>k. k = Compensation(regions[i], align, offset)
  OBVIOUS
<1> HIDE DEF k, p, t
<1>4. k \in 1..SizeMax /\ t \in 1..SizeMax
  <2> DEFINE m == regions[i].size
  <2>1. /\ m \in Nat /\ m <= SizeMax /\ SizeMax \in Nat /\ size \in Nat
        /\ k \in Nat /\ t \in Nat /\ k # 0 /\ t # 0 /\ k + size + t = m
    BY <1>1, <1>2, <1>3, ConstantFacts
  <2> HIDE DEF m
  <2> QED
    BY <2>1
<1>5. PICK skip \in 1..SizeMax, rest \in 1..SizeMax, at \in {p} : skip = k /\ rest = t
  BY <1>4
<1>6. /\ pending' = Insertion("OffsetAlign", i, at + size, rest, skip,
                              Answered(TRUE, at, align, offset, size))
      /\ skip = Compensation(regions[i], align, offset)
      /\ skip + size + rest = regions[i].size
      /\ at = regions[i].start + skip
      /\ ((at + offset) % AddressSpan) % align = 0
  BY <1>2, <1>3, <1>5, <1>k
<1>8. ListInv' /\ NodesInv'
  BY <1>3 DEF IInv, ListInv, NodesInv
<1>9. UnitsInv'
  <2>1. InTransit' = {} /\ InTransit = {}
    BY <1>3 DEF InTransit, Insertion, Idle, NoInsert
  <2> QED
    BY <1>3, <2>1 DEF IInv, UnitsInv, Apart, Together
<1>10. PendingInv'
  <2>1. AlignWaits(i, skip, rest, align, offset, size)'
    BY <1>3, <1>6 DEF AlignWaits
  <2>2. Len(regions') = Len(regions) /\ status' = "live"
    BY <1>3 DEF Idle
  <2> QED
    BY <2>1, <2>2 DEF PendingInv
<1>11. UNCHANGED Contract!vars
  BY <1>3 DEF Contract!vars
<1> QED
  BY <1>3, <1>8, <1>9, <1>10, <1>11 DEF Kept, IInv, ContractStep

LEMMA OffsetAlignKept ==
    ASSUME IInv, NEW align \in Aligns, NEW offset \in AlignOffsets,
           NEW size \in AllocSizes, OffsetAlign(align, offset, size)
    PROVE  Kept
<1>0. Idle
  BY DEF OffsetAlign
<1>1. CASE align = 0 /\ DivideByZero
  <2>1. /\ UNCHANGED <<regions, spare, pending, held, dropped, answer>>
        /\ status' = "trapped" /\ pending = NoInsert /\ status = "live"
    BY <1>0, <1>1 DEF DivideByZero, Idle
  <2>2. InTransit' = InTransit
    BY <2>1 DEF InTransit
  <2>3. ListInv' /\ NodesInv' /\ UnitsInv' /\ PendingInv'
    BY <2>1, <2>2 DEF IInv, ListInv, NodesInv, UnitsInv, PendingInv
  <2> QED
    BY <2>1, <2>3 DEF Kept, IInv, ContractStep, Contract!vars
<1>2. ASSUME align # 0, NEW i \in DOMAIN regions,
             FirstAligned(regions, align, offset, size, i),
             \/ AlignHead(i, align, offset, size)
             \/ AlignTail(i, align, offset, size)
             \/ AlignMiddle(i, align, offset, size)
      PROVE  Kept
  <2>1. i \in 1..Len(regions) /\ align \in Aligns \ {0}
    BY <1>2, ListFacts
  <2>2. AlignedFits(regions[i], align, offset, size)
    BY <1>2 DEF FirstAligned
  <2> QED
    BY <1>0, <1>2, <2>1, <2>2, AlignHeadKept, AlignTailKept, AlignMiddleKept
<1>3. CASE NoAlignedFit(regions, align, offset, size) /\ Deny(align, offset, size)
  BY <1>0, <1>3, DenyKept
<1> QED
  BY <1>1, <1>2, <1>3 DEF OffsetAlign

\* A range of the client's becomes free, alone or with the regions it touches.
LEMMA MergeKept ==
    ASSUME IInv, Idle, NEW nodes, NEW a \in Nat, NEW n \in Nat,
           UnitsFrom(a, n) \subseteq held,
           ListOf(regions', Nodes, nodes, FreeUnits(regions) \cup UnitsFrom(a, n)),
           Sized(regions'),
           nodes \cup spare' = Nodes, nodes \cap spare' = {},
           held' = held \ UnitsFrom(a, n), answer' = NoAnswer,
           UNCHANGED <<pending, dropped, status>>
    PROVE  Kept
<1> DEFINE U == UnitsFrom(a, n)
<1>1. nodes = NodesOf(regions') /\ FreeUnits(regions') = FreeUnits(regions) \cup U
  BY DEF ListOf
<1>2. ListInv' /\ NodesInv'
  BY <1>1 DEF ListInv, NodesInv
<1>3. InTransit = {} /\ InTransit' = {}
  BY DEF Idle, InTransit, NoInsert, Insertion
<1> HIDE DEF U
<1>4. U \subseteq held /\ held' = held \ U
  BY DEF U
<1>5. UnitsInv'
  BY <1>1, <1>3, <1>4 DEF IInv, UnitsInv, Apart, Together
<1>6. PendingInv'
  BY DEF PendingInv, Idle
<1>7. answer' = Contract!NoAnswer
  BY DEF NoAnswer, Answered, Contract!NoAnswer, Contract!Answered
<1>8. Contract!Release
  BY <1>1, <1>4, <1>7 DEF Contract!Release
<1> QED
  BY <1>2, <1>5, <1>6, <1>8, AnswerType
  DEF IInv, Kept, ContractStep, Contract!Next

LEMMA DeallocMergeKept ==
    ASSUME IInv, Idle, NEW a \in Nat, NEW n \in Nat \ {0},
           UnitsFrom(a, n) \subseteq held,
           NEW i \in 0..Len(regions), Before(regions, a, i),
           MergedSize(regions, i, a, n) <= SizeMax,
           Merge(i, a, n),
           held' = held \ UnitsFrom(a, n), answer' = NoAnswer,
           UNCHANGED <<pending, dropped, status>>
    PROVE  Kept
<1>1. /\ regions \in ListType(Nodes) /\ Ordered(regions)
      /\ DistinctNodes(regions) /\ Sized(regions) /\ Len(regions) \in Nat
  BY ListFacts
<1>2. FitsGap(regions, i, a, n)
  <2>1. UnitsFrom(a, n) \cap FreeUnits(regions) = {}
    BY DEF IInv, UnitsInv, Apart
  <2> QED
    BY <1>1, <2>1, NeighbourFacts
<1>3. TouchesBefore(regions, i, a) =>
         i \in 1..Len(regions) /\ regions[i].size \in Nat
  <2>1. TouchesBefore(regions, i, a) => i \in 1..Len(regions)
    BY <1>1 DEF TouchesBefore
  <2> QED
    BY <2>1, RegionFacts
<1>4. TouchesAfter(regions, i, a, n) =>
         /\ i + 1 \in 1..Len(regions) /\ regions[i + 1].size \in Nat
         /\ regions[i + 1].start \in Nat /\ n <= regions[i + 1].start
         /\ regions[i + 1].node \in NodesOf(regions)
  <2>1. TouchesAfter(regions, i, a, n) => i + 1 \in 1..Len(regions)
    BY <1>1 DEF TouchesAfter
  <2> SUFFICES ASSUME TouchesAfter(regions, i, a, n)
               PROVE  /\ regions[i + 1].size \in Nat
                      /\ regions[i + 1].start \in Nat /\ n <= regions[i + 1].start
                      /\ regions[i + 1].node \in NodesOf(regions)
    BY <2>1
  <2>2. /\ regions[i + 1].size \in Nat /\ regions[i + 1].start \in Nat
        /\ regions[i + 1].node \in NodesOf(regions)
    BY <2>1, RegionFacts
  <2>3. a + n = regions[i + 1].start
    BY DEF TouchesAfter
  <2> QED
    BY <2>2, <2>3
<1>5. NodesOf(regions) \cup spare = Nodes /\ NodesOf(regions) \cap spare = {}
  BY DEF IInv, NodesInv
<1>6. CASE /\ TouchesBefore(regions, i, a)
           /\ TouchesAfter(regions, i, a, n)
           /\ regions' = JoinBoth(regions, i, n)
           /\ ReturnNode(i + 1, TRUE)
  <2> DEFINE c == regions[i + 1].node
  <2>1. ListOf(regions', Nodes, NodesOf(regions) \ {c},
               FreeUnits(regions) \cup UnitsFrom(a, n))
    BY <1>1, <1>2, <1>6, JoinBothFacts
  <2>2. spare' = spare \cup {c} /\ c \in NodesOf(regions)
    BY <1>4, <1>6 DEF ReturnNode
  <2>3. Sized(regions')
    <3>1. n + regions[i].size + regions[i + 1].size <= SizeMax
      BY <1>6 DEF MergedSize
    <3> DEFINE l == regions[i].size
               r == regions[i + 1].size
    <3>2. l \in Nat /\ r \in Nat /\ n + l + r <= SizeMax /\ SizeMax \in Nat
      BY <1>3, <1>4, <1>6, <3>1, ConstantFacts
    <3> HIDE DEF l, r
    <3>3. l + (n + r) <= SizeMax
      BY <3>2
    <3>4. /\ i \in 1..Len(regions) /\ i + 1 \in 1..Len(regions)
          /\ regions[i].size + (n + regions[i + 1].size) <= SizeMax
      BY <1>3, <1>4, <1>6, <3>3 DEF l, r
    <3> QED
      BY <1>1, <1>6, <3>4, JoinBothSized
  <2> HIDE DEF c
  <2>4. /\ (NodesOf(regions) \ {c}) \cup spare' = Nodes
        /\ (NodesOf(regions) \ {c}) \cap spare' = {}
    BY <1>5, <2>2
  <2> QED
    BY <2>1, <2>3, <2>4, MergeKept
<1>7. CASE /\ TouchesBefore(regions, i, a)
           /\ ~ TouchesAfter(regions, i, a, n)
           /\ regions' = GrowBefore(regions, i, n)
           /\ UNCHANGED spare
  <2>1. ListOf(regions', Nodes, NodesOf(regions),
               FreeUnits(regions) \cup UnitsFrom(a, n))
    BY <1>1, <1>2, <1>7, GrowBeforeFacts
  <2>2. Sized(regions')
    <3>1. n + regions[i].size + 0 <= SizeMax
      BY <1>7 DEF MergedSize
    <3>2. i \in 1..Len(regions) /\ regions[i].size + n <= SizeMax
      BY <1>3, <1>7, <3>1, ConstantFacts
    <3> QED
      BY <1>1, <1>7, <3>2, GrowBeforeSized
  <2> QED
    BY <1>5, <1>7, <2>1, <2>2, MergeKept
<1>8. CASE /\ ~ TouchesBefore(regions, i, a)
           /\ TouchesAfter(regions, i, a, n)
           /\ regions' = GrowAfter(regions, i, n)
           /\ UNCHANGED spare
  <2>1. ListOf(regions', Nodes, NodesOf(regions),
               FreeUnits(regions) \cup UnitsFrom(a, n))
    BY <1>1, <1>2, <1>8, GrowAfterFacts
  <2>2. Sized(regions')
    <3>1. n + 0 + regions[i + 1].size <= SizeMax
      BY <1>8 DEF MergedSize
    <3>2. regions[i + 1].size + n <= SizeMax
      BY <1>4, <1>8, <3>1, ConstantFacts
    <3> QED
      BY <1>1, <1>4, <1>8, <3>2, GrowAfterSized
  <2> QED
    BY <1>5, <1>8, <2>1, <2>2, MergeKept
<1> QED
  BY <1>6, <1>7, <1>8 DEF Merge

\* The call enters InsertAfter with the range it has taken from the client.
LEMMA DeallocInsertKept ==
    ASSUME IInv, Idle, NEW a \in Nat, NEW n \in 1..SizeMax,
           UnitsFrom(a, n) \subseteq held,
           NEW i \in 0..Len(regions), Before(regions, a, i),
           Insert(i, a, n),
           held' = held \ UnitsFrom(a, n), answer' = NoAnswer,
           UNCHANGED <<dropped, status>>
    PROVE  Kept
<1>1. regions \in ListType(Nodes) /\ Ordered(regions) /\ Len(regions) \in Nat
  BY ListFacts
<1>2. FitsGap(regions, i, a, n)
  <2>1. UnitsFrom(a, n) \cap FreeUnits(regions) = {}
    BY DEF IInv, UnitsInv, Apart
  <2>2. n \in Nat \ {0}
    OBVIOUS
  <2> QED
    BY <1>1, <2>1, <2>2, NeighbourFacts
<1>3. /\ pending' = Insertion("Dealloc", i, a, n, 0, NoAnswer)
      /\ ~ TouchesBefore(regions, i, a) /\ ~ TouchesAfter(regions, i, a, n)
      /\ UNCHANGED <<regions, spare>>
  BY DEF Insert
<1>4. ListInv' /\ NodesInv'
  BY <1>3 DEF IInv, ListInv, NodesInv
<1>5. InTransit = {} /\ InTransit' = UnitsFrom(a, n)
  BY <1>3 DEF InTransit, Insertion, Idle, NoInsert
<1>6. UnitsInv'
  <2> DEFINE U == UnitsFrom(a, n)
  <2>1. U \subseteq held /\ held' = held \ U /\ InTransit' = U
    BY <1>5
  <2> HIDE DEF U
  <2> QED
    BY <1>3, <1>5, <2>1 DEF IInv, UnitsInv, Apart, Together
<1>7. PendingInv'
  <2>1. DeallocWaits(i, a, n)'
    BY <1>2, <1>3 DEF DeallocWaits
  <2>2. Len(regions') = Len(regions) /\ status' = "live"
    BY <1>3 DEF Idle
  <2> QED
    BY <2>1, <2>2 DEF PendingInv
<1>8. answer' = Contract!NoAnswer
  BY DEF NoAnswer, Answered, Contract!NoAnswer, Contract!Answered
<1>9. Contract!Release
  BY <1>3, <1>8 DEF Contract!Release
<1> QED
  BY <1>4, <1>6, <1>7, <1>9, AnswerType
  DEF IInv, Kept, ContractStep, Contract!Next

LEMMA DeallocKept ==
    ASSUME IInv, NEW a \in Units, NEW n \in 0..SizeMax, Dealloc(a, n)
    PROVE  Kept
<1>1. /\ Idle
      /\ UnitsFrom(a, n) \subseteq held
      /\ held' = held \ UnitsFrom(a, n)
      /\ answer' = NoAnswer
      /\ UNCHANGED <<dropped, status>>
      /\ a \in Nat /\ n \in Nat
  BY DEF Dealloc, Units
<1>2. CASE n = 0 /\ UNCHANGED <<regions, spare, pending>>
  <2>1. UnitsFrom(a, n) = {}
    BY <1>1, <1>2 DEF UnitsFrom
  <2>2. /\ ListOf(regions', Nodes, NodesOf(regions),
                  FreeUnits(regions) \cup UnitsFrom(a, n))
        /\ Sized(regions')
        /\ NodesOf(regions) \cup spare' = Nodes
        /\ NodesOf(regions) \cap spare' = {}
    BY <1>2, <2>1 DEF IInv, ListInv, NodesInv
  <2> QED
    BY <1>1, <1>2, <2>2, MergeKept
<1>3. ASSUME n # 0, NEW i \in 0..Len(regions), Before(regions, a, i),
             MergedSize(regions, i, a, n) <= SizeMax,
             \/ Merge(i, a, n) /\ UNCHANGED pending
             \/ Insert(i, a, n)
      PROVE  Kept
  <2>1. n \in Nat \ {0} /\ n \in 1..SizeMax
    BY <1>1, <1>3
  <2> QED
    BY <1>1, <1>3, <2>1, DeallocMergeKept, DeallocInsertKept
<1> QED
  BY <1>1, <1>2, <1>3 DEF Dealloc


-----------------------------------------------------------------------------
(* InsertAfter.                                                            *)

\* A Dealloc leaves InsertAfter: what was in transit is free or dropped.
LEMMA DeallocReturns ==
    ASSUME IInv, NEW i \in 0..Len(regions), NEW a \in Nat, NEW n \in 1..SizeMax,
           DeallocWaits(i, a, n), status = "live", Return
    PROVE  /\ InTransit = UnitsFrom(a, n) /\ InTransit' = {}
           /\ held' = held /\ answer' = answer /\ answer = NoAnswer
           /\ pending' = NoInsert /\ status' = status
           /\ PendingInv'
           /\ \A list : Cut(list) = list
<1>1. pending = Insertion("Dealloc", i, a, n, 0, NoAnswer) /\ answer = NoAnswer
  BY DEF DeallocWaits
<1>2. pending.reply = NoAnswer /\ pending.call = "Dealloc"
      /\ pending.start = a /\ pending.size = n
  BY <1>1 DEF Insertion
<1>3. held' = held
  <2>1. held' = held \cup UnitsFrom(NoAnswer.address, NoAnswer.size)
    BY <1>2 DEF Return
  <2>2. UnitsFrom(NoAnswer.address, NoAnswer.size) = {}
    BY DEF NoAnswer, Answered, UnitsFrom
  <2> QED
    BY <2>1, <2>2
<1>4. answer' = answer /\ pending' = NoInsert /\ status' = status
  BY <1>1, <1>2 DEF Return
<1>5. InTransit = UnitsFrom(a, n) /\ InTransit' = {}
  BY <1>2, <1>4 DEF InTransit, NoInsert, Insertion
<1>6. \A list : Cut(list) = list
  BY <1>2 DEF Cut
<1> QED
  BY <1>1, <1>3, <1>4, <1>5, <1>6 DEF PendingInv

\* An OffsetAlign leaves InsertAfter: the middle of its region, which is
\* aligned, is the client's.
LEMMA AlignReturns ==
    ASSUME IInv, NEW i \in 1..Len(regions), NEW skip \in 1..SizeMax,
           NEW rest \in 1..SizeMax, NEW align \in Aligns \ {0},
           NEW offset \in AlignOffsets, NEW size \in AllocSizes,
           AlignWaits(i, skip, rest, align, offset, size),
           status = "live", Return,
           NEW at, at = regions[i].start + skip,
           FreeUnits(regions') \subseteq FreeUnits(regions) \ UnitsFrom(at, size)
    PROVE  /\ InTransit = {} /\ InTransit' = {}
           /\ held' = held \cup UnitsFrom(at, size)
           /\ pending' = NoInsert /\ status' = status
           /\ answer' \in Contract!Answers
           /\ PendingInv'
           /\ \A list : Cut(list) = Shrink(list, i, skip)
           /\ at \in Nat /\ size \in Nat
           /\ skip \in Nat \ {0} /\ skip + size < regions[i].size
           /\ rest = TailSize(regions[i], skip, size)
           /\ UnitsFrom(at, size) \subseteq FreeUnits(regions)
           /\ UnitsFrom(at + size, rest) \subseteq FreeUnits(regions)
           /\ Contract!Grant
<1> DEFINE reply == Answered(TRUE, at, align, offset, size)
<1>1. /\ pending = Insertion("OffsetAlign", i, at + size, rest, skip, reply)
      /\ skip + size + rest = regions[i].size
      /\ ((at + offset) % AddressSpan) % align = 0
  BY DEF AlignWaits
<1>2. /\ pending.reply = reply /\ pending.call = "OffsetAlign"
      /\ pending.before = i /\ pending.skip = skip
  BY <1>1 DEF Insertion
<1>3. /\ reply.address = at /\ reply.size = size /\ reply.ok
      /\ reply.align = align /\ reply.offset = offset
  BY DEF Answered
<1>4. /\ held' = held \cup UnitsFrom(at, size)
      /\ answer' = reply
      /\ pending' = NoInsert /\ status' = status
  BY <1>2, <1>3 DEF Return
<1>5. /\ at \in Units /\ at \in Nat /\ size \in Nat
      /\ skip \in Nat \ {0} /\ rest \in Nat \ {0}
      /\ skip + size < regions[i].size
      /\ rest = regions[i].size - (skip + size)
  <2> DEFINE a == regions[i].start
             m == regions[i].size
  <2>1. /\ a \in Nat /\ m \in Nat /\ a + m <= AddressSpan
        /\ size \in Nat /\ AddressSpan \in Nat /\ SizeMax \in Nat
        /\ skip + size + rest = m /\ at = a + skip
    BY <1>1, RegionFacts, ConstantFacts
  <2> HIDE DEF a, m
  <2>2. /\ at \in 0..(AddressSpan - 1) /\ at \in Nat
        /\ skip \in Nat \ {0} /\ rest \in Nat \ {0}
        /\ skip + size < m /\ rest = m - (skip + size)
    <3>1. skip \in Nat \ {0} /\ rest \in Nat \ {0}
      BY <2>1
    <3>2. skip + size < m /\ rest = m - (skip + size)
      BY <2>1, <3>1
    <3>3. at \in Nat /\ at < AddressSpan
      BY <2>1, <3>1, <3>2
    <3> QED
      BY <2>1, <3>1, <3>2, <3>3
  <2> QED
    BY <2>1, <2>2 DEF m, Units
<1>6. answer' \in Contract!Answers
  BY <1>4, <1>5, AnswerType
<1>7. UnitsFrom(at, size) \subseteq FreeUnits(regions)
  <2>1. skip + size <= regions[i].size
    BY <1>5, RegionFacts
  <2> QED
    BY <1>5, <2>1, ListFacts, PartIsFree
<1>8. UnitsFrom(at + size, rest) \subseteq FreeUnits(regions)
  <2> DEFINE k == skip + size
  <2>1. k \in Nat /\ k + rest <= regions[i].size
    BY <1>5, RegionFacts, SMTT(30)
  <2>2. regions[i].start + k = at + size
    BY <1>5, RegionFacts
  <2> HIDE DEF k
  <2>3. UnitsFrom(regions[i].start + k, rest) \subseteq FreeUnits(regions)
    BY <1>5, <2>1, ListFacts, PartIsFree
  <2> QED
    BY <2>2, <2>3
<1>9. InTransit = {} /\ InTransit' = {}
  BY <1>2, <1>4 DEF InTransit, NoInsert, Insertion
<1>10. \A list : Cut(list) = Shrink(list, i, skip)
  BY <1>2 DEF Cut
<1>11. Contract!Grant
  <2>1. UnitsFrom(at, size) = answer'.address .. (answer'.address + answer'.size - 1)
    BY <1>3, <1>4 DEF UnitsFrom
  <2> DEFINE U == UnitsFrom(at, size)
  <2>2. /\ U = answer'.address .. (answer'.address + answer'.size - 1)
        /\ U \subseteq FreeUnits(regions)
        /\ FreeUnits(regions') \subseteq FreeUnits(regions) \ U
        /\ held' = held \cup U
        /\ answer'.ok
        /\ ((answer'.address + answer'.offset) % AddressSpan) % answer'.align = 0
    BY <1>1, <1>3, <1>4, <1>7, <2>1
  <2> HIDE DEF U
  <2> QED
    BY <1>6, <2>2 DEF Contract!Grant
<1>12. PendingInv'
  BY <1>4 DEF PendingInv
<1> QED
  BY <1>4, <1>5, <1>6, <1>7, <1>8, <1>9, <1>10, <1>11, <1>12 DEF TailSize

LEMMA NodeObtainedKept ==
    ASSUME IInv, NodeObtained
    PROVE  Kept
<1>0. /\ regions \in ListType(Nodes) /\ Ordered(regions)
      /\ DistinctNodes(regions) /\ Sized(regions) /\ Len(regions) \in Nat
      /\ NodesOf(regions) \cup spare = Nodes /\ NodesOf(regions) \cap spare = {}
  BY ListFacts DEF IInv, NodesInv
<1>1. pending # NoInsert /\ Return /\ UNCHANGED dropped
  BY DEF NodeObtained
<1>2. PICK node \in spare :
         /\ regions' = InsertAfter(Cut(regions), pending.before, node,
                                   pending.start, pending.size)
         /\ spare' = spare \ {node}
  BY DEF NodeObtained
<1>3. node \in Nodes /\ node \notin NodesOf(regions)
  BY <1>0
<1>n. ASSUME NEW units, ListOf(regions', Nodes, NodesOf(regions) \cup {node}, units)
      PROVE  NodesInv' /\ FreeUnits(regions') = units /\ (Sized(regions') => ListInv')
  <2>1. NodesOf(regions') = NodesOf(regions) \cup {node} /\ FreeUnits(regions') = units
    BY <1>n DEF ListOf
  <2>2. NodesInv'
    BY <1>0, <1>2, <1>3, <2>1 DEF NodesInv
  <2> QED
    BY <1>n, <2>1, <2>2 DEF ListInv
<1>4. ASSUME NEW i \in 0..Len(regions), NEW a \in Nat, NEW n \in 1..SizeMax,
             DeallocWaits(i, a, n), status = "live"
      PROVE  Kept
  <2> DEFINE U == UnitsFrom(a, n)
  <2>1. /\ InTransit = U /\ InTransit' = {}
        /\ held' = held /\ answer' = answer /\ answer = NoAnswer
        /\ pending' = NoInsert /\ status' = status
        /\ PendingInv'
        /\ \A list : Cut(list) = list
    BY <1>1, <1>4, DeallocReturns
  <2>2. regions' = InsertAfter(regions, i, node, a, n) /\ FitsGap(regions, i, a, n)
    BY <1>2, <1>4, <2>1 DEF DeallocWaits, Insertion
  <2>3. n \in Nat \ {0}
    BY ConstantFacts
  <2>4. ListOf(regions', Nodes, NodesOf(regions) \cup {node}, FreeUnits(regions) \cup U)
    BY <1>0, <1>3, <2>2, <2>3, InsertFacts
  <2>5. Sized(regions')
    BY <1>0, <1>3, <2>2, InsertSized
  <2> HIDE DEF U
  <2>6. /\ FreeUnits(regions') = FreeUnits(regions) \cup U
        /\ NodesInv' /\ ListInv'
    BY <1>n, <2>4, <2>5
  <2>7. UnitsInv'
    BY <1>1, <2>1, <2>6 DEF IInv, UnitsInv, Apart, Together
  <2>8. Contract!Housekeeping
    BY <2>1, <2>6 DEF Contract!Housekeeping, IInv, UnitsInv, Apart
  <2> QED
    BY <2>1, <2>6, <2>7, <2>8 DEF IInv, Kept, ContractStep, Contract!Next
<1>5. ASSUME NEW i \in 1..Len(regions), NEW skip \in 1..SizeMax,
             NEW rest \in 1..SizeMax, NEW align \in Aligns \ {0},
             NEW offset \in AlignOffsets, NEW size \in AllocSizes,
             AlignWaits(i, skip, rest, align, offset, size), status = "live"
      PROVE  Kept
  <2> DEFINE at == regions[i].start + skip
             U  == UnitsFrom(at, size)
  <2>1. /\ skip \in Nat \ {0} /\ size \in Nat /\ rest \in Nat \ {0}
        /\ skip + size < regions[i].size
        /\ rest = TailSize(regions[i], skip, size)
    <3> DEFINE m == regions[i].size
    <3>1. /\ m \in Nat /\ size \in Nat /\ SizeMax \in Nat
          /\ skip + size + rest = m
      BY <1>5, RegionFacts, ConstantFacts DEF AlignWaits
    <3> HIDE DEF m
    <3>2. /\ skip \in Nat \ {0} /\ size \in Nat /\ rest \in Nat \ {0}
          /\ skip + size < m /\ rest = m - (skip + size)
      BY <3>1
    <3> QED
      BY <3>2 DEF m, TailSize
  <2>2. /\ pending.call = "OffsetAlign" /\ pending.before = i
        /\ pending.start = at + size /\ pending.size = rest
        /\ pending.skip = skip
    BY <1>5 DEF AlignWaits, Insertion
  <2>3. regions' = InsertAfter(Shrink(regions, i, skip), i, node, at + size, rest)
    BY <1>2, <2>2 DEF Cut
  <2>4. ListOf(regions', Nodes, NodesOf(regions) \cup {node}, FreeUnits(regions) \ U)
    BY <1>0, <1>3, <2>1, <2>3, CarveFacts
  <2>5. FreeUnits(regions') = FreeUnits(regions) \ U
    BY <1>n, <2>4
  <2>6. Sized(regions')
    <3> DEFINE cut == Shrink(regions, i, skip)
    <3>1. skip <= regions[i].size
      BY <2>1, RegionFacts
    <3>2. cut \in ListType(Nodes) /\ Len(cut) = Len(regions) /\ Sized(cut)
      BY <1>0, <2>1, <3>1, ShrinkFacts, ShrinkSized
    <3>3. at + size \in Nat
      BY <2>1, RegionFacts
    <3> HIDE DEF cut, at
    <3>4. i \in 0..Len(cut)
      BY <1>0, <3>2
    <3>5. Sized(InsertAfter(cut, i, node, at + size, rest))
      BY <1>3, <3>2, <3>3, <3>4, InsertSized
    <3> QED
      BY <2>3, <3>5 DEF cut
  <2> HIDE DEF U
  <2>7. /\ InTransit = {} /\ InTransit' = {}
        /\ held' = held \cup U
        /\ pending' = NoInsert /\ status' = status
        /\ answer' \in Contract!Answers
        /\ PendingInv'
        /\ U \subseteq FreeUnits(regions)
        /\ Contract!Grant
    <3> HIDE DEF at
    <3>1. at = regions[i].start + skip
      BY DEF at
    <3>2. FreeUnits(regions') \subseteq FreeUnits(regions) \ UnitsFrom(at, size)
      BY <2>5 DEF U
    <3> QED
      BY <1>1, <1>5, <3>1, <3>2, AlignReturns DEF U
  <2>8. UnitsInv'
    BY <1>1, <2>5, <2>7 DEF IInv, UnitsInv, Apart, Together
  <2>9. ListInv' /\ NodesInv'
    BY <1>n, <2>4, <2>6
  <2> QED
    BY <2>7, <2>8, <2>9 DEF IInv, Kept, ContractStep, Contract!Next
<1> QED
  BY <1>1, <1>4, <1>5 DEF IInv, PendingInv

LEMMA HandlerGivesUpKept ==
    ASSUME IInv, HandlerGivesUp
    PROVE  Kept
<1>0. /\ regions \in ListType(Nodes) /\ Ordered(regions)
      /\ DistinctNodes(regions) /\ Sized(regions) /\ Len(regions) \in Nat
  BY ListFacts
<1>1. /\ pending # NoInsert /\ Return /\ spare' = spare
      /\ regions' = Cut(regions)
      /\ dropped' = dropped \cup UnitsFrom(pending.start, pending.size)
  BY DEF HandlerGivesUp
<1>4. ASSUME NEW i \in 0..Len(regions), NEW a \in Nat, NEW n \in 1..SizeMax,
             DeallocWaits(i, a, n), status = "live"
      PROVE  Kept
  <2> DEFINE U == UnitsFrom(a, n)
  <2>1. /\ InTransit = U /\ InTransit' = {}
        /\ held' = held /\ answer' = answer /\ answer = NoAnswer
        /\ pending' = NoInsert /\ status' = status
        /\ PendingInv'
        /\ \A list : Cut(list) = list
    BY <1>1, <1>4, DeallocReturns
  <2>2. regions' = regions /\ dropped' = dropped \cup U
    BY <1>1, <1>4, <2>1 DEF DeallocWaits, Insertion
  <2> HIDE DEF U
  <2>3. ListInv' /\ NodesInv'
    BY <1>1, <2>2 DEF IInv, ListInv, NodesInv
  <2>4. UnitsInv'
    BY <2>1, <2>2 DEF IInv, UnitsInv, Apart, Together
  <2>5. UNCHANGED Contract!vars
    BY <2>1, <2>2 DEF Contract!vars
  <2> QED
    BY <2>1, <2>3, <2>4, <2>5 DEF IInv, Kept, ContractStep
<1>5. ASSUME NEW i \in 1..Len(regions), NEW skip \in 1..SizeMax,
             NEW rest \in 1..SizeMax, NEW align \in Aligns \ {0},
             NEW offset \in AlignOffsets, NEW size \in AllocSizes,
             AlignWaits(i, skip, rest, align, offset, size), status = "live"
      PROVE  Kept
  <2> DEFINE at == regions[i].start + skip
             U  == UnitsFrom(at, size)
             V  == UnitsFrom(at + size, rest)
             m  == regions[i].size
  <2>1. /\ skip \in Nat \ {0} /\ size \in Nat /\ rest \in Nat
        /\ skip <= m /\ m - skip = size + rest /\ at \in Nat
    <3>1. /\ m \in Nat /\ size \in Nat /\ SizeMax \in Nat
          /\ skip + size + rest = m /\ at \in Nat
      <4>1. regions[i].start \in Nat /\ m \in Nat
        BY <1>5, RegionFacts
      <4>2. size \in Nat /\ SizeMax \in Nat
        BY ConstantFacts
      <4>3. skip + size + rest = m
        BY <1>5 DEF AlignWaits
      <4>4. at \in Nat
        BY <4>1
      <4> QED
        BY <4>1, <4>2, <4>3, <4>4
    <3> HIDE DEF m, at
    <3> QED
      BY <3>1
  <2>2. /\ pending.call = "OffsetAlign" /\ pending.before = i
        /\ pending.start = at + size /\ pending.size = rest
        /\ pending.skip = skip
    BY <1>5 DEF AlignWaits, Insertion
  <2>3. regions' = Shrink(regions, i, skip) /\ dropped' = dropped \cup V
    BY <1>1, <2>2 DEF Cut
  <2>4. /\ ListOf(regions', Nodes, NodesOf(regions), FreeUnits(regions'))
        /\ FreeUnits(regions') = FreeUnits(regions) \ UnitsFrom(at, m - skip)
    BY <1>0, <2>1, <2>3, ShrinkFacts DEF ListOf
  <2>5. UnitsFrom(at, m - skip) = U \cup V /\ U \cap V = {}
    <3> HIDE DEF at
    <3>1. /\ UnitsFrom(at, size + rest) = U \cup V /\ U \cap V = {}
      BY <2>1, IntervalFacts
    <3> QED
      BY <2>1, <3>1
  <2>6. Sized(regions')
    BY <1>0, <2>1, <2>3, ShrinkSized
  <2> HIDE DEF U, V, at, m
  <2>7. /\ InTransit = {} /\ InTransit' = {}
        /\ held' = held \cup U
        /\ pending' = NoInsert /\ status' = status
        /\ answer' \in Contract!Answers
        /\ PendingInv'
        /\ U \subseteq FreeUnits(regions)
        /\ V \subseteq FreeUnits(regions)
        /\ Contract!Grant
    <3>1. at = regions[i].start + skip
      BY DEF at
    <3>2. FreeUnits(regions') \subseteq FreeUnits(regions) \ UnitsFrom(at, size)
      BY <2>4, <2>5 DEF U
    <3> QED
      BY <1>1, <1>5, <3>1, <3>2, AlignReturns DEF U, V
  <2>8. UnitsInv'
    BY <2>3, <2>4, <2>5, <2>7 DEF IInv, UnitsInv, Apart, Together
  <2>9. ListInv' /\ NodesInv'
    BY <1>1, <2>4, <2>6 DEF ListInv, NodesInv, IInv, ListOf
  <2> QED
    BY <2>7, <2>8, <2>9 DEF IInv, Kept, ContractStep, Contract!Next
<1> QED
  BY <1>1, <1>4, <1>5 DEF IInv, PendingInv

-----------------------------------------------------------------------------
(* The destructor.                                                         *)

LEMMA DestroyKept ==
    ASSUME IInv, Destroy
    PROVE  Kept
<1>1. /\ UNCHANGED <<regions, spare, pending, held, dropped, answer>>
      /\ status' = "destroying" /\ pending = NoInsert
  BY DEF Destroy, Idle
<1>2. InTransit' = InTransit
  BY <1>1 DEF InTransit
<1>3. ListInv' /\ NodesInv' /\ UnitsInv' /\ PendingInv'
  BY <1>1, <1>2 DEF IInv, ListInv, NodesInv, UnitsInv, PendingInv
<1> QED
  BY <1>1, <1>3 DEF Kept, IInv, ContractStep, Contract!vars

LEMMA TailIsRemove ==
    ASSUME NEW S, NEW s \in Seq(S), s # <<>>
    PROVE  1 \in 1..Len(s) /\ Tail(s) = RemoveAt(s, 1)
<1>1. Len(s) \in Nat /\ Len(s) # 0
  BY LenProperties, EmptySeq
<1>2. /\ Tail(s) \in Seq(S) /\ Len(Tail(s)) = Len(s) - 1
      /\ \A j \in 1..(Len(s) - 1) : Tail(s)[j] = s[j + 1]
  BY <1>1, HeadTailProperties
<1>3. 1 \in 1..Len(s)
  BY <1>1
<1>4. /\ RemoveAt(s, 1) \in Seq(S)
      /\ Len(RemoveAt(s, 1)) = Len(s) - 1
      /\ \A j \in 1..(Len(s) - 1) :
            RemoveAt(s, 1)[j] = IF j < 1 THEN s[j] ELSE s[j + 1]
  BY <1>3, RemoveAtFacts
<1>5. \A j \in 1..Len(Tail(s)) : Tail(s)[j] = RemoveAt(s, 1)[j]
  BY <1>1, <1>2, <1>4
<1>6. Tail(s) = RemoveAt(s, 1)
  BY <1>2, <1>4, <1>5, SeqEqual
<1> QED
  BY <1>3, <1>6

LEMMA DestroyFirstRegionKept ==
    ASSUME IInv, DestroyFirstRegion
    PROVE  Kept
<1>1. /\ status = "destroying" /\ regions # <<>>
      /\ regions' = Tail(regions)
      /\ spare' = spare \cup {regions[1].node}
      /\ UNCHANGED <<pending, held, dropped, answer, status>>
  BY DEF DestroyFirstRegion, ReturnNode
<1>2. /\ regions \in ListType(Nodes) /\ Ordered(regions)
      /\ DistinctNodes(regions) /\ Sized(regions)
      /\ NodesOf(regions) \cup spare = Nodes /\ NodesOf(regions) \cap spare = {}
  BY ListFacts DEF IInv, NodesInv
<1>3. 1 \in 1..Len(regions) /\ regions' = RemoveAt(regions, 1)
  BY <1>1, <1>2, TailIsRemove DEF ListType
<1>4. regions[1].node \in NodesOf(regions)
  BY <1>3, RegionFacts
<1>5. /\ ListOf(regions', Nodes, NodesOf(regions) \ {regions[1].node},
                FreeUnits(regions) \ Span(regions[1]))
      /\ Sized(regions')
  BY <1>2, <1>3, RemoveFacts, RemoveSized
<1>6. /\ NodesOf(regions') = NodesOf(regions) \ {regions[1].node}
      /\ FreeUnits(regions') \subseteq FreeUnits(regions)
  BY <1>5 DEF ListOf
<1>7. ListInv'
  BY <1>5, <1>6 DEF ListInv, ListOf
<1>8. NodesInv'
  BY <1>1, <1>2, <1>4, <1>6 DEF NodesInv
<1>9. UnitsInv'
  <2>1. InTransit' = InTransit
    BY <1>1 DEF InTransit
  <2> QED
    BY <1>1, <1>6, <2>1 DEF IInv, UnitsInv, Apart, Together
<1>10. PendingInv'
  BY <1>1 DEF IInv, PendingInv
<1>11. Contract!Housekeeping
  BY <1>1, <1>6 DEF Contract!Housekeeping, IInv, UnitsInv, Apart
<1> QED
  BY <1>1, <1>7, <1>8, <1>9, <1>10, <1>11
  DEF Kept, IInv, ContractStep, Contract!Next

LEMMA StutterKept ==
    ASSUME IInv, UNCHANGED vars
    PROVE  Kept
<1>1. InTransit' = InTransit
  BY DEF InTransit, vars
<1>2. ListInv' /\ NodesInv' /\ UnitsInv' /\ PendingInv'
  <2>1. ListInv' /\ NodesInv'
    BY DEF IInv, ListInv, NodesInv, vars
  <2>2. UnitsInv'
    BY <1>1 DEF IInv, UnitsInv, vars
  <2>3. PendingInv'
    <3>1. /\ pending' = pending /\ status' = status
          /\ regions' = regions /\ answer' = answer
      BY DEF vars
    <3>2. \A i, a, n : DeallocWaits(i, a, n)' = DeallocWaits(i, a, n)
      BY <3>1 DEF DeallocWaits
    <3>3. \A i, skip, rest, align, offset, size :
            AlignWaits(i, skip, rest, align, offset, size)'
                = AlignWaits(i, skip, rest, align, offset, size)
      BY <3>1 DEF AlignWaits
    <3>4. PendingInv
      BY DEF IInv
    <3> QED
      BY <3>1, <3>2, <3>3, <3>4 DEF PendingInv
  <2> QED
    BY <2>1, <2>2, <2>3
<1> QED
  BY <1>2 DEF Kept, IInv, ContractStep, Contract!vars, vars

-----------------------------------------------------------------------------
(* The theorems.                                                           *)

LEMMA NextKept ==
    ASSUME IInv, [Next]_vars
    PROVE  Kept
<1>1. CASE \E size \in AllocSizes : Alloc(size)
  BY <1>1, AllocKept
<1>2. CASE \E align \in Aligns, offset \in AlignOffsets, size \in AllocSizes :
              OffsetAlign(align, offset, size)
  BY <1>2, OffsetAlignKept
<1>3. CASE \E address \in Units, size \in 0..SizeMax : Dealloc(address, size)
  BY <1>3, DeallocKept
<1>4. CASE NodeObtained
  BY <1>4, NodeObtainedKept
<1>5. CASE HandlerGivesUp
  BY <1>5, HandlerGivesUpKept
<1>6. CASE Destroy
  BY <1>6, DestroyKept
<1>7. CASE DestroyFirstRegion
  BY <1>7, DestroyFirstRegionKept
<1>8. CASE UNCHANGED vars
  BY <1>8, StutterKept
<1> QED
  BY <1>1, <1>2, <1>3, <1>4, <1>5, <1>6, <1>7, <1>8 DEF Next

LEMMA Invariance == Spec => []IInv
<1>1. IInv /\ [Next]_vars => IInv'
  BY NextKept DEF Kept
<1> QED
  BY InitInvariant, <1>1, PTL DEF Spec

\* Dealloc's search for its neighbours may rely on the order of the list,
\* whatever the order of the frees and however InsertAfter ended.
THEOREM RegionsOrderedTheorem == Spec => []RegionsOrdered
<1>1. IInv => RegionsOrdered
  BY DEF IInv, ListInv, ListOf, RegionsOrdered
<1> QED
  BY Invariance, <1>1, PTL

\* No unit is lost or in two places, whatever is asked, freed or dropped.
THEOREM UnitsConservedTheorem == Spec => []UnitsConserved
<1>1. IInv => UnitsConserved
  BY DEF IInv, UnitsInv, Apart, Together, UnitsConserved
<1> QED
  BY Invariance, <1>1, PTL

\* The structures in the list are those the external allocator is missing.
THEOREM NodesConservedTheorem == Spec => []NodesConserved
<1>1. IInv => NodesConserved
  BY DEF IInv, ListInv, ListOf, NodesInv, NodesConserved
<1> QED
  BY Invariance, <1>1, PTL

\* No region is empty or larger than SizeType can say, and no address leaves
\* the address space, with the locals of a call in InsertAfter as well.
THEOREM TypeTheorem == Spec => []TypeOK
<1>1. ASSUME IInv PROVE TypeOK
  <2>1. regions \in Seq(RegionType(Nodes, Units))
    <3>1. \A i \in 1..Len(regions) : regions[i] \in RegionType(Nodes, Units)
      <4> SUFFICES ASSUME NEW i \in 1..Len(regions)
                   PROVE  regions[i] \in RegionType(Nodes, Units)
        OBVIOUS
      <4>1. /\ regions[i].node \in Nodes /\ regions[i].start \in Units
            /\ regions[i].size \in 1..SizeMax
        BY <1>1, RegionFacts, ConstantFacts
      <4>2. regions[i] \in [node : Nodes, start : Nat, size : Nat \ {0}]
        BY <1>1, ListFacts, ListTypeFacts
      <4> QED
        BY <4>1, <4>2 DEF RegionType
    <3>2. regions \in Seq([node : Nodes, start : Nat, size : Nat \ {0}])
      BY <1>1, ListFacts DEF ListType
    <3> QED
      BY <3>1, <3>2, SeqByElements
  <2>2. spare \subseteq Nodes /\ held \subseteq Units /\ dropped \subseteq Units
    BY <1>1 DEF IInv, NodesInv, UnitsInv, Together
  <2>3. pending \in [call : {"none", "OffsetAlign", "Dealloc"},
                     before : 0..Len(regions),
                     start : Units, size : 0..SizeMax, skip : 0..SizeMax,
                     reply : Contract!Answers]
    <3>0. /\ Len(regions) \in Nat /\ 0 \in Units /\ SizeMax \in Nat
          /\ NoAnswer \in Contract!Answers
      BY <1>1, ListFacts, ConstantFacts, AnswerType DEF Units
    <3>1. CASE pending = NoInsert
      BY <3>0, <3>1 DEF NoInsert, Insertion
    <3>2. ASSUME NEW i \in 0..Len(regions), NEW a \in Nat, NEW n \in 1..SizeMax,
                 DeallocWaits(i, a, n)
          PROVE  pending \in [call : {"none", "OffsetAlign", "Dealloc"},
                              before : 0..Len(regions),
                              start : Units, size : 0..SizeMax,
                              skip : 0..SizeMax, reply : Contract!Answers]
      <4>1. pending = Insertion("Dealloc", i, a, n, 0, NoAnswer)
        BY <3>2 DEF DeallocWaits
      <4>2. InTransit = UnitsFrom(a, n)
        BY <4>1 DEF InTransit, Insertion
      <4>3. a \in Units
        <5>1. UnitsFrom(a, n) \subseteq Units
          BY <1>1, <4>2 DEF IInv, UnitsInv, Together
        <5>2. n \in Nat \ {0}
          BY <3>0
        <5> QED
          BY <5>1, <5>2, RangeInSpace
      <4> QED
        BY <3>0, <4>1, <4>3 DEF Insertion
    <3>3. ASSUME NEW i \in 1..Len(regions), NEW skip \in 1..SizeMax,
                 NEW rest \in 1..SizeMax, NEW align \in Aligns \ {0},
                 NEW offset \in AlignOffsets, NEW size \in AllocSizes,
                 AlignWaits(i, skip, rest, align, offset, size)
          PROVE  pending \in [call : {"none", "OffsetAlign", "Dealloc"},
                              before : 0..Len(regions),
                              start : Units, size : 0..SizeMax,
                              skip : 0..SizeMax, reply : Contract!Answers]
      <4> DEFINE at == regions[i].start + skip
      <4>1. pending = Insertion("OffsetAlign", i, at + size, rest, skip,
                                Answered(TRUE, at, align, offset, size))
        BY <3>3 DEF AlignWaits
      <4>2. at \in Units /\ at + size \in Units
        <5> DEFINE a == regions[i].start
                   m == regions[i].size
        <5>1. /\ a \in Nat /\ m \in Nat /\ a + m <= AddressSpan
              /\ size \in Nat /\ skip + size + rest = m
              /\ AddressSpan \in Nat /\ at = a + skip
          BY <1>1, <3>3, RegionFacts, ConstantFacts DEF AlignWaits
        <5> HIDE DEF a, m, at
        <5>2. at \in 0..(AddressSpan - 1) /\ at + size \in 0..(AddressSpan - 1)
          BY <3>0, <5>1
        <5> QED
          BY <5>2 DEF Units
      <4> HIDE DEF at
      <4>3. Answered(TRUE, at, align, offset, size) \in Contract!Answers
        BY <4>2, AnswerType
      <4>4. /\ i \in 0..Len(regions) /\ rest \in 0..SizeMax /\ skip \in 0..SizeMax
        BY <3>0
      <4> DEFINE from == at + size
                 reply == Answered(TRUE, at, align, offset, size)
      <4> HIDE DEF from, reply
      <4>5. from \in Units /\ reply \in Contract!Answers
            /\ pending = Insertion("OffsetAlign", i, from, rest, skip, reply)
        BY <4>1, <4>2, <4>3 DEF from, reply
      <4> QED
        BY <4>4, <4>5 DEF Insertion
    <3> QED
      BY <1>1, <3>1, <3>2, <3>3 DEF IInv, PendingInv
  <2> QED
    BY <1>1, <2>1, <2>2, <2>3 DEF IInv, TypeOK
<1> QED
  BY Invariance, <1>1, PTL

\* FreeList implements the contract of an OffsetAligner: no answer of Alloc or
\* OffsetAlign names a unit that is not free or an address that is not
\* aligned, and nothing but the client's calls changes what the client holds.
THEOREM ContractTheorem == Spec => FreeListContract
<1>1. Init => Contract!Init
  BY DEF Init, Contract!Init, FreeUnits, NoAnswer, Answered,
         Contract!NoAnswer, Contract!Answered
<1>2. IInv /\ [Next]_vars => [Contract!Next]_(Contract!vars)
  BY NextKept DEF Kept, ContractStep
<1> QED
  BY Invariance, <1>1, <1>2, PTL DEF Spec, FreeListContract, Contract!Spec

-----------------------------------------------------------------------------
(* What the searches answer.                                               *)

SearchStep ==
    LET fits(a) == Usable(regions, a, answer'.align, answer'.offset, answer'.size)
    IN  /\ held' # held /\ answer'.ok =>
             fits(answer'.address) /\ \A a \in 0..(answer'.address - 1) : ~ fits(a)
        /\ answer' # answer /\ ~ answer'.ok /\ answer'.size > 0 =>
             \A a \in Units : ~ fits(a)

\* What the searches rely on.
LEMMA SearchFacts ==
    ASSUME IInv
    PROVE  /\ regions \in ListType(Nodes) /\ Ordered(regions) /\ Sized(regions)
           /\ \A j \in 1..Len(regions) : End(regions[j]) <= AddressSpan
  BY ListFacts, RegionFacts

\* A call that takes the first region that fits has the lowest address.
LEMMA GrantSearch ==
    ASSUME IInv, NEW align \in Nat \ {0}, AddressSpan % align = 0,
           NEW offset \in Nat, NEW size \in Nat, NEW i,
           FirstAligned(regions, align, offset, size, i),
           NEW at, at = AlignedAddress(regions[i],
                                       Compensation(regions[i], align, offset)),
           Give(at, align, offset, size)
    PROVE  SearchStep
<1>1. /\ answer'.ok /\ answer'.address = at /\ answer'.align = align
      /\ answer'.offset = offset /\ answer'.size = size
      /\ held' = held \cup UnitsFrom(at, size)
  BY DEF Give, Answered
<1>2. CASE size = 0
  <2>1. UnitsFrom(at, size) = {}
    <3>1. i \in 1..Len(regions)
      BY ListFacts DEF FirstAligned
    <3>2. at \in Int
      <4>1. /\ regions[i].start \in Nat /\ regions[i].size \in Nat
            /\ End(regions[i]) <= AddressSpan
            /\ AlignedFits(regions[i], align, offset, size)
        BY <3>1, RegionFacts DEF FirstAligned
      <4>2. at \in 0..(AddressSpan - 1)
        BY <4>1, AlignedPart, SMTT(30)
      <4> QED
        BY <4>2, ConstantFacts
    <3> QED
      BY <1>2, <3>2 DEF UnitsFrom
  <2> QED
    BY <1>1, <2>1 DEF SearchStep
<1>3. CASE size # 0
  <2>1. size \in Nat \ {0}
    BY <1>3
  <2>2. /\ Usable(regions, at, align, offset, size)
        /\ \A a \in 0..(at - 1) : ~ Usable(regions, a, align, offset, size)
    BY <2>1, SearchFacts, FirstIsLowest
  <2> QED
    BY <1>1, <2>2 DEF SearchStep
<1> QED
  BY <1>2, <1>3

\* A call that finds no region that fits is refused rightly.
LEMMA DenySearch ==
    ASSUME IInv, NEW align \in Nat \ {0}, AddressSpan % align = 0,
           NEW offset \in Nat, NEW size \in Nat,
           NoAlignedFit(regions, align, offset, size),
           Deny(align, offset, size)
    PROVE  SearchStep
<1>1. /\ ~ answer'.ok /\ answer'.align = align
      /\ answer'.offset = offset /\ answer'.size = size
  BY DEF Deny, Answered
<1>2. ASSUME size > 0, NEW a \in Units
      PROVE  ~ Usable(regions, a, align, offset, size)
  <2>1. size \in Nat \ {0} /\ a \in Nat
    BY <1>2 DEF Units
  <2> QED
    BY <2>1, SearchFacts, NoneUsable
<1> QED
  BY <1>1, <1>2 DEF SearchStep

LEMMA OneDivides ==
    /\ 1 \in Nat \ {0} /\ AddressSpan % 1 = 0 /\ 0 \in Nat
  BY WidthAssumption

LEMMA AllocSearch ==
    ASSUME IInv, NEW size \in AllocSizes, Alloc(size)
    PROVE  SearchStep
<1>0. size \in Nat
  BY ConstantFacts
<1>1. \A j \in 1..Len(regions) :
         /\ Compensation(regions[j], 1, 0) = 0
         /\ Fits(regions[j], size) <=> AlignedFits(regions[j], 1, 0, size)
         /\ AlignedAddress(regions[j], 0) = regions[j].start
  <2> TAKE j \in 1..Len(regions)
  <2>1. /\ regions[j].start \in Nat /\ regions[j].size \in Nat
        /\ regions[j].size <= SizeMax /\ regions[j].start \in Units
    BY RegionFacts
  <2>2. /\ Compensation(regions[j], 1, 0) = 0
        /\ Fits(regions[j], size) <=> AlignedFits(regions[j], 1, 0, size)
    BY <1>0, <2>1, FirstFitIsAligned
  <2>3. AlignedAddress(regions[j], 0) = regions[j].start
    <3> DEFINE s == regions[j].start
    <3>1. s \in 0..(AddressSpan - 1) /\ AddressSpan \in Nat \ {0}
      BY <2>1, ConstantFacts DEF Units
    <3> HIDE DEF s
    <3>2. (s + 0) % AddressSpan = s
      BY <3>1
    <3> QED
      BY <3>2 DEF AlignedAddress, s
  <2> QED
    BY <2>2, <2>3
<1>2. DOMAIN regions = 1..Len(regions) /\ Len(regions) \in Nat
  BY ListFacts
<1>3. ASSUME NoFit(regions, size), Deny(1, 0, size)
      PROVE  SearchStep
  <2>1. NoAlignedFit(regions, 1, 0, size)
    BY <1>1, <1>2, <1>3 DEF NoFit, NoAlignedFit
  <2> QED
    BY <1>0, <1>3, <2>1, OneDivides, DenySearch
<1>4. ASSUME NEW i \in DOMAIN regions, FirstFit(regions, size, i),
             Give(regions[i].start, 1, 0, size)
      PROVE  SearchStep
  <2>1. FirstAligned(regions, 1, 0, size, i)
    <3>1. i \in 1..Len(regions) /\ \A j \in 1..(i - 1) : j \in 1..Len(regions)
      BY <1>2
    <3> QED
      BY <1>1, <1>4, <3>1 DEF FirstFit, FirstAligned
  <2>2. regions[i].start = AlignedAddress(regions[i],
                                          Compensation(regions[i], 1, 0))
    BY <1>1, <1>2
  <2> QED
    BY <1>0, <1>4, <2>1, <2>2, OneDivides, GrantSearch
<1> QED
  BY <1>3, <1>4 DEF Alloc

LEMMA OffsetAlignSearch ==
    ASSUME IInv, NEW align \in Aligns, NEW offset \in AlignOffsets,
           NEW size \in AllocSizes, OffsetAlign(align, offset, size)
    PROVE  SearchStep
<1>0. size \in Nat /\ offset \in Nat /\ align \in Nat
  BY ConstantFacts
<1>1. ASSUME DivideByZero PROVE SearchStep
  BY <1>1 DEF DivideByZero, SearchStep
<1>2. ASSUME align # 0, NEW i \in DOMAIN regions,
             FirstAligned(regions, align, offset, size, i),
             \/ AlignHead(i, align, offset, size)
             \/ AlignTail(i, align, offset, size)
             \/ AlignMiddle(i, align, offset, size)
      PROVE  SearchStep
  <2> DEFINE skip == Compensation(regions[i], align, offset)
             at   == AlignedAddress(regions[i], skip)
  <2>1. align \in Nat \ {0} /\ AddressSpan % align = 0
    BY <1>0, <1>2, ConstantFacts
  <2>2. ASSUME Give(at, align, offset, size)
        PROVE  SearchStep
    BY <1>0, <1>2, <2>1, <2>2, GrantSearch
  <2>3. ASSUME AlignHead(i, align, offset, size)
        PROVE  SearchStep
    <3>1. skip = 0 /\ Give(regions[i].start, align, offset, size)
      BY <2>3 DEF AlignHead
    <3>2. at = regions[i].start
      <4> DEFINE s == regions[i].start
      <4>1. s \in 0..(AddressSpan - 1) /\ AddressSpan \in Nat \ {0}
        BY <1>2, ListFacts, RegionFacts, ConstantFacts DEF Units
      <4> HIDE DEF s
      <4>2. (s + 0) % AddressSpan = s
        BY <4>1
      <4> QED
        BY <3>1, <4>2 DEF AlignedAddress, s
    <3> QED
      BY <2>2, <3>1, <3>2
  <2>4. ASSUME AlignTail(i, align, offset, size)
        PROVE  SearchStep
    BY <2>2, <2>4 DEF AlignTail
  <2>5. ASSUME AlignMiddle(i, align, offset, size)
        PROVE  SearchStep
    BY <2>5 DEF AlignMiddle, SearchStep
  <2> QED
    BY <1>2, <2>3, <2>4, <2>5
<1>3. ASSUME align # 0 \/ regions = <<>>,
             NoAlignedFit(regions, align, offset, size),
             Deny(align, offset, size)
      PROVE  SearchStep
  <2>1. CASE align # 0
    BY <1>0, <1>3, <2>1, ConstantFacts, DenySearch
  <2>2. CASE regions = <<>>
    <3>1. FreeUnits(regions) = {}
      BY <2>2 DEF FreeUnits
    <3>2. ASSUME size > 0, NEW a \in Units
          PROVE  ~ Usable(regions, a, align, offset, size)
      <4>1. a \in UnitsFrom(a, size)
        BY <1>0, <3>2 DEF UnitsFrom, Units
      <4> QED
        BY <3>1, <4>1 DEF Usable
    <3>3. /\ ~ answer'.ok /\ answer'.align = align
          /\ answer'.offset = offset /\ answer'.size = size
      BY <1>3 DEF Deny, Answered
    <3> QED
      BY <3>2, <3>3 DEF SearchStep
  <2> QED
    BY <1>3, <2>1, <2>2
<1> QED
  BY <1>1, <1>2, <1>3 DEF OffsetAlign

\* The answer of a call that leaves InsertAfter is the one it went in with,
\* and the list has not changed in between.
LEMMA ReturnSearch ==
    ASSUME IInv, pending # NoInsert, Return
    PROVE  SearchStep
<1>1. ASSUME NEW i \in 0..Len(regions), NEW a \in Nat, NEW n \in 1..SizeMax,
             DeallocWaits(i, a, n), status = "live"
      PROVE  SearchStep
  <2>1. held' = held /\ answer' = answer
    BY <1>1, DeallocReturns
  <2> QED
    BY <2>1 DEF SearchStep
<1>2. ASSUME NEW i \in 1..Len(regions), NEW skip \in 1..SizeMax,
             NEW rest \in 1..SizeMax, NEW align \in Aligns \ {0},
             NEW offset \in AlignOffsets, NEW size \in AllocSizes,
             AlignWaits(i, skip, rest, align, offset, size)
      PROVE  SearchStep
  <2> DEFINE at == regions[i].start + skip
  <2>1. /\ FirstAligned(regions, align, offset, size, i)
        /\ skip = Compensation(regions[i], align, offset)
        /\ skip + size + rest = regions[i].size
        /\ pending.reply = Answered(TRUE, at, align, offset, size)
    BY <1>2 DEF AlignWaits, Insertion
  <2>2. Give(at, align, offset, size)
    <3>1. pending.reply.address = at /\ pending.reply.size = size
      BY <2>1 DEF Answered
    <3> QED
      BY <2>1, <3>1 DEF Return, Give
  <2>3. /\ align \in Nat \ {0} /\ AddressSpan % align = 0
        /\ offset \in Nat /\ size \in Nat
    BY ConstantFacts
  <2>4. at = AlignedAddress(regions[i], skip)
    <3> DEFINE s == regions[i].start
               m == regions[i].size
    <3>1. /\ s \in Nat /\ m \in Nat /\ s + m <= AddressSpan
          /\ AddressSpan \in Nat \ {0} /\ at = s + skip
          /\ skip + size + rest = m /\ SizeMax \in Nat /\ size \in Nat
      BY <2>1, <2>3, RegionFacts, ConstantFacts
    <3> HIDE DEF s, m, at
    <3>2. at \in 0..(AddressSpan - 1)
      BY <3>1
    <3>3. at % AddressSpan = at
      BY <3>1, <3>2
    <3> QED
      BY <3>1, <3>3 DEF AlignedAddress, s
  <2> HIDE DEF at
  <2> QED
    BY <2>1, <2>2, <2>3, <2>4, GrantSearch
<1> QED
  BY <1>1, <1>2 DEF IInv, PendingInv

LEMMA NextSearch ==
    ASSUME IInv, [Next]_vars
    PROVE  [SearchStep]_vars
<1>1. CASE \E size \in AllocSizes : Alloc(size)
  BY <1>1, AllocSearch
<1>2. CASE \E align \in Aligns, offset \in AlignOffsets, size \in AllocSizes :
              OffsetAlign(align, offset, size)
  BY <1>2, OffsetAlignSearch
<1>3. CASE \E address \in Units, size \in 0..SizeMax : Dealloc(address, size)
  <2>1. answer' = NoAnswer
    BY <1>3 DEF Dealloc
  <2>2. ~ answer'.ok /\ answer'.size = 0
    BY <2>1 DEF NoAnswer, Answered
  <2> QED
    BY <2>2 DEF SearchStep
<1>4. CASE NodeObtained \/ HandlerGivesUp
  BY <1>4, ReturnSearch DEF NodeObtained, HandlerGivesUp
<1>5. CASE Destroy \/ DestroyFirstRegion
  <2>1. held' = held /\ answer' = answer
    BY <1>5 DEF Destroy, DestroyFirstRegion
  <2> QED
    BY <2>1 DEF SearchStep
<1> QED
  BY <1>1, <1>2, <1>3, <1>4, <1>5 DEF Next

\* What Alloc and OffsetAlign answer is the lowest address at which the
\* request fits, also when the answer had to wait in InsertAfter, and they are
\* refused only where no free range that no seam interrupts has room.
THEOREM SearchExactTheorem == Spec => SearchExact
<1>1. IInv /\ [Next]_vars => [SearchStep]_vars
  BY NextSearch
<1> QED
  BY Invariance, <1>1, PTL DEF Spec, SearchExact, SearchStep

-----------------------------------------------------------------------------
(* Where regions touch.                                                    *)

SeamStep ==
    Seams(regions') \subseteq
       Seams(regions) \cup
          (IF answer'.ok /\ answer'.size = 0 THEN {answer'.address} ELSE {})

LEMMA NoNewSeam ==
    ASSUME Seams(regions') \subseteq Seams(regions)
    PROVE  SeamStep
  BY DEF SeamStep

LEMMA HeadSeam ==
    ASSUME IInv, NEW i \in 1..Len(regions), NEW size \in Nat,
           size <= regions[i].size, regions' = TakeHead(regions, i, size)
    PROVE  SeamStep
  BY ListFacts, TakeHeadSeams, NoNewSeam

LEMMA AllocSeam ==
    ASSUME IInv, NEW size \in AllocSizes, Alloc(size)
    PROVE  SeamStep
<1>1. CASE Deny(1, 0, size)
  BY <1>1, NoNewSeam DEF Deny
<1>2. ASSUME NEW i \in DOMAIN regions, FirstFit(regions, size, i),
             regions' = TakeHead(regions, i, size)
      PROVE  SeamStep
  <2>1. i \in 1..Len(regions)
    BY ListFacts
  <2>2. size \in Nat /\ size <= regions[i].size
    BY <1>2, <2>1, RegionFacts, ConstantFacts DEF FirstFit, Fits
  <2> QED
    BY <1>2, <2>1, <2>2, HeadSeam
<1> QED
  BY <1>1, <1>2 DEF Alloc

LEMMA OffsetAlignSeam ==
    ASSUME IInv, NEW align \in Aligns, NEW offset \in AlignOffsets,
           NEW size \in AllocSizes, OffsetAlign(align, offset, size)
    PROVE  SeamStep
<1>1. CASE DivideByZero \/ Deny(align, offset, size)
  BY <1>1, NoNewSeam DEF DivideByZero, Deny
<1>2. ASSUME align # 0, NEW i \in DOMAIN regions,
             FirstAligned(regions, align, offset, size, i),
             \/ AlignHead(i, align, offset, size)
             \/ AlignTail(i, align, offset, size)
             \/ AlignMiddle(i, align, offset, size)
      PROVE  SeamStep
  <2> DEFINE skip == Compensation(regions[i], align, offset)
  <2>1. i \in 1..Len(regions) /\ size \in Nat
    BY ListFacts, ConstantFacts
  <2>2. /\ regions[i].start \in Nat /\ regions[i].size \in Nat
        /\ End(regions[i]) <= AddressSpan
        /\ align \in Nat \ {0} /\ offset \in Nat
        /\ AlignedFits(regions[i], align, offset, size)
    BY <1>2, <2>1, RegionFacts, ConstantFacts DEF FirstAligned
  <2>3. skip \in Nat /\ skip + size <= regions[i].size
    BY <2>1, <2>2, AlignedPart
  <2> HIDE DEF skip
  <2>4. CASE AlignHead(i, align, offset, size)
    <3>1. skip = 0 /\ regions' = TakeHead(regions, i, size)
      BY <2>4 DEF AlignHead, skip
    <3>2. size <= regions[i].size
      BY <2>1, <2>3, <3>1
    <3> QED
      BY <2>1, <3>1, <3>2, HeadSeam
  <2>5. CASE AlignTail(i, align, offset, size)
    <3>1. skip # 0 /\ regions' = Shrink(regions, i, skip)
      BY <2>5 DEF AlignTail, skip
    <3>2. skip \in Nat \ {0} /\ skip <= regions[i].size
      <4> DEFINE m == regions[i].size
      <4>1. m \in Nat /\ skip + size <= m
        BY <2>2, <2>3
      <4> HIDE DEF m
      <4>2. skip \in Nat \ {0} /\ skip <= m
        BY <2>1, <2>3, <3>1, <4>1
      <4> QED
        BY <4>2 DEF m
    <3> QED
      BY <2>1, <3>1, <3>2, ListFacts, ShrinkSeams, NoNewSeam
  <2>6. CASE AlignMiddle(i, align, offset, size)
    BY <2>6, NoNewSeam DEF AlignMiddle
  <2> QED
    BY <1>2, <2>4, <2>5, <2>6
<1> QED
  BY <1>1, <1>2 DEF OffsetAlign

\* A Dealloc joins its range with both of its neighbours.
LEMMA DeallocSeam ==
    ASSUME IInv, NEW a \in Units, NEW n \in 0..SizeMax, Dealloc(a, n)
    PROVE  SeamStep
<1>1. CASE UNCHANGED regions
  BY <1>1, NoNewSeam
<1>2. ASSUME n # 0, NEW i \in 0..Len(regions), Before(regions, a, i),
             Merge(i, a, n)
      PROVE  SeamStep
  <2>1. a \in Nat /\ n \in Nat \ {0}
    BY <1>2 DEF Units
  <2>2. regions \in ListType(Nodes) /\ Ordered(regions)
    BY ListFacts
  <2>3. FitsGap(regions, i, a, n)
    <3>1. UnitsFrom(a, n) \cap FreeUnits(regions) = {}
      BY DEF Dealloc, IInv, UnitsInv, Apart
    <3> QED
      BY <1>2, <2>1, <2>2, <3>1, NeighbourFacts
  <2>4. Seams(regions') \subseteq Seams(regions)
    <3>1. CASE /\ TouchesBefore(regions, i, a) /\ TouchesAfter(regions, i, a, n)
               /\ regions' = JoinBoth(regions, i, n)
      BY <2>1, <2>2, <2>3, <3>1, JoinBothSeams
    <3>2. CASE /\ TouchesBefore(regions, i, a) /\ ~ TouchesAfter(regions, i, a, n)
               /\ regions' = GrowBefore(regions, i, n)
      BY <2>1, <2>2, <2>3, <3>2, GrowBeforeSeams
    <3>3. CASE /\ ~ TouchesBefore(regions, i, a) /\ TouchesAfter(regions, i, a, n)
               /\ regions' = GrowAfter(regions, i, n)
      BY <2>1, <2>2, <2>3, <3>3, GrowAfterSeams
    <3> QED
      BY <1>2, <3>1, <3>2, <3>3 DEF Merge
  <2> QED
    BY <2>4, NoNewSeam
<1> QED
  BY <1>1, <1>2 DEF Dealloc, Insert

\* A Dealloc that leaves InsertAfter touches nothing; an OffsetAlign has cut
\* its region in two, and the parts touch only if nothing lies between them.
LEMMA ReturnSeam ==
    ASSUME IInv, NodeObtained \/ HandlerGivesUp
    PROVE  SeamStep
<1>0. /\ regions \in ListType(Nodes) /\ Ordered(regions)
      /\ pending # NoInsert /\ Return /\ spare \subseteq Nodes
  BY ListFacts DEF NodeObtained, HandlerGivesUp, IInv, NodesInv
<1>1. ASSUME NEW i \in 0..Len(regions), NEW a \in Nat, NEW n \in 1..SizeMax,
             DeallocWaits(i, a, n), status = "live"
      PROVE  SeamStep
  <2>1. Cut(regions) = regions
    BY <1>0, <1>1, DeallocReturns
  <2>2. /\ pending.before = i /\ pending.start = a /\ pending.size = n
        /\ FitsGap(regions, i, a, n)
        /\ ~ TouchesBefore(regions, i, a) /\ ~ TouchesAfter(regions, i, a, n)
    BY <1>1 DEF DeallocWaits, Insertion
  <2>3. n \in Nat \ {0}
    BY ConstantFacts
  <2>4. ASSUME NEW node \in spare, regions' = InsertAfter(regions, i, node, a, n)
        PROVE  Seams(regions') \subseteq Seams(regions)
    <3>1. node \in Nodes
      BY <1>0
    <3> QED
      BY <1>0, <2>2, <2>3, <2>4, <3>1, InsertSeams
  <2>5. Seams(regions') \subseteq Seams(regions)
    <3>1. CASE NodeObtained
      BY <2>1, <2>2, <2>4, <3>1 DEF NodeObtained
    <3>2. CASE HandlerGivesUp
      BY <2>1, <3>2 DEF HandlerGivesUp
    <3> QED
      BY <3>1, <3>2
  <2> QED
    BY <2>5, NoNewSeam
<1>2. ASSUME NEW i \in 1..Len(regions), NEW skip \in 1..SizeMax,
             NEW rest \in 1..SizeMax, NEW align \in Aligns \ {0},
             NEW offset \in AlignOffsets, NEW size \in AllocSizes,
             AlignWaits(i, skip, rest, align, offset, size)
      PROVE  SeamStep
  <2> DEFINE at == regions[i].start + skip
  <2>1. /\ pending.before = i /\ pending.start = at + size
        /\ pending.size = rest /\ pending.skip = skip
        /\ pending.call = "OffsetAlign"
        /\ pending.reply = Answered(TRUE, at, align, offset, size)
        /\ skip + size + rest = regions[i].size
    BY <1>2 DEF AlignWaits, Insertion
  <2>2. answer'.ok /\ answer'.address = at /\ answer'.size = size
    BY <1>0, <2>1 DEF Return, Answered
  <2>3. Cut(regions) = Shrink(regions, i, skip)
    BY <2>1 DEF Cut
  <2>4. skip \in Nat \ {0} /\ rest \in Nat \ {0} /\ size \in Nat
    BY ConstantFacts
  <2>5. CASE NodeObtained
    <3>1. PICK node \in spare :
             regions' = InsertAfter(Shrink(regions, i, skip), i, node,
                                    at + size, rest)
      BY <2>1, <2>3, <2>5 DEF NodeObtained
    <3>2. node \in Nodes
      BY <1>0
    <3>3. Seams(regions') \subseteq
             Seams(regions) \cup (IF size = 0 THEN {at} ELSE {})
      BY <1>0, <2>1, <2>4, <3>1, <3>2, CarveSeams
    <3> QED
      BY <2>2, <3>3 DEF SeamStep
  <2>6. CASE HandlerGivesUp
    <3>1. regions' = Shrink(regions, i, skip)
      BY <2>3, <2>6 DEF HandlerGivesUp
    <3>2. skip <= regions[i].size
      <4> DEFINE m == regions[i].size
      <4>1. m = skip + size + rest
        BY <2>1
      <4> HIDE DEF m
      <4>2. skip <= m
        BY <2>4, <4>1
      <4> QED
        BY <4>2 DEF m
    <3> QED
      BY <1>0, <2>4, <3>1, <3>2, ShrinkSeams, NoNewSeam
  <2> QED
    BY <2>5, <2>6
<1> QED
  BY <1>0, <1>1, <1>2 DEF IInv, PendingInv

\* A list that loses its first region gains no seam.
LEMMA DestroySeam ==
    ASSUME IInv, DestroyFirstRegion
    PROVE  SeamStep
<1>1. /\ regions \in ListType(Nodes) /\ Ordered(regions) /\ regions # <<>>
      /\ regions' = Tail(regions)
  BY ListFacts DEF DestroyFirstRegion
<1>2. 1 \in 1..Len(regions) /\ regions' = RemoveAt(regions, 1)
  BY <1>1, TailIsRemove DEF ListType
<1>3. /\ regions' \in ListType(Nodes)
      /\ StartsOf(regions') \subseteq {regions[k].start : k \in 1..Len(regions) \ {1}}
      /\ EndsOf(regions') \subseteq {End(regions[k]) : k \in 1..Len(regions) \ {1}}
  BY <1>1, <1>2, RemoveBounds
<1>4. StartsOf(regions') \subseteq StartsOf(regions)
      /\ EndsOf(regions') \subseteq EndsOf(regions)
  BY <1>3 DEF StartsOf, EndsOf
<1>5. /\ Seams(regions') \subseteq StartsOf(regions') \cap EndsOf(regions')
      /\ StartsOf(regions) \cap EndsOf(regions) = Seams(regions)
  BY <1>1, <1>3, SeamFacts
<1>6. Seams(regions') \subseteq Seams(regions)
  BY <1>4, <1>5
<1> QED
  BY <1>6, NoNewSeam

LEMMA NextSeam ==
    ASSUME IInv, [Next]_vars
    PROVE  [SeamStep]_vars
<1>1. CASE \E size \in AllocSizes : Alloc(size)
  BY <1>1, AllocSeam
<1>2. CASE \E align \in Aligns, offset \in AlignOffsets, size \in AllocSizes :
              OffsetAlign(align, offset, size)
  BY <1>2, OffsetAlignSeam
<1>3. CASE \E address \in Units, size \in 0..SizeMax : Dealloc(address, size)
  BY <1>3, DeallocSeam
<1>4. CASE NodeObtained \/ HandlerGivesUp
  BY <1>4, ReturnSeam
<1>5. CASE Destroy
  BY <1>5, NoNewSeam DEF Destroy
<1>6. CASE DestroyFirstRegion
  BY <1>6, DestroySeam
<1> QED
  BY <1>1, <1>2, <1>3, <1>4, <1>5, <1>6 DEF Next

\* Regions come to touch only where an OffsetAlign of size 0 has cut one in
\* two: a Dealloc merges with both of its neighbours, whatever InsertAfter did
\* to the list before it.
THEOREM SeamTheorem == Spec => SeamOnlyByEmptyAlign
<1>1. IInv /\ [Next]_vars => [SeamStep]_vars
  BY NextSeam
<1> QED
  BY Invariance, <1>1, PTL DEF Spec, SeamOnlyByEmptyAlign, SeamStep
===============================================================================
