---------------------------- MODULE FreeTreeProofs ----------------------------
(***************************************************************************)
(* The safety of FreeTree for every space that is donated to it, every     *)
(* request but those whose alignment and size add up to more than          *)
(* AddressType holds (see GrantedIsFree), and every insertion that fails.  *)
(*                                                                         *)
(* That the trees agree is not inductive without the rest: the handler     *)
(* that gives up on the second tree undoes the first insertion, which must *)
(* not take out a region that was there before.  IInv therefore says of    *)
(* the regions that a call has still to add that they are not in the trees *)
(* yet, and are apart from each other and from what the call will return.  *)
(***************************************************************************)
EXTENDS FreeTree, FiniteSetTheorems, SequenceTheorems, TLAPS

\* The lemmas about numbers.  They name no constant, but the module they are in
\* assumes something of its own.
Numbers == INSTANCE RegionListProofs WITH AddressSpan <- 2, SizeMax <- 1

\* What that module assumes holds of the two numbers given to it here.
LEMMA Widths == Numbers!WidthAssumption
BY DEF Numbers!WidthAssumption

USE Widths

\* FittingEnumerator's sum of an offset, which is less than the alignment,
\* and a size does not wrap.
NoWrap ==
    \A align \in Aligns, size \in AlignSizes : align + size <= AddressSpan

-----------------------------------------------------------------------------
(* The inductive invariant.                                                *)

\* The units of the regions that are still to be added.
Waiting(queue) == UNION {Span(queue[i]) : i \in DOMAIN queue}

\* The units of f, h, t and d have one place each, and together are S.
Apart(f, h, t, d) ==
    /\ f \cap (h \cup t \cup d) = {}
    /\ h \cap (t \cup d) = {}
    /\ t \cap d = {}

Places(S, f, h, t, d) == f \cup h \cup t \cup d = S /\ Apart(f, h, t, d)

Disjoint(regions) ==
    \A r, q \in regions : r # q => Span(r) \cap Span(q) = {}

\* The regions to be added are new, and apart from what the call returns.
NothingWaits == pending.queue = <<>> /\ pending.tree = "addressed"

OneWaits(r) ==
    /\ pending.queue = <<r>>
    /\ Span(r) \cap Promised(pending.reply) = {}

TwoWait(r, q) ==
    /\ pending.queue = <<r, q>>
    /\ r # q
    /\ pending.name # "Alloc"
    /\ (Span(r) \cup Span(q)) \cap Promised(pending.reply) = {}
    /\ Span(r) \cap Span(q) = {}

QueueInv ==
    \/ NothingWaits
    \/ \E r \in RegionType \ sizedTree : OneWaits(r)
    \/ \E r, q \in RegionType \ sizedTree : TwoWait(r, q)

Aligned(reply) ==
    ((reply.address + reply.offset) % AddressSpan) % reply.align = 0

CallType ==
    [name : {"none", "Alloc", "OffsetAlign", "Dealloc"},
     queue : Seq(RegionType), tree : {"addressed", "sized"},
     reply : Contract!Answers]

PendingInv ==
    /\ pending \in CallType
    /\ pending.reply.ok => Aligned(pending.reply)
    /\ pending.name = "Alloc" => pending.reply.size \in 0..SizeMax

IInv ==
    /\ sizedTree \subseteq RegionType
    /\ TreesAgree
    /\ Disjoint(sizedTree)
    /\ Places(Donated, FreeUnits(sizedTree), held, InTransit, dropped)
    /\ QueueInv
    /\ PendingInv
    /\ answer \in Contract!Answers
    /\ trapped \in BOOLEAN

-----------------------------------------------------------------------------
(* Facts about the constants, about ranges and about regions.              *)

LEMMA ConstantFacts ==
    /\ AddressSpan \in Nat \ {0} /\ SizeMax \in Nat \ {0}
    /\ SizeMax < AddressSpan
    /\ Donated \subseteq Units
    /\ AllocSizes \subseteq 0..SizeMax /\ AlignSizes \subseteq 0..SizeMax
    /\ Aligns \subseteq 0..(AddressSpan - 1)
    /\ AlignOffsets \subseteq 0..(AddressSpan - 1)
    /\ \A align \in Aligns \ {0} : AddressSpan % align = 0
  BY FreeTreeAssumption, AlignAssumption DEF Units

LEMMA AnswerType ==
    ASSUME NEW ok \in BOOLEAN, NEW at \in Units,
           NEW align \in 0..AddressSpan, NEW offset \in Units,
           NEW size \in 0..SizeMax
    PROVE  Answered(ok, at, align, offset, size) \in Contract!Answers
  BY ConstantFacts DEF Units, Answered, Contract!Answers

\* A range of donated units is no larger than SizeType holds, and does not
\* wrap.
LEMMA RangeFacts ==
    ASSUME NEW a \in Nat, NEW n \in Nat, UnitsFrom(a, n) \subseteq Donated
    PROVE  /\ n <= SizeMax
           /\ n # 0 => a \in Units /\ a + n <= AddressSpan
<1>1. CASE n = 0
  BY <1>1, ConstantFacts
<1>2. CASE n # 0
  <2> DEFINE b == a + n - 1
  <2>1. a \in Int /\ b \in Int /\ a <= b /\ b - a + 1 = n
    BY <1>2
  <2>2. UnitsFrom(a, n) = a..b
    BY DEF UnitsFrom
  <2> HIDE DEF b
  <2>3. a \in 0..(AddressSpan - 1) /\ b \in 0..(AddressSpan - 1)
    <3>1. a \in a..b /\ b \in a..b
      BY <2>1
    <3> QED
      BY <2>2, <3>1, ConstantFacts DEF Units
  <2>4. Cardinality(a..b) = n
    BY <2>1, FS_Interval
  <2>5. /\ IsFiniteSet(Donated) /\ a..b \subseteq Donated
        /\ Cardinality(Donated) <= SizeMax
    BY <2>2, FreeTreeAssumption
  <2>6. Cardinality(a..b) <= Cardinality(Donated)
    BY <2>5, FS_Subset
  <2>7. Cardinality(Donated) \in Nat
    BY <2>5, FS_CardinalityType
  <2> QED
    BY <2>1, <2>3, <2>4, <2>5, <2>6, <2>7, ConstantFacts DEF Units
<1> QED
  BY <1>1, <1>2

LEMMA FreeRegionFacts ==
    ASSUME NEW address, NEW size
    PROVE  /\ FreeRegion(address, size).address = address
           /\ FreeRegion(address, size).size = size
           /\ Span(FreeRegion(address, size)) = UnitsFrom(address, size)
  BY DEF FreeRegion, Span

LEMMA RegionTypeFacts ==
    ASSUME NEW r \in RegionType
    PROVE  /\ r.address \in Nat /\ r.address \in Units
           /\ r.size \in Nat /\ r.size <= SizeMax
           /\ r = FreeRegion(r.address, r.size)
           /\ Span(r) = UnitsFrom(r.address, r.size)
           /\ r.size # 0 => r.address \in Span(r)
  BY ConstantFacts DEF RegionType, Units, FreeRegion, Span, UnitsFrom

LEMMA WaitingFacts ==
    /\ Waiting(<<>>) = {}
    /\ \A r : Waiting(<<r>>) = Span(r)
    /\ \A r, q : Waiting(<<r, q>>) = Span(r) \cup Span(q)
<1>1. Waiting(<<>>) = {}
  BY DEF Waiting
<1>2. ASSUME NEW r PROVE Waiting(<<r>>) = Span(r)
  <2>1. DOMAIN <<r>> = {1} /\ <<r>>[1] = r
    OBVIOUS
  <2> QED
    BY <2>1 DEF Waiting
<1>3. ASSUME NEW r, NEW q PROVE Waiting(<<r, q>>) = Span(r) \cup Span(q)
  <2>1. DOMAIN <<r, q>> = {1, 2} /\ <<r, q>>[1] = r /\ <<r, q>>[2] = q
    OBVIOUS
  <2> QED
    BY <2>1 DEF Waiting
<1> QED
  BY <1>1, <1>2, <1>3

\* What leaves the tree takes its units along, and nothing else.
LEMMA UnitsWithout ==
    ASSUME NEW T, NEW R \in SUBSET T, Disjoint(T)
    PROVE  /\ FreeUnits(T \ R) = FreeUnits(T) \ FreeUnits(R)
           /\ FreeUnits(R) \subseteq FreeUnits(T)
           /\ Disjoint(T \ R)
  BY DEF FreeUnits, Disjoint

LEMMA UnitsWith ==
    ASSUME NEW T, NEW r, Disjoint(T), Span(r) \cap FreeUnits(T) = {}
    PROVE  /\ FreeUnits(T \cup {r}) = FreeUnits(T) \cup Span(r)
           /\ Disjoint(T \cup {r})
<1>1. \A q \in T : Span(q) \subseteq FreeUnits(T)
  BY DEF FreeUnits
<1>2. Disjoint(T \cup {r})
  BY <1>1 DEF Disjoint
<1>3. FreeUnits(T \cup {r}) = FreeUnits(T) \cup Span(r)
  BY DEF FreeUnits
<1> QED
  BY <1>2, <1>3

LEMMA UnitsOfOne == ASSUME NEW r PROVE FreeUnits({r}) = Span(r)
  BY DEF FreeUnits

\* A region of the tree is not the client's, and does not wrap.
LEMMA RegionFacts ==
    ASSUME IInv, NEW r \in sizedTree
    PROVE  /\ r \in RegionType
           /\ Span(r) \subseteq FreeUnits(sizedTree)
           /\ UnitsFrom(r.address, r.size) \subseteq Donated
           /\ r.address + r.size <= AddressSpan
<1>1. r \in RegionType /\ Span(r) \subseteq FreeUnits(sizedTree)
  BY DEF IInv, FreeUnits
<1>2. UnitsFrom(r.address, r.size) \subseteq Donated
  BY <1>1 DEF IInv, Places, Span
<1>3. r.address + r.size <= AddressSpan
  <2>1. r.address \in Nat /\ r.size \in Nat /\ r.address \in 0..(AddressSpan - 1)
    BY <1>1, RegionTypeFacts DEF Units
  <2>2. CASE r.size = 0
    BY <2>1, <2>2, ConstantFacts
  <2>3. CASE r.size # 0
    BY <1>2, <2>1, <2>3, RangeFacts
  <2> QED
    BY <2>2, <2>3
<1> QED
  BY <1>1, <1>2, <1>3

\* A region that has units, all of them in regions that leave the tree, is
\* not among those that stay.
LEMMA NewRegion ==
    ASSUME NEW T, T \subseteq RegionType, Disjoint(T), NEW R \in SUBSET T,
           NEW x \in RegionType, x.size # 0,
           NEW X, X \cap FreeUnits(T) = {},
           Span(x) \subseteq FreeUnits(R) \cup X
    PROVE  x \notin T \ R
<1>1. x.address \in Span(x)
  BY RegionTypeFacts
<1>2. FreeUnits(T \ R) = FreeUnits(T) \ FreeUnits(R)
  BY UnitsWithout
<1> SUFFICES ASSUME x \in T \ R PROVE FALSE
  OBVIOUS
<1>3. Span(x) \subseteq FreeUnits(T \ R)
  BY DEF FreeUnits
<1> QED
  BY <1>1, <1>2, <1>3

-----------------------------------------------------------------------------
(* Every action preserves it, and is a step of the contract or a stutter.  *)

ContractStep == [Contract!Next]_(Contract!vars)

Kept == IInv' /\ ContractStep

\* What the tree does between its client's calls takes nothing from it.
LEMMA Housekept ==
    ASSUME IInv', UNCHANGED <<held, answer>>
    PROVE  Kept
<1>1. (FreeUnits(sizedTree') \cup Promised(pending'.reply)) \cap held' = {}
  BY DEF IInv, Places, Apart, InTransit
<1>2. (FreeUnits(sizedTree') \cup Promised(pending'.reply)) \cap held = {}
  BY <1>1
<1>3. Contract!Housekeeping
  BY <1>2 DEF Contract!Housekeeping
<1> QED
  BY <1>3 DEF Kept, ContractStep, Contract!Next

LEMMA CallFacts ==
    ASSUME NEW name, NEW queue, NEW reply
    PROVE  /\ Call(name, queue, reply).name = name
           /\ Call(name, queue, reply).queue = queue
           /\ Call(name, queue, reply).tree = "addressed"
           /\ Call(name, queue, reply).reply = reply
  BY DEF Call

\* Between two calls nothing is in transit, and the trees are equal.
LEMMA IdleFacts ==
    ASSUME IInv, pending = NoCall
    PROVE  /\ InTransit = {} /\ Promised(pending.reply) = {}
           /\ addressedTree = sizedTree
<1>1. pending.queue = <<>> /\ pending.tree = "addressed" /\ ~ pending.reply.ok
  BY DEF NoCall, Call, NoAnswer, Answered
<1>2. Promised(pending.reply) = {}
  BY <1>1 DEF Promised
<1>3. Waiting(pending.queue) = {}
  BY <1>1, WaitingFacts
<1>4. InTransit = {}
  BY <1>2, <1>3 DEF InTransit, Waiting
<1>5. addressedTree = sizedTree
  BY <1>1 DEF IInv, TreesAgree, Adding
<1> QED
  BY <1>2, <1>4, <1>5

LEMMA InitInvariant == Init => IInv
<1> SUFFICES ASSUME Init PROVE IInv
  OBVIOUS
<1>1. pending = NoCall
  BY DEF Init
<1>2. /\ pending.queue = <<>> /\ pending.tree = "addressed"
      /\ ~ pending.reply.ok /\ pending.name = "none"
  BY <1>1 DEF NoCall, Call, NoAnswer, Answered
<1>3. NoAnswer \in Contract!Answers
  BY ConstantFacts DEF NoAnswer, Answered, Contract!Answers
<1>4. pending \in CallType
  <2>1. <<>> \in Seq(RegionType)
    OBVIOUS
  <2> QED
    BY <1>1, <1>3, <2>1 DEF NoCall, Call, CallType
<1>5. InTransit = {}
  BY <1>2, WaitingFacts DEF InTransit, Waiting, Promised
<1>6. FreeUnits(sizedTree) = {} /\ Disjoint(sizedTree) /\ TreesAgree
  BY <1>2 DEF Init, FreeUnits, Disjoint, TreesAgree, Adding
<1>7. Places(Donated, FreeUnits(sizedTree), held, InTransit, dropped)
  BY <1>5, <1>6 DEF Init, Places, Apart
<1>8. QueueInv /\ PendingInv
  BY <1>2, <1>4 DEF QueueInv, NothingWaits, PendingInv
<1> QED
  BY <1>3, <1>6, <1>7, <1>8 DEF Init, IInv

\* A call takes the regions R out of the trees, and the units F from the
\* client; all of them are in the regions it will add, or in its answer.
LEMMA CallStarts ==
    ASSUME IInv, Idle, NEW R \in SUBSET sizedTree, RemoveFromBoth(R),
           NEW name \in {"Alloc", "OffsetAlign", "Dealloc"},
           NEW queue \in Seq(RegionType), NEW reply \in Contract!Answers,
           pending' = Call(name, queue, reply),
           reply.ok => Aligned(reply),
           name = "Alloc" => reply.size \in 0..SizeMax,
           NEW F \in SUBSET held, held' = held \ F,
           Promised(reply) \cup Waiting(queue) = FreeUnits(R) \cup F,
           QueueInv', answer' \in Contract!Answers,
           UNCHANGED <<dropped, trapped>>
    PROVE  IInv'
<1>1. /\ pending'.name = name /\ pending'.queue = queue
      /\ pending'.tree = "addressed" /\ pending'.reply = reply
  BY CallFacts
<1>2. /\ InTransit = {} /\ addressedTree = sizedTree
  BY IdleFacts DEF Idle
<1>3. sizedTree' = sizedTree \ R /\ addressedTree' = addressedTree \ R
  BY DEF RemoveFromBoth
<1>4. TreesAgree'
  BY <1>1, <1>2, <1>3 DEF TreesAgree, Adding
<1>5. /\ FreeUnits(sizedTree') = FreeUnits(sizedTree) \ FreeUnits(R)
      /\ FreeUnits(R) \subseteq FreeUnits(sizedTree)
      /\ Disjoint(sizedTree')
  BY <1>3, UnitsWithout DEF IInv
<1>6. InTransit' = FreeUnits(R) \cup F
  BY <1>1 DEF InTransit, Waiting
<1>7. Places(Donated, FreeUnits(sizedTree'), held', InTransit', dropped')
  BY <1>2, <1>5, <1>6 DEF IInv, Places, Apart
<1>8. PendingInv'
  <2>1. pending' \in CallType
    BY DEF Call, CallType
  <2> QED
    BY <1>1, <2>1 DEF PendingInv, Aligned
<1> QED
  BY <1>3, <1>4, <1>5, <1>7, <1>8 DEF IInv

LEMMA DenyKept ==
    ASSUME IInv, Idle, NEW align \in 0..AddressSpan, NEW offset \in Units,
           NEW size \in 0..SizeMax, Deny(align, offset, size)
    PROVE  Kept
<1>1. 0 \in Units
  BY ConstantFacts DEF Units
<1>2. answer' \in Contract!Answers
  BY <1>1, AnswerType DEF Deny
<1>3. ~ answer'.ok
  BY DEF Deny, Answered
<1>4. UNCHANGED <<sizedTree, addressedTree, pending, held, dropped, trapped>>
  BY DEF Deny
<1>5. Contract!Refuse
  BY <1>2, <1>3, <1>4 DEF Contract!Refuse
<1>6. TreesAgree' /\ QueueInv' /\ PendingInv' /\ InTransit' = InTransit
  BY <1>4
  DEF IInv, TreesAgree, Adding, QueueInv, NothingWaits, OneWaits, TwoWait,
      PendingInv, InTransit
<1>7. /\ Disjoint(sizedTree')
      /\ Places(Donated, FreeUnits(sizedTree'), held', InTransit', dropped')
  BY <1>4, <1>6 DEF IInv
<1>8. IInv'
  BY <1>2, <1>4, <1>6, <1>7 DEF IInv
<1> QED
  BY <1>5, <1>8 DEF Kept, ContractStep, Contract!Next

\* A region is new when its units are of regions that leave the tree or of
\* the client's, and it has units.
LEMMA NewWaits ==
    ASSUME IInv, NEW R \in SUBSET sizedTree, sizedTree' = sizedTree \ R,
           NEW x \in RegionType, x.size # 0,
           NEW F \in SUBSET held, Span(x) \subseteq FreeUnits(R) \cup F
    PROVE  x \in RegionType \ sizedTree'
<1>1. F \cap FreeUnits(sizedTree) = {}
  BY DEF IInv, Places, Apart
<1>2. sizedTree \subseteq RegionType /\ Disjoint(sizedTree)
  BY DEF IInv
<1>3. x \notin sizedTree \ R
  BY <1>1, <1>2, NewRegion
<1> QED
  BY <1>3

LEMMA EmptyRange ==
    ASSUME NEW a \in Nat PROVE UnitsFrom(a, 0) = {}
  BY DEF UnitsFrom

\* Alloc hands out the beginning of a region, and puts back the rest.
LEMMA AllocKept ==
    ASSUME IInv, NEW size \in AllocSizes, Alloc(size)
    PROVE  Kept
<1>0. size \in 0..SizeMax /\ size \in Nat /\ Idle
  BY ConstantFacts DEF Alloc
<1>1. ASSUME Deny(1, 0, size) PROVE Kept
  <2>1. 1 \in 0..AddressSpan /\ 0 \in Units
    BY ConstantFacts DEF Units
  <2> QED
    BY <1>0, <1>1, <2>1, DenyKept
<1>2. ASSUME NEW r \in sizedTree, FoundGE(r, FreeRegion(0, size)),
             RemoveFromBoth({r}),
             pending' = Call("Alloc", Excess(r, size),
                             Answered(TRUE, r.address, 1, 0, size)),
             UNCHANGED <<held, dropped, answer, trapped>>
      PROVE  Kept
  <2> DEFINE reply == Answered(TRUE, r.address, 1, 0, size)
             queue == Excess(r, size)
             a     == r.address
             rest  == r.size - size
             R     == {r}
             F     == {}
  <2>1. /\ r \in RegionType /\ a \in Nat /\ a \in 0..(AddressSpan - 1)
        /\ r.size \in Nat /\ r.size <= SizeMax
        /\ a + r.size <= AddressSpan
        /\ Span(r) = UnitsFrom(a, r.size)
    BY RegionFacts, RegionTypeFacts DEF Units
  <2>2. size <= r.size
    BY <1>0, <1>2, <2>1, FreeRegionFacts DEF FoundGE, SizedLess
  <2>3. rest \in Nat /\ rest <= SizeMax /\ size + rest = r.size
    BY <1>0, <2>1, <2>2, ConstantFacts
  <2>4. Promised(reply) = UnitsFrom(a, size)
    BY DEF Promised, Answered
  <2>5. pending' = Call("Alloc", queue, reply) /\ RemoveFromBoth(R)
    BY <1>2
  <2>6. reply \in Contract!Answers /\ Aligned(reply) /\ reply.size \in 0..SizeMax
    <3>1. 1 \in 0..AddressSpan /\ 0 \in Units /\ a \in Units
      BY <2>1, ConstantFacts DEF Units
    <3>2. reply \in Contract!Answers
      BY <1>0, <3>1, AnswerType
    <3>3. ((a + 0) % AddressSpan) % 1 = 0
      BY <2>1, ConstantFacts
    <3> QED
      BY <1>0, <3>2, <3>3 DEF Aligned, Answered
  <2>7. FreeUnits(R) = Span(r) /\ sizedTree' = sizedTree \ R
    BY <2>5, UnitsOfOne DEF RemoveFromBoth
  <2>8. queue = IF size < r.size
                THEN <<FreeRegion((a + size) % AddressSpan, rest)>> ELSE <<>>
    BY DEF Excess
  <2> HIDE DEF reply, queue
  <2>9. /\ Span(r) = UnitsFrom(a, size) \cup UnitsFrom(a + size, rest)
        /\ UnitsFrom(a, size) \cap UnitsFrom(a + size, rest) = {}
    <3> DEFINE m == r.size
               b == a + size
    <3>1. /\ Span(r) = UnitsFrom(a, m) /\ m \in Nat /\ m = size + rest
          /\ b \in Nat /\ b = a + size
      BY <1>0, <2>1, <2>3
    <3> HIDE DEF a, rest, m, b
    <3>2. /\ UnitsFrom(a, m) = UnitsFrom(a, size) \cup UnitsFrom(b, rest)
          /\ UnitsFrom(a, size) \cap UnitsFrom(b, rest) = {}
      BY <1>0, <2>1, <2>3, <3>1 DEF UnitsFrom
    <3> QED
      BY <3>1, <3>2 DEF b
  <2>10. /\ pending'.queue = queue /\ pending'.tree = "addressed"
         /\ pending'.reply = reply
    BY <2>5, CallFacts
  <2>11. /\ queue \in Seq(RegionType) /\ QueueInv'
         /\ Promised(reply) \cup Waiting(queue) = FreeUnits(R)
    <3>1. CASE size < r.size
      <4> DEFINE x == FreeRegion((a + size) % AddressSpan, rest)
      <4>1. queue = <<x>>
        BY <2>8, <3>1
      <4>2. a + size \in 0..(AddressSpan - 1) /\ (a + size) % AddressSpan = a + size
        BY <1>0, <2>1, <3>1, ConstantFacts
      <4>3. /\ x \in RegionType /\ x.size = rest /\ rest # 0
            /\ Span(x) = UnitsFrom(a + size, rest)
        BY <1>0, <2>1, <2>3, <3>1, <4>2, FreeRegionFacts
        DEF RegionType, Units, FreeRegion
      <4> HIDE DEF x, a, rest, R
      <4>4. Waiting(queue) = Span(x)
        BY <4>1, WaitingFacts
      <4>5. R \in SUBSET sizedTree /\ F \in SUBSET held
        BY DEF R
      <4>6. x \in RegionType \ sizedTree'
        <5>1. Span(x) \subseteq FreeUnits(R) \cup F
          BY <2>7, <2>9, <4>3
        <5> HIDE DEF F
        <5> QED
          BY <2>7, <4>3, <4>5, <5>1, NewWaits
      <4>7. OneWaits(x)'
        BY <2>4, <2>9, <2>10, <4>1, <4>3 DEF OneWaits
      <4>8. QueueInv'
        BY <4>6, <4>7 DEF QueueInv
      <4> QED
        BY <2>4, <2>7, <2>9, <4>1, <4>3, <4>4, <4>8
    <3>2. CASE ~ (size < r.size)
      <4>1. queue = <<>>
        BY <2>8, <3>2
      <4>2. rest = 0
        BY <1>0, <2>1, <2>2, <3>2
      <4>3. UnitsFrom(a + size, rest) = {}
        BY <1>0, <2>1, <4>2, EmptyRange
      <4>4. QueueInv'
        BY <2>10, <4>1 DEF NothingWaits, QueueInv
      <4>5. Waiting(queue) = {} /\ queue \in Seq(RegionType)
        BY <4>1, WaitingFacts
      <4> QED
        BY <2>4, <2>7, <2>9, <4>3, <4>4, <4>5
    <3> QED
      BY <3>1, <3>2
  <2>12. /\ held' = held \ F /\ answer' \in Contract!Answers
         /\ R \in SUBSET sizedTree /\ F \in SUBSET held
         /\ Promised(reply) \cup Waiting(queue) = FreeUnits(R) \cup F
         /\ UNCHANGED <<dropped, trapped>>
    BY <1>2, <2>11 DEF IInv
  <2> HIDE DEF R, F
  <2>13. IInv'
    BY <1>0, <2>5, <2>6, <2>11, <2>12, CallStarts
  <2> QED
    BY <1>2, <2>13, Housekept
<1> QED
  BY <1>1, <1>2 DEF Alloc

\* What FittingEnumerator accepts has room for the part behind the skip, and
\* that part is aligned.
LEMMA SkipFacts ==
    ASSUME NoWrap, IInv, NEW r \in sizedTree, NEW align \in Aligns \ {0},
           NEW offset \in AlignOffsets, NEW size \in AlignSizes,
           Accepted(r, align, offset, size)
    PROVE  LET skip == Skip(r, align, offset)
               at   == (r.address + skip) % AddressSpan
           IN  /\ skip \in Nat
               /\ Reach(r, align, offset, size) = skip + size
               /\ skip + size <= r.size
               /\ at \in Units
               /\ UnitsFrom(at, size) = UnitsFrom(r.address + skip, size)
               /\ ((at + offset) % AddressSpan) % align = 0
<1> DEFINE start == r.address
           total == r.size
           place == (start + offset) % AddressSpan
           skip  == Skip(r, align, offset)
           at    == (start + skip) % AddressSpan
<1>0. /\ AddressSpan \in Nat \ {0} /\ align \in Nat \ {0} /\ offset \in Nat
      /\ size \in Nat /\ align + size <= AddressSpan
      /\ AddressSpan % align = 0
  BY ConstantFacts DEF NoWrap
<1>1. start \in Nat /\ total \in Nat /\ start + total <= AddressSpan
  BY RegionFacts, RegionTypeFacts
<1>2. place \in Nat /\ start + offset \in Int
  BY <1>0, <1>1
<1>3. skip = IF place % align = 0 THEN 0 ELSE align - (place % align)
  BY DEF Skip
<1>4. Reach(r, align, offset, size) = (skip + size) % AddressSpan
  BY DEF Reach
<1>5. Reach(r, align, offset, size) <= total
  BY DEF Accepted
<1>place. place = (start + offset) % AddressSpan
  OBVIOUS
<1>start. at = (start + skip) % AddressSpan
  OBVIOUS
<1> HIDE DEF start, total, skip, at, place
<1>6. skip \in 0..(align - 1)
  <2>1. place % align \in 0..(align - 1)
    BY <1>0, <1>2
  <2> QED
    BY <1>0, <1>3, <2>1
<1>7. /\ skip \in Nat /\ Reach(r, align, offset, size) = skip + size
      /\ skip + size <= total /\ start + skip + size <= AddressSpan
  <2>1. skip + size \in 0..(AddressSpan - 1)
    BY <1>0, <1>6
  <2>2. (skip + size) % AddressSpan = skip + size
    BY <1>0, <2>1
  <2> QED
    BY <1>0, <1>1, <1>4, <1>5, <1>6, <2>2
<1>8. at \in 0..(AddressSpan - 1)
  BY <1>0, <1>1, <1>start, <1>7
<1>9. UnitsFrom(at, size) = UnitsFrom(start + skip, size)
  <2> DEFINE from == start + skip
  <2>1. from \in Nat /\ from + size <= AddressSpan /\ at = from % AddressSpan
    BY <1>1, <1>start, <1>7
  <2> HIDE DEF from
  <2>2. CASE from < AddressSpan
    <3>1. at = from
      BY <1>0, <2>1, <2>2
    <3> QED
      BY <3>1 DEF from
  <2>3. CASE from = AddressSpan
    <3>1. at = 0 /\ size = 0
      BY <1>0, <2>1, <2>3
    <3>2. UnitsFrom(at, size) = {} /\ UnitsFrom(from, size) = {}
      BY <2>1, <3>1, EmptyRange
    <3> QED
      BY <3>2 DEF from
  <2> QED
    BY <1>0, <2>1, <2>2, <2>3
<1>10. ((at + offset) % AddressSpan) % align = 0
  <2> DEFINE asked == start + offset
             begin == start + skip
             given == at + offset
  <2>1. /\ asked \in Int /\ begin \in Int /\ given \in Int
        /\ asked + skip = begin + offset
    BY <1>0, <1>1, <1>2, <1>7, <1>8
  <2>2. place = asked % AddressSpan /\ at = begin % AddressSpan
    BY <1>start, <1>place
  <2> HIDE DEF asked, begin
  <2>0. offset \in Int /\ skip \in Int
    BY <1>0, <1>7
  <2>7. /\ align \in Nat \ {0} /\ AddressSpan \in Nat \ {0}
        /\ AddressSpan % align = 0
    BY <1>0
  <2>8. asked \in Int /\ begin \in Int
    BY <2>1
  <2>3. place % align = asked % align
    <3>1. \A n \in Int : (n % AddressSpan) % align = n % align
      BY <2>7, Numbers!WrapRemainder
    <3> QED
      BY <2>2, <2>8, <3>1
  <2>4. (asked + skip) % align = 0
    <3>1. skip = IF asked % align = 0 THEN 0 ELSE align - (asked % align)
      BY <1>3, <2>3
    <3> QED
      BY <2>7, <2>0, <2>8, <3>1, Numbers!SkipToMultiple, Zenon
  <2>5. given % align = (begin + offset) % align
    <3> HIDE DEF given
    <3>1. offset \in Int /\ begin \in Int
      BY <2>0, <2>8
    <3>2. \A n, x \in Int : ((n % AddressSpan) + x) % align = (n + x) % align
      BY <2>7, Numbers!WrapKeepsRemainder
    <3>3. ((begin % AddressSpan) + offset) % align = (begin + offset) % align
      BY <3>1, <3>2
    <3> QED
      BY <2>2, <3>3 DEF given
  <2> HIDE DEF given
  <2>6. (given % AddressSpan) % align = given % align
    BY <1>0, <2>1, Numbers!WrapRemainder
  <2> QED
    BY <2>1, <2>4, <2>5, <2>6 DEF given
<1> QED
  BY <1>7, <1>8, <1>9, <1>10 DEF start, total, skip, at, Units

LEMMA QueueType ==
    /\ <<>> \in Seq(RegionType)
    /\ \A r \in RegionType : <<r>> \in Seq(RegionType)
    /\ \A r, q \in RegionType : <<r, q>> \in Seq(RegionType)
  OBVIOUS

LEMMA Joins ==
    /\ <<>> \o <<>> = <<>>
    /\ \A r : <<r>> \o <<>> = <<r>> /\ <<>> \o <<r>> = <<r>>
    /\ \A r, q : <<r>> \o <<q>> = <<r, q>>
<1>1. <<>> \o <<>> = <<>>
  OBVIOUS
<1>2. ASSUME NEW r PROVE <<r>> \o <<>> = <<r>>
  OBVIOUS
<1>3. ASSUME NEW r PROVE <<>> \o <<r>> = <<r>>
  OBVIOUS
<1>4. ASSUME NEW r, NEW q PROVE <<r>> \o <<q>> = <<r, q>>
  <2> DEFINE S == {r, q}
             s == <<r>>
             t == <<q>>
             u == <<r, q>>
  <2>1. /\ s \in Seq(S) /\ t \in Seq(S) /\ u \in Seq(S)
        /\ Len(s) = 1 /\ Len(t) = 1 /\ Len(u) = 2
        /\ s[1] = r /\ t[1] = q /\ u[1] = r /\ u[2] = q
    OBVIOUS
  <2> HIDE DEF S, s, t, u
  <2>2. /\ s \o t \in Seq(S) /\ Len(s \o t) = 2
        /\ \A i \in 1..2 : (s \o t)[i] = IF i <= 1 THEN s[i] ELSE t[i - 1]
    BY <2>1, ConcatProperties
  <2>3. \A i \in 1..2 : (s \o t)[i] = u[i]
    <3>1. (s \o t)[1] = u[1] /\ (s \o t)[2] = u[2]
      BY <2>1, <2>2
    <3>2. \A i \in 1..2 : i = 1 \/ i = 2
      OBVIOUS
    <3> QED
      BY <3>1, <3>2, Zenon
  <2>4. s \o t = u
    BY <2>1, <2>2, <2>3, SeqEqual
  <2> QED
    BY <2>4 DEF s, t, u
<1> QED
  BY <1>1, <1>2, <1>3, <1>4

\* The region r is a head of [skip] units, a part of [size] units and a tail
\* of [rest] units; the head and the tail, if not empty, are the queue.
InPieces(r, skip, size, rest, head, tail, queue) ==
    /\ skip \in Nat /\ size \in Nat /\ rest \in Nat
    /\ skip + size + rest = r.size
    /\ head \in RegionType /\ head.size = skip
    /\ Span(head) = UnitsFrom(r.address, skip)
    /\ tail \in RegionType /\ tail.size = rest
    /\ Span(tail) = UnitsFrom(r.address + skip + size, rest)
    /\ queue = (IF skip > 0 THEN <<head>> ELSE <<>>)
                   \o (IF rest > 0 THEN <<tail>> ELSE <<>>)

\* The slivers are new, and together with what is promised are the region.
LEMMA SliversWait ==
    ASSUME IInv, NEW r \in sizedTree, sizedTree' = sizedTree \ {r},
           NEW skip, NEW size, NEW rest, NEW head, NEW tail, NEW queue,
           InPieces(r, skip, size, rest, head, tail, queue),
           pending'.name = "OffsetAlign", pending'.queue = queue,
           pending'.tree = "addressed",
           Promised(pending'.reply) = UnitsFrom(r.address + skip, size)
    PROVE  /\ queue \in Seq(RegionType) /\ QueueInv'
           /\ Promised(pending'.reply) \cup Waiting(queue) = FreeUnits({r})
<1>0. /\ skip \in Nat /\ size \in Nat /\ rest \in Nat
      /\ skip + size + rest = r.size
      /\ head \in RegionType /\ head.size = skip
      /\ Span(head) = UnitsFrom(r.address, skip)
      /\ tail \in RegionType /\ tail.size = rest
      /\ Span(tail) = UnitsFrom(r.address + skip + size, rest)
      /\ queue = (IF skip > 0 THEN <<head>> ELSE <<>>)
                     \o (IF rest > 0 THEN <<tail>> ELSE <<>>)
  BY DEF InPieces
<1> DEFINE a == r.address
           R == {r}
           F == {}
           given == UnitsFrom(a + skip, size)
<1>1. a \in Nat /\ Span(r) = UnitsFrom(a, r.size) /\ FreeUnits(R) = Span(r)
  BY RegionFacts, RegionTypeFacts, UnitsOfOne
<1>2. /\ Span(r) = Span(head) \cup given \cup Span(tail)
      /\ Span(head) \cap given = {} /\ Span(head) \cap Span(tail) = {}
      /\ given \cap Span(tail) = {}
  <2> DEFINE behind == size + rest
             b      == a + skip
  <2>1. behind \in Nat /\ b \in Nat /\ skip + behind = r.size
    BY <1>0, <1>1
  <2>2. /\ Span(tail) = UnitsFrom(b + size, rest) /\ b + size \in Nat
        /\ given = UnitsFrom(b, size)
    BY <1>0, <1>1
  <2>3. /\ Span(head) = UnitsFrom(a, skip)
        /\ r.size \in Nat /\ Span(r) = UnitsFrom(a, r.size)
        /\ b = a + skip /\ behind = size + rest
    BY <1>0, <1>1, RegionFacts, RegionTypeFacts
  <2> DEFINE c == b + size
             m == r.size
  <2>4. /\ a \in Nat /\ b \in Nat /\ c \in Nat /\ c = b + size
        /\ m \in Nat /\ m = skip + behind /\ m = r.size
        /\ behind \in Nat /\ behind = size + rest /\ b = a + skip
    BY <1>0, <1>1, <2>1, <2>2, <2>3
  <2> HIDE DEF a, b, behind, given, c, m
  <2>5. /\ UnitsFrom(b, behind) = UnitsFrom(b, size) \cup UnitsFrom(c, rest)
        /\ UnitsFrom(b, size) \cap UnitsFrom(c, rest) = {}
    BY <1>0, <2>4 DEF UnitsFrom
  <2>6. /\ UnitsFrom(a, m) = UnitsFrom(a, skip) \cup UnitsFrom(b, behind)
        /\ UnitsFrom(a, skip) \cap UnitsFrom(b, behind) = {}
    BY <1>0, <2>4 DEF UnitsFrom
  <2>7. Span(tail) = UnitsFrom(c, rest) /\ Span(r) = UnitsFrom(a, m)
    BY <2>2, <2>3, <2>4
  <2> QED
    BY <2>2, <2>3, <2>5, <2>6, <2>7
<1>3. Promised(pending'.reply) = given
  OBVIOUS
<1> HIDE DEF given, a
<1>4. ASSUME NEW x \in RegionType, x.size # 0, Span(x) \subseteq Span(r)
      PROVE  x \in RegionType \ sizedTree'
  <2>1. Span(x) \subseteq FreeUnits(R) \cup F
    BY <1>1, <1>4
  <2>2. R \in SUBSET sizedTree /\ F \in SUBSET held /\ sizedTree' = sizedTree \ R
    OBVIOUS
  <2> HIDE DEF R, F
  <2> QED
    BY <1>4, <2>1, <2>2, NewWaits
<1>9. (skip = 0 => Span(head) = {}) /\ (rest = 0 => Span(tail) = {})
  BY <1>0, <1>1, EmptyRange DEF a
<1>5. CASE skip > 0 /\ rest > 0
  <2>1. queue = <<head, tail>>
    BY <1>0, <1>5, Joins
  <2>2. head \in RegionType \ sizedTree' /\ tail \in RegionType \ sizedTree'
    BY <1>0, <1>2, <1>4, <1>5
  <2>3. head.address \in Span(head)
    BY <1>0, <1>5, RegionTypeFacts
  <2>4. head # tail
    BY <1>2, <2>3
  <2>5. TwoWait(head, tail)'
    BY <1>2, <1>3, <2>1, <2>4 DEF TwoWait
  <2>6. QueueInv'
    BY <2>2, <2>5 DEF QueueInv
  <2>7. Waiting(queue) = Span(head) \cup Span(tail) /\ queue \in Seq(RegionType)
    BY <1>0, <2>1, WaitingFacts, QueueType
  <2> QED
    BY <1>1, <1>2, <1>3, <2>6, <2>7
<1>6. CASE skip > 0 /\ ~ (rest > 0)
  <2>1. queue = <<head>> /\ Span(tail) = {}
    BY <1>1, <1>6, <1>9, <1>0, Joins
  <2>2. head \in RegionType \ sizedTree'
    BY <1>0, <1>2, <1>4, <1>6
  <2>3. OneWaits(head)'
    BY <1>2, <1>3, <2>1 DEF OneWaits
  <2>4. QueueInv'
    BY <2>2, <2>3 DEF QueueInv
  <2>5. Waiting(queue) = Span(head) /\ queue \in Seq(RegionType)
    BY <1>0, <2>1, WaitingFacts, QueueType
  <2> QED
    BY <1>1, <1>2, <1>3, <2>1, <2>4, <2>5
<1>7. CASE ~ (skip > 0) /\ rest > 0
  <2>1. queue = <<tail>> /\ Span(head) = {}
    BY <1>1, <1>7, <1>9, <1>0, Joins
  <2>2. tail \in RegionType \ sizedTree'
    BY <1>0, <1>2, <1>4, <1>7
  <2>3. OneWaits(tail)'
    BY <1>2, <1>3, <2>1 DEF OneWaits
  <2>4. QueueInv'
    BY <2>2, <2>3 DEF QueueInv
  <2>5. Waiting(queue) = Span(tail) /\ queue \in Seq(RegionType)
    BY <1>0, <2>1, WaitingFacts, QueueType
  <2> QED
    BY <1>1, <1>2, <1>3, <2>1, <2>4, <2>5
<1>8. CASE ~ (skip > 0) /\ ~ (rest > 0)
  <2>1. queue = <<>> /\ Span(head) = {} /\ Span(tail) = {}
    BY <1>1, <1>8, <1>9, <1>0, Joins
  <2>2. QueueInv'
    BY <2>1 DEF NothingWaits, QueueInv
  <2>3. Waiting(queue) = {} /\ queue \in Seq(RegionType)
    BY <1>0, <2>1, WaitingFacts, QueueType
  <2> QED
    BY <1>1, <1>2, <1>3, <2>1, <2>2, <2>3
<1> QED
  BY <1>0, <1>5, <1>6, <1>7, <1>8

\* With an alignment of 0, the call ends in the first region it looks at.
LEMMA DivideByZeroKept == ASSUME IInv, DivideByZero PROVE Kept
<1>1. /\ UNCHANGED <<sizedTree, addressedTree, pending, held, dropped, answer>>
      /\ trapped' \in BOOLEAN
  BY DEF DivideByZero
<1>2. TreesAgree' /\ QueueInv' /\ PendingInv' /\ InTransit' = InTransit
  BY <1>1
  DEF IInv, TreesAgree, Adding, QueueInv, NothingWaits, OneWaits, TwoWait,
      PendingInv, InTransit
<1>3. /\ Disjoint(sizedTree')
      /\ Places(Donated, FreeUnits(sizedTree'), held', InTransit', dropped')
  BY <1>1, <1>2 DEF IInv
<1>4. IInv'
  BY <1>1, <1>2, <1>3 DEF IInv
<1> QED
  BY <1>1, <1>4, Housekept

\* OffsetAlign hands out a part of a region, and puts back what is around it.
LEMMA OffsetAlignKept ==
    ASSUME NoWrap, IInv, NEW align \in Aligns, NEW offset \in AlignOffsets,
           NEW size \in AlignSizes, OffsetAlign(align, offset, size)
    PROVE  Kept
<1>0. /\ size \in 0..SizeMax /\ size \in Nat /\ Idle
      /\ align \in 0..AddressSpan /\ offset \in Units
  BY ConstantFacts DEF OffsetAlign, Units
<1>1. ASSUME Deny(align, offset, size) PROVE Kept
  BY <1>0, <1>1, DenyKept
<1>2. ASSUME align # 0, NEW r \in addressedTree,
             FirstAccepted(r, align, offset, size),
             RemoveFromBoth({r}),
             pending' = Call("OffsetAlign", Slivers(r, align, offset, size),
                 Answered(TRUE, (r.address + Skip(r, align, offset)) % AddressSpan,
                          align, offset, size)),
             UNCHANGED <<held, dropped, answer, trapped>>
      PROVE  Kept
  <2> DEFINE skip  == Skip(r, align, offset)
             at    == (r.address + skip) % AddressSpan
             reply == Answered(TRUE, at, align, offset, size)
             queue == Slivers(r, align, offset, size)
             reach == Reach(r, align, offset, size)
             a     == r.address
             R     == {r}
             F     == {}
             head  == FreeRegion(a, skip % (SizeMax + 1))
             tail  == FreeRegion((a + skip + size) % AddressSpan, r.size - reach)
             rest  == r.size - reach
             total == r.size
  <2>1. r \in sizedTree /\ Accepted(r, align, offset, size)
    BY <1>0, <1>2, IdleFacts DEF Idle, FirstAccepted
  <2>2. /\ skip \in Nat /\ reach = skip + size /\ skip + size <= r.size
        /\ at \in Units
        /\ UnitsFrom(at, size) = UnitsFrom(a + skip, size)
        /\ ((at + offset) % AddressSpan) % align = 0
    BY <1>2, <2>1, SkipFacts
  <2>3. /\ a \in Nat /\ a \in Units /\ r.size \in Nat /\ r.size <= SizeMax
        /\ a + r.size <= AddressSpan
    BY <2>1, RegionFacts, RegionTypeFacts
  <2>4. reply \in Contract!Answers /\ Aligned(reply)
    <3>1. reply \in Contract!Answers
      BY <1>0, <2>2, AnswerType
    <3> QED
      BY <2>2, <3>1 DEF Aligned, Answered
  <2>5. Promised(reply) = UnitsFrom(a + skip, size)
    BY <2>2 DEF Promised, Answered
  <2>6. pending' = Call("OffsetAlign", queue, reply) /\ RemoveFromBoth(R)
    BY <1>2
  <2>7. queue = (IF skip > 0 THEN <<head>> ELSE <<>>)
                    \o (IF reach < r.size THEN <<tail>> ELSE <<>>)
    BY DEF Slivers
  <2>split. /\ head = FreeRegion(a, skip % (SizeMax + 1)) /\ rest = r.size - reach
            /\ tail = FreeRegion((a + skip + size) % AddressSpan, rest)
            /\ a = r.address /\ total = r.size
    OBVIOUS
  <2> HIDE DEF skip, at, reply, queue, reach, a, head, tail, rest, total
  <2>8. /\ skip \in Nat /\ reach = skip + size /\ skip + size <= total
        /\ total \in Nat /\ total <= SizeMax /\ rest = total - reach
        /\ a \in Nat /\ a + total <= AddressSpan
    BY <1>0, <2>2, <2>3, <2>split
  <2>total. /\ rest \in Nat /\ skip + size + rest = total
            /\ rest > 0 <=> reach < total
    BY <1>0, <2>8
  <2>9. /\ head \in RegionType /\ head.size = skip
        /\ Span(head) = UnitsFrom(a, skip)
    <3>1. skip % (SizeMax + 1) = skip /\ skip \in 0..SizeMax
      BY <1>0, <2>2, <2>3, ConstantFacts
    <3> QED
      BY <2>3, <2>split, <3>1, FreeRegionFacts DEF RegionType, FreeRegion
  <2>10. /\ tail \in RegionType /\ tail.size = rest
         /\ Span(tail) = UnitsFrom(a + skip + size, rest)
    <3> DEFINE from == a + skip + size
    <3>1. from \in Nat /\ from + rest <= AddressSpan /\ rest \in 0..SizeMax
      BY <1>0, <2>8, <2>total, ConstantFacts
    <3>2. tail = FreeRegion(from % AddressSpan, rest)
      BY <2>split
    <3> HIDE DEF from
    <3>3. from % AddressSpan \in Units
      BY <3>1, ConstantFacts DEF Units
    <3>4. tail \in RegionType
      BY <3>1, <3>2, <3>3 DEF RegionType, FreeRegion
    <3>5. tail.size = rest /\ Span(tail) = UnitsFrom(from % AddressSpan, rest)
      BY <3>2, FreeRegionFacts
    <3>6. UnitsFrom(from % AddressSpan, rest) = UnitsFrom(from, rest)
      <4>1. CASE rest = 0
        <5>1. from % AddressSpan \in Nat
          BY <3>3, ConstantFacts DEF Units
        <5> QED
          BY <3>1, <4>1, <5>1, EmptyRange
      <4>2. CASE rest # 0
        <5>1. from % AddressSpan = from
          BY <3>1, <4>2, ConstantFacts
        <5> QED
          BY <5>1
      <4> QED
        BY <4>1, <4>2
    <3> QED
      BY <3>4, <3>5, <3>6 DEF from
  <2>11. /\ pending'.name = "OffsetAlign" /\ pending'.queue = queue
         /\ pending'.tree = "addressed" /\ pending'.reply = reply
    BY <2>6, CallFacts
  <2>12. /\ queue \in Seq(RegionType) /\ QueueInv'
         /\ Promised(pending'.reply) \cup Waiting(queue) = FreeUnits(R)
    <3>1. sizedTree' = sizedTree \ {r}
      BY <2>6 DEF RemoveFromBoth
    <3>2. queue = (IF skip > 0 THEN <<head>> ELSE <<>>)
                      \o (IF rest > 0 THEN <<tail>> ELSE <<>>)
      BY <2>7, <2>total, <2>split
    <3>3. /\ Span(head) = UnitsFrom(r.address, skip)
          /\ Span(tail) = UnitsFrom(r.address + skip + size, rest)
          /\ Promised(pending'.reply) = UnitsFrom(r.address + skip, size)
      BY <2>5, <2>9, <2>10, <2>11, <2>split
    <3>4. InPieces(r, skip, size, rest, head, tail, queue)
      BY <1>0, <2>8, <2>9, <2>10, <2>total, <2>split, <3>2, <3>3 DEF InPieces
    <3> QED
      BY <2>1, <2>11, <3>1, <3>3, <3>4, SliversWait DEF R
  <2>13. /\ held' = held \ F /\ answer' \in Contract!Answers
         /\ R \in SUBSET sizedTree /\ F \in SUBSET held
         /\ Promised(reply) \cup Waiting(queue) = FreeUnits(R) \cup F
         /\ UNCHANGED <<dropped, trapped>>
    BY <1>2, <2>1, <2>11, <2>12 DEF IInv
  <2> HIDE DEF R, F
  <2>14. IInv'
    BY <1>0, <2>4, <2>6, <2>12, <2>13, CallStarts
  <2> QED
    BY <1>2, <2>14, Housekept
<1> QED
  BY <1>1, <1>2, DivideByZeroKept DEF OffsetAlign

-----------------------------------------------------------------------------
(* Dealloc joins a range with at most one region before and one after it.  *)

\* The order of the regions by address is total.
LEMMA AddressedTotal ==
    ASSUME NEW r \in RegionType, NEW q \in RegionType
    PROVE  /\ AddressedLess(r, q) \/ AddressedLess(q, r) \/ r = q
           /\ AddressedLess(r, q) => ~ AddressedLess(q, r) /\ r # q
<1> DEFINE ra == r.address
           rs == r.size
           qa == q.address
           qs == q.size
<1>1. /\ ra \in Int /\ rs \in Int /\ qa \in Int /\ qs \in Int
      /\ r = FreeRegion(ra, rs) /\ q = FreeRegion(qa, qs)
  BY RegionTypeFacts
<1>2. /\ AddressedLess(r, q) <=> (ra < qa \/ (ra = qa /\ rs < qs))
      /\ AddressedLess(q, r) <=> (qa < ra \/ (qa = ra /\ qs < rs))
  BY DEF AddressedLess
<1>3. r = q => ra = qa /\ rs = qs
  OBVIOUS
<1> HIDE DEF ra, rs, qa, qs
<1>4. CASE ra = qa /\ rs = qs
  <2>1. r = q
    BY <1>1, <1>4
  <2> QED
    BY <1>1, <1>2, <1>4, <2>1
<1>5. CASE ~ (ra = qa /\ rs = qs)
  BY <1>1, <1>2, <1>3, <1>5
<1> QED
  BY <1>4, <1>5

LEMMA FoundOnce ==
    ASSUME addressedTree \subseteq RegionType, NEW q
    PROVE  /\ \A r, x \in FoundBefore(q) : r = x
           /\ \A r, x \in FoundAfter(q) : r = x
  BY AddressedTotal DEF FoundBefore, FoundAfter

LEMMA FoundOne ==
    ASSUME NEW S, NEW r \in S, \A x, y \in S : x = y
    PROVE  S = {r} /\ The(S) = r /\ SizeOf(S) = r.size
<1>1. S = {r}
  OBVIOUS
<1>2. The(S) = r
  BY DEF The
<1> QED
  BY <1>1, <1>2 DEF SizeOf

\* Where the joined region begins, if r touches q before it.
BeginOf(q) ==
    IF TouchingBefore(q) = {} THEN q.address ELSE The(TouchingBefore(q)).address

LEMMA BeforeFacts ==
    ASSUME IInv, addressedTree = sizedTree, NEW q \in RegionType
    PROVE  LET size == SizeOf(TouchingBefore(q))
           IN  /\ TouchingBefore(q) \subseteq sizedTree
               /\ BeginOf(q) \in Units /\ BeginOf(q) \in Nat /\ size \in Nat
               /\ BeginOf(q) + size = q.address
               /\ FreeUnits(TouchingBefore(q)) = UnitsFrom(BeginOf(q), size)
               /\ q.size + size = 0 => TouchingBefore(q) = {}
               /\ \A r \in TouchingBefore(q) : r.address = BeginOf(q)
<1> DEFINE S == TouchingBefore(q)
<1>0. /\ q.address \in Units /\ q.address \in Nat /\ q.size \in Nat
      /\ q.size <= SizeMax
  BY RegionTypeFacts
<1>1. S \subseteq sizedTree
  BY DEF TouchingBefore, FoundBefore
<1>2. CASE S = {}
  <2>1. BeginOf(q) = q.address /\ SizeOf(S) = 0
    BY <1>2 DEF BeginOf, SizeOf
  <2>2. FreeUnits(S) = {} /\ UnitsFrom(q.address, 0) = {}
    BY <1>0, <1>2, EmptyRange DEF FreeUnits
  <2> QED
    BY <1>0, <1>1, <1>2, <2>1, <2>2
<1>3. ASSUME NEW r \in S
      PROVE  /\ BeginOf(q) = r.address /\ SizeOf(S) = r.size /\ S = {r}
             /\ r.address \in Units /\ r.address \in Nat /\ r.size \in Nat
             /\ r.address + r.size = q.address
             /\ r.size = 0 => q.size # 0
             /\ FreeUnits(S) = UnitsFrom(r.address, r.size)
  <2>1. /\ r \in RegionType /\ r.address + r.size <= AddressSpan
        /\ r.address \in Units /\ r.address \in Nat
        /\ r.size \in Nat /\ r.size <= SizeMax
        /\ Span(r) = UnitsFrom(r.address, r.size)
    BY <1>1, RegionFacts, RegionTypeFacts
  <2>2. S = {r} /\ The(S) = r /\ SizeOf(S) = r.size
    <3>1. \A x, y \in S : x = y
      BY FoundOnce DEF IInv, TouchingBefore
    <3> HIDE DEF S
    <3> QED
      BY <3>1, FoundOne
  <2>3. BeginOf(q) = r.address /\ FreeUnits(S) = Span(r)
    BY <2>2, UnitsOfOne DEF BeginOf
  <2>4. AddressedLess(r, q) /\ End(r) = q.address
    BY DEF TouchingBefore, FoundBefore
  <2>5. r.address + r.size = q.address /\ (r.size = 0 => q.size # 0)
    <3> DEFINE ra == r.address
               rs == r.size
               qa == q.address
               qs == q.size
    <3>1. /\ ra \in Nat /\ rs \in Nat /\ qa \in Nat /\ qs \in Nat
          /\ ra + rs <= AddressSpan /\ rs <= SizeMax /\ qs <= SizeMax
          /\ (ra + rs) % AddressSpan = qa
          /\ ra < qa \/ (ra = qa /\ rs < qs)
      BY <1>0, <2>1, <2>4 DEF End, AddressedLess
    <3> HIDE DEF ra, rs, qa, qs
    <3>2. CASE ra + rs = AddressSpan
      <4>1. qa = 0
        BY <3>1, <3>2, ConstantFacts
      <4> QED
        BY <3>1, <3>2, <4>1, ConstantFacts
    <3>3. CASE ra + rs < AddressSpan
      <4>1. (ra + rs) % AddressSpan = ra + rs
        BY <3>1, <3>3, ConstantFacts
      <4>2. ra + rs = qa /\ (rs = 0 => qs # 0)
        BY <3>1, <4>1
      <4> QED
        BY <4>2 DEF ra, rs, qa, qs
    <3> QED
      BY <3>1, <3>2, <3>3, ConstantFacts
  <2> QED
    BY <2>1, <2>2, <2>3, <2>5
<1>4. CASE S # {}
  <2>1. PICK r \in S : TRUE
    BY <1>4
  <2>2. q.size + r.size # 0
    <3> DEFINE rs == r.size
               qs == q.size
    <3>1. rs \in Nat /\ qs \in Nat /\ (rs = 0 => qs # 0)
      BY <1>0, <1>3
    <3> HIDE DEF rs, qs
    <3>2. qs + rs # 0
      BY <3>1
    <3> QED
      BY <3>2 DEF rs, qs
  <2> QED
    BY <1>1, <1>3, <2>2
<1> QED
  BY <1>2, <1>4

LEMMA AfterFacts ==
    ASSUME IInv, addressedTree = sizedTree, NEW q \in RegionType,
           q.address + q.size <= AddressSpan
    PROVE  LET size == SizeOf(TouchingAfter(q))
           IN  /\ TouchingAfter(q) \subseteq sizedTree
               /\ size \in Nat
               /\ FreeUnits(TouchingAfter(q)) = UnitsFrom(q.address + q.size, size)
               /\ q.size + size = 0 => TouchingAfter(q) = {}
               /\ \A r \in TouchingAfter(q) :
                     r.size = size /\ r.address = q.address + q.size
<1> DEFINE S == TouchingAfter(q)
<1>0. /\ q.address \in Units /\ q.address \in Nat /\ q.size \in Nat
      /\ q.size <= SizeMax
  BY RegionTypeFacts
<1>1. S \subseteq sizedTree
  BY DEF TouchingAfter, FoundAfter
<1>2. CASE S = {}
  <2>1. SizeOf(S) = 0
    BY <1>2 DEF SizeOf
  <2>2. q.address + q.size \in Nat
    BY <1>0
  <2>3. FreeUnits(S) = {} /\ UnitsFrom(q.address + q.size, 0) = {}
    BY <1>2, <2>2, EmptyRange DEF FreeUnits
  <2> QED
    BY <1>1, <1>2, <2>1, <2>3
<1>3. ASSUME NEW r \in S
      PROVE  /\ SizeOf(S) = r.size /\ S = {r} /\ r.size \in Nat
             /\ FreeUnits(S) = UnitsFrom(q.address + q.size, r.size)
             /\ q.size + r.size # 0 /\ r.address = q.address + q.size
  <2>1. /\ r \in RegionType /\ r.address \in Nat
        /\ r.size \in Nat /\ r.size <= SizeMax
        /\ Span(r) = UnitsFrom(r.address, r.size)
    BY <1>1, RegionFacts, RegionTypeFacts
  <2>2. S = {r} /\ SizeOf(S) = r.size
    <3>1. \A x, y \in S : x = y
      BY FoundOnce DEF IInv, TouchingAfter
    <3> HIDE DEF S
    <3> QED
      BY <3>1, FoundOne
  <2>3. FreeUnits(S) = Span(r)
    BY <2>2, UnitsOfOne
  <2>4. AddressedLess(q, r) /\ End(q) = r.address
    BY DEF TouchingAfter, FoundAfter
  <2>5. q.address + q.size = r.address /\ q.size + r.size # 0
    <3> DEFINE ra == r.address
               rs == r.size
               qa == q.address
               qs == q.size
    <3>1. /\ ra \in Nat /\ rs \in Nat /\ qa \in Nat /\ qs \in Nat
          /\ qa + qs <= AddressSpan /\ rs <= SizeMax /\ qs <= SizeMax
          /\ (qa + qs) % AddressSpan = ra
          /\ qa < ra \/ (qa = ra /\ qs < rs)
      BY <1>0, <2>1, <2>4 DEF End, AddressedLess
    <3> HIDE DEF ra, rs, qa, qs
    <3>2. CASE qa + qs = AddressSpan
      <4>1. ra = 0
        BY <3>1, <3>2, ConstantFacts
      <4> QED
        BY <3>1, <3>2, <4>1, ConstantFacts
    <3>3. CASE qa + qs < AddressSpan
      <4>1. (qa + qs) % AddressSpan = qa + qs
        BY <3>1, <3>3, ConstantFacts
      <4>2. qa + qs = ra /\ qs + rs # 0
        BY <3>1, <4>1
      <4> QED
        BY <4>2 DEF ra, rs, qa, qs
    <3> QED
      BY <3>1, <3>2, <3>3, ConstantFacts
  <2> QED
    BY <2>1, <2>2, <2>3, <2>5
<1>4. CASE S # {}
  <2>1. PICK r \in S : TRUE
    BY <1>4
  <2> QED
    BY <1>1, <1>3
<1> QED
  BY <1>2, <1>4

\* The joined region holds the freed range and what touches it, and is new.
LEMMA JoinedFacts ==
    ASSUME IInv, addressedTree = sizedTree, NEW q \in RegionType,
           Span(q) \subseteq held, q \notin addressedTree,
           RemoveFromBoth(TouchingBefore(q) \cup TouchingAfter(q))
    PROVE  LET R == TouchingBefore(q) \cup TouchingAfter(q)
           IN  /\ R \in SUBSET sizedTree
               /\ Span(Joined(q)) = FreeUnits(R) \cup Span(q)
               /\ Joined(q) \in RegionType \ sizedTree'
               /\ Joined(q).address = BeginOf(q)
               /\ Joined(q).size = SizeOf(TouchingBefore(q)) + q.size
                                     + SizeOf(TouchingAfter(q))
<1> DEFINE B == TouchingBefore(q)
           C == TouchingAfter(q)
           R == B \cup C
           F == Span(q)
           a == BeginOf(q)
           n == SizeOf(B)
           b == q.address
           k == q.size
           c == b + k
           m == SizeOf(C)
           total == n + k + m
           x == Joined(q)
<1>1. /\ b \in Units /\ b \in Nat /\ k \in Nat /\ k <= SizeMax
      /\ F = UnitsFrom(b, k) /\ q = FreeRegion(b, k)
  BY RegionTypeFacts
<1>2. b + k <= AddressSpan
  <2>1. held \subseteq Donated
    BY DEF IInv, Places
  <2>2. CASE k = 0
    <3>1. b \in 0..(AddressSpan - 1)
      BY <1>1 DEF Units
    <3> QED
      BY <2>2, <3>1, ConstantFacts
  <2>3. CASE k # 0
    <3>1. UnitsFrom(b, k) \subseteq Donated
      BY <1>1, <2>1
    <3> HIDE DEF b, k
    <3> QED
      BY <1>1, <2>3, <3>1, RangeFacts
  <2> QED
    BY <2>2, <2>3
<1>3. /\ B \subseteq sizedTree
      /\ a \in Units /\ a \in Nat /\ n \in Nat /\ a + n = b
      /\ FreeUnits(B) = UnitsFrom(a, n)
      /\ k + n = 0 => B = {}
  BY BeforeFacts
<1>4. /\ C \subseteq sizedTree /\ m \in Nat
      /\ FreeUnits(C) = UnitsFrom(c, m)
      /\ k + m = 0 => C = {}
  BY <1>2, AfterFacts
<1>5. x = FreeRegion(a, total % (SizeMax + 1))
  BY DEF Joined, BeginOf
<1>6. sizedTree' = sizedTree \ R /\ R \in SUBSET sizedTree
  BY <1>3, <1>4 DEF RemoveFromBoth
<1>7. FreeUnits(R) = FreeUnits(B) \cup FreeUnits(C)
  BY DEF FreeUnits
<1>8. c = b + k /\ total = n + k + m
  OBVIOUS
<1> HIDE DEF a, b, c, n, k, m, total, x, F, B, C, R
<1>9. /\ c \in Nat /\ total \in Nat
      /\ total = 0 => n = 0 /\ k = 0 /\ m = 0
  BY <1>1, <1>3, <1>4, <1>8
<1>10. UnitsFrom(a, total) = FreeUnits(R) \cup F
  <2>1. UnitsFrom(a, total)
            = UnitsFrom(a, n) \cup UnitsFrom(b, k) \cup UnitsFrom(c, m)
    <3>1. /\ a \in Nat /\ n \in Nat /\ b \in Nat /\ k \in Nat
          /\ c \in Nat /\ m \in Nat /\ total \in Nat
          /\ b = a + n /\ c = b + k /\ total = n + k + m
      BY <1>1, <1>3, <1>4, <1>8, <1>9
    <3> QED
      BY <3>1 DEF UnitsFrom
  <2> QED
    BY <1>1, <1>3, <1>4, <1>7, <2>1
<1>11. UnitsFrom(a, total) \subseteq Donated
  <2>1. FreeUnits(R) \subseteq FreeUnits(sizedTree)
    BY <1>6 DEF FreeUnits
  <2>2. F \subseteq held
    BY DEF F
  <2> QED
    BY <1>10, <2>1, <2>2 DEF IInv, Places
<1>12. total <= SizeMax
  BY <1>3, <1>9, <1>11, RangeFacts
<1>13. total % (SizeMax + 1) = total /\ total \in 0..SizeMax
  BY <1>9, <1>12, ConstantFacts
<1>14. x = FreeRegion(a, total)
  BY <1>5, <1>13
<1>15. /\ x \in RegionType /\ x.address = a /\ x.size = total
       /\ Span(x) = UnitsFrom(a, total)
  BY <1>3, <1>13, <1>14, FreeRegionFacts DEF RegionType, FreeRegion
<1>16. x \notin sizedTree'
  <2>1. CASE total # 0
    <3>1. Span(x) \subseteq FreeUnits(R) \cup F
      BY <1>10, <1>15
    <3>2. F \in SUBSET held
      BY DEF F
    <3> QED
      BY <1>6, <1>15, <2>1, <3>1, <3>2, NewWaits
  <2>2. CASE total = 0
    <3>1. n = 0 /\ k = 0 /\ m = 0
      BY <1>9, <2>2
    <3>2. B = {} /\ C = {} /\ a = b
      BY <1>1, <1>3, <1>4, <3>1
    <3>3. x = q /\ sizedTree' = sizedTree
      BY <1>1, <1>6, <1>14, <2>2, <3>1, <3>2 DEF R
    <3> QED
      BY <3>3
  <2> QED
    BY <2>1, <2>2
<1>17. x.size = n + k + m
  BY <1>8, <1>15
<1> QED
  BY <1>6, <1>10, <1>15, <1>16, <1>17 DEF x, F, R, B, C, a, n, k, m

LEMMA DeallocKept ==
    ASSUME IInv, NEW address \in Donated, NEW size \in 0..SizeMax,
           Dealloc(address, size)
    PROVE  Kept
<1> DEFINE q == FreeRegion(address, size)
           R == TouchingBefore(q) \cup TouchingAfter(q)
           F == Span(q)
           x == Joined(q)
           queue == <<x>>
<1>1. /\ Idle /\ F \subseteq held /\ q \notin addressedTree
      /\ RemoveFromBoth(R)
      /\ pending' = Call("Dealloc", queue, NoAnswer)
      /\ held' = held \ F
      /\ answer' = NoAnswer
      /\ UNCHANGED <<dropped, trapped>>
  BY DEF Dealloc
<1>2. q \in RegionType
  BY ConstantFacts DEF RegionType, FreeRegion
<1>3. addressedTree = sizedTree /\ Promised(pending.reply) = {}
  BY <1>1, IdleFacts DEF Idle
<1>4. /\ R \in SUBSET sizedTree
      /\ Span(x) = FreeUnits(R) \cup F
      /\ x \in RegionType \ sizedTree'
  <2> HIDE DEF q
  <2> QED
    BY <1>1, <1>2, <1>3, JoinedFacts
<1> HIDE DEF q, R, F, x
<1>5. /\ ~ NoAnswer.ok /\ Promised(NoAnswer) = {}
      /\ NoAnswer \in Contract!Answers /\ NoAnswer = Contract!NoAnswer
  BY ConstantFacts
  DEF NoAnswer, Answered, Promised, Contract!Answers, Contract!NoAnswer,
      Contract!Answered
<1>6. /\ pending'.queue = queue /\ pending'.tree = "addressed"
      /\ pending'.reply = NoAnswer
  BY <1>1, CallFacts
<1>7. queue \in Seq(RegionType) /\ Waiting(queue) = Span(x)
  BY <1>4, QueueType, WaitingFacts
<1>8. QueueInv'
  <2>1. PICK y \in RegionType \ sizedTree' : y = x
    BY <1>4
  <2>2. pending'.queue = <<y>> /\ Promised(pending'.reply) = {}
    BY <1>5, <1>6, <2>1
  <2>3. OneWaits(y)'
    BY <2>2 DEF OneWaits
  <2> QED
    BY <2>1, <2>3 DEF QueueInv
<1>9. Promised(NoAnswer) \cup Waiting(queue) = FreeUnits(R) \cup F
  BY <1>4, <1>5, <1>7
<1> HIDE DEF queue
<1>10. IInv'
  BY <1>1, <1>4, <1>5, <1>7, <1>8, <1>9, CallStarts
<1>11. Contract!Release
  <2>1. Promised(pending'.reply) = {}
    BY <1>5, <1>6
  <2>2. FreeUnits(sizedTree') \subseteq FreeUnits(sizedTree)
    BY <1>1 DEF RemoveFromBoth, FreeUnits
  <2> QED
    BY <1>1, <1>5, <2>1, <2>2 DEF Contract!Release
<1> QED
  BY <1>10, <1>11 DEF Kept, ContractStep, Contract!Next

-----------------------------------------------------------------------------
(* AddRegion, whichever of its insertions fail.                            *)

\* What waits behind the first region of the queue.
Behind(r, tail) ==
    \/ tail = <<>>
    \/ \E q \in RegionType \ sizedTree :
          /\ tail = <<q>> /\ q # r
          /\ pending.name # "Alloc"
          /\ Span(q) \cap Promised(pending.reply) = {}
          /\ Span(r) \cap Span(q) = {}

LEMMA HeadFacts ==
    ASSUME IInv, pending.queue # <<>>
    PROVE  LET r    == Head(pending.queue)
               tail == Tail(pending.queue)
           IN  /\ r \in RegionType \ sizedTree
               /\ tail \in Seq(RegionType)
               /\ Span(r) \cap Promised(pending.reply) = {}
               /\ Span(r) \cap Waiting(tail) = {}
               /\ InTransit = Promised(pending.reply) \cup Span(r) \cup Waiting(tail)
               /\ Behind(r, tail)
<1>1. InTransit = Promised(pending.reply) \cup Waiting(pending.queue)
  BY DEF InTransit, Waiting
<1>2. ASSUME NEW r \in RegionType \ sizedTree, OneWaits(r)
      PROVE  /\ Head(pending.queue) = r /\ Tail(pending.queue) = <<>>
             /\ Waiting(pending.queue) = Span(r)
             /\ Span(r) \cap Promised(pending.reply) = {}
  BY <1>2, WaitingFacts DEF OneWaits
<1>3. ASSUME NEW r \in RegionType \ sizedTree,
             NEW q \in RegionType \ sizedTree, TwoWait(r, q)
      PROVE  /\ Head(pending.queue) = r /\ Tail(pending.queue) = <<q>>
             /\ Waiting(pending.queue) = Span(r) \cup Span(q)
             /\ Span(r) \cap Promised(pending.reply) = {}
             /\ Span(r) \cap Span(q) = {}
             /\ Behind(r, <<q>>)
  <2>1. Head(<<r, q>>) = r /\ Tail(<<r, q>>) = <<q>>
    OBVIOUS
  <2> QED
    BY <1>3, <2>1, WaitingFacts DEF TwoWait, Behind
<1>4. ~ NothingWaits
  BY DEF NothingWaits
<1>5. CASE \E r \in RegionType \ sizedTree : OneWaits(r)
  BY <1>1, <1>2, <1>5, WaitingFacts, QueueType DEF Behind
<1>6. CASE \E r, q \in RegionType \ sizedTree : TwoWait(r, q)
  <2>1. PICK r \in RegionType \ sizedTree, q \in RegionType \ sizedTree :
            TwoWait(r, q)
    BY <1>6
  <2>2. /\ Head(pending.queue) = r /\ Tail(pending.queue) = <<q>>
        /\ Waiting(pending.queue) = Span(r) \cup Span(q)
        /\ Span(r) \cap Promised(pending.reply) = {}
        /\ Span(r) \cap Span(q) = {}
        /\ Behind(r, <<q>>)
    BY <1>3, <2>1
  <2>3. Waiting(<<q>>) = Span(q) /\ <<q>> \in Seq(RegionType)
    BY WaitingFacts, QueueType
  <2> QED
    BY <1>1, <2>2, <2>3
<1> QED
  BY <1>4, <1>5, <1>6 DEF IInv, QueueInv

\* When the first region has left the queue, the others still wait.
LEMMA TailWaits ==
    ASSUME IInv, pending.queue # <<>>,
           pending' = [pending EXCEPT !.queue = Tail(@), !.tree = "addressed"],
           sizedTree' \subseteq sizedTree \cup {Head(pending.queue)}
    PROVE  /\ QueueInv' /\ PendingInv'
           /\ pending'.tree = "addressed"
           /\ InTransit' = Promised(pending.reply) \cup Waiting(Tail(pending.queue))
<1> DEFINE tail == Tail(pending.queue)
<1>1. pending \in CallType
  BY DEF IInv, PendingInv
<1>2. /\ pending'.name = pending.name /\ pending'.queue = tail
      /\ pending'.tree = "addressed" /\ pending'.reply = pending.reply
  BY <1>1 DEF CallType
<1>3. tail \in Seq(RegionType) /\ Behind(Head(pending.queue), tail)
  BY HeadFacts
<1>4. PendingInv'
  <2>1. pending' \in CallType
    BY <1>1, <1>3 DEF CallType
  <2> QED
    BY <1>2, <2>1 DEF IInv, PendingInv
<1>5. InTransit' = Promised(pending.reply) \cup Waiting(tail)
  BY <1>2 DEF InTransit, Waiting
<1>6. QueueInv'
  <2>1. CASE tail = <<>>
    BY <1>2, <2>1 DEF NothingWaits, QueueInv
  <2>2. ASSUME NEW q \in RegionType \ sizedTree, tail = <<q>>,
               q # Head(pending.queue),
               Span(q) \cap Promised(pending.reply) = {}
        PROVE  QueueInv'
    <3>1. q \in RegionType \ sizedTree'
      BY <2>2
    <3>2. OneWaits(q)'
      BY <1>2, <2>2 DEF OneWaits
    <3> QED
      BY <3>1, <3>2 DEF QueueInv
  <2> QED
    BY <1>3, <2>1, <2>2 DEF Behind
<1> QED
  BY <1>2, <1>4, <1>5, <1>6

LEMMA AddAddressedKept == ASSUME IInv, AddAddressed PROVE Kept
<1>1. /\ pending.queue # <<>> /\ pending.tree = "addressed"
      /\ addressedTree' = addressedTree \cup {Head(pending.queue)}
      /\ pending' = [pending EXCEPT !.tree = "sized"]
      /\ UNCHANGED <<sizedTree, held, dropped, answer, trapped>>
  BY DEF AddAddressed, Adding
<1>2. pending \in CallType
  BY DEF IInv, PendingInv
<1>3. /\ pending'.name = pending.name /\ pending'.queue = pending.queue
      /\ pending'.tree = "sized" /\ pending'.reply = pending.reply
  BY <1>1, <1>2 DEF CallType
<1>4. TreesAgree'
  BY <1>1, <1>3 DEF IInv, TreesAgree, Adding
<1>5. PendingInv'
  <2>1. pending' \in CallType
    BY <1>1, <1>2 DEF CallType
  <2> QED
    BY <1>3, <2>1 DEF IInv, PendingInv
<1>6. QueueInv'
  <2>1. ~ NothingWaits
    BY <1>1 DEF NothingWaits
  <2>2. ASSUME NEW r \in RegionType \ sizedTree, OneWaits(r) PROVE QueueInv'
    BY <1>1, <1>3, <2>2 DEF OneWaits, QueueInv
  <2>3. ASSUME NEW r \in RegionType \ sizedTree,
               NEW q \in RegionType \ sizedTree, TwoWait(r, q)
        PROVE  QueueInv'
    <3>1. TwoWait(r, q)'
      BY <1>3, <2>3 DEF TwoWait
    <3> QED
      BY <1>1, <3>1 DEF QueueInv
  <2> QED
    BY <2>1, <2>2, <2>3 DEF IInv, QueueInv
<1>7. InTransit' = InTransit
  BY <1>3 DEF InTransit
<1>8. /\ Disjoint(sizedTree')
      /\ Places(Donated, FreeUnits(sizedTree'), held', InTransit', dropped')
  BY <1>1, <1>7 DEF IInv
<1>9. IInv'
  BY <1>1, <1>4, <1>5, <1>6, <1>8 DEF IInv
<1> QED
  BY <1>1, <1>9, Housekept

LEMMA AddSizedKept == ASSUME IInv, AddSized PROVE Kept
<1> DEFINE r == Head(pending.queue)
           tail == Tail(pending.queue)
<1>1. /\ pending.queue # <<>> /\ pending.tree = "sized"
      /\ sizedTree' = sizedTree \cup {r}
      /\ pending' = [pending EXCEPT !.queue = Tail(@), !.tree = "addressed"]
      /\ UNCHANGED <<addressedTree, held, dropped, answer, trapped>>
  BY DEF AddSized, Adding
<1>2. /\ r \in RegionType
      /\ Span(r) \cap Promised(pending.reply) = {}
      /\ Span(r) \cap Waiting(tail) = {}
      /\ InTransit = Promised(pending.reply) \cup Span(r) \cup Waiting(tail)
  BY <1>1, HeadFacts
<1>3. /\ QueueInv' /\ PendingInv'
      /\ pending'.tree = "addressed"
      /\ InTransit' = Promised(pending.reply) \cup Waiting(tail)
  BY <1>1, TailWaits
<1>4. Span(r) \cap FreeUnits(sizedTree) = {}
  BY <1>2 DEF IInv, Places, Apart
<1>5. /\ FreeUnits(sizedTree') = FreeUnits(sizedTree) \cup Span(r)
      /\ Disjoint(sizedTree')
  BY <1>1, <1>4, UnitsWith DEF IInv
<1>6. TreesAgree'
  BY <1>1, <1>3 DEF IInv, TreesAgree, Adding
<1> HIDE DEF r, tail
<1>7. Places(Donated, FreeUnits(sizedTree'), held', InTransit', dropped')
  BY <1>1, <1>2, <1>3, <1>5 DEF IInv, Places, Apart
<1>8. IInv'
  BY <1>1, <1>2, <1>3, <1>5, <1>6, <1>7 DEF IInv
<1> QED
  BY <1>1, <1>8, Housekept

\* A region that cannot be recorded is dropped, and with it what Alloc took.
LEMMA FailsKept ==
    ASSUME IInv, pending.queue # <<>>, AddRegionFails,
           addressedTree' = sizedTree
    PROVE  Kept
<1> DEFINE r == Head(pending.queue)
           tail == Tail(pending.queue)
<1>1. /\ r \in RegionType
      /\ Span(r) \cap Promised(pending.reply) = {}
      /\ Span(r) \cap Waiting(tail) = {}
      /\ InTransit = Promised(pending.reply) \cup Span(r) \cup Waiting(tail)
      /\ Behind(r, tail)
  BY HeadFacts
<1>2. UNCHANGED <<sizedTree, held, answer, trapped>>
  BY DEF AddRegionFails
<1>3. ASSUME pending.name = "Alloc",
             pending' = Call("Alloc", <<>>, Answered(FALSE, 0, 1, 0, pending.reply.size)),
             dropped' = dropped \cup Span(r) \cup Promised(pending.reply)
      PROVE  /\ QueueInv' /\ PendingInv' /\ TreesAgree'
             /\ Places(Donated, FreeUnits(sizedTree'), held', InTransit', dropped')
  <2> DEFINE reply == Answered(FALSE, 0, 1, 0, pending.reply.size)
  <2>1. /\ pending'.name = "Alloc" /\ pending'.queue = <<>>
        /\ pending'.tree = "addressed" /\ pending'.reply = reply
    BY <1>3 DEF Call
  <2>2. /\ pending.reply.size \in 0..SizeMax
    BY <1>3 DEF IInv, PendingInv
  <2>3. /\ reply \in Contract!Answers /\ ~ reply.ok
        /\ reply.size \in 0..SizeMax
    <3>1. 1 \in 0..AddressSpan /\ 0 \in Units
      BY ConstantFacts DEF Units
    <3>2. reply \in Contract!Answers
      BY <2>2, <3>1, AnswerType
    <3> QED
      BY <2>2, <3>2 DEF Answered
  <2>4. tail = <<>>
    BY <1>1, <1>3 DEF Behind
  <2>5. Waiting(tail) = {} /\ Promised(reply) = {}
    BY <2>3, <2>4, WaitingFacts DEF Promised
  <2>6. InTransit' = {}
    <3>1. Promised(pending'.reply) = {} /\ Waiting(pending'.queue) = {}
      BY <2>1, <2>5, WaitingFacts
    <3> QED
      BY <3>1 DEF InTransit, Waiting
  <2>7. QueueInv' /\ TreesAgree'
    BY <1>2, <2>1 DEF QueueInv, NothingWaits, TreesAgree, Adding
  <2> HIDE DEF reply
  <2>8. PendingInv'
    <3>1. pending' \in CallType
      BY <1>3, <2>3, QueueType DEF Call, CallType, reply
    <3> QED
      BY <2>1, <2>3, <3>1 DEF PendingInv
  <2> HIDE DEF r, tail
  <2>9. Places(Donated, FreeUnits(sizedTree'), held', InTransit', dropped')
    BY <1>1, <1>2, <1>3, <2>5, <2>6 DEF IInv, Places, Apart
  <2> QED
    BY <2>7, <2>8, <2>9
<1>4. ASSUME pending' = [pending EXCEPT !.queue = Tail(@), !.tree = "addressed"],
             dropped' = dropped \cup Span(r)
      PROVE  /\ QueueInv' /\ PendingInv' /\ TreesAgree'
             /\ Places(Donated, FreeUnits(sizedTree'), held', InTransit', dropped')
  <2>1. /\ QueueInv' /\ PendingInv'
        /\ pending'.tree = "addressed"
        /\ InTransit' = Promised(pending.reply) \cup Waiting(tail)
    BY <1>2, <1>4, TailWaits
  <2>2. TreesAgree'
    BY <1>2, <2>1 DEF TreesAgree, Adding
  <2> HIDE DEF r, tail
  <2>3. Places(Donated, FreeUnits(sizedTree'), held', InTransit', dropped')
    BY <1>1, <1>2, <1>4, <2>1 DEF IInv, Places, Apart
  <2> QED
    BY <2>1, <2>2, <2>3
<1>5. /\ QueueInv' /\ PendingInv' /\ TreesAgree'
      /\ Places(Donated, FreeUnits(sizedTree'), held', InTransit', dropped')
  BY <1>3, <1>4 DEF AddRegionFails
<1>6. IInv'
  BY <1>2, <1>5 DEF IInv
<1> QED
  BY <1>2, <1>6, Housekept

LEMMA GiveUpAddressedKept == ASSUME IInv, GiveUpAddressed PROVE Kept
<1>1. addressedTree' = sizedTree
  BY DEF GiveUpAddressed, IInv, TreesAgree, Adding
<1> QED
  BY <1>1, FailsKept DEF GiveUpAddressed, Adding

\* The undo takes out the region that was put in, which was not there before.
LEMMA GiveUpSizedKept == ASSUME IInv, GiveUpSized PROVE Kept
<1>1. pending.queue # <<>> /\ Head(pending.queue) \notin sizedTree
  BY HeadFacts DEF GiveUpSized, Adding
<1>2. addressedTree' = sizedTree
  BY <1>1 DEF GiveUpSized, IInv, TreesAgree
<1> QED
  BY <1>1, <1>2, FailsKept DEF GiveUpSized

\* The client gets what it was promised, or is refused.
LEMMA ReturnKept == ASSUME IInv, Return PROVE Kept
<1> DEFINE reply == pending.reply
           given == Promised(reply)
<1>1. /\ pending.queue = <<>> /\ pending' = NoCall
      /\ held' = held \cup given /\ answer' = reply
      /\ UNCHANGED <<sizedTree, addressedTree, dropped, trapped>>
  BY DEF Return
<1>2. pending.tree = "addressed" /\ InTransit = given
  <2>1. NothingWaits
    BY <1>1 DEF IInv, QueueInv, OneWaits, TwoWait
  <2>2. Waiting(pending.queue) = {}
    BY <1>1, WaitingFacts
  <2> QED
    BY <2>1, <2>2 DEF NothingWaits, InTransit, Waiting
<1>3. /\ pending'.name = "none" /\ pending'.queue = <<>>
      /\ pending'.tree = "addressed" /\ ~ pending'.reply.ok
      /\ pending'.reply \in Contract!Answers
  BY <1>1, ConstantFacts DEF NoCall, Call, NoAnswer, Answered, Contract!Answers
<1>4. Promised(pending'.reply) = {} /\ InTransit' = {}
  <2>1. Promised(pending'.reply) = {} /\ Waiting(pending'.queue) = {}
    BY <1>3, WaitingFacts DEF Promised
  <2> QED
    BY <2>1 DEF InTransit, Waiting
<1>5. QueueInv' /\ TreesAgree'
  BY <1>1, <1>2, <1>3
  DEF QueueInv, NothingWaits, IInv, TreesAgree, Adding
<1>6. PendingInv'
  <2>1. pending' \in CallType
    BY <1>1, <1>3, QueueType DEF NoCall, Call, CallType
  <2> QED
    BY <1>3, <2>1 DEF PendingInv
<1>7. /\ reply \in Contract!Answers
      /\ reply.ok => Aligned(reply)
  BY DEF IInv, PendingInv, CallType
<1> HIDE DEF reply, given
<1>8. Disjoint(sizedTree') /\ sizedTree' \subseteq RegionType
      /\ Places(Donated, FreeUnits(sizedTree'), held', InTransit', dropped')
  BY <1>1, <1>2, <1>4 DEF IInv, Places, Apart
<1>9. IInv'
  BY <1>1, <1>5, <1>6, <1>7, <1>8 DEF IInv
<1>10. FreeUnits(sizedTree) \cap given = {} /\ FreeUnits(sizedTree') = FreeUnits(sizedTree)
  BY <1>1, <1>2 DEF IInv, Places, Apart
<1>11. CASE reply.ok
  <2>1. given = answer'.address .. (answer'.address + answer'.size - 1)
    BY <1>1, <1>11 DEF given, Promised, UnitsFrom
  <2>2. ((answer'.address + answer'.offset) % AddressSpan) % answer'.align = 0
    BY <1>1, <1>7, <1>11 DEF Aligned
  <2>3. Contract!Grant
    BY <1>1, <1>4, <1>7, <1>10, <1>11, <2>1, <2>2 DEF Contract!Grant, given, reply
  <2> QED
    BY <1>9, <2>3 DEF Kept, ContractStep, Contract!Next
<1>12. CASE ~ reply.ok
  <2>1. given = {}
    BY <1>12 DEF given, Promised
  <2>2. Contract!Refuse
    BY <1>1, <1>4, <1>7, <1>10, <1>12, <2>1 DEF Contract!Refuse, given, reply
  <2> QED
    BY <1>9, <2>2 DEF Kept, ContractStep, Contract!Next
<1> QED
  BY <1>11, <1>12

-----------------------------------------------------------------------------
(* The theorems.                                                           *)

LEMMA StutterKept == ASSUME IInv, UNCHANGED vars PROVE Kept
<1>1. UNCHANGED <<sizedTree, addressedTree, pending, held, dropped, answer, trapped>>
  BY DEF vars
<1>2. TreesAgree' /\ QueueInv' /\ PendingInv' /\ InTransit' = InTransit
  BY <1>1
  DEF IInv, TreesAgree, Adding, QueueInv, NothingWaits, OneWaits, TwoWait,
      PendingInv, InTransit
<1>3. /\ Disjoint(sizedTree')
      /\ Places(Donated, FreeUnits(sizedTree'), held', InTransit', dropped')
  BY <1>1, <1>2 DEF IInv
<1>4. IInv'
  BY <1>1, <1>2, <1>3 DEF IInv
<1> QED
  BY <1>1, <1>4, Housekept

LEMMA NextKept == ASSUME NoWrap, IInv, [Next]_vars PROVE Kept
<1>1. ASSUME NEW size \in AllocSizes, Alloc(size) PROVE Kept
  BY <1>1, AllocKept
<1>2. ASSUME NEW align \in Aligns, NEW offset \in AlignOffsets,
             NEW size \in AlignSizes, OffsetAlign(align, offset, size)
      PROVE  Kept
  BY <1>2, OffsetAlignKept
<1>3. ASSUME NEW address \in Donated, NEW size \in 0..SizeMax,
             Dealloc(address, size)
      PROVE  Kept
  BY <1>3, DeallocKept
<1>4. CASE AddAddressed
  BY <1>4, AddAddressedKept
<1>5. CASE AddSized
  BY <1>5, AddSizedKept
<1>6. CASE GiveUpAddressed
  BY <1>6, GiveUpAddressedKept
<1>7. CASE GiveUpSized
  BY <1>7, GiveUpSizedKept
<1>8. CASE Return
  BY <1>8, ReturnKept
<1>9. CASE UNCHANGED vars
  BY <1>9, StutterKept
<1> QED
  BY <1>1, <1>2, <1>3, <1>4, <1>5, <1>6, <1>7, <1>8, <1>9 DEF Next

THEOREM Invariance == ASSUME NoWrap PROVE Spec => []IInv
<1>1. IInv /\ [Next]_vars => IInv'
  BY NextKept DEF Kept
<1> QED
  BY <1>1, InitInvariant, PTL DEF Spec

LEMMA TypeFollows == ASSUME IInv PROVE TypeOK
<1>1. /\ pending \in CallType /\ sizedTree \subseteq RegionType
      /\ answer \in Contract!Answers /\ trapped \in BOOLEAN
      /\ held \subseteq Donated /\ dropped \subseteq Donated
  BY DEF IInv, PendingInv, Places
<1>2. addressedTree \subseteq RegionType
  <2>1. Adding("sized") => Head(pending.queue) \in RegionType
    BY HeadFacts DEF Adding
  <2> QED
    BY <1>1, <2>1 DEF IInv, TreesAgree
<1>3. \E n \in 0..2 : pending.queue \in [1..n -> RegionType]
  <2>1. CASE pending.queue = <<>>
    <3>1. <<>> \in [1..0 -> RegionType]
      OBVIOUS
    <3>2. 0 \in 0..2
      OBVIOUS
    <3> QED
      BY <2>1, <3>1, <3>2
  <2>2. ASSUME NEW r \in RegionType, pending.queue = <<r>>
        PROVE  \E n \in 0..2 : pending.queue \in [1..n -> RegionType]
    <3>1. <<r>> \in [1..1 -> RegionType]
      OBVIOUS
    <3>2. 1 \in 0..2
      OBVIOUS
    <3> QED
      BY <2>2, <3>1, <3>2
  <2>3. ASSUME NEW r \in RegionType, NEW q \in RegionType, pending.queue = <<r, q>>
        PROVE  \E n \in 0..2 : pending.queue \in [1..n -> RegionType]
    <3>1. <<r, q>> \in [1..2 -> RegionType]
      OBVIOUS
    <3>2. 2 \in 0..2
      OBVIOUS
    <3> QED
      BY <2>3, <3>1, <3>2
  <2> QED
    BY <2>1, <2>2, <2>3 DEF IInv, QueueInv, NothingWaits, OneWaits, TwoWait
<1>4. pending \in [name : {"none", "Alloc", "OffsetAlign", "Dealloc"},
                   queue : UNION {[1..n -> RegionType] : n \in 0..2},
                   tree : {"addressed", "sized"},
                   reply : Contract!Answers]
  BY <1>1, <1>3 DEF CallType
<1> QED
  BY <1>1, <1>2, <1>4 DEF TypeOK

\* The variables have their types; no call ever has more than two regions to
\* add (OffsetAlign, free-tree.hpp:92-107).
THEOREM TypeTheorem == ASSUME NoWrap PROVE Spec => []TypeOK
<1>1. IInv => TypeOK
  BY TypeFollows
<1> QED
  BY <1>1, Invariance, PTL

\* Whichever of AddRegion's insertions fails, and however often the handler
\* gives up, the trees hold the same regions but for the one that is on its
\* way from the first to the second (free-tree.hpp:247-261).
THEOREM TreesAgreeTheorem == ASSUME NoWrap PROVE Spec => []TreesAgree
<1>1. IInv => TreesAgree
  BY DEF IInv
<1> QED
  BY <1>1, Invariance, PTL

\* No unit is free twice, or free and held, and none is lost but with a
\* region whose insertion failed: what Alloc, OffsetAlign and Dealloc cut out
\* of the trees and put back adds up, in SizeType's and AddressType's sums.
THEOREM UnitsConservedTheorem == ASSUME NoWrap PROVE Spec => []UnitsConserved
<1>1. IInv => UnitsConserved
  BY DEF IInv, Places, Apart, Disjoint, UnitsConserved
<1> QED
  BY <1>1, Invariance, PTL

\* What a call is about to return is the allocator's to give: what
\* allocator.hpp:41-42 says holds, but for the sums that NoWrap excludes.
THEOREM GrantedIsFreeTheorem == ASSUME NoWrap PROVE Spec => []GrantedIsFree
<1>1. IInv => GrantedIsFree
  BY DEF IInv, Places, Apart, InTransit, GrantedIsFree
<1> QED
  BY <1>1, Invariance, PTL

LEMMA ContractInit == Init => Contract!Init
<1> SUFFICES ASSUME Init PROVE Contract!Init
  OBVIOUS
<1>1. IInv
  BY InitInvariant
<1>2. Promised(pending.reply) = {}
  BY DEF Init, NoCall, Call, NoAnswer, Answered, Promised
<1>3. (FreeUnits(sizedTree) \cup Promised(pending.reply)) \cap held = {}
  BY <1>1, <1>2 DEF IInv, Places, Apart
<1>4. answer = Contract!NoAnswer
  BY DEF Init, NoAnswer, Answered, Contract!NoAnswer, Contract!Answered
<1> QED
  BY <1>3, <1>4 DEF Contract!Init

\* FreeTree is an OffsetAligner: an answer is aligned and takes free units
\* only, a refused call changes nothing for the client, and what is freed is
\* all that becomes free (abstract/allocator.hpp, offset-aligner.hpp).
THEOREM ContractTheorem == ASSUME NoWrap PROVE Spec => FreeTreeContract
<1>1. IInv /\ [Next]_vars => [Contract!Next]_(Contract!vars)
  BY NextKept DEF Kept, ContractStep
<1> QED
  BY <1>1, ContractInit, Invariance, PTL DEF Spec, FreeTreeContract, Contract!Spec
-----------------------------------------------------------------------------
(* What the searches find.                                                 *)

\* A tree that holds a region of the size that is looked for, or a larger one,
\* holds one that FindGE finds.
LEMMA SmallestFound ==
    ASSUME sizedTree \subseteq RegionType, NEW size \in Nat,
           NEW r \in sizedTree, size <= r.size
    PROVE  \E x \in sizedTree : FoundGE(x, FreeRegion(0, size))
<1> DEFINE Big    == {x \in sizedTree : size <= x.size}
           Totals == {x.size : x \in Big}
<1>1. \A x \in sizedTree : x.size \in Nat /\ x.address \in Nat
  BY RegionTypeFacts
<1>2. PICK m \in Totals : \A n \in Totals : m <= n
  <2>1. Totals \in SUBSET Nat /\ Totals # {}
    BY <1>1
  <2> HIDE DEF Totals
  <2> QED
    BY <2>1, Numbers!LeastNumber
<1> DEFINE Least  == {x \in Big : x.size = m}
           Places2 == {x.address : x \in Least}
<1>3. PICK a \in Places2 : \A b \in Places2 : a <= b
  <2>1. Places2 \in SUBSET Nat /\ Places2 # {}
    BY <1>1, <1>2
  <2> HIDE DEF Places2
  <2> QED
    BY <2>1, Numbers!LeastNumber
<1>4. PICK x \in Least : x.address = a
  BY <1>3
<1>5. /\ x \in sizedTree /\ x.size = m /\ size <= m /\ m \in Nat
      /\ \A y \in sizedTree : size <= y.size => m <= y.size
      /\ \A y \in sizedTree : size <= y.size /\ y.size = m => a <= y.address
  BY <1>1, <1>2, <1>3, <1>4
<1> HIDE DEF Big, Totals, Least, Places2
<1>6. ~ SizedLess(x, FreeRegion(0, size))
  BY <1>1, <1>4, <1>5, FreeRegionFacts DEF SizedLess
<1>7. ASSUME NEW y \in sizedTree, ~ SizedLess(y, FreeRegion(0, size))
      PROVE  ~ SizedLess(y, x)
  <2>1. size <= y.size
    BY <1>1, <1>7, FreeRegionFacts DEF SizedLess
  <2> QED
    BY <1>1, <1>4, <1>5, <2>1 DEF SizedLess
<1> QED
  BY <1>5, <1>6, <1>7 DEF FoundGE

\* The region that Alloc takes is the smallest that is big enough.
LEMMA FoundIsBest ==
    ASSUME sizedTree \subseteq RegionType, addressedTree = sizedTree,
           NEW size \in Nat, NEW r \in sizedTree,
           FoundGE(r, FreeRegion(0, size))
    PROVE  BestFit(Answered(TRUE, r.address, 1, 0, size))
<1>1. \A x \in sizedTree : x.size \in Nat /\ x.address \in Nat
  BY RegionTypeFacts
<1>2. \A x \in sizedTree :
            SizedLess(x, FreeRegion(0, size)) <=> x.size < size
  BY <1>1, FreeRegionFacts DEF SizedLess
<1>3. /\ r.size >= size
      /\ \A q \in sizedTree : q.size >= size => ~ SizedLess(q, r)
  BY <1>1, <1>2 DEF FoundGE
<1> DEFINE reply == Answered(TRUE, r.address, 1, 0, size)
<1>4. reply.address = r.address /\ reply.size = size
  BY DEF Answered
<1> HIDE DEF reply
<1>5. BestFit(reply)
  BY <1>3, <1>4 DEF BestFit
<1> QED
  BY <1>5 DEF reply

LEMMA RangeWithin ==
    ASSUME NEW a \in Int, NEW n \in Nat \ {0}, NEW b \in Int, NEW m \in Int,
           UnitsFrom(a, n) \subseteq UnitsFrom(b, m)
    PROVE  b <= a /\ a + n <= b + m
<1> DEFINE c == a + n - 1
<1>1. a \in UnitsFrom(a, n) /\ c \in UnitsFrom(a, n)
  BY DEF UnitsFrom
<1>2. a \in UnitsFrom(b, m) /\ c \in UnitsFrom(b, m)
  BY <1>1
<1> QED
  BY <1>2 DEF UnitsFrom

\* FittingEnumerator accepts a region with an aligned part that is big enough,
\* and skips no such part.
LEMMA FitsIsAccepted ==
    ASSUME IInv, NEW r \in sizedTree, NEW align \in Aligns \ {0},
           NEW offset \in AlignOffsets, NEW size \in AlignSizes \ {0},
           NEW at \in Int, UnitsFrom(at, size) \subseteq Span(r),
           ((at + offset) % AddressSpan) % align = 0
    PROVE  /\ Accepted(r, align, offset, size)
           /\ r.address <= at
           /\ Skip(r, align, offset) \in Nat
           /\ r.address + Skip(r, align, offset) <= at
<1> DEFINE start == r.address
           total == r.size
           skip  == Skip(r, align, offset)
<1>1. /\ AddressSpan \in Nat \ {0} /\ align \in Nat \ {0} /\ offset \in Int
      /\ size \in Nat \ {0} /\ AddressSpan % align = 0
      /\ SizeMax < AddressSpan /\ SizeMax \in Nat
  BY ConstantFacts
<1>2. /\ start \in Nat /\ total \in Nat /\ total <= SizeMax
      /\ Span(r) = UnitsFrom(start, total)
  BY RegionFacts, RegionTypeFacts
<1>3. start \in Int /\ total \in Int
  BY <1>2
<1>4. start <= at /\ at + size <= start + total
  <2>1. UnitsFrom(at, size) \subseteq UnitsFrom(start, total)
    BY <1>2
  <2> HIDE DEF start, total
  <2> QED
    BY <1>1, <1>3, <2>1, RangeWithin
<1>5. skip = IF ((start + offset) % AddressSpan) % align = 0 THEN 0
             ELSE align - (((start + offset) % AddressSpan) % align)
  BY DEF Skip
<1>6. Accepted(r, align, offset, size) <=> (skip + size) % AddressSpan <= total
  BY DEF Accepted, Reach
<1> HIDE DEF start, total, skip
<1>7. skip \in Int
  <2> DEFINE place == (start + offset) % AddressSpan
  <2>1. place \in Int
    BY <1>1, <1>3
  <2> HIDE DEF place
  <2>2. place % align \in Int
    BY <1>1, <2>1
  <2> QED
    BY <1>1, <1>5, <2>2 DEF place
<1>8. skip \in 0..(align - 1) /\ start + skip <= at
  BY <1>1, <1>3, <1>4, <1>5, <1>7, Numbers!NearestAligned, ZenonT(60)
<1>9. skip + size \in 0..(AddressSpan - 1) /\ skip + size <= total
  BY <1>1, <1>2, <1>4, <1>8
<1>10. (skip + size) % AddressSpan = skip + size
  BY <1>1, <1>9
<1> QED
  BY <1>1, <1>4, <1>6, <1>8, <1>9, <1>10 DEF start, skip

\* The part that OffsetAlign hands out is the lowest that is aligned and free.
LEMMA AcceptedIsLowest ==
    ASSUME NoWrap, IInv, addressedTree = sizedTree,
           NEW align \in Aligns \ {0}, NEW offset \in AlignOffsets,
           NEW size \in AlignSizes \ {0}, NEW r \in addressedTree,
           FirstAccepted(r, align, offset, size)
    PROVE  LowestAligned(
              Answered(TRUE, (r.address + Skip(r, align, offset)) % AddressSpan,
                       align, offset, size))
<1> DEFINE skip  == Skip(r, align, offset)
           at    == (r.address + skip) % AddressSpan
           start == r.address
           total == r.size
<1>1. /\ AddressSpan \in Nat \ {0} /\ size \in Nat \ {0}
      /\ SizeMax < AddressSpan /\ SizeMax \in Nat
  BY ConstantFacts
<1>2. r \in sizedTree /\ Accepted(r, align, offset, size)
  BY DEF FirstAccepted
<1>3. /\ start \in Nat /\ total \in Nat /\ start + total <= AddressSpan
      /\ Span(r) = UnitsFrom(start, total)
  BY <1>2, RegionFacts, RegionTypeFacts
<1>4. /\ skip \in Nat /\ skip + size <= total
      /\ UnitsFrom(at, size) = UnitsFrom(start + skip, size)
      /\ ((at + offset) % AddressSpan) % align = 0
  BY <1>2, SkipFacts
<1>5. at = start + skip
  <2> DEFINE from == start + skip
  <2>1. from \in 0..(AddressSpan - 1)
    BY <1>1, <1>3, <1>4
  <2> HIDE DEF from
  <2>2. from % AddressSpan = from
    BY <1>1, <2>1
  <2> QED
    BY <2>2 DEF from
<1> HIDE DEF start, total, skip, at
<1>6. Usable(at, align, offset, size)
  <2>1. UnitsFrom(at, size) \subseteq UnitsFrom(start, total)
    BY <1>1, <1>3, <1>4, <1>5 DEF UnitsFrom
  <2> QED
    BY <1>2, <1>3, <1>4, <2>1 DEF Usable
<1>7. ASSUME NEW a \in 0..(at - 1), Usable(a, align, offset, size)
      PROVE  FALSE
  <2>1. PICK x \in sizedTree : UnitsFrom(a, size) \subseteq Span(x)
    BY <1>7 DEF Usable
  <2>2. ((a + offset) % AddressSpan) % align = 0
    BY <1>7 DEF Usable
  <2> DEFINE xa == x.address
             xs == x.size
  <2>3. a \in Int /\ 0 <= a /\ a < at /\ at \in Nat
    BY <1>3, <1>4, <1>5
  <2>4. /\ Accepted(x, align, offset, size) /\ xa <= a
        /\ xa + Skip(x, align, offset) <= a
    BY <2>1, <2>2, <2>3, FitsIsAccepted
  <2>5. ~ AddressedLess(x, r)
    BY <2>1, <2>4 DEF FirstAccepted
  <2>6. xa \in Nat /\ xs \in Nat /\ Span(x) = UnitsFrom(xa, xs)
    BY <2>1, RegionFacts, RegionTypeFacts
  <2>7. x # r
    BY <1>5, <2>3, <2>4 DEF start, skip
  <2>8. start <= xa
    <3>1. ~ (xa < start)
      BY <2>5 DEF AddressedLess, start
    <3> QED
      BY <1>3, <2>6, <3>1
  <2> HIDE DEF xa, xs
  <2>9. a \in UnitsFrom(start, total)
    BY <1>1, <1>3, <1>4, <1>5, <2>3, <2>4, <2>6, <2>8 DEF UnitsFrom
  <2>10. a \in UnitsFrom(a, size)
    BY <1>1, <2>3 DEF UnitsFrom
  <2>11. a \in Span(x) /\ a \in Span(r)
    BY <1>3, <2>1, <2>9, <2>10
  <2> QED
    BY <1>2, <2>1, <2>7, <2>11 DEF IInv, Disjoint
<1> DEFINE reply == Answered(TRUE, at, align, offset, size)
<1>8. /\ reply.address = at /\ reply.align = align /\ reply.offset = offset
      /\ reply.size = size
  BY DEF Answered
<1> HIDE DEF reply
<1>9. LowestAligned(reply)
  BY <1>6, <1>7, <1>8 DEF LowestAligned
<1> QED
  BY <1>9 DEF reply, at, skip

\* What a call that begins finds, or what it means that it finds nothing.
SearchStep ==
    Idle =>
        /\ pending'.name = "Alloc" => BestFit(pending'.reply)
        /\ pending'.name = "OffsetAlign" /\ pending'.reply.size > 0 =>
                LowestAligned(pending'.reply)
        /\ answer' # answer /\ ~ answer'.ok /\ answer'.size > 0 =>
                \A a \in Units : ~ Usable(a, answer'.align, answer'.offset, answer'.size)

\* A call that is denied leaves pending as it is.
LEMMA DenialSearch ==
    ASSUME Idle, NEW align, NEW offset, NEW size, Deny(align, offset, size),
           size > 0 => \A a \in Units : ~ Usable(a, align, offset, size)
    PROVE  SearchStep
<1>1. pending' = NoCall /\ NoCall.name = "none"
  BY DEF Deny, Idle, NoCall, Call
<1>2. /\ answer'.align = align /\ answer'.offset = offset
      /\ answer'.size = size
  BY DEF Deny, Answered
<1> QED
  BY <1>1, <1>2 DEF SearchStep

LEMMA AllocSearch ==
    ASSUME IInv, NEW size \in AllocSizes, Alloc(size)
    PROVE  SearchStep
<1>1. /\ Idle /\ addressedTree = sizedTree /\ size \in Nat
      /\ sizedTree \subseteq RegionType
  BY IdleFacts, ConstantFacts DEF Alloc, Idle, IInv
<1>2. ASSUME NEW r \in sizedTree, FoundGE(r, FreeRegion(0, size)),
             pending' = Call("Alloc", Excess(r, size),
                             Answered(TRUE, r.address, 1, 0, size)),
             answer' = answer
      PROVE  SearchStep
  <2>1. BestFit(Answered(TRUE, r.address, 1, 0, size))
    BY <1>1, <1>2, FoundIsBest
  <2> DEFINE queue == Excess(r, size)
             reply == Answered(TRUE, r.address, 1, 0, size)
  <2>2. BestFit(reply) /\ pending' = Call("Alloc", queue, reply)
    BY <1>2, <2>1
  <2> HIDE DEF queue, reply
  <2>3. pending'.name = "Alloc" /\ pending'.reply = reply
    BY <2>2, CallFacts
  <2> QED
    BY <1>2, <2>2, <2>3 DEF SearchStep
<1>3. ASSUME \A r \in sizedTree : ~ FoundGE(r, FreeRegion(0, size)),
             Deny(1, 0, size)
      PROVE  SearchStep
  <2>1. ASSUME size > 0, NEW a \in Units, Usable(a, 1, 0, size)
        PROVE  FALSE
    <3>1. PICK r \in sizedTree : UnitsFrom(a, size) \subseteq Span(r)
      BY <2>1 DEF Usable
    <3>2. ~ (size <= r.size)
      BY <1>1, <1>3, <3>1, SmallestFound
    <3>3. /\ r.address \in Int /\ r.size \in Int /\ a \in Int
          /\ size \in Nat \ {0}
          /\ Span(r) = UnitsFrom(r.address, r.size)
      BY <1>1, <2>1, <3>1, RegionTypeFacts, ConstantFacts DEF Units
    <3>4. r.address <= a /\ a + size <= r.address + r.size
      BY <3>1, <3>3, RangeWithin
    <3> QED
      BY <3>2, <3>3, <3>4
  <2> QED
    BY <1>1, <1>3, <2>1, DenialSearch
<1> QED
  BY <1>2, <1>3 DEF Alloc

LEMMA OffsetAlignSearch ==
    ASSUME NoWrap, IInv, NEW align \in Aligns, NEW offset \in AlignOffsets,
           NEW size \in AlignSizes, OffsetAlign(align, offset, size)
    PROVE  SearchStep
<1>1. /\ Idle /\ addressedTree = sizedTree /\ size \in Nat
  BY IdleFacts, ConstantFacts DEF OffsetAlign, Idle
<1>2. ASSUME DivideByZero PROVE SearchStep
  <2>1. pending' = NoCall /\ answer' = answer /\ NoCall.name = "none"
    BY <1>1, <1>2 DEF DivideByZero, Idle, NoCall, Call
  <2> QED
    BY <2>1 DEF SearchStep
<1>3. ASSUME align # 0, NEW r \in addressedTree,
             FirstAccepted(r, align, offset, size),
             pending' = Call("OffsetAlign", Slivers(r, align, offset, size),
                 Answered(TRUE, (r.address + Skip(r, align, offset)) % AddressSpan,
                          align, offset, size)),
             answer' = answer
      PROVE  SearchStep
  <2> DEFINE queue == Slivers(r, align, offset, size)
             reply == Answered(TRUE,
                 (r.address + Skip(r, align, offset)) % AddressSpan,
                 align, offset, size)
  <2>1. reply.size = size
    BY DEF Answered
  <2>2. ASSUME size > 0 PROVE LowestAligned(reply)
    <3>1. align \in Aligns \ {0} /\ size \in AlignSizes \ {0}
      BY <1>1, <1>3, <2>2
    <3> QED
      BY <1>1, <1>3, <3>1, AcceptedIsLowest
  <2>3. pending' = Call("OffsetAlign", queue, reply)
    BY <1>3
  <2> HIDE DEF queue, reply
  <2>4. pending'.name = "OffsetAlign" /\ pending'.reply = reply
    BY <2>3, CallFacts
  <2> QED
    BY <1>3, <2>1, <2>2, <2>4 DEF SearchStep
<1>4. ASSUME align # 0 \/ addressedTree = {},
             \A r \in addressedTree : ~ Accepted(r, align, offset, size),
             Deny(align, offset, size)
      PROVE  SearchStep
  <2>1. ASSUME size > 0, NEW a \in Units, Usable(a, align, offset, size)
        PROVE  FALSE
    <3>1. PICK r \in sizedTree : UnitsFrom(a, size) \subseteq Span(r)
      BY <2>1 DEF Usable
    <3>2. ((a + offset) % AddressSpan) % align = 0 /\ align # 0
      BY <1>1, <1>4, <2>1, <3>1 DEF Usable
    <3>3. a \in Int /\ size \in AlignSizes \ {0}
      BY <2>1, ConstantFacts DEF Units
    <3>4. Accepted(r, align, offset, size)
      BY <3>1, <3>2, <3>3, FitsIsAccepted
    <3> QED
      BY <1>1, <1>4, <3>1, <3>4
  <2> QED
    BY <1>1, <1>4, <2>1, DenialSearch
<1> QED
  BY <1>2, <1>3, <1>4 DEF OffsetAlign

\* Nothing but Alloc and OffsetAlign searches.
LEMMA NextSearch ==
    ASSUME NoWrap, IInv, [Next]_vars
    PROVE  [SearchStep]_vars
<1>1. CASE \E size \in AllocSizes : Alloc(size)
  BY <1>1, AllocSearch
<1>2. CASE \E align \in Aligns, offset \in AlignOffsets, size \in AlignSizes :
              OffsetAlign(align, offset, size)
  BY <1>2, OffsetAlignSearch
<1>3. CASE \E address \in Donated, size \in 0..SizeMax : Dealloc(address, size)
  <2>1. /\ pending'.name = "Dealloc" /\ answer'.size = 0
    BY <1>3 DEF Dealloc, Call, NoAnswer, Answered
  <2> QED
    BY <2>1 DEF SearchStep
<1>4. CASE AddAddressed \/ AddSized \/ GiveUpAddressed \/ GiveUpSized \/ Return
  <2>1. pending # NoCall
    <3>1. NoCall.queue = <<>>
      BY DEF NoCall, Call
    <3> QED
      BY <1>4, <3>1
      DEF AddAddressed, AddSized, GiveUpAddressed, GiveUpSized, Return, Adding
  <2> QED
    BY <2>1 DEF SearchStep, Idle
<1> QED
  BY <1>1, <1>2, <1>3, <1>4 DEF Next

\* What Alloc and OffsetAlign answer is the best there is by their policies,
\* and they are refused only when there is nothing, in every state the failed
\* insertions of earlier calls may have left.
THEOREM SearchExactTheorem == ASSUME NoWrap PROVE Spec => SearchExact
<1>1. IInv /\ [Next]_vars => [SearchStep]_vars
  BY NextSearch
<1> QED
  BY Invariance, <1>1, PTL DEF Spec, SearchExact, SearchStep

-----------------------------------------------------------------------------
(* Where regions touch.                                                    *)

LEMMA SeamFacts ==
    ASSUME NEW S, NEW a
    PROVE  a \in Seams(S) <=>
              \E x, y \in S : /\ x.size > 0 /\ x.address + x.size = a
                              /\ y.size > 0 /\ y.address = a
  BY DEF Seams, Inhabited

LEMMA SeamsOfMore ==
    ASSUME NEW S, NEW T, S \subseteq T
    PROVE  Seams(S) \subseteq Seams(T)
  BY DEF Seams, Inhabited

\* Two regions with a unit in common are one.
LEMMA CommonUnit ==
    ASSUME IInv, NEW x \in sizedTree, NEW y \in sizedTree, NEW u \in Int,
           x.address <= u, u < x.address + x.size,
           y.address <= u, u < y.address + y.size
    PROVE  x = y
<1>1. /\ Span(x) = UnitsFrom(x.address, x.size)
      /\ Span(y) = UnitsFrom(y.address, y.size)
      /\ x.address \in Int /\ x.size \in Int
      /\ y.address \in Int /\ y.size \in Int
  BY RegionFacts, RegionTypeFacts
<1>2. u \in Span(x) /\ u \in Span(y)
  BY <1>1 DEF UnitsFrom
<1> QED
  BY <1>2 DEF IInv, Disjoint

\* The piece p lies in the region r.
PieceOf(p, r) ==
    /\ p.address \in Nat /\ p.size \in Nat
    /\ r.address <= p.address /\ p.address + p.size <= r.address + r.size

\* A region that is divided touches what it touched before; only its pieces
\* may touch each other.
LEMMA DividedSeams ==
    ASSUME IInv, NEW r \in sizedTree, NEW P,
           \A p \in P : p.size > 0 => PieceOf(p, r)
    PROVE  Seams((sizedTree \ {r}) \cup P) \subseteq Seams(sizedTree) \cup Seams(P)
<1>1. \A x \in sizedTree : x.address \in Nat /\ x.size \in Nat
  BY RegionFacts, RegionTypeFacts
<1> SUFFICES ASSUME NEW a, NEW x \in (sizedTree \ {r}) \cup P,
                    NEW y \in (sizedTree \ {r}) \cup P,
                    x.size > 0, x.address + x.size = a,
                    y.size > 0, y.address = a,
                    a \notin Seams(P)
             PROVE  a \in Seams(sizedTree)
  BY SeamFacts
<1>2. CASE x \in sizedTree \ {r} /\ y \in sizedTree \ {r}
  BY <1>2, SeamFacts
<1>3. CASE x \in P /\ y \in P
  BY <1>3, SeamFacts
<1>4. CASE x \in P /\ y \in sizedTree \ {r}
  <2>1. PieceOf(x, r) /\ r.size > 0
    BY <1>1, <1>4 DEF PieceOf
  <2>2. CASE a = r.address + r.size
    BY <1>4, <2>1, <2>2, SeamFacts
  <2>3. CASE a # r.address + r.size
    <3>1. /\ a \in Int /\ r.address <= a /\ a < r.address + r.size
          /\ y.address <= a /\ a < y.address + y.size
      BY <1>1, <1>4, <2>1, <2>3 DEF PieceOf
    <3> QED
      BY <1>4, <3>1, CommonUnit
  <2> QED
    BY <2>2, <2>3
<1>5. CASE x \in sizedTree \ {r} /\ y \in P
  <2>1. PieceOf(y, r) /\ r.size > 0
    BY <1>1, <1>5 DEF PieceOf
  <2>2. CASE a = r.address
    BY <1>5, <2>1, <2>2, SeamFacts
  <2>3. CASE a # r.address
    <3> DEFINE u == a - 1
    <3>1. /\ u \in Int /\ r.address <= u /\ u < r.address + r.size
          /\ x.address <= u /\ u < x.address + x.size
      BY <1>1, <1>5, <2>1, <2>3 DEF PieceOf
    <3> HIDE DEF u
    <3> QED
      BY <1>5, <3>1, CommonUnit
  <2> QED
    BY <2>2, <2>3
<1> QED
  BY <1>2, <1>3, <1>4, <1>5

\* One region has no seam, and two have one where the first ends and the
\* second begins.
LEMMA FewSeams ==
    /\ Seams({}) = {}
    /\ \A p : p.address \in Int /\ p.size \in Int => Seams({p}) = {}
    /\ \A p, t : /\ p.address \in Int /\ p.size \in Int
                 /\ t.address \in Int /\ t.size \in Int
                 /\ p.address <= t.address
                 => Seams({p, t}) \subseteq
                      IF p.address + p.size = t.address /\ t.size > 0
                      THEN {t.address} ELSE {}
<1>1. Seams({}) = {}
  BY DEF Seams, Inhabited
<1>2. ASSUME NEW p, p.address \in Int, p.size \in Int
      PROVE  Seams({p}) = {}
  <2>1. \A a : a \notin Seams({p})
    BY <1>2, SeamFacts
  <2> QED
    BY <2>1
<1>3. ASSUME NEW p, NEW t, p.address \in Int, p.size \in Int,
             t.address \in Int, t.size \in Int, p.address <= t.address,
             NEW a \in Seams({p, t})
      PROVE  p.address + p.size = t.address /\ t.size > 0 /\ a = t.address
  <2>1. PICK x \in {p, t}, y \in {p, t} :
            /\ x.size > 0 /\ x.address + x.size = a
            /\ y.size > 0 /\ y.address = a
    BY <1>3, SeamFacts
  <2>2. CASE x = p /\ y = t
    BY <2>1, <2>2
  <2>3. CASE x = y
    BY <1>3, <2>1, <2>3
  <2>4. CASE x = t /\ y = p
    BY <1>3, <2>1, <2>4
  <2> QED
    BY <2>2, <2>3, <2>4
<1> QED
  BY <1>1, <1>2, <1>3

\* The regions that a call which begins leaves behind.
LEMMA RegionsOfCall ==
    ASSUME NEW name, NEW queue, NEW reply, pending' = Call(name, queue, reply)
    PROVE  Regions' = addressedTree' \cup {queue[i] : i \in DOMAIN queue}
<1>1. pending'.queue = queue
  BY CallFacts
<1> QED
  BY <1>1 DEF Regions

LEMMA QueueElements ==
    /\ {<<>>[i] : i \in DOMAIN <<>>} = {}
    /\ \A r : {<<r>>[i] : i \in DOMAIN <<r>>} = {r}
    /\ \A r, q : {<<r, q>>[i] : i \in DOMAIN <<r, q>>} = {r, q}
<1>1. {<<>>[i] : i \in DOMAIN <<>>} = {}
  OBVIOUS
<1>2. ASSUME NEW r PROVE {<<r>>[i] : i \in DOMAIN <<r>>} = {r}
  <2>1. DOMAIN <<r>> = {1} /\ <<r>>[1] = r
    OBVIOUS
  <2> QED
    BY <2>1
<1>3. ASSUME NEW r, NEW q PROVE {<<r, q>>[i] : i \in DOMAIN <<r, q>>} = {r, q}
  <2>1. DOMAIN <<r, q>> = {1, 2} /\ <<r, q>>[1] = r /\ <<r, q>>[2] = q
    OBVIOUS
  <2> QED
    BY <2>1
<1> QED
  BY <1>1, <1>2, <1>3

\* A step leaves no new seam but where it answers an empty range, unless an
\* empty region is in the trees.
SeamStep ==
    \/ Seams(Regions') \subseteq
          Seams(Regions) \cup
             (IF pending'.reply.ok /\ pending'.reply.size = 0
              THEN {pending'.reply.address} ELSE {})
    \/ \E r \in addressedTree : r.size = 0

LEMMA IdleRegions ==
    ASSUME IInv, Idle
    PROVE  Regions = sizedTree /\ addressedTree = sizedTree
<1>1. pending.queue = <<>> /\ addressedTree = sizedTree
  BY IdleFacts DEF Idle, NoCall, Call
<1> QED
  BY <1>1, QueueElements DEF Regions

LEMMA AllocSeams ==
    ASSUME IInv, NEW size \in AllocSizes, Alloc(size)
    PROVE  SeamStep
<1>1. Idle /\ size \in Nat /\ Regions = sizedTree /\ addressedTree = sizedTree
  BY IdleRegions, ConstantFacts DEF Alloc
<1>2. ASSUME Deny(1, 0, size) PROVE SeamStep
  <2>1. Regions' = Regions
    BY <1>2 DEF Deny, Regions
  <2> QED
    BY <2>1 DEF SeamStep
<1>3. ASSUME NEW r \in sizedTree, FoundGE(r, FreeRegion(0, size)),
             RemoveFromBoth({r}),
             pending' = Call("Alloc", Excess(r, size),
                             Answered(TRUE, r.address, 1, 0, size))
      PROVE  SeamStep
  <2> DEFINE queue == Excess(r, size)
             reply == Answered(TRUE, r.address, 1, 0, size)
             P     == {queue[i] : i \in DOMAIN queue}
  <2>1. addressedTree' = sizedTree \ {r} /\ pending' = Call("Alloc", queue, reply)
    BY <1>1, <1>3 DEF RemoveFromBoth
  <2>2. Seams(P) = {} /\ \A p \in P : p.size > 0 => PieceOf(p, r)
    <3>1. CASE size < r.size
      <4> DEFINE x == FreeRegion((r.address + size) % AddressSpan, r.size - size)
                 start == r.address
                 total == r.size
      <4>1. /\ start \in Nat /\ total \in Nat /\ start + total <= AddressSpan
            /\ AddressSpan \in Nat \ {0}
        BY RegionFacts, RegionTypeFacts, ConstantFacts
      <4>2. x.address = (start + size) % AddressSpan /\ x.size = total - size
        BY FreeRegionFacts
      <4>3. queue = <<x>>
        BY <3>1 DEF Excess
      <4>4. P = {x}
        <5> HIDE DEF x, queue
        <5> QED
          BY <4>3, QueueElements
      <4> HIDE DEF x, start, total
      <4>5. size < total
        BY <3>1 DEF total
      <4>6. (start + size) % AddressSpan = start + size
        BY <1>1, <4>1, <4>5
      <4>7. /\ x.address \in Nat /\ x.size \in Nat /\ start <= x.address
            /\ x.address + x.size <= start + total
        BY <1>1, <4>1, <4>2, <4>5, <4>6
      <4>8. PieceOf(x, r)
        BY <4>7 DEF PieceOf, start, total
      <4>9. Seams({x}) = {}
        BY <4>7, FewSeams
      <4> QED
        BY <4>4, <4>8, <4>9
    <3>2. CASE ~ (size < r.size)
      <4>1. queue = <<>>
        BY <3>2 DEF Excess
      <4>2. P = {}
        BY <4>1
      <4> QED
        BY <4>2, FewSeams
    <3> QED
      BY <3>1, <3>2
  <2> HIDE DEF reply, queue
  <2>3. Regions' = (sizedTree \ {r}) \cup P
    BY <2>1, RegionsOfCall
  <2> HIDE DEF P
  <2>4. Seams(Regions') \subseteq Seams(Regions)
    BY <1>1, <2>2, <2>3, DividedSeams
  <2> QED
    BY <2>4 DEF SeamStep
<1> QED
  BY <1>2, <1>3 DEF Alloc

LEMMA OffsetAlignSeams ==
    ASSUME NoWrap, IInv, NEW align \in Aligns, NEW offset \in AlignOffsets,
           NEW size \in AlignSizes, OffsetAlign(align, offset, size)
    PROVE  SeamStep
<1>1. /\ Idle /\ size \in Nat /\ Regions = sizedTree
      /\ addressedTree = sizedTree
  BY IdleRegions, ConstantFacts DEF OffsetAlign
<1>2. ASSUME Deny(align, offset, size) \/ DivideByZero PROVE SeamStep
  <2>1. Regions' = Regions
    BY <1>2 DEF Deny, DivideByZero, Regions
  <2> QED
    BY <2>1 DEF SeamStep
<1>3. ASSUME align # 0, NEW r \in addressedTree,
             FirstAccepted(r, align, offset, size),
             RemoveFromBoth({r}),
             pending' = Call("OffsetAlign", Slivers(r, align, offset, size),
                 Answered(TRUE, (r.address + Skip(r, align, offset)) % AddressSpan,
                          align, offset, size))
      PROVE  SeamStep
  <2> DEFINE skip  == Skip(r, align, offset)
             at    == (r.address + skip) % AddressSpan
             reach == Reach(r, align, offset, size)
             start == r.address
             total == r.size
             from  == (start + skip + size) % AddressSpan
             head  == FreeRegion(start, skip % (SizeMax + 1))
             tail  == FreeRegion(from, total - reach)
             queue == Slivers(r, align, offset, size)
             reply == Answered(TRUE, at, align, offset, size)
             P     == {queue[i] : i \in DOMAIN queue}
  <2>1. /\ r \in sizedTree /\ Accepted(r, align, offset, size)
        /\ align \in Aligns \ {0}
    BY <1>1, <1>3 DEF FirstAccepted
  <2>2. /\ skip \in Nat /\ reach = skip + size /\ skip + size <= total
    BY <2>1, SkipFacts
  <2>3. /\ start \in Nat /\ total \in Nat /\ total <= SizeMax
        /\ start + total <= AddressSpan
        /\ AddressSpan \in Nat \ {0} /\ SizeMax \in Nat
    BY <2>1, RegionFacts, RegionTypeFacts, ConstantFacts
  <2>4. /\ addressedTree' = sizedTree \ {r}
        /\ pending' = Call("OffsetAlign", queue, reply)
    BY <1>1, <1>3 DEF RemoveFromBoth
  <2>5. /\ reply.ok /\ reply.size = size /\ reply.address = at
        /\ at = (start + skip) % AddressSpan
    BY DEF Answered
  <2>6. queue = (IF skip > 0 THEN <<head>> ELSE <<>>)
                    \o (IF reach < total THEN <<tail>> ELSE <<>>)
    BY DEF Slivers
  <2>7. /\ head.address = start /\ head.size = skip % (SizeMax + 1)
        /\ tail.address = from /\ tail.size = total - reach
        /\ from = (start + skip + size) % AddressSpan
    BY FreeRegionFacts
  <2> HIDE DEF skip, at, reach, from, head, tail, queue, reply
  <2>8. P \subseteq {head} \cup (IF reach < total THEN {tail} ELSE {})
    <3>1. CASE reach < total
      <4>1. queue = <<head, tail>> \/ queue = <<tail>>
        BY <2>6, <3>1, Joins
      <4>2. P = {head, tail} \/ P = {tail}
        BY <4>1, QueueElements
      <4> HIDE DEF P
      <4> QED
        BY <3>1, <4>2
    <3>2. CASE ~ (reach < total)
      <4>1. queue = <<head>> \/ queue = <<>>
        BY <2>6, <3>2, Joins
      <4>2. P = {head} \/ P = {}
        BY <4>1, QueueElements
      <4> HIDE DEF P
      <4> QED
        BY <3>2, <4>2
    <3> QED
      BY <3>1, <3>2
  <2>9. Regions' = (sizedTree \ {r}) \cup P
    BY <2>4, RegionsOfCall
  <2>10. pending'.reply = reply
    BY <2>4, CallFacts
  <2> HIDE DEF start, total, P
  <2>11. skip % (SizeMax + 1) = skip
    BY <1>1, <2>2, <2>3
  <2>12. PieceOf(head, r) /\ head.address \in Int /\ head.size \in Int
    <3>1. /\ head.address \in Nat /\ head.size \in Nat /\ start <= head.address
          /\ head.address + head.size <= start + total
      BY <1>1, <2>2, <2>3, <2>7, <2>11
    <3> QED
      BY <3>1 DEF PieceOf, start, total
  <2>13. CASE reach < total
    <3>1. from = start + skip + size /\ at = start + skip
      <4>1. /\ (start + skip + size) % AddressSpan = start + skip + size
            /\ (start + skip) % AddressSpan = start + skip
        BY <1>1, <2>2, <2>3, <2>13
      <4> QED
        BY <2>5, <2>7, <4>1
    <3>2. /\ tail.address \in Nat /\ tail.size \in Nat /\ start <= tail.address
          /\ tail.address + tail.size <= start + total
          /\ head.address <= tail.address
          /\ head.address + head.size = tail.address => size = 0 /\ tail.address = at
      BY <1>1, <2>2, <2>3, <2>7, <2>11, <2>13, <3>1
    <3>3. PieceOf(tail, r)
      BY <3>2 DEF PieceOf, start, total
    <3>4. \A p \in P : PieceOf(p, r)
      BY <2>8, <2>12, <2>13, <3>3
    <3>5. Seams({head, tail}) \subseteq IF size = 0 THEN {at} ELSE {}
      <4>1. tail.address \in Int /\ tail.size \in Int
        BY <3>2
      <4>2. Seams({head, tail}) \subseteq
                IF head.address + head.size = tail.address /\ tail.size > 0
                THEN {tail.address} ELSE {}
        BY <2>12, <3>2, <4>1, FewSeams
      <4> QED
        BY <3>2, <4>2
    <3>6. Seams(P) \subseteq Seams({head, tail})
      BY <2>8, SeamsOfMore
    <3>7. Seams(Regions') \subseteq Seams(sizedTree) \cup Seams(P)
      BY <2>1, <2>9, <3>4, DividedSeams
    <3> QED
      BY <1>1, <2>5, <2>10, <3>5, <3>6, <3>7 DEF SeamStep
  <2>14. CASE ~ (reach < total)
    <3>1. P \subseteq {head}
      BY <2>8, <2>14
    <3>2. Seams(P) \subseteq Seams({head}) /\ Seams({head}) = {}
      BY <2>12, <3>1, SeamsOfMore, FewSeams
    <3>3. \A p \in P : PieceOf(p, r)
      BY <2>12, <3>1
    <3>4. Seams(Regions') \subseteq Seams(sizedTree) \cup Seams(P)
      BY <2>1, <2>9, <3>3, DividedSeams
    <3> QED
      BY <1>1, <3>2, <3>4 DEF SeamStep
  <2> QED
    BY <2>13, <2>14
<1> QED
  BY <1>2, <1>3 DEF OffsetAlign

\* FindLT and FindGT find the region that touches, where no region is empty.
LEMMA ToucherBeforeFound ==
    ASSUME IInv, addressedTree = sizedTree, \A r \in sizedTree : r.size # 0,
           NEW q \in RegionType, Span(q) \subseteq held,
           NEW x \in sizedTree, x.address + x.size = q.address
    PROVE  x \in TouchingBefore(q)
<1>1. \A z \in sizedTree :
         /\ z.address \in Nat /\ z.size \in Nat \ {0} /\ z.address \in Span(z)
  BY RegionFacts, RegionTypeFacts
<1>2. /\ q.address \in 0..(AddressSpan - 1)
      /\ q.address \in Nat /\ q.size \in Nat
      /\ q.size # 0 => q.address \in Span(q)
  BY RegionTypeFacts DEF Units
<1>3. \A z \in sizedTree : Span(z) \cap Span(q) = {}
  BY DEF IInv, Places, Apart, FreeUnits
<1>4. AddressedLess(x, q)
  BY <1>1, <1>2 DEF AddressedLess
<1>5. End(x) = q.address
  <2> DEFINE b == q.address
  <2>1. b % AddressSpan = b
    <3>1. b \in 0..(AddressSpan - 1)
      BY <1>2
    <3> HIDE DEF b
    <3> QED
      BY <3>1, ConstantFacts
  <2>2. End(x) = b % AddressSpan
    BY DEF End
  <2> QED
    BY <2>1, <2>2
<1>6. ASSUME NEW z \in sizedTree, AddressedLess(z, q), AddressedLess(x, z)
      PROVE  FALSE
  <2>1. x.address <= z.address /\ z.address <= q.address
    BY <1>1, <1>2, <1>6 DEF AddressedLess
  <2>2. CASE z.address < q.address
    <3>1. /\ z.address \in Int
          /\ x.address <= z.address /\ z.address < x.address + x.size
          /\ z.address <= z.address /\ z.address < z.address + z.size
      BY <1>1, <2>1, <2>2
    <3>2. x = z
      BY <3>1, CommonUnit
    <3> QED
      BY <1>1, <1>6, <3>2 DEF AddressedLess
  <2>3. CASE z.address = q.address
    <3>1. q.size # 0
      BY <1>1, <1>2, <1>6, <2>3 DEF AddressedLess
    <3>2. q.address \in Span(q) /\ z.address \in Span(z)
      BY <1>1, <1>2, <3>1
    <3>3. Span(z) \cap Span(q) = {}
      BY <1>3
    <3> QED
      BY <2>3, <3>2, <3>3
  <2> QED
    BY <1>1, <1>2, <2>1, <2>2, <2>3
<1> QED
  BY <1>4, <1>5, <1>6 DEF TouchingBefore, FoundBefore

LEMMA ToucherAfterFound ==
    ASSUME IInv, addressedTree = sizedTree, \A r \in sizedTree : r.size # 0,
           NEW q \in RegionType, Span(q) \subseteq held,
           NEW y \in sizedTree, y.address = q.address + q.size
    PROVE  y \in TouchingAfter(q)
<1>1. \A z \in sizedTree :
         /\ z.address \in Nat /\ z.size \in Nat \ {0} /\ z.address \in Span(z)
         /\ z.address \in 0..(AddressSpan - 1)
  BY RegionFacts, RegionTypeFacts DEF Units
<1>2. q.address \in Nat /\ q.size \in Nat /\ Span(q) = UnitsFrom(q.address, q.size)
  BY RegionTypeFacts
<1>3. \A z \in sizedTree : Span(z) \cap Span(q) = {}
  BY DEF IInv, Places, Apart, FreeUnits
<1>4. AddressedLess(q, y)
  BY <1>1, <1>2 DEF AddressedLess
<1>5. End(q) = y.address
  BY <1>1, <1>2, ConstantFacts DEF End
<1>6. ASSUME NEW z \in sizedTree, AddressedLess(q, z), AddressedLess(z, y)
      PROVE  FALSE
  <2>1. q.address <= z.address /\ z.address <= y.address
    BY <1>1, <1>2, <1>6 DEF AddressedLess
  <2>2. CASE z.address < y.address
    <3>1. z.address \in UnitsFrom(q.address, q.size)
      BY <1>1, <1>2, <2>1, <2>2 DEF UnitsFrom
    <3> QED
      BY <1>1, <1>2, <1>3, <3>1
  <2>3. CASE z.address = y.address
    <3>1. /\ z.address \in Int
          /\ y.address <= z.address /\ z.address < y.address + y.size
          /\ z.address <= z.address /\ z.address < z.address + z.size
      BY <1>1, <2>3
    <3>2. y = z
      BY <3>1, CommonUnit
    <3> QED
      BY <1>1, <1>6, <3>2 DEF AddressedLess
  <2> QED
    BY <1>1, <2>1, <2>2, <2>3
<1> QED
  BY <1>4, <1>5, <1>6 DEF TouchingAfter, FoundAfter

\* A freed range that is joined with what it touches touches nothing else.
LEMMA JoinedSeams ==
    ASSUME IInv, addressedTree = sizedTree, \A r \in sizedTree : r.size # 0,
           NEW q \in RegionType, Span(q) \subseteq held, q \notin addressedTree,
           RemoveFromBoth(TouchingBefore(q) \cup TouchingAfter(q))
    PROVE  Seams((sizedTree \ (TouchingBefore(q) \cup TouchingAfter(q)))
                     \cup {Joined(q)})
              \subseteq Seams(sizedTree)
<1> DEFINE B     == TouchingBefore(q)
           C     == TouchingAfter(q)
           j     == Joined(q)
           n     == SizeOf(B)
           m     == SizeOf(C)
           b     == q.address
           k     == q.size
           begin == BeginOf(q)
<1>1. b \in Nat /\ b \in Units /\ k \in Nat /\ Span(q) = UnitsFrom(b, k)
  BY RegionTypeFacts
<1>2. \A z \in sizedTree : z.address \in Nat /\ z.size \in Nat \ {0}
  BY RegionFacts, RegionTypeFacts
<1>3. b + k <= AddressSpan
  <2>1. UnitsFrom(b, k) \subseteq Donated
    BY <1>1 DEF IInv, Places
  <2>2. k = 0 => b + k <= AddressSpan
    BY <1>1, ConstantFacts DEF Units
  <2> HIDE DEF b, k
  <2> QED
    BY <1>1, <2>1, <2>2, RangeFacts
<1>4. /\ B \subseteq sizedTree /\ begin \in Nat /\ n \in Nat
      /\ begin + n = b /\ \A r \in B : r.address = begin
      /\ B = {} => begin = b
  BY BeforeFacts DEF BeginOf
<1>5. /\ C \subseteq sizedTree /\ m \in Nat
      /\ \A r \in C : r.size = m /\ r.address = b + k
      /\ C = {} => m = 0
  BY <1>3, AfterFacts DEF SizeOf
<1>6. j.address = begin /\ j.size = n + k + m
  BY JoinedFacts
<1>7. /\ \A z \in sizedTree : z.address + z.size = b => z \in B
      /\ \A z \in sizedTree : z.address = b + k => z \in C
  BY ToucherBeforeFound, ToucherAfterFound
<1> HIDE DEF B, C, j, n, m, b, k, begin
<1> SUFFICES ASSUME NEW a, NEW x \in (sizedTree \ (B \cup C)) \cup {j},
                    NEW y \in (sizedTree \ (B \cup C)) \cup {j},
                    x.size > 0, x.address + x.size = a,
                    y.size > 0, y.address = a
             PROVE  a \in Seams(sizedTree)
  BY SeamFacts DEF B, C, j
<1>8. CASE x \in sizedTree /\ y \in sizedTree
  BY <1>8, SeamFacts
<1>9. CASE x = j /\ y \in sizedTree \ (B \cup C)
  <2>1. a = b + k + m
    BY <1>1, <1>4, <1>5, <1>6, <1>9
  <2>2. CASE C = {}
    <3>1. y.address = b + k
      BY <1>1, <1>5, <2>1, <2>2
    <3> QED
      BY <1>7, <1>9, <2>2, <3>1
  <2>3. CASE C # {}
    <3>1. PICK c \in C : TRUE
      BY <2>3
    <3>2. c \in sizedTree /\ c.size > 0 /\ c.address + c.size = a
      BY <1>1, <1>2, <1>5, <2>1
    <3> QED
      BY <1>9, <3>2, SeamFacts
  <2> QED
    BY <2>2, <2>3
<1>10. CASE x \in sizedTree \ (B \cup C) /\ y = j
  <2>1. a = begin
    BY <1>6, <1>10
  <2>2. CASE B = {}
    BY <1>4, <1>7, <1>10, <2>1, <2>2
  <2>3. CASE B # {}
    <3>1. PICK c \in B : TRUE
      BY <2>3
    <3>2. c \in sizedTree /\ c.size > 0 /\ c.address = a
      BY <1>2, <1>4, <2>1
    <3> QED
      BY <1>10, <3>2, SeamFacts
  <2> QED
    BY <2>2, <2>3
<1>11. CASE x = j /\ y = j
  BY <1>1, <1>4, <1>5, <1>6, <1>11
<1> QED
  BY <1>8, <1>9, <1>10, <1>11

LEMMA DeallocSeams ==
    ASSUME IInv, NEW address \in Donated, NEW size \in 0..SizeMax,
           Dealloc(address, size)
    PROVE  SeamStep
<1> DEFINE q     == FreeRegion(address, size)
           R     == TouchingBefore(q) \cup TouchingAfter(q)
           x     == Joined(q)
           queue == <<x>>
           P     == {queue[i] : i \in DOMAIN queue}
<1>1. /\ Idle /\ Span(q) \subseteq held /\ q \notin addressedTree
      /\ RemoveFromBoth(R)
      /\ pending' = Call("Dealloc", queue, NoAnswer)
  BY DEF Dealloc
<1>2. /\ q \in RegionType /\ Regions = sizedTree /\ addressedTree = sizedTree
  BY <1>1, IdleRegions, ConstantFacts DEF RegionType, FreeRegion
<1>3. P = {x} /\ addressedTree' = sizedTree \ R
  <2>1. P = {x}
    <3> HIDE DEF x
    <3> QED
      BY QueueElements
  <2> QED
    BY <1>1, <1>2, <2>1 DEF RemoveFromBoth
<1> HIDE DEF q, queue
<1>4. Regions' = (sizedTree \ R) \cup {x}
  BY <1>1, <1>3, RegionsOfCall
<1>5. CASE \A r \in sizedTree : r.size # 0
  BY <1>1, <1>2, <1>4, <1>5, JoinedSeams DEF SeamStep
<1>6. CASE \E r \in sizedTree : r.size = 0
  BY <1>2, <1>6 DEF SeamStep
<1> QED
  BY <1>5, <1>6

\* AddRegion and Return move a region or lose it, but make none.
LEMMA InsertionSeams ==
    ASSUME IInv,
           AddAddressed \/ AddSized \/ GiveUpAddressed \/ GiveUpSized \/ Return
    PROVE  SeamStep
<1> DEFINE elements == {pending.queue[i] : i \in DOMAIN pending.queue}
           behind   == {Tail(pending.queue)[i] : i \in DOMAIN Tail(pending.queue)}
<1>1. pending.queue # <<>> =>
         elements = {Head(pending.queue)} \cup behind
  <2>1. SUFFICES ASSUME pending.queue # <<>>
                 PROVE  elements = {Head(pending.queue)} \cup behind
    OBVIOUS
  <2>2. ASSUME NEW r, pending.queue = <<r>>
        PROVE  elements = {Head(pending.queue)} \cup behind
    <3>1. Head(<<r>>) = r /\ Tail(<<r>>) = <<>>
      OBVIOUS
    <3> QED
      BY <2>2, <3>1, QueueElements
  <2>3. ASSUME NEW r, NEW q, pending.queue = <<r, q>>
        PROVE  elements = {Head(pending.queue)} \cup behind
    <3>1. Head(<<r, q>>) = r /\ Tail(<<r, q>>) = <<q>>
      OBVIOUS
    <3>2. elements = {r, q} /\ behind = {q}
      BY <2>3, <3>1, QueueElements
    <3> QED
      BY <2>3, <3>1, <3>2
  <2> QED
    BY <2>1, <2>2, <2>3 DEF IInv, QueueInv, NothingWaits, OneWaits, TwoWait
<1>2. Regions = addressedTree \cup elements
  BY DEF Regions
<1>3. Adding("sized") => Head(pending.queue) \in addressedTree
  BY DEF IInv, TreesAgree
<1> HIDE DEF elements, behind
<1>4. CASE AddAddressed
  <2>1. /\ addressedTree' = addressedTree \cup {Head(pending.queue)}
        /\ pending'.queue = pending.queue /\ pending.queue # <<>>
    BY <1>4 DEF AddAddressed, Adding, IInv, PendingInv, CallType
  <2>2. Regions' = addressedTree' \cup elements
    BY <2>1 DEF Regions, elements
  <2>3. Regions' \subseteq Regions
    BY <1>1, <1>2, <2>1, <2>2
  <2> QED
    BY <2>3, SeamsOfMore DEF SeamStep
<1>5. CASE AddSized
  <2>1. /\ addressedTree' = addressedTree /\ pending.queue # <<>>
        /\ pending'.queue = Tail(pending.queue)
    BY <1>5 DEF AddSized, Adding, IInv, PendingInv, CallType
  <2>2. Regions' = addressedTree' \cup behind
    BY <2>1 DEF Regions, behind
  <2>3. Regions' \subseteq Regions
    BY <1>1, <1>2, <2>1, <2>2
  <2> QED
    BY <2>3, SeamsOfMore DEF SeamStep
<1>6. CASE GiveUpAddressed \/ GiveUpSized
  <2>1. addressedTree' \subseteq addressedTree /\ AddRegionFails
        /\ pending.queue # <<>>
    BY <1>6 DEF GiveUpAddressed, GiveUpSized, Adding
  <2>2. pending'.queue = <<>> \/ pending'.queue = Tail(pending.queue)
    <3>1. CASE pending.name = "Alloc"
      BY <2>1, <3>1 DEF AddRegionFails, Call
    <3>2. CASE pending.name # "Alloc"
      <4>1. pending' = [pending EXCEPT !.queue = Tail(@), !.tree = "addressed"]
        BY <2>1, <3>2 DEF AddRegionFails
      <4>2. pending \in CallType
        BY DEF IInv, PendingInv
      <4> QED
        BY <4>1, <4>2 DEF CallType
    <3> QED
      BY <3>1, <3>2
  <2>3. Regions' = addressedTree' \/ Regions' = addressedTree' \cup behind
    <3>1. CASE pending'.queue = <<>>
      <4>1. Regions' = addressedTree' \cup {<<>>[i] : i \in DOMAIN <<>>}
        BY <3>1 DEF Regions
      <4> QED
        BY <4>1, QueueElements
    <3>2. CASE pending'.queue = Tail(pending.queue)
      BY <3>2 DEF Regions, behind
    <3> QED
      BY <2>2, <3>1, <3>2
  <2>4. Regions' \subseteq Regions
    BY <1>1, <1>2, <2>1, <2>3
  <2> QED
    BY <2>4, SeamsOfMore DEF SeamStep
<1>7. CASE Return
  <2>1. pending'.queue = <<>> /\ addressedTree' = addressedTree
    BY <1>7 DEF Return, NoCall, Call
  <2>2. Regions' = addressedTree
    BY <2>1, QueueElements DEF Regions
  <2>3. Regions' \subseteq Regions
    BY <1>2, <2>2
  <2> QED
    BY <2>3, SeamsOfMore DEF SeamStep
<1> QED
  BY <1>4, <1>5, <1>6, <1>7

LEMMA NextSeams ==
    ASSUME NoWrap, IInv, [Next]_vars
    PROVE  [SeamStep]_vars
<1>1. CASE \E size \in AllocSizes : Alloc(size)
  BY <1>1, AllocSeams
<1>2. CASE \E align \in Aligns, offset \in AlignOffsets, size \in AlignSizes :
              OffsetAlign(align, offset, size)
  BY <1>2, OffsetAlignSeams
<1>3. CASE \E address \in Donated, size \in 0..SizeMax : Dealloc(address, size)
  BY <1>3, DeallocSeams
<1>4. CASE AddAddressed \/ AddSized \/ GiveUpAddressed \/ GiveUpSized \/ Return
  BY <1>4, InsertionSeams
<1> QED
  BY <1>1, <1>2, <1>3, <1>4 DEF Next

\* Dealloc leaves no two regions that touch: they come to touch by an
\* OffsetAlign of an empty range, or while an empty region hides one from the
\* search for neighbours, and in no other way.
THEOREM SeamTheorem == ASSUME NoWrap PROVE Spec => SeamOnlyByEmpty
<1>1. IInv /\ [Next]_vars => [SeamStep]_vars
  BY NextSeams
<1> QED
  BY Invariance, <1>1, PTL DEF Spec, SeamOnlyByEmpty, SeamStep
===============================================================================
