------------------------------- MODULE FreeTree -------------------------------
(***************************************************************************)
(* FreeTree (free-tree/free-tree.hpp): an allocator of address space that  *)
(* keeps every free region in two trees, one sorted by size, which Alloc   *)
(* searches, and one sorted by address, which Dealloc and OffsetAlign      *)
(* search.  The trees are DynamicTrees: sets with an order, to which Add   *)
(* may fail for want of memory.  AddRegion then calls the failure handler  *)
(* and tries again for as long as it returns true.                         *)
(*                                                                         *)
(* One action is one call by the client up to its first AddRegion, one     *)
(* insertion in one of the trees, one handler that gives up, or the return *)
(* of the call.  The handler does not call back into the tree.             *)
(***************************************************************************)
EXTENDS Integers, Sequences, FiniteSets

CONSTANTS
    AddressSpan,    \* number of values of AddressType
    SizeMax,        \* the largest value of SizeType
    Donated,        \* address space the client gives the tree to manage
    AllocSizes,     \* sizes the client asks Alloc for
    AlignSizes,     \* sizes it asks OffsetAlign for
    Aligns,         \* alignments it asks OffsetAlign for
    AlignOffsets    \* offsets it asks OffsetAlign for

\* No region can be larger than SizeType holds: the space the client donates
\* is no larger than that.
ASSUME FreeTreeAssumption ==
    /\ AddressSpan \in Nat /\ SizeMax \in 1..(AddressSpan - 1)
    /\ Donated \subseteq 0..(AddressSpan - 1)
    /\ IsFiniteSet(Donated) /\ Cardinality(Donated) <= SizeMax
    /\ AllocSizes \cup AlignSizes \subseteq 0..SizeMax
    /\ Aligns \cup AlignOffsets \subseteq 0..(AddressSpan - 1)

\* aligner.hpp:17: an alignment is a power of 2, and so divides the number of
\* values of AddressType.
ASSUME AlignAssumption == \A align \in Aligns \ {0} : AddressSpan % align = 0

VARIABLES
    sizedTree,      \* the regions, as Alloc finds them
    addressedTree,  \* the regions, as Dealloc and OffsetAlign find them
    pending,        \* the call that has AddRegions to make, or NoCall
    held,           \* ghost: the units that are the client's
    dropped,        \* ghost: the units of regions that could not be recorded
    answer,         \* what the last call returned
    trapped         \* whether a division by zero has happened

vars == <<sizedTree, addressedTree, pending, held, dropped, answer, trapped>>

Units == 0..(AddressSpan - 1)

FreeRegion(address, size) == [address |-> address, size |-> size]

UnitsFrom(address, size) == address .. (address + size - 1)

Span(region) == UnitsFrom(region.address, region.size)

FreeUnits(regions) == UNION {Span(r) : r \in regions}

End(region) == (region.address + region.size) % AddressSpan

Answered(ok, address, align, offset, size) ==
    [ok |-> ok, address |-> address,
     align |-> align, offset |-> offset, size |-> size]

NoAnswer == Answered(FALSE, 0, 1, 0, 0)

\* A call that is in its AddRegions: the regions still to be added, in order,
\* the tree the first of them is to be added to, and what the call returns.
Call(name, queue, reply) ==
    [name |-> name, queue |-> queue, tree |-> "addressed", reply |-> reply]

NoCall == Call("none", <<>>, NoAnswer)

Idle == pending = NoCall /\ ~ trapped

Init ==
    /\ sizedTree = {} /\ addressedTree = {}
    /\ pending = NoCall
    /\ held = Donated
    /\ dropped = {}
    /\ answer = NoAnswer
    /\ trapped = FALSE

Deny(align, offset, size) ==
    /\ answer' = Answered(FALSE, 0, align, offset, size)
    /\ UNCHANGED <<sizedTree, addressedTree, pending, held, dropped, trapped>>

\* Mutant of RemoveFromBoth: the tree that was not searched keeps the region.
RemoveFromSized(regions) ==
    sizedTree' = sizedTree \ regions /\ UNCHANGED addressedTree

RemoveFromBoth(regions) ==
    /\ sizedTree' = sizedTree \ regions
    /\ addressedTree' = addressedTree \ regions

-----------------------------------------------------------------------------
(* The orders of the trees, and their searches.                            *)

SizedLess(r, q) ==
    r.size < q.size \/ (r.size = q.size /\ r.address < q.address)

AddressedLess(r, q) ==
    r.address < q.address \/ (r.address = q.address /\ r.size < q.size)

\* sizedTree.FindGE finds r for q.
FoundGE(r, q) ==
    /\ r \in sizedTree /\ ~ SizedLess(r, q)
    /\ \A x \in sizedTree : ~ SizedLess(x, q) => ~ SizedLess(x, r)

\* addressedTree.FindLT and FindGT: the one region before q and the one after
\* it, if there are any.
FoundBefore(q) ==
    {r \in addressedTree :
        /\ AddressedLess(r, q)
        /\ \A x \in addressedTree : AddressedLess(x, q) => ~ AddressedLess(r, x)}

FoundAfter(q) ==
    {r \in addressedTree :
        /\ AddressedLess(q, r)
        /\ \A x \in addressedTree : AddressedLess(q, x) => ~ AddressedLess(x, r)}

-----------------------------------------------------------------------------
(* Alloc: the smallest region that is big enough, and the lowest of those. *)

Excess(region, size) ==
    IF size < region.size
    THEN <<FreeRegion((region.address + size) % AddressSpan, region.size - size)>>
    ELSE <<>>

Alloc(size) ==
    /\ Idle
    /\ \/ \E r \in sizedTree :
            /\ FoundGE(r, FreeRegion(0, size))
            /\ RemoveFromBoth({r})
            /\ pending' = Call("Alloc", Excess(r, size),
                               Answered(TRUE, r.address, 1, 0, size))
            /\ UNCHANGED <<held, dropped, answer, trapped>>
       \/ /\ \A r \in sizedTree : ~ FoundGE(r, FreeRegion(0, size))
          /\ Deny(1, 0, size)

-----------------------------------------------------------------------------
(* OffsetAlign: the lowest region that FittingEnumerator accepts.          *)

\* Mutant of Skip: the whole alignment, where a part of it would do.
SkipWhole(region, align, offset) ==
    IF ((region.address + offset) % AddressSpan) % align = 0 THEN 0 ELSE align

Skip(region, align, offset) ==
    LET misalignment == ((region.address + offset) % AddressSpan) % align
    IN  IF misalignment = 0 THEN 0 ELSE align - misalignment

\* offset + size, in AddressType.
Reach(region, align, offset, size) ==
    (Skip(region, align, offset) + size) % AddressSpan

\* Mutant of Accepted: what is skipped is not counted.
AcceptedUnskipped(region, align, offset, size) == size <= region.size

Accepted(region, align, offset, size) ==
    Reach(region, align, offset, size) <= region.size

FirstAccepted(r, align, offset, size) ==
    /\ r \in addressedTree /\ Accepted(r, align, offset, size)
    /\ \A x \in addressedTree :
            AddressedLess(x, r) => ~ Accepted(x, align, offset, size)

\* Mutant of Slivers: the tail begins size units behind the region's start.
SliversUnskipped(region, align, offset, size) ==
    LET skip  == Skip(region, align, offset)
        reach == Reach(region, align, offset, size)
        head  == FreeRegion(region.address, skip % (SizeMax + 1))
        tail  == FreeRegion((region.address + size) % AddressSpan,
                            region.size - reach)
    IN  (IF skip > 0 THEN <<head>> ELSE <<>>)
            \o (IF reach < region.size THEN <<tail>> ELSE <<>>)

\* The slivers before and behind the part that is handed out.
Slivers(region, align, offset, size) ==
    LET skip  == Skip(region, align, offset)
        reach == Reach(region, align, offset, size)
        head  == FreeRegion(region.address, skip % (SizeMax + 1))
        tail  == FreeRegion((region.address + skip + size) % AddressSpan,
                            region.size - reach)
    IN  (IF skip > 0 THEN <<head>> ELSE <<>>)
            \o (IF reach < region.size THEN <<tail>> ELSE <<>>)

\* (region.address + alignOffset) % 0, on the first region that is enumerated.
DivideByZero ==
    /\ addressedTree # {}
    /\ trapped' = TRUE
    /\ UNCHANGED <<sizedTree, addressedTree, pending, held, dropped, answer>>

OffsetAlign(align, offset, size) ==
    /\ Idle
    /\ \/ align = 0 /\ DivideByZero
       \/ /\ align # 0
          /\ \E r \in addressedTree :
                /\ FirstAccepted(r, align, offset, size)
                /\ RemoveFromBoth({r})
                /\ pending' = Call("OffsetAlign", Slivers(r, align, offset, size),
                        Answered(TRUE, (r.address + Skip(r, align, offset)) % AddressSpan,
                                 align, offset, size))
                /\ UNCHANGED <<held, dropped, answer, trapped>>
       \/ /\ align # 0 \/ addressedTree = {}
          /\ \A r \in addressedTree : ~ Accepted(r, align, offset, size)
          /\ Deny(align, offset, size)

-----------------------------------------------------------------------------
(* Dealloc: a range the client holds, joined with the regions it touches.  *)

TouchingBefore(q) == {r \in FoundBefore(q) : End(r) = q.address}

\* Mutant of TouchingAfter: the region after is looked for only when none
\* before touches.
TouchingAfterOnly(q) ==
    {r \in FoundAfter(q) : TouchingBefore(q) = {} /\ End(q) = r.address}

TouchingAfter(q) == {r \in FoundAfter(q) : End(q) = r.address}

The(found) == CHOOSE r \in found : TRUE

SizeOf(found) == IF found = {} THEN 0 ELSE The(found).size

\* The regions that touch, one before and one after at most, and the freed
\* one as a single region; sizes are added in SizeType.
Joined(q) ==
    LET before == TouchingBefore(q)
        size   == SizeOf(before) + q.size + SizeOf(TouchingAfter(q))
    IN  FreeRegion(IF before = {} THEN q.address ELSE The(before).address,
                   size % (SizeMax + 1))

\* BOUND: an empty range is not freed while the trees hold it already (Add
\* would insert it a second time, with the same effect).
Dealloc(address, size) ==
    LET q == FreeRegion(address, size) IN
    /\ Idle
    /\ Span(q) \subseteq held
    /\ q \notin addressedTree
    /\ RemoveFromBoth(TouchingBefore(q) \cup TouchingAfter(q))
    /\ pending' = Call("Dealloc", <<Joined(q)>>, NoAnswer)
    /\ held' = held \ Span(q)
    /\ answer' = NoAnswer
    /\ UNCHANGED <<dropped, trapped>>

-----------------------------------------------------------------------------
(* AddRegion, of the first region of the queue.                            *)

Adding(tree) == pending.queue # <<>> /\ pending.tree = tree

AddAddressed ==
    /\ Adding("addressed")
    /\ addressedTree' = addressedTree \cup {Head(pending.queue)}
    /\ pending' = [pending EXCEPT !.tree = "sized"]
    /\ UNCHANGED <<sizedTree, held, dropped, answer, trapped>>

AddSized ==
    /\ Adding("sized")
    /\ sizedTree' = sizedTree \cup {Head(pending.queue)}
    /\ pending' = [pending EXCEPT !.queue = Tail(@), !.tree = "addressed"]
    /\ UNCHANGED <<addressedTree, held, dropped, answer, trapped>>

Promised(reply) == IF reply.ok THEN UnitsFrom(reply.address, reply.size) ELSE {}

\* AddRegion returns false, which Alloc returns in turn and which the others
\* ignore.
AddRegionFails ==
    LET lost == Span(Head(pending.queue)) IN
    /\ IF pending.name = "Alloc"
       THEN /\ pending' = Call("Alloc", <<>>, Answered(FALSE, 0, 1, 0, pending.reply.size))
            /\ dropped' = dropped \cup lost \cup Promised(pending.reply)
       ELSE /\ pending' = [pending EXCEPT !.queue = Tail(@), !.tree = "addressed"]
            /\ dropped' = dropped \cup lost
    /\ UNCHANGED <<sizedTree, held, answer, trapped>>

\* The handler gives up on the first tree.
GiveUpAddressed ==
    /\ Adding("addressed")
    /\ AddRegionFails
    /\ UNCHANGED addressedTree

\* Mutant of GiveUpSized: the region stays in the first tree.
GiveUpSizedOnly ==
    /\ Adding("sized")
    /\ AddRegionFails
    /\ UNCHANGED addressedTree

\* The handler gives up on the second tree: the first insertion is undone.
GiveUpSized ==
    /\ Adding("sized")
    /\ AddRegionFails
    /\ addressedTree' = addressedTree \ {Head(pending.queue)}

Return ==
    /\ pending # NoCall
    /\ pending.queue = <<>>
    /\ pending' = NoCall
    /\ held' = held \cup Promised(pending.reply)
    /\ answer' = pending.reply
    /\ UNCHANGED <<sizedTree, addressedTree, dropped, trapped>>

-----------------------------------------------------------------------------
Next ==
    \/ \E size \in AllocSizes : Alloc(size)
    \/ \E align \in Aligns, offset \in AlignOffsets, size \in AlignSizes :
            OffsetAlign(align, offset, size)
    \/ \E address \in Donated, size \in 0..SizeMax : Dealloc(address, size)
    \/ AddAddressed
    \/ AddSized
    \/ GiveUpAddressed
    \/ GiveUpSized
    \/ Return

Spec == Init /\ [][Next]_vars

-----------------------------------------------------------------------------
\* What a call has taken out of the trees and has neither put back nor
\* returned.
InTransit ==
    Promised(pending.reply)
        \cup UNION {Span(pending.queue[i]) : i \in DOMAIN pending.queue}

Contract ==
    INSTANCE AddressSpace
    WITH free <- FreeUnits(sizedTree) \cup Promised(pending.reply)

RegionType == [address : Units, size : 0..SizeMax]

TypeOK ==
    /\ sizedTree \subseteq RegionType
    /\ addressedTree \subseteq RegionType
    /\ pending \in [name : {"none", "Alloc", "OffsetAlign", "Dealloc"},
                    queue : UNION {[1..n -> RegionType] : n \in 0..2},
                    tree : {"addressed", "sized"},
                    reply : Contract!Answers]
    /\ held \subseteq Donated
    /\ dropped \subseteq Donated
    /\ answer \in Contract!Answers
    /\ trapped \in BOOLEAN

\* Whatever insertion fails, both trees hold the same regions, but for the
\* one that is on its way from the first to the second.
TreesAgree ==
    addressedTree = sizedTree \cup
        (IF Adding("sized") THEN {Head(pending.queue)} ELSE {})

\* Every unit is free in exactly one region, held, in transit or dropped.
UnitsConserved ==
    /\ FreeUnits(sizedTree) \cup held \cup InTransit \cup dropped = Donated
    /\ FreeUnits(sizedTree) \cap (held \cup InTransit \cup dropped) = {}
    /\ held \cap (InTransit \cup dropped) = {}
    /\ InTransit \cap dropped = {}
    /\ \A r, q \in sizedTree : r # q => Span(r) \cap Span(q) = {}

Usable(address, align, offset, size) ==
    /\ \E r \in sizedTree : UnitsFrom(address, size) \subseteq Span(r)
    /\ ((address + offset) % AddressSpan) % align = 0

BestFit(reply) ==
    \E r \in addressedTree :
        /\ r.address = reply.address
        /\ r.size >= reply.size
        /\ \A q \in addressedTree : q.size >= reply.size => ~ SizedLess(q, r)

LowestAligned(reply) ==
    LET fits(a) == Usable(a, reply.align, reply.offset, reply.size)
    IN  fits(reply.address) /\ \A a \in 0..(reply.address - 1) : ~ fits(a)

\* Alloc takes from the smallest region that is big enough, and from the
\* lowest of those, seen in the tree that it does not search.  OffsetAlign
\* answers the lowest address that is aligned and has room behind it.  A call
\* is refused only when there is no such region.
SearchExact ==
    [][Idle =>
        /\ pending'.name = "Alloc" => BestFit(pending'.reply)
        /\ pending'.name = "OffsetAlign" /\ pending'.reply.size > 0 =>
                LowestAligned(pending'.reply)
        /\ answer' # answer /\ ~ answer'.ok /\ answer'.size > 0 =>
                \A a \in Units : ~ Usable(a, answer'.align, answer'.offset, answer'.size)
      ]_vars

Inhabited(regions) == {r \in regions : r.size > 0}

\* The addresses at which one region ends and another begins.  The ends of the
\* address space are none: a region that ends at the last address has no
\* neighbour in the one at 0, although its End is 0.
Seams(regions) ==
    {r.address : r \in Inhabited(regions)}
        \cap {r.address + r.size : r \in Inhabited(regions)}

\* The regions in the trees and those that a call is adding to them.
Regions ==
    addressedTree \cup {pending.queue[i] : i \in DOMAIN pending.queue}

\* Dealloc joins all that touches, except around an OffsetAlign of size 0,
\* and except where a Dealloc of size 0 has left an empty region in the trees
\* that hides the neighbour it lies before or in.
SeamOnlyByEmpty ==
    [][Seams(Regions') \subseteq
          Seams(Regions) \cup
             (IF pending'.reply.ok /\ pending'.reply.size = 0
              THEN {pending'.reply.address} ELSE {})
       \/ \E r \in addressedTree : r.size = 0
      ]_vars

\* FreeTree is an OffsetAligner: it keeps the contract of abstract/.
FreeTreeContract == Contract!Spec

\* allocator.hpp:41-42: what a call is about to return is [size] units that
\* are the allocator's to give.
GrantedIsFree ==
    Promised(pending.reply) \subseteq Donated \ (held \cup dropped)
===============================================================================
