------------------------------ MODULE RegionList ------------------------------
(***************************************************************************)
(* The list of free regions kept by FreeList (free-list/free-list.hpp):    *)
(* the linked FreeRegion structures, in list order, are a sequence of      *)
(* records.  A record names the memory its structure occupies (node) and   *)
(* the address space it describes (start, size).  The operators are the    *)
(* tests and the updates that Alloc, OffsetAlign and Dealloc make on that  *)
(* list; where the structures come from and go to is left to the modules   *)
(* that use them (an external allocator in FreeList, a stack of chunks of  *)
(* the list's own space in PlacedFreeList).                                *)
(***************************************************************************)
EXTENDS Integers, SequencesExt

CONSTANTS
    AddressSpan,    \* number of values of AddressType
    SizeMax         \* the largest value of SizeType

\* static_assert of abstract/allocator.hpp: AddressType is no smaller than
\* SizeType.
ASSUME WidthAssumption ==
    /\ AddressSpan \in Nat \ {0}
    /\ SizeMax \in Nat \ {0}
    /\ SizeMax < AddressSpan

Region(node, start, size) == [node |-> node, start |-> start, size |-> size]

End(region) == region.start + region.size

UnitsFrom(start, size) == start .. (start + size - 1)

Span(region) == UnitsFrom(region.start, region.size)

FreeUnits(list) == UNION {Span(list[i]) : i \in DOMAIN list}

NodesOf(list) == {list[i].node : i \in DOMAIN list}

-----------------------------------------------------------------------------
(* Alloc: the first region that is big enough gives up its head.           *)

Fits(region, size) == region.size >= size

FirstFit(list, size, i) ==
    /\ i \in DOMAIN list
    /\ Fits(list[i], size)
    /\ \A j \in 1..(i - 1) : ~ Fits(list[j], size)

NoFit(list, size) == \A i \in DOMAIN list : ~ Fits(list[i], size)

\* The whole region goes: its structure leaves the list.
Exact(list, i, size) == list[i].size = size

\* Mutant of TakeHead: a region that is used up stays in the list.
TakeHeadAlways(list, i, size) ==
    ReplaceAt(list, i, [list[i] EXCEPT !.start = @ + size, !.size = @ - size])

TakeHead(list, i, size) ==
    IF Exact(list, i, size)
    THEN RemoveAt(list, i)
    ELSE ReplaceAt(list, i, [list[i] EXCEPT !.start = @ + size,
                                            !.size = @ - size])

-----------------------------------------------------------------------------
(* OffsetAlign: the first region that still holds size units once its head *)
(* has been skipped up to an address A with (A + offset) % align = 0.      *)

\* Mutant of Compensation: alignOffset is forgotten.
CompensationOfStart(region, align, offset) ==
    LET misalignment == region.start % align
    IN  IF misalignment = 0 THEN 0 ELSE align - misalignment

Compensation(region, align, offset) ==
    LET misalignment == ((region.start + offset) % AddressSpan) % align
    IN  IF misalignment = 0 THEN 0 ELSE align - misalignment

\* Mutant of AlignedFits: <= where the code has < between what is left of the
\* region and the size.
AlignedFitsStrictly(region, align, offset, size) ==
    LET skip == Compensation(region, align, offset)
    IN  skip <= region.size /\ region.size - skip > size

AlignedFits(region, align, offset, size) ==
    LET skip == Compensation(region, align, offset)
    IN  /\ skip <= SizeMax
        /\ skip <= region.size
        /\ region.size - skip >= size

FirstAligned(list, align, offset, size, i) ==
    /\ i \in DOMAIN list
    /\ AlignedFits(list[i], align, offset, size)
    /\ \A j \in 1..(i - 1) : ~ AlignedFits(list[j], align, offset, size)

NoAlignedFit(list, align, offset, size) ==
    \A i \in DOMAIN list : ~ AlignedFits(list[i], align, offset, size)

\* Mutant of AlignedAddress: the answer is the start of the region.
UnalignedAddress(region, skip) == region.start

\* out = reg->start + offset, in AddressType: an empty range behind the last
\* unit of the address space is at 0.
AlignedAddress(region, skip) == (region.start + skip) % AddressSpan

\* What remains of the region behind the part that is handed out.
TailSize(region, skip, size) == region.size - (skip + size)

Shrink(list, i, skip) == ReplaceAt(list, i, [list[i] EXCEPT !.size = skip])

\* Mutant of InsertAfter: the region is linked in at the head of the list.
InsertFirst(list, i, node, start, size) ==
    InsertAt(list, 1, Region(node, start, size))

InsertAfter(list, i, node, start, size) ==
    InsertAt(list, i + 1, Region(node, start, size))

-----------------------------------------------------------------------------
(* Dealloc: i is the position of the region before the freed range (0 when *)
(* there is none), i + 1 that of the region after it.                      *)

Before(list, address, i) ==
    /\ i \in 0..Len(list)
    /\ \A j \in 1..i : list[j].start <= address
    /\ i < Len(list) => list[i + 1].start > address

TouchesBefore(list, i, address) == i > 0 /\ End(list[i]) = address

\* Mutant of TouchesAfter: a range that touches the region before it is not
\* merged with the region after it.
TouchesAfterOnly(list, i, address, size) ==
    /\ i < Len(list) /\ address + size = list[i + 1].start
    /\ ~ TouchesBefore(list, i, address)

TouchesAfter(list, i, address, size) ==
    i < Len(list) /\ address + size = list[i + 1].start

GrowBefore(list, i, size) ==
    ReplaceAt(list, i, [list[i] EXCEPT !.size = @ + size])

\* Mutant of JoinBoth: the size of the region after is not added.
JoinBothShort(list, i, size) == RemoveAt(GrowBefore(list, i, size), i + 1)

JoinBoth(list, i, size) ==
    RemoveAt(GrowBefore(list, i, size + list[i + 1].size), i + 1)

GrowAfter(list, i, size) ==
    ReplaceAt(list, i + 1, [list[i + 1] EXCEPT !.start = @ - size,
                                               !.size = @ + size])

\* assert(!after || address + size <= after->start)
ClearOfAfter(list, i, address, size) ==
    i < Len(list) => address + size <= list[i + 1].start

-----------------------------------------------------------------------------
(* What a well-formed list is.                                             *)

RegionType(Node, Address) ==
    [node : Node, start : Address, size : 1..SizeMax]

\* Regions are disjoint and in the order of their addresses.
Ordered(list) ==
    \A i, j \in DOMAIN list : i < j => End(list[i]) <= list[j].start

\* No two structures occupy the same memory.
DistinctNodes(list) ==
    \A i, j \in DOMAIN list : list[i].node = list[j].node => i = j

\* The addresses at which one region ends and the next one begins: a
\* boundary inside contiguous free space.
Seams(list) ==
    {End(list[i]) : i \in {j \in DOMAIN list :
                             j < Len(list) /\ End(list[j]) = list[j + 1].start}}

\* size contiguous free units at address, none of whose inner boundaries is
\* a seam, at an address the alignment allows.
Usable(list, address, align, offset, size) ==
    /\ UnitsFrom(address, size) \subseteq FreeUnits(list)
    /\ Seams(list) \cap ((address + 1)..(address + size - 1)) = {}
    /\ ((address + offset) % AddressSpan) % align = 0
===============================================================================
