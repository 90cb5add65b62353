------------------------------- MODULE FreeList -------------------------------
(***************************************************************************)
(* FreeList (free-list/free-list.hpp): an allocator of address space that  *)
(* keeps its free regions in a list whose structures come from an external *)
(* allocator.  When that allocator fails, InsertAfter calls the failure    *)
(* handler and tries again for as long as the handler returns true; when   *)
(* it returns false the region is dropped.                                 *)
(*                                                                         *)
(* One action is one call of a method by the client, with every update it  *)
(* makes, up to its return or to its call of InsertAfter.  A call that is  *)
(* in InsertAfter's loop is in pending, and leaves it when the external    *)
(* allocator succeeds or the handler gives up; the handler does not call   *)
(* back into the list (README, "Not modelled").                            *)
(***************************************************************************)
EXTENDS RegionList

CONSTANTS
    Nodes,          \* memory the external allocator can give, in FreeRegions
    AllocSizes,     \* sizes the client asks Alloc and OffsetAlign for
    Aligns,         \* alignments it asks OffsetAlign for
    AlignOffsets    \* offsets it asks OffsetAlign for

ASSUME RequestAssumption ==
    /\ AllocSizes \subseteq 0..SizeMax
    /\ Aligns \subseteq 0..(AddressSpan - 1)
    /\ AlignOffsets \subseteq 0..(AddressSpan - 1)

\* aligner.hpp:17: an alignment is a power of 2, and so divides the number of
\* values of AddressType.
ASSUME AlignAssumption == \A align \in Aligns \ {0} : AddressSpan % align = 0

VARIABLES
    regions,    \* the list from firstRegion on
    spare,      \* node memory the external allocator has left
    pending,    \* the call that is in InsertAfter's loop, or NoInsert
    held,       \* ghost: the units that are the client's
    dropped,    \* ghost: the units of regions that could not be recorded
    answer,     \* what the last call returned
    status      \* live, in its destructor, or dead on a division by zero

vars == <<regions, spare, pending, held, dropped, answer, status>>

Units == 0..(AddressSpan - 1)

Answered(ok, address, align, offset, size) ==
    [ok |-> ok, address |-> address,
     align |-> align, offset |-> offset, size |-> size]

NoAnswer == Answered(FALSE, 0, 1, 0, 0)

\* The locals of a call that is in InsertAfter: the region to insert, the
\* one it follows, the size to which OffsetAlign then cuts that one, and what
\* the call will return.
Insertion(call, before, start, size, skip, reply) ==
    [call |-> call, before |-> before, start |-> start, size |-> size,
     skip |-> skip, reply |-> reply]

NoInsert == Insertion("none", 0, 0, 0, 0, NoAnswer)

Idle == status = "live" /\ pending = NoInsert

\* The constructor: no free region.  The address space the list will manage
\* is the client's to donate with Dealloc.
Init ==
    /\ regions = <<>>
    /\ spare = Nodes
    /\ pending = NoInsert
    /\ held = Units
    /\ dropped = {}
    /\ answer = NoAnswer
    /\ status = "live"

Give(address, align, offset, size) ==
    /\ held' = held \cup UnitsFrom(address, size)
    /\ answer' = Answered(TRUE, address, align, offset, size)

Deny(align, offset, size) ==
    /\ answer' = Answered(FALSE, 0, align, offset, size)
    /\ UNCHANGED <<regions, spare, pending, held, dropped, status>>

\* Mutant of ReturnNode: Remove forgets allocator.Dealloc.
KeepNode(i, leaves) == UNCHANGED spare

\* Remove(last, region) returns the structure to the external allocator.
ReturnNode(i, leaves) ==
    spare' = IF leaves THEN spare \cup {regions[i].node} ELSE spare

-----------------------------------------------------------------------------
Alloc(size) ==
    /\ Idle
    /\ \/ \E i \in DOMAIN regions :
            /\ FirstFit(regions, size, i)
            /\ regions' = TakeHead(regions, i, size)
            /\ ReturnNode(i, Exact(regions, i, size))
            /\ Give(regions[i].start, 1, 0, size)
            /\ UNCHANGED <<pending, dropped, status>>
       \/ NoFit(regions, size) /\ Deny(1, 0, size)

-----------------------------------------------------------------------------
(* OffsetAlign, in the five cases of its comment.                          *)

\* offset = 0: the head of the region, or all of it.
AlignHead(i, align, offset, size) ==
    /\ Compensation(regions[i], align, offset) = 0
    /\ regions' = TakeHead(regions, i, size)
    /\ ReturnNode(i, Exact(regions, i, size))
    /\ Give(regions[i].start, align, offset, size)
    /\ UNCHANGED <<pending, dropped, status>>

\* The region ends where the answer does.
AlignTail(i, align, offset, size) ==
    LET skip == Compensation(regions[i], align, offset) IN
    /\ skip # 0
    /\ TailSize(regions[i], skip, size) = 0
    /\ regions' = Shrink(regions, i, skip)
    /\ Give(AlignedAddress(regions[i], skip), align, offset, size)
    /\ UNCHANGED <<spare, pending, dropped, status>>

\* The middle of the region: what is behind it needs a structure of its own.
AlignMiddle(i, align, offset, size) ==
    LET skip  == Compensation(regions[i], align, offset)
        start == AlignedAddress(regions[i], skip)
    IN  /\ skip # 0
        /\ TailSize(regions[i], skip, size) # 0
        /\ pending' = Insertion("OffsetAlign", i, start + size,
                                 TailSize(regions[i], skip, size), skip,
                                 Answered(TRUE, start, align, offset, size))
        /\ UNCHANGED <<regions, spare, held, dropped, answer, status>>

\* (reg->start + alignOffset) % 0, on the first region of the list: undefined
\* behaviour, a trap where integer division checks its divisor.
DivideByZero ==
    /\ regions # <<>>
    /\ status' = "trapped"
    /\ UNCHANGED <<regions, spare, pending, held, dropped, answer>>

OffsetAlign(align, offset, size) ==
    /\ Idle
    /\ \/ align = 0 /\ DivideByZero
       \/ /\ align # 0
          /\ \E i \in DOMAIN regions :
                /\ FirstAligned(regions, align, offset, size, i)
                /\ \/ AlignHead(i, align, offset, size)
                   \/ AlignTail(i, align, offset, size)
                   \/ AlignMiddle(i, align, offset, size)
       \/ /\ align # 0 \/ regions = <<>>
          /\ NoAlignedFit(regions, align, offset, size)
          /\ Deny(align, offset, size)

-----------------------------------------------------------------------------
(* Dealloc(address, size) of a range the client holds, whose merger with   *)
(* its neighbours SizeType can represent (the asserts on AddWraps, and the *)
(* note of the class).                                                     *)

MergedSize(list, i, address, size) ==
    size + (IF TouchesBefore(list, i, address) THEN list[i].size ELSE 0)
         + (IF TouchesAfter(list, i, address, size) THEN list[i + 1].size ELSE 0)

Merge(i, address, size) ==
    \/ /\ TouchesBefore(regions, i, address)
       /\ TouchesAfter(regions, i, address, size)
       /\ regions' = JoinBoth(regions, i, size)
       /\ ReturnNode(i + 1, TRUE)
    \/ /\ TouchesBefore(regions, i, address)
       /\ ~ TouchesAfter(regions, i, address, size)
       /\ regions' = GrowBefore(regions, i, size)
       /\ UNCHANGED spare
    \/ /\ ~ TouchesBefore(regions, i, address)
       /\ TouchesAfter(regions, i, address, size)
       /\ regions' = GrowAfter(regions, i, size)
       /\ UNCHANGED spare

Insert(i, address, size) ==
    /\ ~ TouchesBefore(regions, i, address)
    /\ ~ TouchesAfter(regions, i, address, size)
    /\ pending' = Insertion("Dealloc", i, address, size, 0, NoAnswer)
    /\ UNCHANGED <<regions, spare>>

Dealloc(address, size) ==
    /\ Idle
    /\ UnitsFrom(address, size) \subseteq held
    /\ \/ size = 0 /\ UNCHANGED <<regions, spare, pending>>
       \/ /\ size # 0
          /\ \E i \in 0..Len(regions) :
                /\ Before(regions, address, i)
                /\ MergedSize(regions, i, address, size) <= SizeMax
                /\ \/ Merge(i, address, size) /\ UNCHANGED pending
                   \/ Insert(i, address, size)
    /\ held' = held \ UnitsFrom(address, size)
    /\ answer' = NoAnswer
    /\ UNCHANGED <<dropped, status>>

-----------------------------------------------------------------------------
(* InsertAfter: while (!allocator.Alloc()) if (!failureHandler()) return.  *)
(* An attempt that fails with a handler that returns true changes nothing. *)

\* reg->size = offset, the last statement of OffsetAlign's fifth case.
Cut(list) ==
    IF pending.call = "OffsetAlign"
    THEN Shrink(list, pending.before, pending.skip)
    ELSE list

Return ==
    /\ pending' = NoInsert
    /\ held' = held \cup UnitsFrom(pending.reply.address, pending.reply.size)
    /\ answer' = pending.reply
    /\ UNCHANGED status

\* The external allocator has memory, at the first attempt or after the
\* handler returned true: the caller's update is completed.
NodeObtained ==
    /\ pending # NoInsert
    /\ \E node \in spare :
        /\ regions' = InsertAfter(Cut(regions), pending.before, node,
                                  pending.start, pending.size)
        /\ spare' = spare \ {node}
    /\ UNCHANGED dropped
    /\ Return

\* The external allocator fails and the handler returns false: InsertAfter
\* returns without having inserted.
HandlerGivesUp ==
    /\ pending # NoInsert
    /\ regions' = Cut(regions)
    /\ dropped' = dropped \cup UnitsFrom(pending.start, pending.size)
    /\ UNCHANGED spare
    /\ Return

-----------------------------------------------------------------------------
(* ~FreeList: while (firstRegion) Remove(nullptr, firstRegion).            *)

Destroy ==
    /\ Idle
    /\ status' = "destroying"
    /\ UNCHANGED <<regions, spare, pending, held, dropped, answer>>

DestroyFirstRegion ==
    /\ status = "destroying"
    /\ regions # <<>>
    /\ regions' = Tail(regions)
    /\ ReturnNode(1, TRUE)
    /\ UNCHANGED <<pending, held, dropped, answer, status>>

-----------------------------------------------------------------------------
Next ==
    \/ \E size \in AllocSizes : Alloc(size)
    \/ \E align \in Aligns, offset \in AlignOffsets, size \in AllocSizes :
            OffsetAlign(align, offset, size)
    \/ \E address \in Units, size \in 0..SizeMax : Dealloc(address, size)
    \/ NodeObtained
    \/ HandlerGivesUp
    \/ Destroy
    \/ DestroyFirstRegion

Spec == Init /\ [][Next]_vars

-----------------------------------------------------------------------------
Contract == INSTANCE AddressSpace WITH free <- FreeUnits(regions)

\* Every variable keeps its type; no region is empty or larger than SizeType
\* can say (free-list.hpp:18-20).
TypeOK ==
    /\ regions \in Seq(RegionType(Nodes, Units))
    /\ spare \subseteq Nodes
    /\ pending \in [call : {"none", "OffsetAlign", "Dealloc"},
                    before : 0..Len(regions),
                    start : Units, size : 0..SizeMax, skip : 0..SizeMax,
                    reply : Contract!Answers]
    /\ held \subseteq Units
    /\ dropped \subseteq Units
    /\ answer \in Contract!Answers
    /\ status \in {"live", "destroying", "trapped"}

\* The list stays sorted by address and its regions disjoint, whatever the
\* order of the frees: Dealloc's search for its neighbours relies on it.
RegionsOrdered == Ordered(regions)

\* The range that a Dealloc still in InsertAfter has taken from the client.
InTransit ==
    IF pending.call = "Dealloc"
    THEN UnitsFrom(pending.start, pending.size)
    ELSE {}

\* While the list lives every unit is free, held, in transit or dropped, and
\* only one of these: no case of Alloc, OffsetAlign or Dealloc hands a unit
\* out twice, forgets it, or frees more than it was given.
UnitsConserved ==
    status = "live" =>
        /\ FreeUnits(regions) \cup held \cup InTransit \cup dropped = Units
        /\ FreeUnits(regions) \cap (held \cup InTransit \cup dropped) = {}
        /\ held \cap (InTransit \cup dropped) = {}
        /\ InTransit \cap dropped = {}

\* Every FreeRegion structure is one the external allocator gave and has not
\* had back, and is in the list once: a merge returns the structure it makes
\* superfluous, and an insertion takes exactly one.
NodesConserved ==
    /\ DistinctNodes(regions)
    /\ NodesOf(regions) \cup spare = Nodes
    /\ NodesOf(regions) \cap spare = {}

\* Two regions come to touch only where an OffsetAlign of size 0 has cut one
\* region in two; every Dealloc merges with both of its neighbours
\* (free-list.hpp:155).
SeamOnlyByEmptyAlign ==
    [][Seams(regions') \subseteq
          Seams(regions) \cup
             (IF answer'.ok /\ answer'.size = 0 THEN {answer'.address} ELSE {})
      ]_vars

\* Alloc and OffsetAlign answer the lowest address at which the request fits,
\* seen on the units that are free and not on the list that is searched, and
\* fail only when no free range that no seam interrupts has room for it
\* (free-list.hpp:63-64).
SearchExact ==
    [][LET fits(a) == Usable(regions, a, answer'.align, answer'.offset, answer'.size)
       IN  /\ held' # held /\ answer'.ok =>
                fits(answer'.address) /\ \A a \in 0..(answer'.address - 1) : ~ fits(a)
           /\ answer' # answer /\ ~ answer'.ok /\ answer'.size > 0 =>
                \A a \in Units : ~ fits(a)
      ]_vars

\* aligner.hpp:17-18: an align of 0 is treated as an alignment of 1.
ZeroAlignIsOne == status # "trapped"

\* FreeList is an OffsetAligner: it keeps the contract of abstract/.
FreeListContract == Contract!Spec
===============================================================================
