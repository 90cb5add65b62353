---------------------------- MODULE PlacedFreeList ----------------------------
(***************************************************************************)
(* PlacedFreeList (free-list/placed-free-list.hpp): a ChunkedFreeList that *)
(* needs no external allocator.  The memory of its FreeRegion structures   *)
(* are chunks of the very space it manages, which it keeps in a buffered   *)
(* stack (buffered-stack/buffered-stack.hpp) whose source is the list      *)
(* itself.  Every operation on the list may take a chunk from the stack or *)
(* push one on it; ApplyBuffer then calls the list back, to refill the     *)
(* stack or to drain it, and those calls take and push chunks in turn.     *)
(*                                                                         *)
(* The unit of addresses and sizes is the chunk (regionSize bytes), to     *)
(* which ChunkedFreeList rounds every request.  The handlers of the list   *)
(* and of the stack are assert(false): fault names the assertion that      *)
(* failed, and a failed assertion ends the program.                        *)
(***************************************************************************)
EXTENDS RegionList

CONSTANTS
    StackSize,      \* template argument: the capacity of the stack
    Starts,         \* chunks at which Place may be asked to start
    MaxChunks,      \* bound on the number of chunks Place is given
    AllocSizes,     \* sizes the client asks Alloc and OffsetAlign for
    Aligns,         \* alignments it asks OffsetAlign for
    AlignOffsets    \* offsets it asks OffsetAlign for

\* The static_assert of the class, and a space that fits the address space.
ASSUME PlacementAssumption ==
    /\ StackSize \in Nat /\ StackSize >= 3
    /\ MaxChunks \in 1..SizeMax
    /\ Starts \subseteq 0..(AddressSpan - MaxChunks)

ASSUME RequestAssumption ==
    /\ AllocSizes \subseteq 0..SizeMax
    /\ Aligns \subseteq 1..(AddressSpan - 1)
    /\ AlignOffsets \subseteq 0..(AddressSpan - 1)

\* aligner.hpp:17: an alignment is a power of 2, and so divides the number of
\* values of AddressType.
ASSUME AlignAssumption == \A align \in Aligns : AddressSpan % align = 0

VARIABLES
    space,      \* the chunks the list was placed over (never changes)
    regions,    \* the list from firstRegion on
    stack,      \* the stack, its top last
    phase,      \* off, or the step of ApplyBuffer that is next
    coming,     \* address of its fill loop: chunks allocated, not yet pushed
    held,       \* ghost: the chunks that are the client's
    answer,     \* what the last call returned
    fault       \* the assertion that failed, or none

vars == <<space, regions, stack, phase, coming, held, answer, fault>>

Units == 0..(AddressSpan - 1)

\* Mutant of SoftMaximum: the stack may rest full.
SoftMaximumIsCapacity == StackSize

\* The stack is built with a soft minimum of 1 and a soft maximum of
\* StackSize - 1.
SoftMinimum == 1
SoftMaximum == StackSize - 1

Answered(ok, address, align, offset, size) ==
    [ok |-> ok, address |-> address,
     align |-> align, offset |-> offset, size |-> size]

NoAnswer == Answered(FALSE, 0, 1, 0, 0)

\* The client calls only when the previous call has returned: buffering is
\* FALSE exactly when phase is off.
Idle == phase = "off" /\ fault = "none"

\* Mutant of Placed: >= where the constructor has > before it frees the rest.
PlacedOffByOne(first, count) ==
    /\ space = UnitsFrom(first, count)
    /\ regions = IF count >= 2
                 THEN <<Region(first + 1, first + 2, count - 2)>>
                 ELSE <<>>
    /\ stack = <<first>>

\* The constructor pushes the first two chunks on the stack and frees the
\* rest, whose region takes the second one for its structure; with less than
\* three chunks there is no rest to free.
Placed(first, count) ==
    /\ space = UnitsFrom(first, count)
    /\ regions = IF count > 2
                 THEN <<Region(first + 1, first + 2, count - 2)>>
                 ELSE <<>>
    /\ stack = IF count = 2 THEN <<first, first + 1>> ELSE <<first>>

Init ==
    /\ \E first \in Starts, count \in 1..MaxChunks : Placed(first, count)
    /\ phase = "off"
    /\ coming = {}
    /\ held = {}
    /\ answer = NoAnswer
    /\ fault = "none"

-----------------------------------------------------------------------------
(* The stack as the list's allocator.                                      *)

\* Dealloc of a full stack calls StackOverflowHandler.
Push(s, chunk) ==
    IF Len(s) = StackSize
    THEN fault' = "overflow" /\ stack' = s
    ELSE stack' = Append(s, chunk) /\ UNCHANGED fault

\* Remove(last, region) gives the structure's chunk back.
ReturnNode(i, leaves) ==
    IF leaves THEN Push(stack, regions[i].node) ELSE UNCHANGED <<stack, fault>>

\* InsertAfter(before, start, size), with list the list that it extends: an
\* empty stack calls GetRegionFailureHandler.
InsertFrom(s, list, i, start, size) ==
    IF Len(s) = 0
    THEN fault' = "noRegion" /\ stack' = s /\ regions' = list
    ELSE /\ regions' = InsertAfter(list, i, Last(s), start, size)
         /\ stack' = Front(s)
         /\ UNCHANGED fault

Give(address, align, offset, size) ==
    /\ held' = held \cup UnitsFrom(address, size)
    /\ answer' = Answered(TRUE, address, align, offset, size)

Deny(align, offset, size) ==
    /\ answer' = Answered(FALSE, 0, align, offset, size)
    /\ UNCHANGED <<space, regions, stack, phase, coming, held, fault>>

\* Where the loop goes on whose call of the list has returned.
Resumed == IF phase = "fill" THEN "push" ELSE phase

\* Mutant of EnterApplyBuffer: it does not look whether it is running already.
EnterApplyBufferAgain == phase' = "fill"

\* stack.ApplyBuffer(), at the end of every operation of the list: with
\* buffering set, because a loop of ApplyBuffer made the call, it does nothing.
EnterApplyBuffer ==
    phase' = IF phase = "off" THEN "fill" ELSE Resumed

-----------------------------------------------------------------------------
Alloc(size) ==
    /\ Idle
    /\ \/ \E i \in DOMAIN regions :
            /\ FirstFit(regions, size, i)
            /\ regions' = TakeHead(regions, i, size)
            /\ ReturnNode(i, Exact(regions, i, size))
            /\ Give(regions[i].start, 1, 0, size)
            /\ EnterApplyBuffer
            /\ UNCHANGED <<space, coming>>
       \/ NoFit(regions, size) /\ Deny(1, 0, size)

\* The five cases of FreeList::OffsetAlign.
AlignHead(i, align, offset, size) ==
    /\ Compensation(regions[i], align, offset) = 0
    /\ regions' = TakeHead(regions, i, size)
    /\ ReturnNode(i, Exact(regions, i, size))

AlignTail(i, align, offset, size) ==
    LET skip == Compensation(regions[i], align, offset) IN
    /\ skip # 0
    /\ TailSize(regions[i], skip, size) = 0
    /\ regions' = Shrink(regions, i, skip)
    /\ UNCHANGED <<stack, fault>>

AlignMiddle(i, align, offset, size) ==
    LET skip == Compensation(regions[i], align, offset) IN
    /\ skip # 0
    /\ TailSize(regions[i], skip, size) # 0
    /\ InsertFrom(stack, Shrink(regions, i, skip), i,
                  regions[i].start + skip + size,
                  TailSize(regions[i], skip, size))

OffsetAlign(align, offset, size) ==
    /\ Idle
    /\ \/ \E i \in DOMAIN regions :
            /\ FirstAligned(regions, align, offset, size, i)
            /\ \/ AlignHead(i, align, offset, size)
               \/ AlignTail(i, align, offset, size)
               \/ AlignMiddle(i, align, offset, size)
            /\ Give(AlignedAddress(regions[i],
                                   Compensation(regions[i], align, offset)),
                    align, offset, size)
            /\ EnterApplyBuffer
            /\ UNCHANGED <<space, coming>>
       \/ /\ NoAlignedFit(regions, align, offset, size)
          /\ Deny(align, offset, size)

\* FreeList::Dealloc(address, size) with s the stack to take from or push on.
ListDealloc(s, address, size) ==
    \E i \in 0..Len(regions) :
        /\ Before(regions, address, i)
        /\ IF ~ ClearOfAfter(regions, i, address, size)
           THEN fault' = "overlap" /\ stack' = s /\ UNCHANGED regions
           ELSE \/ /\ TouchesBefore(regions, i, address)
                   /\ TouchesAfter(regions, i, address, size)
                   /\ regions' = JoinBoth(regions, i, size)
                   /\ Push(s, regions[i + 1].node)
                \/ /\ TouchesBefore(regions, i, address)
                   /\ ~ TouchesAfter(regions, i, address, size)
                   /\ regions' = GrowBefore(regions, i, size)
                   /\ stack' = s /\ UNCHANGED fault
                \/ /\ ~ TouchesBefore(regions, i, address)
                   /\ TouchesAfter(regions, i, address, size)
                   /\ regions' = GrowAfter(regions, i, size)
                   /\ stack' = s /\ UNCHANGED fault
                \/ /\ ~ TouchesBefore(regions, i, address)
                   /\ ~ TouchesAfter(regions, i, address, size)
                   /\ InsertFrom(s, regions, i, address, size)

\* A range the client holds; one of size 0 is ignored.
Dealloc(address, size) ==
    /\ Idle
    /\ UnitsFrom(address, size) \subseteq held
    /\ IF size = 0
       THEN UNCHANGED <<regions, stack, phase, fault>>
       ELSE ListDealloc(stack, address, size) /\ EnterApplyBuffer
    /\ held' = held \ UnitsFrom(address, size)
    /\ answer' = NoAnswer
    /\ UNCHANGED <<space, coming>>

-----------------------------------------------------------------------------
(* ApplyBuffer.  Its loops call the list, whose operations end with        *)
(* EnterApplyBuffer as those of the client do.                             *)

Buffering(step) == phase = step /\ fault = "none"

\* while (count < softMinimum): source->Alloc(address, objectSize).
Fill ==
    /\ Buffering("fill")
    /\ Len(stack) < SoftMinimum
    /\ \/ \E i \in DOMAIN regions :
            /\ FirstFit(regions, 1, i)
            /\ regions' = TakeHead(regions, i, 1)
            /\ ReturnNode(i, Exact(regions, i, 1))
            /\ coming' = coming \cup {regions[i].start}
            /\ EnterApplyBuffer
       \/ /\ NoFit(regions, 1)
          /\ fault' = "notApplied"
          /\ UNCHANGED <<regions, stack, phase, coming>>
    /\ UNCHANGED <<space, held, answer>>

\* assert(count < Capacity), stack[count++] = address.
PushFilled ==
    /\ Buffering("push")
    /\ \E chunk \in coming :
            /\ Push(stack, chunk)
            /\ coming' = coming \ {chunk}
    /\ phase' = "fill"
    /\ UNCHANGED <<space, regions, held, answer>>

Filled ==
    /\ Buffering("fill")
    /\ Len(stack) >= SoftMinimum
    /\ phase' = "drain"
    /\ UNCHANGED <<space, regions, stack, coming, held, answer, fault>>

\* Mutant of Drain: the chunk is freed without being popped.
DrainWithoutPop ==
    /\ Buffering("drain")
    /\ Len(stack) > SoftMaximum
    /\ ListDealloc(stack, Last(stack), 1)
    /\ EnterApplyBuffer
    /\ UNCHANGED <<space, coming, held, answer>>

\* while (count > softMaximum): source->Dealloc(stack[--count], objectSize).
Drain ==
    /\ Buffering("drain")
    /\ Len(stack) > SoftMaximum
    /\ ListDealloc(Front(stack), Last(stack), 1)
    /\ EnterApplyBuffer
    /\ UNCHANGED <<space, coming, held, answer>>

\* Mutant of Drained: buffering is not reset.
DrainedStillBuffering ==
    /\ Buffering("drain")
    /\ Len(stack) <= SoftMaximum
    /\ UNCHANGED vars

Drained ==
    /\ Buffering("drain")
    /\ Len(stack) <= SoftMaximum
    /\ phase' = "off"
    /\ UNCHANGED <<space, regions, stack, coming, held, answer, fault>>

ApplyBuffer == Fill \/ PushFilled \/ Filled \/ Drain \/ Drained

-----------------------------------------------------------------------------
Next ==
    \/ \E size \in AllocSizes : Alloc(size)
    \/ \E align \in Aligns, offset \in AlignOffsets, size \in AllocSizes :
            OffsetAlign(align, offset, size)
    \/ \E address \in Units, size \in 0..MaxChunks : Dealloc(address, size)
    \/ Fill
    \/ PushFilled
    \/ Filled
    \/ Drain
    \/ Drained

\* ApplyBuffer runs in the thread of the call that entered it.
Spec == Init /\ [][Next]_vars /\ WF_vars(ApplyBuffer)

-----------------------------------------------------------------------------
Contract == INSTANCE AddressSpace WITH free <- FreeUnits(regions)

Buffered == Range(stack)

\* Every variable keeps its type, and the list and the stack only name chunks
\* of the space.
TypeOK ==
    /\ space \subseteq Units
    /\ regions \in Seq(RegionType(space, space))
    /\ stack \in Seq(space)
    /\ phase \in {"off", "fill", "push", "drain"}
    /\ coming \subseteq space
    /\ held \subseteq space
    /\ answer \in Contract!Answers
    /\ fault \in {"none", "overflow", "noRegion", "notApplied", "overlap"}

\* No assertion of the list, of its handlers or of ApplyBuffer's callers can
\* fail: the stack is never empty when a region needs a structure, never full
\* when one is returned, and never to be refilled from an empty list
\* (placed-free-list.hpp:32, 42, 57, 134, 138).
NoFault == fault = "none"

\* What ApplyBuffer restores, and what makes NoFault hold in the next call:
\* between two calls there is a chunk for a new structure and room for an old.
\* It prevents recursion (buffered-stack.hpp:93): the fill loop never asks the
\* list for a chunk while another one is still on its way to the stack.
BufferReady ==
    /\ Idle => Len(stack) \in SoftMinimum..SoftMaximum
    /\ \A chunk, other \in coming : chunk = other

\* The regions stay sorted and disjoint, the chunks that the list takes from
\* itself and gives back to itself included.
RegionsOrdered == Ordered(regions)

\* Every chunk of the space has exactly one owner: the client, a free region,
\* the structure of a region, the stack, or the loop that is about to push it.
\* A chunk with two would be overwritten by one of them, a chunk with none is
\* leaked, and so is one that is still coming when ApplyBuffer has returned.
OneOwner ==
    LET taken == held \cup coming IN
    /\ space = taken \cup FreeUnits(regions) \cup NodesOf(regions) \cup Buffered
    /\ held \cap coming = {}
    /\ taken \cap FreeUnits(regions) = {}
    /\ (taken \cup FreeUnits(regions)) \cap NodesOf(regions) = {}
    /\ (taken \cup FreeUnits(regions) \cup NodesOf(regions)) \cap Buffered = {}
    /\ Idle => coming = {}
    /\ DistinctNodes(regions)
    /\ IsInjective(stack)

\* The list is an OffsetAligner, and what it does to its own space between
\* two answers is no business of its client's.
PlacedFreeListContract == Contract!Spec

\* ApplyBuffer returns, although its loops call operations that push chunks
\* on the stack they drain and take chunks from the stack they fill.
ApplyBufferReturns == (phase # "off") ~> (phase = "off")
===============================================================================
