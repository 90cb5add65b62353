------------------------------ MODULE Virtualizer ------------------------------
(***************************************************************************)
(* AllocatorVirtualizer and AlignerVirtualizer (wrappers/), which make an  *)
(* allocator of memory a VirtualAllocator by a header before each buffer,  *)
(* in the two settings the library has: the virtual bitmaps                *)
(* (bitmap/virtual-bitmap-*.hpp) and VirtualPlacedFreeList (free-list/),   *)
(* placed in a region of memory, with every byte of the heap.              *)
(*                                                                         *)
(* The wrapped allocator grants whole granules, chunks of a                *)
(* ChunkedFreeList or the scale of a TransformedBitmap: any that are free, *)
(* and it may refuse.  Calls that return false change nothing and are no   *)
(* step.                                                                   *)
(***************************************************************************)
EXTENDS Placement, Sequences

CONSTANTS
    Span,           \* number of values of size_t and of uintptr_t
    HeaderBytes,    \* sizeof(Header)
    Clients,        \* names of the buffers a client can have at a time
    Sizes, Aligns, Offsets,         \* what it asks for
    Regions, RegionLengths,         \* where and how long the memory may be
    Pages, UnitSizes,               \* how a bitmap may be placed
    ObjectAligns,                   \* how a list may be placed
    Additions,      \* [start, size] of memory that AddRegion may be given
    Exercised       \* bound: the sizes of the heaps that clients use

ASSUME VirtualizerAssumption ==
    /\ Span \in Nat \ {0} /\ HeaderBytes \in Nat \ {0}
    /\ Sizes \cup Aligns \cup Offsets \subseteq 0..(Span - 1)
    /\ Regions \cup RegionLengths \subseteq Nat
    /\ Pages \cup UnitSizes \cup ObjectAligns \subseteq Nat \ {0}

From(start, size) == start .. (start + size - 1)

\* A heap consists of these; one that is Nowhere of bytes.
Granules == {1} \cup Pages \cup {ChunkFor(objectAlign) : objectAlign \in ObjectAligns}

\* Alignments, pages, units and chunks are powers of two, and so is the number
\* of values of size_t: of two powers of two, one divides the other.
ASSUME AlignAssumption ==
    /\ \A page \in Pages, unit \in UnitSizes : unit % page = 0 \/ page % unit = 0
    /\ \A g \in Granules :
        /\ g \in Nat \ {0} /\ Span % g = 0
        /\ \A align \in Aligns \ {0} :
            Span % align = 0 /\ (align <= g => g % align = 0)

\* The memory is there once, and the byte behind it has an address.
ASSUME MemoryAssumption ==
    /\ \A region \in Regions, size \in RegionLengths : region + size < Span
    /\ Additions \subseteq [start : Nat, size : Nat]
    /\ \A r \in Additions :
        /\ r.start + r.size < Span
        /\ \A q \in Additions \ {r} :
            From(r.start, r.size) \cap From(q.start, q.size) = {}
        /\ \A region \in Regions, size \in RegionLengths :
            From(r.start, r.size) \cap From(region, size) = {}

VARIABLES
    place,      \* where the allocator is, and the region it was given
    memory,     \* the bytes of the heap
    free,       \* addresses the wrapped allocator may hand out
    buffers,    \* the buffers a client has, with what it asked for
    added       \* the memory given to AddRegion

vars == <<place, memory, free, buffers, added>>

Heap == DOMAIN memory

\* A byte nobody has written since it was free.
Unknown == << >>

\* unit is sizeof(Unit) of a bitmap, and objectAlign of a list.
Placed(kind, region, size, unit, layout) ==
    [kind |-> kind, region |-> region, size |-> size, unit |-> unit, layout |-> layout]

Init ==
    /\ \E region \in Regions, size \in RegionLengths :
        \/ \E page \in Pages, unit \in UnitSizes :
            /\ region % unit = 0
            /\ place = Placed("bitmap", region, size, unit,
                              PlaceObject(region, size, page, unit))
        \/ \E objectAlign \in ObjectAligns :
            /\ region % objectAlign = 0
            /\ place = Placed("list", region, size, objectAlign,
                              PlaceInstance(region, size, objectAlign))
    /\ free = From(place.layout.first, place.layout.heap)
    /\ memory = [a \in free |-> Unknown]
    /\ buffers = << >>
    /\ added = {}

-----------------------------------------------------------------------------
granule == place.layout.granule

\* ansa::Align2 in size_t.
Align2(n, align) == (((n + align - 1) % Span) \div align) * align

headerSize == Align2(HeaderBytes, granule)

\* The memory that the wrapped allocator takes for a buffer and its header,
\* and frees: ChunkedFreeList and AllocatorTransformer round the same way.
Extent(buffer, size) == From(buffer, Align2((size + headerSize) % Span, granule))

\* Where the granules begin: the bits of a bitmap count from its offset.
granuleOffset == place.layout.first % granule

\* The wrapped Alloc has an answer.
WrappedAlloc(buffer, size) ==
    /\ buffer % granule = granuleOffset
    /\ Extent(buffer, size) \subseteq free

\* The wrapped OffsetAlign has: granules are aligned as far as they are.  There
\* is no aligner with another offset (the assertion in its constructor).
WrappedOffsetAlign(buffer, align, offset, size) ==
    /\ granuleOffset = 0 /\ offset % granule = 0
    /\ WrappedAlloc(buffer, size)
    /\ align > granule => ((buffer + offset) % Span) % align = 0

WithBytes(bytes, addresses, value) ==
    [a \in Heap |-> IF a \in addresses THEN value ELSE bytes[a]]

WithHeader(bytes, buffer, size) ==
    WithBytes(bytes, From(buffer, HeaderBytes), <<"header", size>>)

Memcpy(bytes, to, from, size) ==
    [a \in Heap |-> IF a \in From(to, size) THEN bytes[from + (a - to)] ELSE bytes[a]]

\* The size in the header of a buffer.
RegionHeader(pointer) == memory[pointer - headerSize][2]

\* Mutant of RegionStart: the header is left behind.
RegionStartBehind(pointer) == pointer

RegionStart(pointer) == pointer - headerSize

Buffer(address, size, align, offset) ==
    [address |-> address, size |-> size, align |-> align, offset |-> offset]

-----------------------------------------------------------------------------
\* What Alloc and OffsetAlign do with what the wrapped allocator answers.
Provide(c, buffer, size, align, offset) ==
    /\ free' = free \ Extent(buffer, size)
    /\ memory' = WithHeader(memory, buffer, size)
    /\ buffers' = [d \in DOMAIN buffers \cup {c} |->
                    IF d = c THEN Buffer(buffer + headerSize, size, align, offset)
                    ELSE buffers[d]]
    /\ UNCHANGED <<place, added>>

\* The bound on what is explored.
IsExercised == place.layout.heap \in Exercised

Alloc(c, size) ==
    /\ IsExercised /\ c \notin DOMAIN buffers
    /\ \E buffer \in free :
        WrappedAlloc(buffer, size) /\ Provide(c, buffer, size, 1, 0)

\* Mutant of BufferOffset: the client's offset only.
BufferOffsetOnly(offset) == offset

\* What is aligned is the address behind the header.
BufferOffset(offset) == (offset + headerSize) % Span

OffsetAlign(c, align, offset, size) ==
    /\ IsExercised /\ c \notin DOMAIN buffers
    /\ \E buffer \in free :
        /\ WrappedOffsetAlign(buffer, align, BufferOffset(offset), size)
        /\ Provide(c, buffer, size, align, offset)

\* The wrapped Dealloc of a buffer and its header.
GiveBack(c, size) ==
    LET gone == Extent(RegionStart(buffers[c].address), size)
    IN  /\ free' = free \cup gone
        /\ memory' = WithBytes(memory, gone, Unknown)
        /\ buffers' = [d \in DOMAIN buffers \ {c} |-> buffers[d]]
        /\ UNCHANGED <<place, added>>

Dealloc(c) == c \in DOMAIN buffers /\ GiveBack(c, buffers[c].size)

Free(c) == c \in DOMAIN buffers /\ GiveBack(c, RegionHeader(buffers[c].address))

\* Mutant of CopySize: the last byte is left out.
CopySizeShort(oldSize, size) == Min({oldSize, size}) - 1

CopySize(oldSize, size) == Min({oldSize, size})

\* Realloc: the new buffer is there before the old one is freed.
Realloc(c, size) ==
    LET address == buffers[c].address
        oldSize == RegionHeader(address)
        gone == Extent(RegionStart(address), oldSize)
    IN  /\ c \in DOMAIN buffers
        /\ \E buffer \in free :
            /\ WrappedAlloc(buffer, size)
            /\ free' = (free \ Extent(buffer, size)) \cup gone
            /\ memory' = WithBytes(Memcpy(WithHeader(memory, buffer, size),
                                          buffer + headerSize, address,
                                          CopySize(oldSize, size)),
                                   gone, Unknown)
            /\ buffers' = [buffers EXCEPT
                            ![c] = Buffer(buffer + headerSize, size, 1, 0)]
        /\ UNCHANGED <<place, added>>

\* The client fills a buffer.
Write(c) ==
    LET b == buffers[c]
    IN  /\ c \in DOMAIN buffers
        /\ memory' = [a \in Heap |->
                        IF a \in From(b.address, b.size) THEN <<c, a - b.address + 1>>
                        ELSE memory[a]]
        /\ UNCHANGED <<free, buffers, place, added>>

\* Mutant of Trimmed: what was cut off at the start is not deducted.
TrimmedLong(start, size) ==
    LET misalignment == start % granule
        corrected == IF misalignment = 0 THEN 0 ELSE granule - misalignment
    IN  IF corrected > size THEN {}
        ELSE From(start + corrected, size - (size % granule))

\* The part of some memory that AddRegion can use.
Trimmed(start, size) ==
    LET misalignment == start % granule
        corrected == IF misalignment = 0 THEN 0 ELSE granule - misalignment
        rest == size - corrected
    IN  IF corrected > size THEN {}
        ELSE From(start + corrected, rest - (rest % granule))

\* VirtualPlacedFreeList::AddRegion.
AddRegion(r) ==
    LET new == Trimmed(r.start, r.size)
    IN  /\ IsExercised /\ place.kind = "list"
        /\ r \in Additions \ added
        /\ added' = added \cup {r}
        /\ free' = free \cup new
        /\ memory' = [a \in Heap \cup new |-> IF a \in Heap THEN memory[a] ELSE Unknown]
        /\ UNCHANGED <<buffers, place>>

Next ==
    \/ \E c \in Clients : Dealloc(c) \/ Free(c) \/ Write(c)
    \/ \E c \in Clients, size \in Sizes : Alloc(c, size) \/ Realloc(c, size)
    \/ \E c \in Clients, align \in Aligns, offset \in Offsets, size \in Sizes :
            OffsetAlign(c, align, offset, size)
    \/ \E r \in Additions : AddRegion(r)

Spec == Init /\ [][Next]_vars

-----------------------------------------------------------------------------
TypeOK ==
    /\ free \subseteq Heap
    /\ added \subseteq Additions
    /\ DOMAIN buffers \subseteq Clients
    /\ \A c \in DOMAIN buffers :
        /\ buffers[c].size \in Sizes /\ buffers[c].address \in 0..(Span - 1)
        /\ buffers[c].align \in Aligns \cup {1} /\ buffers[c].offset \in Offsets \cup {0}

Taken(c) == Extent(RegionStart(buffers[c].address), buffers[c].size)

\* Free and Dealloc give back to the wrapped allocator what Alloc, OffsetAlign
\* and Realloc took, though they are told of a part of it and compute the rest;
\* each buffer lies in what was taken for it, aligned as it was asked for,
\* and to whole granules, in spite of the header, which tells its size.
BuffersExact ==
    /\ free = Heap \ UNION {Taken(c) : c \in DOMAIN buffers}
    /\ \A c, d \in DOMAIN buffers : c # d => Taken(c) \cap Taken(d) = {}
    /\ \A c \in DOMAIN buffers :
        LET b == buffers[c]
        IN  /\ From(b.address, b.size) \subseteq Taken(c)
            /\ ((b.address + b.offset) % Span) % Max({b.align, 1}) = 0
            /\ b.address % granule = granuleOffset
            /\ RegionHeader(b.address) = b.size

\* The bytes of the buffers are those a VirtualAllocator promises: nobody's
\* header, copy or free changes those of another, and Realloc keeps them.
Promised ==
    INSTANCE VirtualAllocator
    WITH contents <- [c \in DOMAIN buffers |->
                        [i \in 1..buffers[c].size |->
                            memory[buffers[c].address + i - 1]]]

VirtualAllocatorContract == Promised!Spec

\* The heap is what Place left of the region and every granule that lies in
\* what AddRegion was given: not a byte less, and not one outside of them.
HeapExact ==
    LET granuleOf(a) == From(a - (a % granule), granule)
        given == From(place.layout.first, place.layout.heap)
        usable(r) == {a \in From(r.start, r.size) :
                        granuleOf(a) \subseteq From(r.start, r.size)}
    IN  Heap = given \cup UNION {usable(r) : r \in added}

\* The structures (a list and its stack, or an allocator and its bitmap) and the
\* heap that Place makes of a region lie in it, one after the other, in whole
\* granules; the bitmap has a bit for each of them.
LayoutFits ==
    LET layout == place.layout
        bits == layout.heap \div layout.granule
    IN  /\ layout.heap % layout.granule = 0
        /\ layout # Nowhere =>
            /\ layout.first >= place.region + layout.metadata
            /\ layout.first + layout.heap <= place.region + place.size
            /\ layout.metadata >= ObjectSize + layout.bitmap
            /\ place.kind = "list" =>
                /\ layout.first % layout.granule = 0
                /\ layout.metadata >= RoundedUp(StackSize, place.unit) + ObjectSize
            /\ place.kind = "bitmap" =>
                ((bits + 8 * place.unit - 1) \div (8 * place.unit)) * place.unit
                    <= layout.bitmap

\* A placed list leaves less than a granule unused on either side, and is
\* refused only where there is none; and no size of a bitmap that could be
\* chosen lets it cover more than BestBitmapSize does.
LayoutBest ==
    LET layout == place.layout
        align == RoundedUp(place.unit, granule)
        usable == ((place.size - (layout.metadata - layout.bitmap)) \div granule) * granule
    IN  IF place.kind = "bitmap"
        THEN layout # Nowhere =>
                \A n \in 0..(usable \div align) :
                    Min({usable - n * align, granule * n * align * 8}) <= layout.heap
        ELSE LET inside == (place.region + ObjectsFor(place.unit))
                            .. (place.region + place.size - 1)
                 chunks == {a \in inside : a % ChunkFor(place.unit) = 0}
             IN  \A a \in chunks :
                    From(a, ChunkFor(place.unit)) \subseteq inside =>
                        a \in From(layout.first, layout.heap)

\* [allocator.hpp] Alloc returns true: the client has the size it asked for.
AllocGivesSize ==
    \A c \in DOMAIN buffers : From(buffers[c].address, buffers[c].size) \subseteq Heap
===============================================================================
