------------------------------- MODULE Placement -------------------------------
(***************************************************************************)
(* How the virtual allocators divide a region of memory into their own     *)
(* structures and the heap they manage: PlaceObject and BestBitmapSize     *)
(* (bitmap/virtual-bitmap-allocator.hpp), PlaceInstance                    *)
(* (free-list/placed-free-list.hpp).  Sizes are far below the maximum of   *)
(* size_t here.                                                            *)
(***************************************************************************)
EXTENDS Integers, FiniteSetsExt

CONSTANTS
    ObjectSize,     \* sizeof(T), of the allocator that is placed
    StackSize,      \* sizeof(StackType)
    RegionSize      \* sizeof(FreeRegion)

ASSUME PlacementSizes == {ObjectSize, StackSize, RegionSize} \subseteq Nat \ {0}

\* ansa::Align, and ansa::Align2 for powers of two.
RoundedUp(n, align) == ((n + align - 1) \div align) * align

\* What Place returns: the bytes from region to metadata are taken by the
\* structures, the heap of whole granules begins at first.
Layout(metadata, bitmap, granule, first, heap) ==
    [metadata |-> metadata, bitmap |-> bitmap,
     granule |-> granule, first |-> first, heap |-> heap]

\* nullptr.
Nowhere == Layout(0, 0, 1, 0, 0)

-----------------------------------------------------------------------------
\* Mutant of FreeSizeForBitmap: as if every bitmap could cover the rest.
FreeSizeOfRest(usable, page, bitmap) == usable - bitmap

\* sizeof(Unit) divides the size of the bitmap.
FreeSizeForBitmap(usable, page, bitmap) == Min({usable - bitmap, page * bitmap * 8})

\* Mutant of BestBitmapSize: the lower bound is good enough.
LowerBitmapSize(usable, page, unit) ==
    LET align == RoundedUp(unit, page)
    IN  IF align >= usable THEN 0 ELSE RoundedUp(usable \div (page * 8 + 1), align)

\* unit is sizeof(Unit).
BestBitmapSize(usable, page, unit) ==
    LET align == RoundedUp(unit, page)
        lower == RoundedUp(usable \div (page * 8 + 1), align)
        covered(bitmap) == FreeSizeForBitmap(usable, page, bitmap)
    IN  IF align >= usable THEN 0
        ELSE IF lower + align < usable /\ covered(lower + align) > covered(lower)
             THEN lower + align
        ELSE lower

PlaceObject(region, size, page, unit) ==
    LET structure == RoundedUp(ObjectSize, RoundedUp(unit, page))
        usable == ((size - structure) \div page) * page
        bitmap == BestBitmapSize(usable, page, unit)
    IN  IF structure > size THEN Nowhere
        ELSE Layout(structure + bitmap, bitmap, page, region + structure + bitmap,
                    FreeSizeForBitmap(usable, page, bitmap))

-----------------------------------------------------------------------------
\* 1 << ansa::Log2Ceil(n).
PowerFrom(n) == Min({2^k : k \in {k \in 0..n : 2^k >= n}})

\* The chunk of a PlacedFreeList, and what its objects take.
ChunkFor(objectAlign) == RoundedUp(PowerFrom(RegionSize), objectAlign)

ObjectsFor(objectAlign) ==
    RoundedUp(ObjectSize, objectAlign) + RoundedUp(StackSize, objectAlign)

PlaceInstance(start, size, objectAlign) ==
    LET chunk == ChunkFor(objectAlign)
        metadata == RoundedUp(start + ObjectsFor(objectAlign), chunk) - start
        remaining == size - metadata
    IN  IF metadata + chunk > size THEN Nowhere
        ELSE Layout(metadata, 0, chunk, start + metadata,
                    remaining - (remaining % chunk))
===============================================================================
