-------------------------------- MODULE Bitmap --------------------------------
(***************************************************************************)
(* Bitmap (bitmap/bitmap.hpp) over RawBitmap (bitmap/raw-bitmap.hpp): an   *)
(* OffsetAligner of BitCount addresses, one bit each.  The bits lie in     *)
(* whole units of a memory the client provides, and the bits of the last   *)
(* unit from BitCount on are not the bitmap's.                             *)
(*                                                                         *)
(* The searches are functions from the index they have reached to their    *)
(* result; an index that SizeType cannot represent is NotFound, the result *)
(* false of the code's tests for it.  One action is one call of a method.  *)
(***************************************************************************)
EXTENDS Integers, FiniteSetsExt

CONSTANTS
    AddressSpan,    \* number of values of AddressType
    SizeMax,        \* the largest value of SizeType
    BitCount,       \* bits in the bitmap
    UnitBitCount,   \* bits in a Unit
    AllocSizes,     \* sizes the client asks Alloc for
    AlignSizes,     \* sizes it asks OffsetAlign for
    Aligns,         \* alignments it asks OffsetAlign for
    AlignOffsets    \* offsets it asks OffsetAlign for

ASSUME BitmapAssumption ==
    /\ AddressSpan \in Nat /\ SizeMax \in 1..(AddressSpan - 1)
    /\ BitCount \in 1..SizeMax
    /\ UnitBitCount \in 1..SizeMax
    /\ AllocSizes \cup AlignSizes \subseteq 0..SizeMax
    /\ Aligns \cup AlignOffsets \subseteq 0..(AddressSpan - 1)

\* Alignments are powers of two (aligner.hpp), as is the number of addresses.
ASSUME AlignAssumption == \A align \in Aligns \ {0} : AddressSpan % align = 0

VARIABLES
    used,       \* the bits of the memory that are 1
    held,       \* ghost: the addresses that are the client's
    foreign,    \* ghost: the 1 bits that were in the memory and are not ours
    answer,     \* what the last call returned
    asserted    \* whether an assertion has failed

vars == <<used, held, foreign, answer, asserted>>

Bits == 0..(BitCount - 1)

\* The units that hold the bits, to the end of the last one.
Memory == 0..(((BitCount + UnitBitCount - 1) \div UnitBitCount) * UnitBitCount - 1)

UnitsFrom(start, size) == start .. (start + size - 1)

Answered(ok, address, align, offset, size) ==
    [ok |-> ok, address |-> address,
     align |-> align, offset |-> offset, size |-> size]

NoAnswer == Answered(FALSE, 0, 1, 0, 0)

\* Mutant of Cleared: the last unit is cleared with the others.
ClearedByUnit(memory) == memory \ Memory

\* The constructor clears the units it fills, and then the bits it owns of
\* the last one.
Cleared(memory) ==
    LET fullUnits == BitCount \div UnitBitCount
    IN  memory \ (0..(fullUnits * UnitBitCount - 1)
                    \cup (fullUnits * UnitBitCount)..(BitCount - 1))

Init ==
    /\ \E memory \in SUBSET Memory :
            used = Cleared(memory) /\ foreign = memory \ Bits
    /\ held = {}
    /\ answer = NoAnswer
    /\ asserted = FALSE

-----------------------------------------------------------------------------
(* The searches.                                                           *)

NotFound == SizeMax + 1

\* An assertion fails on the way: GetBit or Reserve outside of the bitmap.
Asserts == SizeMax + 2

Index(n) == IF n > SizeMax THEN NotFound ELSE n

\* BitScanRight(~unit) of the unit that begins at i: the number of 1 bits
\* before its first 0 bit, or the width of a unit that has none.
Ones(i) == Min({j \in 0..(UnitBitCount - 1) : i + j \notin used} \cup {UnitBitCount})

\* Where NextFree goes on from the used bit i.
PastUsed(i) ==
    IF i % UnitBitCount # 0 THEN Index(i + 1) ELSE Index(i + Ones(i))

NextFree(idx, afterSize) ==
    LET from[i \in 0..NotFound] ==
            IF i >= BitCount - afterSize THEN NotFound
            ELSE IF i \notin used THEN i
            ELSE from[PastUsed(i)]
    IN  from[idx]

\* Mutant of AlignIndex: the offset is forgotten.
AlignIndexOnly(i, align, offset) ==
    LET misalignment == i % align
    IN  Index(IF misalignment = 0 THEN i ELSE i + (align - misalignment))

AlignIndex(i, align, offset) ==
    LET misalignment == ((offset + i) % AddressSpan) % align
    IN  Index(IF misalignment = 0 THEN i ELSE i + (align - misalignment))

\* Where NextFreeAligned goes on from the used bit i.
PastUsedAligned(i, align, offset) ==
    IF UnitBitCount > align /\ i % UnitBitCount = 0
    THEN IF Index(i + Ones(i)) = NotFound
         THEN NotFound
         ELSE AlignIndex(i + Ones(i), align, offset)
    ELSE Index(i + align)

\* An alignment that SizeType cannot represent has one attempt, at an index
\* that is not compared with the size of the bitmap.
SingleAttempt(i) ==
    IF i = NotFound THEN NotFound
    ELSE IF i >= BitCount THEN Asserts
    ELSE IF i \in used THEN NotFound
    ELSE i

\* Mutant of NextFreeAligned: the search ends where size more bits, and not
\* afterSize more, would not fit.
NextFreeAlignedShort(idx, offset, align, afterSize) ==
    LET from[i \in 0..NotFound] ==
            IF i >= BitCount - (afterSize + 1) THEN NotFound
            ELSE IF i \notin used THEN i
            ELSE from[PastUsedAligned(i, align, offset)]
        first == AlignIndex(idx, align, offset)
    IN  IF align > SizeMax THEN SingleAttempt(first) ELSE from[first]

NextFreeAligned(idx, offset, align, afterSize) ==
    LET from[i \in 0..NotFound] ==
            IF i >= BitCount - afterSize THEN NotFound
            ELSE IF i \notin used THEN i
            ELSE from[PastUsedAligned(i, align, offset)]
        first == AlignIndex(idx, align, offset)
    IN  IF align > SizeMax THEN SingleAttempt(first) ELSE from[first]

\* Reserve: the used bits in the way of a range; the first one is firstUsed.
Blocking(idx, size) == used \cap UnitsFrom(idx, size)

\* What Alloc and OffsetAlign search with.
NextIndex(idx, align, offset, size) ==
    IF align < 2
    THEN NextFree(idx, size - 1)
    ELSE NextFreeAligned(idx, offset, align, size - 1)

\* Mutant of Reserved: Reserve does not compare its range with the bitmap.
ReservedUnchecked(align, offset, size) ==
    LET attempt[idx \in 0..NotFound] ==
            LET at == NextIndex(idx, align, offset, size) IN
            IF at \in {NotFound, Asserts} THEN at
            ELSE IF Blocking(at + 1, size - 1) = {} THEN at
            ELSE attempt[Min(Blocking(at + 1, size - 1))]
    IN  attempt[0]

\* The loop of Alloc and OffsetAlign: reserve what the search finds, and where
\* that fails search on from the bit that was in the way.
Reserved(align, offset, size) ==
    LET attempt[idx \in 0..NotFound] ==
            LET at == NextIndex(idx, align, offset, size) IN
            IF at \in {NotFound, Asserts} THEN at
            ELSE IF at + size > BitCount THEN Asserts
            ELSE IF Blocking(at + 1, size - 1) = {} THEN at
            ELSE attempt[Min(Blocking(at + 1, size - 1))]
    IN  attempt[0]

-----------------------------------------------------------------------------
Give(address, align, offset, size) ==
    /\ used' = used \cup UnitsFrom(address, size)
    /\ held' = held \cup UnitsFrom(address, size)
    /\ answer' = Answered(TRUE, address, align, offset, size)
    /\ UNCHANGED <<foreign, asserted>>

Deny(align, offset, size) ==
    /\ answer' = Answered(FALSE, 0, align, offset, size)
    /\ UNCHANGED <<used, held, foreign, asserted>>

Assert ==
    /\ asserted' = TRUE
    /\ UNCHANGED <<used, held, foreign, answer>>

\* The answer to a request the bitmap can hold.
Search(align, offset, size) ==
    LET at == Reserved(align, offset, size) IN
    \/ at \in Bits /\ Give(at, align, offset, size)
    \/ at = NotFound /\ Deny(align, offset, size)
    \/ at = Asserts /\ Assert

\* Alloc, at an offset that plays no part in its search.
AllocFor(offset, size) ==
    /\ ~ asserted
    /\ \/ size > BitCount /\ Deny(1, offset, size)
       \/ size = 0 /\ Give(0, 1, offset, 0)
       \/ size \in 1..BitCount /\ Search(1, offset, size)

Alloc(size) == AllocFor(0, size)

\* What needs no alignment is passed on to Alloc.
OffsetAlign(align, offset, size) ==
    /\ ~ asserted
    /\ \/ size > BitCount /\ Deny(align, offset, size)
       \/ size <= BitCount /\ (align < 2 \/ size = 0) /\ AllocFor(offset, size)
       \/ align >= 2 /\ size \in 1..BitCount /\ Search(align, offset, size)

\* Dealloc clears the bits of a range the client holds, or of a part of it.
Dealloc(address, size) ==
    /\ ~ asserted
    /\ UnitsFrom(address, size) \subseteq held
    /\ used' = used \ UnitsFrom(address, size)
    /\ held' = held \ UnitsFrom(address, size)
    /\ answer' = NoAnswer
    /\ UNCHANGED <<foreign, asserted>>

Next ==
    \/ \E size \in AllocSizes : Alloc(size)
    \/ \E align \in Aligns, offset \in AlignOffsets, size \in AlignSizes :
            OffsetAlign(align, offset, size)
    \/ \E address \in Bits, size \in 0..BitCount : Dealloc(address, size)

Spec == Init /\ [][Next]_vars

-----------------------------------------------------------------------------
Contract == INSTANCE AddressSpace WITH free <- Bits \ used

TypeOK ==
    /\ used \subseteq Memory
    /\ held \subseteq Bits
    /\ foreign \subseteq Memory \ Bits
    /\ answer \in Contract!Answers
    /\ asserted \in BOOLEAN

\* The bits that are 1 are those of what the client holds, and those of the
\* last unit that were 1 before the bitmap was made: neither a reservation
\* that failed nor the constructor leaves or clears any other.
UsedExactly == used = held \cup foreign

\* size units from an address that is aligned are free.
Usable(address, align, offset, size) ==
    /\ UnitsFrom(address, size) \subseteq Bits \ used
    /\ ((address + offset) % AddressSpan) % align = 0

\* First fit: the searches, which skip units, alignments and failed
\* reservations, never skip a range that would do, and fail only when there is
\* none.
SearchExact ==
    [][answer'.size > 0 =>
          LET fits(a) == Usable(a, Max({answer'.align, 1}), answer'.offset, answer'.size)
          IN  /\ answer'.ok /\ held' # held =>
                    /\ fits(answer'.address)
                    /\ \A a \in 0..(answer'.address - 1) : ~ fits(a)
              /\ ~ answer'.ok /\ answer' # answer => \A a \in Bits : ~ fits(a)
      ]_vars

\* raw-bitmap.hpp:73 and bitmap.hpp:160: a search stays in the bitmap.
AssertionsHold == ~ asserted

\* Bitmap is an OffsetAligner: it keeps the contract of abstract/.
BitmapContract == Contract!Spec
===============================================================================
