----------------------------- MODULE Transformer -----------------------------
(***************************************************************************)
(* AllocatorTransformer and AlignerTransformer (wrappers/): an allocator   *)
(* of addresses that wraps one of units, each unit standing for scale      *)
(* addresses, the first of them being offset.                              *)
(*                                                                         *)
(* The wrapped allocator is any that keeps the contract of abstract/: it   *)
(* answers with any free range that is aligned, or refuses for reasons of  *)
(* its own.  A client owns the whole of the units it was granted, as the   *)
(* tests do that free several requests with one call.                      *)
(***************************************************************************)
EXTENDS Integers, FiniteSetsExt

CONSTANTS
    AddressSpan,    \* number of values of AddressType
    Units,          \* number of units of the wrapped allocator
    Scales,         \* scales a transformer may have
    Offsets,        \* offsets a transformer may have
    Sizes,          \* sizes the client asks for and frees
    Aligns,         \* alignments it asks for
    AlignOffsets    \* offsets it asks for

ASSUME TransformerAssumption ==
    /\ AddressSpan \in Nat \ {0} /\ Units \in Nat
    /\ Scales \subseteq Nat \ {0} /\ Offsets \subseteq Nat
    /\ \A s \in Scales, o \in Offsets : Units * s + o <= AddressSpan
    /\ Sizes \cup Aligns \cup AlignOffsets \subseteq 0..(AddressSpan - 1)

IsPowerOfTwo(n) == \E k \in 0..n : n = 2^k

\* Alignments are powers of two (aligner.hpp), and so is the number of values
\* of AddressType: of two powers of two, one divides the other.
ASSUME AlignAssumption ==
    \A align \in Aligns \ {0} :
        /\ AddressSpan % align = 0
        /\ \A s \in Scales : IsPowerOfTwo(s) => s % align = 0 \/ align % s = 0

VARIABLES
    scale, offset,
    free,       \* the units the wrapped allocator may hand out
    held,       \* ghost: the addresses that are the client's
    answer      \* what the last call returned

vars == <<scale, offset, free, held, answer>>

Space == 0..(Units - 1)

From(start, size) == start .. (start + size - 1)

Answered(ok, address, align, anOffset, size) ==
    [ok |-> ok, address |-> address,
     align |-> align, offset |-> anOffset, size |-> size]

Init ==
    /\ scale \in Scales
    /\ offset \in Offsets
    /\ free = Space
    /\ held = {}
    /\ answer = Answered(FALSE, 0, 1, 0, 0)

-----------------------------------------------------------------------------
\* ansa::RoundUpDiv.
RoundUpDiv(n, d) == (n + d - 1) \div d

\* Mutant of ScaleSize: the division rounds down.
ScaleSizeDown(size) == size \div scale

ScaleSize(size) == RoundUpDiv(size, scale)

ScaleAlign(align) == RoundUpDiv(align, scale)

OutputAddress(unit) == (unit * scale + offset) % AddressSpan

\* Mutant of InputAddress: the address is not scaled.
InputAddressUnscaled(address) == (address - offset) % AddressSpan

\* Mutant of InputAddress: the offset stays in.
InputAddressOffset(address) == address \div scale

InputAddress(address) == ((address - offset) % AddressSpan) \div scale

\* Mutant of SpecificOffset: only the client's offset counts.
SpecificOffsetOnly(anOffset) == anOffset \div scale

\* What the wrapped aligner is to add to an address; the sum may wrap.
SpecificOffset(anOffset) == (offset \div scale + anOffset \div scale) % AddressSpan

\* The addresses of size rounded up to whole units.
Whole(size) == Min({n \in size..(size + scale - 1) : n % scale = 0})

-----------------------------------------------------------------------------
(* The wrapped allocator.                                                  *)

WrappedGrants(unit, align, anOffset, size) ==
    /\ From(unit, size) \subseteq free
    /\ ((unit + anOffset) % AddressSpan) % align = 0
    /\ free' = free \ From(unit, size)

WrappedDealloc(unit, size) == free' = free \cup From(unit, size)

-----------------------------------------------------------------------------
Deny(align, anOffset, size) ==
    /\ answer' = Answered(FALSE, 0, Max({align, 1}), anOffset, size)
    /\ UNCHANGED <<scale, offset, free, held>>

\* The answer to the client when the wrapped allocator grants a unit.
Give(unit, align, anOffset, size) ==
    /\ held' = held \cup From(OutputAddress(unit), Whole(size))
    /\ answer' = Answered(TRUE, OutputAddress(unit), Max({align, 1}), anOffset,
                          Whole(size))
    /\ UNCHANGED <<scale, offset>>

\* Alloc, for a client that asks for an alignment that every unit has or not.
AllocFor(align, anOffset, size) ==
    \/ \E unit \in Space :
            /\ WrappedGrants(unit, 1, 0, ScaleSize(size))
            /\ Give(unit, align, anOffset, size)
    \/ Deny(align, anOffset, size)

Alloc(size) == AllocFor(1, 0, size)

\* What AlignerTransformer's constructor asserts.
IsAligner == IsPowerOfTwo(scale) /\ offset % scale = 0

OffsetAlign(align, anOffset, size) ==
    LET scaledAlign == ScaleAlign(align)
        unaligned == anOffset % scale # 0
    IN  /\ IsAligner
        /\ \/ unaligned /\ Deny(align, anOffset, size)
           \/ ~ unaligned /\ scaledAlign <= 1 /\ AllocFor(align, anOffset, size)
           \/ /\ ~ unaligned /\ scaledAlign > 1
              /\ \/ \E unit \in Space :
                        /\ WrappedGrants(unit, scaledAlign,
                                         SpecificOffset(anOffset), ScaleSize(size))
                        /\ Give(unit, align, anOffset, size)
                 \/ Deny(align, anOffset, size)

\* The client frees whole units that it holds, granted at once or not.
Dealloc(address, size) ==
    /\ From(address, Whole(size)) \subseteq held
    /\ (address - offset) % scale = 0
    /\ WrappedDealloc(InputAddress(address), ScaleSize(size))
    /\ held' = held \ From(address, Whole(size))
    /\ answer' = Answered(FALSE, 0, 1, 0, 0)
    /\ UNCHANGED <<scale, offset>>

Next ==
    \/ \E size \in Sizes : Alloc(size)
    \/ \E align \in Aligns, anOffset \in AlignOffsets, size \in Sizes :
            OffsetAlign(align, anOffset, size)
    \/ \E address \in offset..(AddressSpan - 1), size \in Sizes :
            Dealloc(address, size)

Spec == Init /\ [][Next]_vars

-----------------------------------------------------------------------------
\* The addresses that units stand for.
AddressesOf(units) == {unit * scale + offset + k : unit \in units, k \in 0..(scale - 1)}

Contract == INSTANCE AddressSpace WITH free <- AddressesOf(free)

TypeOK ==
    /\ scale \in Scales /\ offset \in Offsets
    /\ free \subseteq Space
    /\ held \subseteq 0..(AddressSpan - 1)
    /\ answer \in Contract!Answers

\* What the wrapped allocator has handed out is what the client holds, to the
\* address: Dealloc translates and rounds a range the way its Allocs did.
HeldIsGranted == held = AddressesOf(Space \ free)

\* A transformer is an allocator, and one of a power of two an OffsetAligner,
\* of the addresses its units stand for: alignments and offsets that were
\* scaled, and sums that wrapped on the way, come out right.
TransformerContract == Contract!Spec
===============================================================================
