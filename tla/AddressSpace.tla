----------------------------- MODULE AddressSpace -----------------------------
(***************************************************************************)
(* What abstract/allocator.hpp, aligner.hpp and offset-aligner.hpp promise *)
(* the client of any allocator, whatever its algorithm: an answer names    *)
(* free units only, suitably aligned; what the client holds changes only   *)
(* by its own calls; the rest is the allocator's own business.  Units that *)
(* are neither free nor held are set aside by the allocator (metadata, a   *)
(* buffer, a range on its way into a structure, a range it had to drop).   *)
(***************************************************************************)
EXTENDS Integers

CONSTANT AddressSpan    \* number of addresses, at least 1

VARIABLES
    free,       \* the units an Alloc may hand out
    held,       \* the units the client owns
    answer      \* what the last call returned

vars == <<free, held, answer>>

Answered(ok, address, align, offset, size) ==
    [ok |-> ok, address |-> address,
     align |-> align, offset |-> offset, size |-> size]

Answers ==
    [ok : BOOLEAN, address : 0..(AddressSpan - 1),
     align : 0..AddressSpan, offset : 0..(AddressSpan - 1),
     size : 0..AddressSpan]

\* Before the first call, and after a Dealloc, there is nothing to report.
NoAnswer == Answered(FALSE, 0, 1, 0, 0)

Init ==
    /\ free \cap held = {}
    /\ answer = NoAnswer

\* Alloc, Align or OffsetAlign returns true: the units it names are free and
\* aligned, and they are the client's from now on.
Grant ==
    LET granted == answer'.address .. (answer'.address + answer'.size - 1)
    IN  /\ answer' \in Answers
        /\ answer'.ok
        /\ ((answer'.address + answer'.offset) % AddressSpan) % answer'.align = 0
        /\ granted \subseteq free
        /\ free' \subseteq free \ granted
        /\ held' = held \cup granted

\* Alloc, Align or OffsetAlign returns false: nothing happens.
Refuse ==
    /\ answer' \in Answers
    /\ ~ answer'.ok
    /\ UNCHANGED <<free, held>>

\* Dealloc: what the client gives up becomes free, or is set aside, together
\* with free neighbours that the allocator is joining it with.
Release ==
    /\ held' \subseteq held
    /\ free' \subseteq free \cup (held \ held')
    /\ answer' = NoAnswer

\* Work of the allocator's own, between two of its client's calls.
Housekeeping ==
    /\ free' \cap held = {}
    /\ UNCHANGED <<held, answer>>

Next == Grant \/ Refuse \/ Release \/ Housekeeping

Spec == Init /\ [][Next]_vars
===============================================================================
