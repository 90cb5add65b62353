---------------------------- MODULE BufferedStack ----------------------------
(***************************************************************************)
(* BufferedStack (buffered-stack/buffered-stack.hpp) with any source: an   *)
(* allocator of objects of one size that keeps up to Capacity of them, and *)
(* that ApplyBuffer refills from, or drains into, its source.              *)
(*                                                                         *)
(* ApplyBuffer is one step per test of its loops and per return of its     *)
(* source.  While a call of the source is under way the source may call    *)
(* the stack, as a list does whose structures come from it (PlacedFreeList *)
(* is that case in detail); its calls of ApplyBuffer return at once and    *)
(* are no step.                                                            *)
(***************************************************************************)
EXTENDS Integers, SequencesExt

CONSTANTS
    Objects,        \* the objects there are
    Capacity,       \* template argument
    SoftMinimum,
    SoftMaximum,
    MaxReentries    \* BOUND: calls of the stack during one call of the source

\* The protected constructor asserts that the soft bounds are ordered, the public
\* one asks for it without an assertion; a larger SoftMaximum than the array has
\* no use.
ASSUME StackAssumption ==
    /\ Capacity \in Nat /\ SoftMinimum \in Nat /\ SoftMaximum \in Nat
    /\ MaxReentries \in Nat
    /\ SoftMinimum <= SoftMaximum /\ SoftMaximum < Capacity

VARIABLES
    stack,      \* stack[0] to stack[count - 1]
    source,     \* the objects that are the source's
    held,       \* the objects that are the client's
    overflowed, \* the objects that went to the overflow handler
    at,         \* where ApplyBuffer or the destructor is, or "out"
    passing,    \* the object in a call of source->Dealloc, as a set
    reentries,  \* calls of the stack in the current call of the source
    buffering,
    result      \* what the last ApplyBuffer returned

stackVars == <<stack, source, held, overflowed, at, passing, reentries, buffering,
               result>>

StackInit ==
    /\ stack = <<>>
    /\ source = Objects
    /\ held = {} /\ overflowed = {} /\ passing = {}
    /\ at = "out"
    /\ reentries = 0
    /\ buffering = FALSE
    /\ result = TRUE

-----------------------------------------------------------------------------
\* Alloc and Dealloc with the new value of what the caller owns.
Pop == stack # <<>> /\ stack' = Front(stack)

\* Mutant of Push: there is no test of a full stack.
PushUnchecked(o) ==
    stack' = Append(stack, o) /\ UNCHANGED overflowed

\* Mutant of Push: what overflows is written over the top as well.
PushKept(o) ==
    IF Len(stack) = Capacity
    THEN overflowed' = overflowed \cup {o} /\ stack' = Append(Front(stack), o)
    ELSE stack' = Append(stack, o) /\ UNCHANGED overflowed

Push(o) ==
    IF Len(stack) = Capacity
    THEN overflowed' = overflowed \cup {o} /\ UNCHANGED stack
    ELSE stack' = Append(stack, o) /\ UNCHANGED overflowed

\* The client's Alloc of no more than the object size; a larger size and an
\* empty stack are refused and change nothing.
Alloc ==
    /\ at = "out"
    /\ Pop
    /\ held' = held \cup {Last(stack)}
    /\ UNCHANGED <<source, overflowed, at, passing, reentries, buffering, result>>

\* The client's Dealloc, or the Free of VirtualBufferedStack.
Dealloc(o) ==
    /\ at = "out"
    /\ o \in held
    /\ Push(o)
    /\ held' = held \ {o}
    /\ UNCHANGED <<source, at, passing, reentries, buffering, result>>

-----------------------------------------------------------------------------
(* ApplyBuffer.                                                            *)

ApplyBuffer ==
    /\ at = "out"
    /\ IF buffering
       THEN result' = TRUE /\ UNCHANGED <<at, buffering>>
       ELSE at' = "fill" /\ buffering' = TRUE /\ UNCHANGED result
    /\ UNCHANGED <<stack, source, held, overflowed, passing, reentries>>

FillTest ==
    /\ at = "fill"
    /\ at' = IF Len(stack) < SoftMinimum THEN "allocating" ELSE "drain"
    /\ reentries' = 0
    /\ UNCHANGED <<stack, source, held, overflowed, passing, buffering, result>>

\* source->Alloc returns an object, behind what the source has done to the
\* stack meanwhile.
SourceGives(o) ==
    /\ at = "allocating"
    /\ o \in source
    /\ IF Len(stack) < Capacity
       THEN at' = "fill" /\ stack' = Append(stack, o) /\ source' = source \ {o}
       ELSE at' = "asserted" /\ UNCHANGED <<stack, source>>
    /\ UNCHANGED <<held, overflowed, passing, reentries, buffering, result>>

\* Mutant of SourceFails: buffering stays set.
SourceFailsBuffering ==
    /\ at = "allocating"
    /\ at' = "out"
    /\ result' = FALSE
    /\ UNCHANGED <<stack, source, held, overflowed, passing, reentries, buffering>>

SourceFails ==
    /\ at = "allocating"
    /\ at' = "out"
    /\ buffering' = FALSE
    /\ result' = FALSE
    /\ UNCHANGED <<stack, source, held, overflowed, passing, reentries>>

DrainTest ==
    /\ at = "drain"
    /\ IF Len(stack) > SoftMaximum
       THEN /\ at' = "freeing"
            /\ passing' = {Last(stack)}
            /\ stack' = Front(stack)
            /\ UNCHANGED <<buffering, result>>
       ELSE /\ at' = "out"
            /\ buffering' = FALSE
            /\ result' = TRUE
            /\ UNCHANGED <<stack, passing>>
    /\ reentries' = 0
    /\ UNCHANGED <<source, held, overflowed>>

\* source->Dealloc returns.
SourceTakes ==
    /\ at = "freeing"
    /\ at' = "drain"
    /\ source' = source \cup passing
    /\ passing' = {}
    /\ UNCHANGED <<stack, held, overflowed, reentries, buffering, result>>

-----------------------------------------------------------------------------
(* What the source may do to the stack while it is called.                 *)

Reenter ==
    /\ at \in {"allocating", "freeing", "destroying"}
    /\ reentries < MaxReentries
    /\ reentries' = reentries + 1
    /\ UNCHANGED <<held, at, passing, buffering, result>>

ReenterAlloc ==
    /\ Reenter
    /\ Pop
    /\ source' = source \cup {Last(stack)}
    /\ UNCHANGED overflowed

ReenterDealloc(o) ==
    /\ Reenter
    /\ o \in source
    /\ Push(o)
    /\ source' = source \ {o}

-----------------------------------------------------------------------------
(* ~BufferedStack: while (count) source->Dealloc(stack[--count]).          *)

\* No call of the source is under way before the first object.
Destroy ==
    /\ at = "out"
    /\ at' = "destroying"
    /\ reentries' = MaxReentries
    /\ UNCHANGED <<stack, source, held, overflowed, passing, buffering, result>>

DestroyTop ==
    /\ at = "destroying"
    /\ Pop
    /\ source' = source \cup {Last(stack)}
    /\ reentries' = 0
    /\ UNCHANGED <<held, overflowed, at, passing, buffering, result>>

-----------------------------------------------------------------------------
StackNext ==
    \/ Alloc
    \/ \E o \in Objects : Dealloc(o)
    \/ ApplyBuffer
    \/ FillTest
    \/ \E o \in Objects : SourceGives(o)
    \/ SourceFails
    \/ DrainTest
    \/ SourceTakes
    \/ ReenterAlloc
    \/ \E o \in Objects : ReenterDealloc(o)
    \/ Destroy
    \/ DestroyTop

StackSpec == StackInit /\ [][StackNext]_stackVars

-----------------------------------------------------------------------------
\* Every variable keeps its type, the stack never exceeds its array, and the
\* assertion of ApplyBuffer (buffered-stack.hpp:109) does not fail.
StackTypeOK ==
    /\ stack \in Seq(Objects) /\ Len(stack) <= Capacity
    /\ source \subseteq Objects
    /\ held \subseteq Objects
    /\ overflowed \subseteq Objects
    /\ passing \subseteq Objects
    /\ at \in {"out", "fill", "allocating", "drain", "freeing", "destroying"}
    /\ reentries \in 0..MaxReentries
    /\ buffering \in BOOLEAN
    /\ result \in BOOLEAN

\* However the source fails, overflows or takes part, an object is in one
\* place: the stack once, the source, a call of it, the client, the handler.
OneOwner ==
    /\ Objects = Range(stack) \cup source \cup passing \cup held \cup overflowed
    /\ Range(stack) \cap (source \cup passing \cup held \cup overflowed) = {}
    /\ source \cap (passing \cup held \cup overflowed) = {}
    /\ passing \cap (held \cup overflowed) = {}
    /\ held \cap overflowed = {}
    /\ IsInjective(stack)

\* An ApplyBuffer that returns true, be it at once because another is said to
\* run, leaves no more than SoftMaximum objects, and no less than SoftMinimum
\* (buffered-stack.hpp:36-38) as long as what its last call of the source takes
\* fits between the soft bounds: one that failed does not make later ones idle.
SoftBounds ==
    [][at' = "out" /\ result' /\ (at = "drain" \/ (at = "out" /\ ~ result)) =>
          /\ Len(stack') <= SoftMaximum
          /\ \/ Len(stack') >= SoftMinimum
             \/ Len(stack') >= SoftMaximum - MaxReentries]_stackVars
===============================================================================
