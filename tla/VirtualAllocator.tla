--------------------------- MODULE VirtualAllocator ---------------------------
(***************************************************************************)
(* What abstract/virtual-allocator.hpp promises the client: memory that    *)
(* only its own calls and its own writes change, and that keeps what it    *)
(* contains when it is reallocated.                                        *)
(***************************************************************************)
EXTENDS Integers, Sequences

CONSTANT Clients    \* names of the buffers a client can have at a time

VARIABLE contents   \* the bytes of each buffer it has

vars == <<contents>>

\* The bytes that a client writes tell its buffers, and their places, apart.
Written(c, size) == [i \in 1..size |-> <<c, i>>]

Init == contents = << >>

KeepsOthers(c) ==
    \A d \in DOMAIN contents \ {c} :
        d \in DOMAIN contents' /\ contents'[d] = contents[d]

\* Alloc, Align or OffsetAlign returns true; nothing is said of the bytes.
Alloc(c) ==
    /\ c \notin DOMAIN contents
    /\ DOMAIN contents' = DOMAIN contents \cup {c}
    /\ KeepsOthers(c)

\* Dealloc and Free.
Free(c) ==
    /\ c \in DOMAIN contents
    /\ DOMAIN contents' = DOMAIN contents \ {c}
    /\ KeepsOthers(c)

\* Realloc returns true: the bytes that fit are those there were.
Realloc(c) ==
    /\ c \in DOMAIN contents
    /\ DOMAIN contents' = DOMAIN contents
    /\ \A i \in DOMAIN contents[c] \cap DOMAIN contents'[c] :
            contents'[c][i] = contents[c][i]
    /\ KeepsOthers(c)

Write(c) ==
    /\ c \in DOMAIN contents
    /\ contents' = [contents EXCEPT ![c] = Written(c, Len(@))]

Next == \E c \in Clients : Alloc(c) \/ Free(c) \/ Realloc(c) \/ Write(c)

Spec == Init /\ [][Next]_vars
===============================================================================
