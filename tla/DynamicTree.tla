----------------------------- MODULE DynamicTree -----------------------------
(***************************************************************************)
(* What free-tree/dynamic-tree.hpp promises: a sorted collection in which  *)
(* a value may occur more than once, and what its searches find in it.     *)
(* An entry is one occurrence of a value.                                  *)
(***************************************************************************)
EXTENDS Integers

CONSTANTS
    Entries,    \* what may be added
    ValueOf     \* the value of each, an integer here

VARIABLE contents   \* the entries in the tree

Present == {ValueOf[e] : e \in contents}

Init == contents = {}

\* Add returns true; when it returns false nothing happens.
Add(e) == e \notin contents /\ contents' = contents \cup {e}

\* Remove, or a search with remove = true, finds the value of e.
Remove(e) == e \in contents /\ contents' = contents \ {e}

Clear == contents' = {}

Next == Clear \/ \E e \in Entries : Add(e) \/ Remove(e)

Spec == Init /\ [][Next]_contents

-----------------------------------------------------------------------------
\* The lowest of some values and the highest, as sets; {} is the result false.
Lowest(vs) == {v \in vs : \A w \in vs : v <= w}

Highest(vs) == {v \in vs : \A w \in vs : v >= w}

FoundGT(v) == Lowest({w \in Present : w > v})
FoundGE(v) == Lowest({w \in Present : w >= v})
FoundLT(v) == Highest({w \in Present : w < v})
FoundLE(v) == Highest({w \in Present : w <= v})
===============================================================================
