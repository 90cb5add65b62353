------------------------------ MODULE MCFreeList ------------------------------
(***************************************************************************)
(* FreeList with one type of eight values for addresses and sizes (so that *)
(* the whole address space is one unit more than a size can say), three    *)
(* structures and every alignment that divides the address space.          *)
(***************************************************************************)
EXTENDS FreeList, TLC

CONSTANTS n1, n2, n3

MCNodes == {n1, n2, n3}
NodeSymmetry == Permutations(MCNodes)
===============================================================================
