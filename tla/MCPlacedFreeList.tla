--------------------------- MODULE MCPlacedFreeList ---------------------------
(***************************************************************************)
(* PlacedFreeList with the smallest stack the class allows, over the upper *)
(* half of the address space.                                              *)
(***************************************************************************)
EXTENDS PlacedFreeList
===============================================================================
