------------------------------ MODULE MCFreeTree ------------------------------
(***************************************************************************)
(* FreeTree with one type of eight values for addresses and sizes.         *)
(***************************************************************************)
EXTENDS FreeTree
===============================================================================
