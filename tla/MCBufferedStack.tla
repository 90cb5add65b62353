--------------------------- MODULE MCBufferedStack ---------------------------
(***************************************************************************)
(* A stack of four places with soft bounds 1 and 2, and six objects: enough *)
(* to overflow it while a client holds one.                                *)
(***************************************************************************)
EXTENDS BufferedStack, TLC

CONSTANTS o1, o2, o3, o4, o5, o6

MCObjects == {o1, o2, o3, o4, o5, o6}
ObjectSymmetry == Permutations(MCObjects)
===============================================================================
