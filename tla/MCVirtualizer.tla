----------------------------- MODULE MCVirtualizer -----------------------------
(***************************************************************************)
(* Regions of every length to 140 bytes are divided; clients use those     *)
(* whose heap has 12 bytes.  One region begins at a whole page and at a    *)
(* whole chunk, the other one two bytes behind.                            *)
(***************************************************************************)
EXTENDS Virtualizer, TLC

MCSymmetry == Permutations(Clients)
MCLengths == 0..140
MCAdditions == {[start |-> 181, size |-> 11], [start |-> 203, size |-> 4]}
===============================================================================
