------------------------------ MODULE MCAvlTree ------------------------------
(***************************************************************************)
(* Twelve nodes: the fewest that a removal may rebalance on two levels.    *)
(* The fifth value may occur twice.                                        *)
(***************************************************************************)
EXTENDS AvlTree

MCNodes == 1..12
MCValueOf == [n \in MCNodes |-> IF n < 6 THEN n ELSE n - 1]
===============================================================================
