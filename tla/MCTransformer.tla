---------------------------- MODULE MCTransformer ----------------------------
(***************************************************************************)
(* Four units in sixteen addresses: transformers by 1, 2 and 3, two of     *)
(* which may be aligners, with and without an offset.                      *)
(***************************************************************************)
EXTENDS Transformer
===============================================================================
