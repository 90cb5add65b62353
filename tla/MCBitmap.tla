------------------------------- MODULE MCBitmap -------------------------------
(***************************************************************************)
(* Bitmap with units of four bits, of which the last one is shared with    *)
(* someone else, a SizeType of four bits and an AddressType of five, so    *)
(* that there are alignments that SizeType cannot represent.               *)
(***************************************************************************)
EXTENDS Bitmap
===============================================================================
