--------------------------- MODULE MCProductImage ---------------------------
(* ProductImage for TLC. *)
EXTENDS ProductImage, TLC
=============================================================================
