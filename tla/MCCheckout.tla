----------------------------- MODULE MCCheckout -----------------------------
(* Checkout for TLC: one tab, two submits, a form only the client accepts. *)
EXTENDS Checkout, TLC
=============================================================================
