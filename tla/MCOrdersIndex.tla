---------------------------- MODULE MCOrdersIndex ----------------------------
(* OrdersIndex for TLC. *)
EXTENDS OrdersIndex, TLC
=============================================================================
