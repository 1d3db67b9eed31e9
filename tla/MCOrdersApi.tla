----------------------------- MODULE MCOrdersApi -----------------------------
(* OrdersApi for TLC. *)
EXTENDS OrdersApi, TLC
=============================================================================
