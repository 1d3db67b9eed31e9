------------------------- MODULE MCPatientCheckout -------------------------
(* PatientCheckout, for TLC. *)
EXTENDS PatientCheckout, TLC
=============================================================================
