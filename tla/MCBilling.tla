----------------------------- MODULE MCBilling -----------------------------
(* Instances of Billing for model checking. *)
EXTENDS Billing
=============================================================================
