-------------------------- MODULE MCReferralCharge --------------------------
(* Instances of ReferralCharge for TLC. *)
EXTENDS ReferralCharge
=============================================================================
