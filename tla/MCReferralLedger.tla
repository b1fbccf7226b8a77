-------------------------- MODULE MCReferralLedger --------------------------
(* Instances of ReferralLedger for TLC. *)
EXTENDS ReferralLedger, TLC

IdsAlike ==
  Permutations(Quotes) \cup Permutations(Jobs) \cup Permutations(Fees) \cup Permutations(Places)
=============================================================================
