-------------------------------- MODULE MCJob --------------------------------
(* Instances of Job for TLC. *)
EXTENDS Job, TLC

IdsAlike ==
  Permutations(Jobs) \cup Permutations(Contractors) \cup Permutations(Tokens) \cup Permutations(Calls)
=============================================================================
