---------------------------- MODULE MCBidToList ----------------------------
(* Instances of BidToList for TLC. *)
EXTENDS BidToList, TLC

(* No definition orders ids of one kind, nor agents outside Erasers. *)
IdsAlike == Permutations(Proposals) \cup Permutations(Calls)
AllAlike == IdsAlike \cup Permutations(Agents)
=============================================================================
