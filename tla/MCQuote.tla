------------------------------ MODULE MCQuote ------------------------------
(* Instances of Quote for TLC. *)
EXTENDS Quote, TLC

(* No definition orders ids of one kind, nor principals. *)
IdsAlike == Permutations(Quotes) \cup Permutations(Calls)
RequestsAlike == IdsAlike \cup Permutations(Requests)
=============================================================================
