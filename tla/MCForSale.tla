----------------------------- MODULE MCForSale -----------------------------
(* Instances of ForSale for model checking. *)
EXTENDS ForSale, TLC
Alike == Permutations(Calls)
=============================================================================
