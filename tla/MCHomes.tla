------------------------------ MODULE MCHomes ------------------------------
(* Instances of Homes for model checking: u3 is an admin. *)
EXTENDS Homes, TLC
CONSTANTS u1, u2, u3
OneHomeEach == [u \in Users |-> 1]
Alike == Permutations({u1, u2}) \cup Permutations(Homes) \cup Permutations(Calls)
=============================================================================
