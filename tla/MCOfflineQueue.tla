--------------------------- MODULE MCOfflineQueue ---------------------------
(* Instances of OfflineQueue for model checking. *)
EXTENDS OfflineQueue

(* A queue that was spoiled stays so, and nothing is claimed of it. *)
Unspoiled == ~clobbered
=============================================================================
