------------------------------ MODULE MCRelay ------------------------------
(* Instances of Relay for model checking: the quote canister's leads and the
   job canister's review requests, of which one whose contractor is shown to
   have ContractorPro is told as any other notice is. *)
EXTENDS Relay
CONSTANTS quote, job, u1
EachTells == [c \in Canisters |-> IF c = quote THEN {None} ELSE {u1}]
EachAsks == [c \in Canisters |-> IF c = quote THEN {None} ELSE {u1}]
EachRecords == [c \in Canisters |-> IF c = quote THEN 1 ELSE 2]
OnceEach == [c \in Canisters |-> 1]
=============================================================================
