------------------------------- MODULE Tender -------------------------------
(***************************************************************************)
(* What an auction of HomeGentic promises, for a listing mandate or for a  *)
(* repair, whatever canister runs it: a request is decided at most once,   *)
(* and only while it is open; what wins is a bid that was still waiting;   *)
(* with the decision no bid waits any longer; and a bid that was decided   *)
(* or taken back never comes back.                                         *)
(***************************************************************************)
CONSTANTS
  Requests, Bids,
  MayErase  \* the verdicts under which a request may still be erased

VARIABLES
  verdict,  \* request: none, open, ended without a winner, awarded, or gone
  waiting,  \* request: the bids on it that may still win
  winners,  \* request: the bids it was awarded to
  made      \* the bids that were ever made

tenderVars == <<verdict, waiting, winners, made>>

TenderInit ==
  /\ verdict = [r \in Requests |-> "none"]
  /\ waiting = [r \in Requests |-> {}] /\ winners = [r \in Requests |-> {}]
  /\ made = {}

Announce(r) ==
  /\ verdict[r] = "none"
  /\ verdict' = [verdict EXCEPT ![r] = "open"]
  /\ UNCHANGED <<waiting, winners, made>>

Make(r, b) ==
  /\ verdict[r] = "open" /\ b \notin made
  /\ waiting' = [waiting EXCEPT ![r] = @ \cup {b}]
  /\ made' = made \cup {b}
  /\ UNCHANGED <<verdict, winners>>

(* The bids that do not win lose with the same step. *)
Award(r, b) ==
  /\ verdict[r] = "open" /\ b \in waiting[r]
  /\ verdict' = [verdict EXCEPT ![r] = "awarded"]
  /\ waiting' = [waiting EXCEPT ![r] = {}]
  /\ winners' = [winners EXCEPT ![r] = {b}]
  /\ UNCHANGED made

(* Closed or cancelled: the bids on it stay, and can win no more. *)
End(r) ==
  /\ verdict[r] = "open"
  /\ verdict' = [verdict EXCEPT ![r] = "ended"]
  /\ UNCHANGED <<waiting, winners, made>>

(* Bids are taken back, and requests erased with everything on them.  A bid
   that has won goes only with its request. *)
TakeOut(R, B) ==
  /\ \A r \in R : verdict[r] \in MayErase
  /\ verdict' = [r \in Requests |-> IF r \in R THEN "gone" ELSE verdict[r]]
  /\ waiting' = [r \in Requests |-> IF r \in R THEN {} ELSE waiting[r] \ B]
  /\ winners' = [r \in Requests |-> IF r \in R THEN {} ELSE winners[r]]
  /\ UNCHANGED made

TenderNext ==
  \/ \E R \in SUBSET Requests, B \in SUBSET Bids : TakeOut(R, B)
  \/ \E r \in Requests : Announce(r) \/ End(r)
  \/ \E r \in Requests, b \in Bids : Make(r, b) \/ Award(r, b)

TenderSpec == TenderInit /\ [][TenderNext]_tenderVars
=============================================================================
