--------------------------- MODULE ReferralLedger ---------------------------
(***************************************************************************)
(* The referral ledger of the fee canister: which bid of a contractor on   *)
(* the free plan becomes a fee, and when the fee is due.  The quote        *)
(* canister reports bids and acceptances, the job canister reports         *)
(* verified jobs, an hourly relay (the voice Worker) takes what is due and *)
(* reports what it collected, an admin may waive.  No call awaits          *)
(* anything, so each is one action; the reports may be lost, because their *)
(* senders only print a failure, and may come in any order.                *)
(*                                                                         *)
(* A place stands for contractor, home and trade together, which is what   *)
(* a job is matched by.  Where the code takes the newest of several        *)
(* matches, the model takes any.  Amounts and texts are left out.          *)
(***************************************************************************)
EXTENDS Naturals, FiniteSets

CONSTANTS
  Quotes,  \* ids of bids that carry the fee
  Jobs,    \* ids of verified jobs
  Fees,    \* ids referralCounter hands out; never reused
  Places,  \* contractor, home and trade
  None     \* no quote, job or place

ASSUME NoneIsNobody == None \notin Quotes \cup Jobs \cup Places

VARIABLES
  bid,  \* referralBids: the place of each recorded bid, and whether it is 180 days old
  fee   \* referralFees, and the two indexes by quote and by job

ledger == <<bid, fee>>

Bid == [place : Places \cup {None}, old : BOOLEAN]
Fee == [status : {"none", "Pending", "Due", "Paid", "PaymentFailed", "Waived"},
        quote : Quotes \cup {None}, place : Places \cup {None}, job : Jobs \cup {None},
        accepted : BOOLEAN, fallback : BOOLEAN]

NoBid == [place |-> None, old |-> FALSE]
NoFee == [status |-> "none", quote |-> None, place |-> None, job |-> None,
          accepted |-> FALSE, fallback |-> FALSE]

TypeOK ==
  /\ bid \in [Quotes -> Bid]
  /\ fee \in [Fees -> Fee]

LedgerInit ==
  /\ bid = [q \in Quotes |-> NoBid]
  /\ fee = [f \in Fees |-> NoFee]

Exists(f) == fee[f].status # "none"
HasFee(q) == \E f \in Fees : fee[f].quote = q
JobHasFee(j) == \E f \in Fees : fee[f].job = j

-----------------------------------------------------------------------------
(* quote: a bid that carries the fee was stored. *)
RecordReferralBid(q, p) ==
  /\ bid[q].place = None
  /\ bid' = [bid EXCEPT ![q].place = p]
  /\ UNCHANGED fee

BidGetsOld(q) ==
  /\ bid[q].place # None /\ ~bid[q].old
  /\ bid' = [bid EXCEPT ![q].old = TRUE]
  /\ UNCHANGED fee

NewFee(f, q, status, j) ==
  /\ ~Exists(f)
  /\ fee' = [fee EXCEPT ![f] =
       [status |-> status, quote |-> q, place |-> bid[q].place, job |-> j,
        accepted |-> j = None, fallback |-> FALSE]]

(* mutant of OpensFee: a bid that has a fee gets another one *)
OpensFeeAgain(q) == bid[q].place # None

(* A bid that carries the fee and has none yet. *)
OpensFee(q) == bid[q].place # None /\ ~HasFee(q)

(* quote: the homeowner accepted the bid. *)
RecordReferralAccepted(q) ==
  /\ OpensFee(q)
  /\ \E f \in Fees : NewFee(f, q, "Pending", None)
  /\ UNCHANGED bid

PendingAt(p) == {f \in Fees : fee[f].status = "Pending" /\ fee[f].place = p}
UnpaidBidsAt(p) == {q \in Quotes : bid[q].place = p /\ ~bid[q].old /\ OpensFee(q)}

MatchesJob(j, p) == ~JobHasFee(j) /\ (PendingAt(p) # {} \/ UnpaidBidsAt(p) # {})

(* job: both sides have verified a job.  An accepted bid that waits for its job
   comes first, else a bid made in the last 180 days. *)
RecordReferralJobVerified(j, p) ==
  /\ MatchesJob(j, p)
  /\ \/ \E f \in PendingAt(p) : fee' = [fee EXCEPT ![f].status = "Due", ![f].job = j]
     \/ /\ PendingAt(p) = {}
        /\ \E f \in Fees, q \in UnpaidBidsAt(p) : NewFee(f, q, "Due", j)
  /\ UNCHANGED bid

(* Sixty days pass after the acceptance. *)
FallbackIsReached(f) ==
  /\ fee[f].status = "Pending" /\ fee[f].accepted /\ ~fee[f].fallback
  /\ fee' = [fee EXCEPT ![f].fallback = TRUE]
  /\ UNCHANGED bid

(* relay: what is due now; the answer is the set of due fees. *)
FallenBack ==
  [f \in Fees |-> IF fee[f].status = "Pending" /\ fee[f].fallback
                  THEN [fee[f] EXCEPT !.status = "Due"] ELSE fee[f]]
DueFees(ledgerFees) == {f \in Fees : ledgerFees[f].status = "Due"}
TakeDueReferralFees == fee' = FallenBack /\ UNCHANGED bid

(* mutant of MayBePaid: an invoice sent after a declined card cannot be settled *)
MayBePaidByCard(f) == fee[f].status \in {"Due", "Paid"}

MayBePaid(f) == fee[f].status \in {"Due", "PaymentFailed", "Paid"}

(* relay: the charge or the invoice has settled. *)
RelayMarkReferralFeePaid(f) ==
  /\ MayBePaid(f)
  /\ fee' = [fee EXCEPT ![f].status = "Paid"]
  /\ UNCHANGED bid

(* relay: the card was declined and an invoice sent. *)
RelayMarkReferralFeeFailed(f) ==
  /\ fee[f].status = "Due"
  /\ fee' = [fee EXCEPT ![f].status = "PaymentFailed"]
  /\ UNCHANGED bid

(* admin *)
WaiveReferralFee(f) ==
  /\ Exists(f) /\ fee[f].status # "Paid"
  /\ fee' = [fee EXCEPT ![f].status = "Waived"]
  /\ UNCHANGED bid

-----------------------------------------------------------------------------
(* What others than the relay do to the ledger. *)
Others ==
  \/ \E q \in Quotes, p \in Places : RecordReferralBid(q, p)
  \/ \E q \in Quotes : BidGetsOld(q) \/ RecordReferralAccepted(q)
  \/ \E j \in Jobs, p \in Places : RecordReferralJobVerified(j, p)
  \/ \E f \in Fees : FallbackIsReached(f) \/ WaiveReferralFee(f)

LedgerNext ==
  \/ Others
  \/ TakeDueReferralFees
  \/ \E f \in Fees : RelayMarkReferralFeePaid(f) \/ RelayMarkReferralFeeFailed(f)

LedgerSpec == LedgerInit /\ [][LedgerNext]_ledger

-----------------------------------------------------------------------------
(* Acceptances and verified jobs come from two canisters in any order, and
   either may open a fee: a bid never has two fees, and neither has a job. *)
OneFeeEach ==
  \A f, g \in Fees : f # g =>
    /\ fee[f].quote # None => fee[f].quote # fee[g].quote
    /\ fee[f].job # None => fee[f].job # fee[g].job

(* "Pending -> Due -> Paid, or PaymentFailed -> Paid; an admin can waive
   anything unpaid", "#Paid / #Waived are final": late or repeated reports of
   the relay and a waiver in between never take a fee back. *)
FeeLifecycle ==
  [][\A f \in Fees : fee'[f].status # fee[f].status =>
       \/ fee[f].status = "none" /\ fee'[f].status \in {"Pending", "Due"}
       \/ fee[f].status = "Pending" /\ fee'[f].status \in {"Due", "Waived"}
       \/ fee[f].status = "Due" /\ fee'[f].status \in {"Paid", "PaymentFailed", "Waived"}
       \/ fee[f].status = "PaymentFailed" /\ fee'[f].status \in {"Paid", "Waived"}]_ledger
=============================================================================
