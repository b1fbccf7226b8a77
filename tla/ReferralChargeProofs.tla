------------------------ MODULE ReferralChargeProofs ------------------------
(***************************************************************************)
(* Proofs about the ledger of referral fees and about the charge run, for  *)
(* every number of bids, jobs, fees, payment intents and invoices.         *)
(* First the ledger alone: no bid and no job has two fees, and a fee only  *)
(* moves forward.                                                          *)
(* Then the charge run: a contractor pays a fee once, and the ledger says  *)
(* so only when the money has come in.  The argument is about what is      *)
(* remembered: an object of Stripe that the search may not have seen yet   *)
(* is one that the idempotency key of its fee still gives again            *)
(* (KeysRemember), so between the search and the charge the run knows all  *)
(* there is (RunKnows).                                                    *)
(***************************************************************************)
EXTENDS ReferralCharge, TLAPS

(* An id that was not handed out yet is in neither index. *)
UnusedIsEmpty == \A f \in Fees : fee[f].status = "none" => fee[f].quote = None /\ fee[f].job = None

Inv == TypeOK /\ UnusedIsEmpty /\ OneFeeEach

LEMMA InitInv == LedgerInit => Inv
  BY DEF LedgerInit, Inv, TypeOK, UnusedIsEmpty, OneFeeEach, Bid, Fee, NoBid, NoFee

(* A step that leaves the quotes and the jobs of the fees alone. *)
LEMMA SameIndexes ==
  ASSUME Inv, TypeOK',
         \A f \in Fees : /\ fee'[f].quote = fee[f].quote /\ fee'[f].job = fee[f].job
                         /\ fee'[f].status = "none" => fee[f].status = "none"
  PROVE  Inv'
  BY DEF Inv, UnusedIsEmpty, OneFeeEach

LEMMA NewFeeInv ==
  ASSUME Inv, NEW f \in Fees, NEW q \in Quotes, NEW s \in {"Pending", "Due"},
         NEW j \in Jobs \cup {None}, NewFee(f, q, s, j), OpensFee(q),
         j # None => ~JobHasFee(j), UNCHANGED bid
  PROVE  Inv'
<1> USE DEF Inv
<1>1. fee' = [fee EXCEPT ![f] =
        [status |-> s, quote |-> q, place |-> bid[q].place, job |-> j,
         accepted |-> j = None, fallback |-> FALSE]]
  BY DEF NewFee
<1>2. bid[q].place \in Places
  BY DEF OpensFee, TypeOK, Bid
<1>3. TypeOK'
  BY <1>1, <1>2 DEF TypeOK, Fee
<1>4. UnusedIsEmpty'
  BY <1>1 DEF UnusedIsEmpty, TypeOK
<1>5. OneFeeEach'
  BY <1>1, NoneIsNobody DEF OneFeeEach, OpensFee, HasFee, JobHasFee, TypeOK
<1> QED BY <1>3, <1>4, <1>5

LEMMA NextInv == Inv /\ [LedgerNext]_ledger => Inv'
<1> SUFFICES ASSUME Inv, [LedgerNext]_ledger PROVE Inv'
  OBVIOUS
<1> USE DEF Inv
<1>1. ASSUME NEW q \in Quotes, NEW p \in Places, RecordReferralBid(q, p) PROVE Inv'
  BY <1>1 DEF RecordReferralBid, TypeOK, Bid, UnusedIsEmpty, OneFeeEach
<1>2. ASSUME NEW q \in Quotes, BidGetsOld(q) PROVE Inv'
  BY <1>2 DEF BidGetsOld, TypeOK, Bid, UnusedIsEmpty, OneFeeEach
<1>3. ASSUME NEW q \in Quotes, RecordReferralAccepted(q) PROVE Inv'
  BY <1>3, NewFeeInv DEF RecordReferralAccepted
<1>4. ASSUME NEW j \in Jobs, NEW p \in Places, RecordReferralJobVerified(j, p) PROVE Inv'
  <2>1. ASSUME NEW f \in PendingAt(p), fee' = [fee EXCEPT ![f].status = "Due", ![f].job = j]
        PROVE  Inv'
    <3>1. UNCHANGED bid /\ ~JobHasFee(j)
      BY <1>4 DEF RecordReferralJobVerified, MatchesJob
    <3>2. TypeOK'
      BY <2>1, <3>1, ZenonT(60) DEF TypeOK, Fee, PendingAt
    <3>3. UnusedIsEmpty' /\ OneFeeEach'
      BY <2>1, <3>1, NoneIsNobody DEF UnusedIsEmpty, OneFeeEach, TypeOK, Fee, JobHasFee, PendingAt
    <3> QED BY <3>2, <3>3
  <2>2. ASSUME NEW f \in Fees, NEW q \in UnpaidBidsAt(p), NewFee(f, q, "Due", j) PROVE Inv'
    BY <1>4, <2>2, NewFeeInv DEF RecordReferralJobVerified, MatchesJob, UnpaidBidsAt
  <2> QED BY <1>4, <2>1, <2>2 DEF RecordReferralJobVerified
<1>5. ASSUME NEW f \in Fees, FallbackIsReached(f) PROVE Inv'
  <2>1. TypeOK'
    BY <1>5, ZenonT(60) DEF FallbackIsReached, TypeOK, Fee
  <2> QED BY <1>5, <2>1, SameIndexes DEF FallbackIsReached, TypeOK
<1>6. CASE TakeDueReferralFees
  <2>1. TypeOK'
    BY <1>6 DEF TakeDueReferralFees, FallenBack, TypeOK, Fee
  <2> QED BY <1>6, <2>1, SameIndexes DEF TakeDueReferralFees, FallenBack, TypeOK
<1>7. ASSUME NEW f \in Fees,
             RelayMarkReferralFeePaid(f) \/ RelayMarkReferralFeeFailed(f) \/ WaiveReferralFee(f)
      PROVE  Inv'
  <2> USE DEF RelayMarkReferralFeePaid, RelayMarkReferralFeeFailed, WaiveReferralFee
  <2> PICK s \in {"Paid", "PaymentFailed", "Waived"} : fee' = [fee EXCEPT ![f].status = s]
    BY <1>7
  <2>1. TypeOK'
    BY <1>7 DEF TypeOK, Fee
  <2> QED BY <1>7, <2>1, SameIndexes DEF MayBePaid, Exists, TypeOK
<1>8. CASE UNCHANGED ledger
  BY <1>8 DEF ledger, TypeOK, UnusedIsEmpty, OneFeeEach
<1> QED BY <1>1, <1>2, <1>3, <1>4, <1>5, <1>6, <1>7, <1>8 DEF LedgerNext, Others

(* The inductive invariant the theorems below are read from. *)
THEOREM SpecInv == LedgerSpec => []Inv
  BY InitInv, NextInv, PTL DEF LedgerSpec

(* Acceptances and verified jobs in any order, lost or repeated: no bid and no
   job ever has two fees. *)
THEOREM OneFeeEachHolds == LedgerSpec => []OneFeeEach
<1>1. Inv => OneFeeEach
  BY DEF Inv
<1> QED BY <1>1, SpecInv, PTL

(* No report of the relay, however late, and no waiver takes a fee back to an
   earlier status. *)
THEOREM FeesMoveForward == LedgerSpec => FeeLifecycle
<1>1. Inv /\ [LedgerNext]_ledger =>
        [\A f \in Fees : fee'[f].status # fee[f].status =>
           \/ fee[f].status = "none" /\ fee'[f].status \in {"Pending", "Due"}
           \/ fee[f].status = "Pending" /\ fee'[f].status \in {"Due", "Waived"}
           \/ fee[f].status = "Due" /\ fee'[f].status \in {"Paid", "PaymentFailed", "Waived"}
           \/ fee[f].status = "PaymentFailed" /\ fee'[f].status \in {"Paid", "Waived"}]_ledger
  <2> SUFFICES ASSUME Inv, [LedgerNext]_ledger, NEW f \in Fees, fee'[f].status # fee[f].status
               PROVE  \/ fee[f].status = "none" /\ fee'[f].status \in {"Pending", "Due"}
                      \/ fee[f].status = "Pending" /\ fee'[f].status \in {"Due", "Waived"}
                      \/ fee[f].status = "Due" /\ fee'[f].status \in {"Paid", "PaymentFailed", "Waived"}
                      \/ fee[f].status = "PaymentFailed" /\ fee'[f].status \in {"Paid", "Waived"}
    OBVIOUS
  <2> USE DEF Inv, TypeOK, Fee
  <2>1. CASE \E q \in Quotes : RecordReferralAccepted(q)
    BY <2>1 DEF RecordReferralAccepted, NewFee, Exists
  <2>2. ASSUME NEW j \in Jobs, NEW p \in Places, RecordReferralJobVerified(j, p)
        PROVE  \/ fee[f].status = "none" /\ fee'[f].status = "Due"
               \/ fee[f].status = "Pending" /\ fee'[f].status = "Due"
    <3>1. ASSUME NEW g \in PendingAt(p),
                 fee' = [fee EXCEPT ![g].status = "Due", ![g].job = j]
          PROVE  fee[f].status = "Pending" /\ fee'[f].status = "Due"
      <4>1. g \in Fees /\ fee[g].status = "Pending"
        BY <3>1 DEF PendingAt
      <4>2. f = g
        BY <3>1, <4>1
      <4> QED BY <3>1, <4>1, <4>2
    <3>2. ASSUME NEW g \in Fees, NEW q \in UnpaidBidsAt(p), NewFee(g, q, "Due", j)
          PROVE  fee[f].status = "none" /\ fee'[f].status = "Due"
      BY <3>2 DEF NewFee, Exists
    <3> QED BY <2>2, <3>1, <3>2 DEF RecordReferralJobVerified
  <2>3. CASE TakeDueReferralFees
    BY <2>3 DEF TakeDueReferralFees, FallenBack
  <2>4. CASE \E g \in Fees : FallbackIsReached(g)
    BY <2>4 DEF FallbackIsReached
  <2>5. CASE \E g \in Fees : RelayMarkReferralFeePaid(g) \/ RelayMarkReferralFeeFailed(g)
    BY <2>5 DEF RelayMarkReferralFeePaid, RelayMarkReferralFeeFailed, MayBePaid
  <2>6. CASE \E g \in Fees : WaiveReferralFee(g)
    BY <2>6 DEF WaiveReferralFee, Exists
  <2> QED BY <2>1, <2>2, <2>3, <2>4, <2>5, <2>6 DEF LedgerNext, Others, RecordReferralBid,
       BidGetsOld, ledger
<1> QED BY <1>1, SpecInv, PTL DEF LedgerSpec, FeeLifecycle

-----------------------------------------------------------------------------
(* The charge run. *)
LiveInvoices(f) == {v \in InvoicesOf(f) : invoice[v].status \in {"open", "paid"}}

ObjectsHaveFees ==
  /\ \A i \in Intents : intent[i].status = "none" <=> intent[i].fee = None
  /\ \A v \in Invoices : invoice[v].status = "none" <=> invoice[v].fee = None

(* A fee has one charge under way or done, or one invoice that can be paid. *)
OneAttempt ==
  \A f \in Fees :
    /\ \A i, j \in IntentsOf(f) : i = j
    /\ \A v, w \in LiveInvoices(f) : v = w
    /\ IntentsOf(f) = {} \/ LiveInvoices(f) = {}

KeysRemember ==
  \A f \in Fees :
    /\ \A i \in IntentsOf(f) : ~intent[i].seen => key[f].charge \in {"succeeded", "processing"}
    /\ \A v \in InvoicesOf(f) : ~invoice[v].seen => key[f].charge = "declined" /\ key[f].invoice = v
    /\ key[f].charge = "declined" => IntentsOf(f) = {}
    /\ key[f].charge = "succeeded" => \E i \in IntentsOf(f) : intent[i].status = "succeeded"
    /\ key[f].invoice # None => key[f].invoice \in InvoicesOf(f)

RunKnows ==
  /\ pc \in Calls => at \in Fees
  /\ pc \in {"searchInvoices", "charge"} /\ key[at].charge \in {None, "declined"} =>
       IntentsOf(at) = {}
  /\ pc = "charge" /\ key[at].charge = None => LiveInvoices(at) = {}
  /\ pc \in {"charge", "invoice"} => \A v \in LiveInvoices(at) : key[at].invoice = v
  /\ pc \in {"invoice", "finalize"} => key[at].charge = "declined"
  /\ pc = "finalize" => held \in InvoicesOf(at) /\ LiveInvoices(at) \subseteq {held}
  /\ pc = "markPaid" => Payments(at) # {}
  /\ pc = "markFailed" => LiveInvoices(at) # {}

ChargeInv ==
  /\ ChargeTypeOK /\ ObjectsHaveFees /\ OneAttempt /\ KeysRemember /\ RunKnows
  /\ PaidIsCollected /\ PausedCanPay

-----------------------------------------------------------------------------
(* What the composition does to the ledger, the ledger does. *)
LEMMA StepOfLedger == RunKnows /\ [Next]_vars => [LedgerNext]_ledger
<1> SUFFICES ASSUME RunKnows, [Next]_vars PROVE [LedgerNext]_ledger
  OBVIOUS
<1>1. CASE Others
  BY <1>1 DEF LedgerNext
<1>2. CASE RunStep
  <2>1. CASE BeginRun
    BY <2>1 DEF BeginRun, LedgerNext
  <2>2. CASE MarkPaid
    <3>1. at \in Fees
      BY <2>2 DEF MarkPaid, RunKnows, Calls
    <3> QED BY <2>2, <3>1 DEF MarkPaid, LedgerNext
  <2>3. CASE MarkFailed
    <3>1. at \in Fees
      BY <2>3 DEF MarkFailed, RunKnows, Calls
    <3> QED BY <2>3, <3>1 DEF MarkFailed, LedgerNext
  <2>4. CASE UNCHANGED ledger
    BY <2>4
  <2> QED BY <1>2, <2>1, <2>2, <2>3, <2>4 DEF RunStep, EndRun, PickFee, SearchIntents, SearchInvoices,
       NewCharge, ChargeReplayed, CreateInvoice, FinalizeInvoice, CallFails, RunIsCutOff
<1>3. CASE StripeStep
  BY <1>3 DEF StripeStep, IntentSettles, IntentIsIndexed, ContractorPays, InvoiceIsIndexed,
     ChargeKeyIsForgotten, InvoiceKeyIsForgotten, PaymentEvent, LedgerNext
<1>4. CASE UNCHANGED vars
  BY <1>4 DEF vars
<1> QED BY <1>1, <1>2, <1>3, <1>4 DEF Next

LEMMA InitCharge == Init => ChargeInv
<1> SUFFICES ASSUME Init PROVE ChargeInv
  OBVIOUS
<1> USE NoneIsNoObject DEF Init
<1>1. TypeOK
  BY InitInv DEF Inv
<1>2. ChargeTypeOK
  BY <1>1 DEF ChargeTypeOK, NoObject, NoKey
<1>3. \A f \in Fees : IntentsOf(f) = {} /\ InvoicesOf(f) = {}
  BY DEF IntentsOf, InvoicesOf, NoObject
<1>4. ObjectsHaveFees /\ OneAttempt
  BY <1>3 DEF ObjectsHaveFees, NoObject, OneAttempt, LiveInvoices
<1>5. KeysRemember
  BY <1>3 DEF KeysRemember, NoKey, Answers
<1>6. RunKnows
  BY DEF RunKnows, Calls
<1>7. PaidIsCollected /\ PausedCanPay
  BY DEF LedgerInit, NoFee, PaidIsCollected, PausedCanPay
<1> QED BY <1>2, <1>4, <1>5, <1>6, <1>7 DEF ChargeInv

-----------------------------------------------------------------------------
(* Steps that leave Stripe alone. *)
LEMMA StripeUntouched ==
  ASSUME ChargeInv, UNCHANGED stripe
  PROVE  /\ ObjectsHaveFees' /\ OneAttempt' /\ KeysRemember'
         /\ \A f \in Fees : /\ IntentsOf(f)' = IntentsOf(f) /\ InvoicesOf(f)' = InvoicesOf(f)
                            /\ LiveInvoices(f)' = LiveInvoices(f) /\ Payments(f)' = Payments(f)
  BY DEF ChargeInv, stripe, ObjectsHaveFees, OneAttempt, KeysRemember, IntentsOf, InvoicesOf,
     LiveInvoices, Payments

(* A payment, once made, and an invoice that can be paid stay; the ledger
   is told of them only when they are there. *)
LEMMA StaysRecorded ==
  ASSUME PaidIsCollected, PausedCanPay,
         \A f \in Fees :
           /\ Payments(f) \subseteq Payments(f)' /\ LiveInvoices(f) \subseteq LiveInvoices(f)'
           /\ fee'[f].status = "Paid" => fee[f].status = "Paid" \/ Payments(f) # {}
           /\ fee'[f].status = "PaymentFailed" =>
                fee[f].status = "PaymentFailed" \/ LiveInvoices(f) # {}
  PROVE  PaidIsCollected' /\ PausedCanPay'
<1>1. PaidIsCollected'
  BY DEF PaidIsCollected
<1>2. PausedCanPay'
  <2> SUFFICES ASSUME NEW f \in Fees, fee'[f].status = "PaymentFailed"
               PROVE  LiveInvoices(f)' # {}
    BY DEF PausedCanPay, LiveInvoices
  <2>1. LiveInvoices(f) # {}
    BY DEF PausedCanPay, LiveInvoices
  <2> QED BY <2>1
<1> QED BY <1>1, <1>2

LEMMA OthersInv == ASSUME ChargeInv, TypeOK', Others, UNCHANGED <<run, stripe>> PROVE ChargeInv'
<1>1. ChargeTypeOK'
  BY DEF ChargeInv, ChargeTypeOK, run, stripe
<1>2. RunKnows'
  BY DEF ChargeInv, RunKnows, run, stripe, IntentsOf, InvoicesOf, LiveInvoices, Payments
<1>3. \A f \in Fees :
        /\ fee'[f].status = "Paid" => fee[f].status = "Paid"
        /\ fee'[f].status = "PaymentFailed" => fee[f].status = "PaymentFailed"
  <2> SUFFICES ASSUME NEW f \in Fees
               PROVE  fee'[f].status \in {"Paid", "PaymentFailed"} => fee'[f].status = fee[f].status
    OBVIOUS
  <2>0. fee \in [Fees -> Fee] /\ DOMAIN fee' = Fees
    BY DEF ChargeInv, ChargeTypeOK, TypeOK
  <2> USE <2>0
  <2>1. CASE UNCHANGED fee
    BY <2>1
  <2>2. ASSUME NEW g \in Fees, NEW q, NEW s \in {"Pending", "Due"}, NEW j, NewFee(g, q, s, j)
        PROVE  fee'[f].status \in {"Paid", "PaymentFailed"} => fee'[f].status = fee[f].status
    BY <2>2 DEF NewFee
  <2>3. ASSUME NEW q \in Quotes, RecordReferralAccepted(q)
        PROVE  fee'[f].status \in {"Paid", "PaymentFailed"} => fee'[f].status = fee[f].status
    BY <2>2, <2>3 DEF RecordReferralAccepted
  <2>4. ASSUME NEW j \in Jobs, NEW p \in Places, RecordReferralJobVerified(j, p)
        PROVE  fee'[f].status \in {"Paid", "PaymentFailed"} => fee'[f].status = fee[f].status
    <3>1. CASE \E g \in PendingAt(p) : fee' = [fee EXCEPT ![g].status = "Due", ![g].job = j]
      BY <3>1 DEF PendingAt, Fee
    <3> QED BY <2>2, <2>4, <3>1 DEF RecordReferralJobVerified, UnpaidBidsAt
  <2>5. ASSUME NEW g \in Fees, FallbackIsReached(g) \/ WaiveReferralFee(g)
        PROVE  fee'[f].status \in {"Paid", "PaymentFailed"} => fee'[f].status = fee[f].status
    <3>1. CASE FallbackIsReached(g)
      BY <2>5, <3>1 DEF FallbackIsReached, Fee
    <3>2. CASE WaiveReferralFee(g)
      BY <2>5, <3>2 DEF WaiveReferralFee, Fee
    <3> QED BY <2>5, <3>1, <3>2
  <2> QED BY <2>1, <2>3, <2>4, <2>5 DEF Others, RecordReferralBid, BidGetsOld
<1>4. UNCHANGED stripe
  OBVIOUS
<1>5. \A f \in Fees : Payments(f)' = Payments(f) /\ LiveInvoices(f)' = LiveInvoices(f)
  BY <1>4, StripeUntouched
<1>6. PaidIsCollected' /\ PausedCanPay'
  BY <1>3, <1>5, StaysRecorded DEF ChargeInv
<1> QED BY <1>1, <1>2, <1>4, <1>6, StripeUntouched DEF ChargeInv

(* A step of the run that leaves Stripe alone and keeps what the run knows. *)
LEMMA QuietStep ==
  ASSUME ChargeInv, ChargeTypeOK', RunKnows', UNCHANGED stripe,
         \A f \in Fees :
           /\ fee'[f].status = "Paid" => fee[f].status = "Paid" \/ Payments(f) # {}
           /\ fee'[f].status = "PaymentFailed" =>
                fee[f].status = "PaymentFailed" \/ LiveInvoices(f) # {}
  PROVE  ChargeInv'
<1>1. \A f \in Fees : Payments(f)' = Payments(f) /\ LiveInvoices(f)' = LiveInvoices(f)
  BY StripeUntouched
<1>2. PaidIsCollected' /\ PausedCanPay'
  BY <1>1, StaysRecorded DEF ChargeInv
<1> QED BY <1>2, StripeUntouched DEF ChargeInv

(* At the end of a run, and between two fees, the run knows nothing. *)
LEMMA NothingInHand == ASSUME pc \in {"idle", "pick"} PROVE RunKnows
  BY DEF RunKnows, Calls

LEMMA BetweenFeesInv ==
  ASSUME ChargeInv, TypeOK', BeginRun \/ EndRun \/ CallFails \/ RunIsCutOff
  PROVE  ChargeInv'
<1>1. UNCHANGED stripe /\ pc' \in {"idle", "pick"}
  BY DEF BeginRun, EndRun, CallFails, RunIsCutOff, TakeDueReferralFees
<1>2. ChargeTypeOK'
  BY <1>1 DEF ChargeInv, ChargeTypeOK, BeginRun, EndRun, CallFails, RunIsCutOff, stripe, DueFees
<1>3. RunKnows'
  BY <1>1, NothingInHand DEF RunKnows, Calls
<1>4. \A f \in Fees :
        fee'[f].status \in {"Paid", "PaymentFailed"} => fee'[f].status = fee[f].status
  <2>1. CASE UNCHANGED fee
    BY <2>1
  <2>2. CASE BeginRun
    BY <2>2 DEF BeginRun, TakeDueReferralFees, FallenBack, ChargeInv, ChargeTypeOK, TypeOK, Fee
  <2> QED BY <2>1, <2>2 DEF EndRun, CallFails, RunIsCutOff, ledger
<1> QED BY <1>1, <1>2, <1>3, <1>4, QuietStep

LEMMA PickFeeInv == ASSUME ChargeInv, NEW f \in Fees, PickFee(f) PROVE ChargeInv'
<1>1. ChargeTypeOK'
  BY DEF ChargeInv, ChargeTypeOK, TypeOK, PickFee, ledger, stripe, Calls
<1>2. RunKnows'
  BY DEF PickFee, RunKnows, Calls
<1> QED BY <1>1, <1>2, QuietStep DEF PickFee, ledger

LEMMA SearchIntentsInv == ASSUME ChargeInv, SearchIntents PROVE ChargeInv'
<1>1. at \in Fees /\ pc' \in {"markPaid", "pick", "searchInvoices"} /\ UNCHANGED <<at, stripe, ledger>>
  BY DEF SearchIntents, ChargeInv, RunKnows, Calls
<1>2. ChargeTypeOK'
  BY <1>1 DEF ChargeInv, ChargeTypeOK, TypeOK, SearchIntents, ledger, stripe, Calls
<1>3. RunKnows'
  <2>1. CASE FoundIntent("succeeded")
    <3>1. pc' = "markPaid" /\ Payments(at) # {}
      BY <2>1 DEF SearchIntents, FoundIntent, Payments
    <3>2. Payments(at)' # {}
      BY <1>1, <3>1, StripeUntouched
    <3> QED BY <1>1, <3>1, <3>2 DEF RunKnows, Calls
  <2>2. CASE ~FoundIntent("succeeded") /\ FoundIntent("processing")
    BY <2>2, NothingInHand DEF SearchIntents, RunKnows, Calls
  <2>3. CASE ~FoundIntent("succeeded") /\ ~FoundIntent("processing")
    <3>1. \A i \in IntentsOf(at) : intent[i].status \in {"processing", "succeeded"}
      BY <1>1, NoneIsNoObject DEF IntentsOf, ChargeInv, ChargeTypeOK, ObjectsHaveFees
    <3>2. \A i \in IntentsOf(at) : ~intent[i].seen
      BY <2>3, <3>1 DEF FoundIntent
    <3>3. key[at].charge \in {None, "declined"} => IntentsOf(at) = {}
      BY <1>1, <3>2, NoneIsNoObject DEF ChargeInv, KeysRemember, Answers
    <3>4. pc' = "searchInvoices"
      BY <2>3 DEF SearchIntents
    <3> QED BY <1>1, <3>3, <3>4 DEF RunKnows, Calls, stripe, IntentsOf
  <2> QED BY <2>1, <2>2, <2>3
<1> QED BY <1>1, <1>2, <1>3, QuietStep DEF ledger

LEMMA SearchInvoicesInv == ASSUME ChargeInv, SearchInvoices PROVE ChargeInv'
<1>1. at \in Fees /\ UNCHANGED <<at, stripe, ledger>>
  BY DEF SearchInvoices, ChargeInv, RunKnows, Calls
<1>2. ChargeTypeOK'
  BY <1>1 DEF ChargeInv, ChargeTypeOK, TypeOK, SearchInvoices, FoundInvoices, InvoicesOf,
     ledger, stripe, Calls
<1>3. /\ LiveInvoices(at)' = LiveInvoices(at) /\ Payments(at)' = Payments(at)
      /\ IntentsOf(at)' = IntentsOf(at)
  BY <1>1 DEF stripe, IntentsOf, InvoicesOf, LiveInvoices, Payments
<1>4. RunKnows'
  <2>1. CASE FoundInvoices("paid") # {}
    <3>1. pc' = "markPaid" /\ Payments(at) # {}
      BY <2>1 DEF SearchInvoices, FoundInvoices, Payments
    <3> QED BY <1>1, <1>3, <3>1 DEF RunKnows, Calls
  <2>2. CASE FoundInvoices("paid") = {} /\ FoundInvoices("open") # {}
    <3>1. pc' = "markFailed" /\ LiveInvoices(at) # {}
      BY <2>2 DEF SearchInvoices, FoundInvoices, LiveInvoices
    <3> QED BY <1>1, <1>3, <3>1 DEF RunKnows, Calls
  <2>3. CASE FoundInvoices("paid") = {} /\ FoundInvoices("open") = {}
    <3>1. pc' = "charge" /\ \A v \in LiveInvoices(at) : v \in InvoicesOf(at) /\ ~invoice[v].seen
      BY <2>3 DEF SearchInvoices, FoundInvoices, LiveInvoices
    <3>2. \A v \in LiveInvoices(at) : key[at].charge = "declined" /\ key[at].invoice = v
      BY <1>1, <3>1 DEF ChargeInv, KeysRemember
    <3>3. key[at].charge = None => LiveInvoices(at) = {}
      BY <3>2, NoneIsNoObject DEF Answers
    <3>4. key[at].charge \in {None, "declined"} => IntentsOf(at) = {}
      BY DEF SearchInvoices, ChargeInv, RunKnows
    <3> QED BY <1>1, <1>3, <3>1, <3>2, <3>3, <3>4 DEF RunKnows, Calls, stripe
  <2> QED BY <2>1, <2>2, <2>3
<1> QED BY <1>1, <1>2, <1>4, QuietStep DEF ledger

LEMMA ChargeReplayedInv == ASSUME ChargeInv, ChargeReplayed PROVE ChargeInv'
<1>1. at \in Fees /\ key[at].charge \in Answers /\ UNCHANGED <<at, held, stripe, ledger>>
  BY DEF ChargeReplayed, ChargeInv, ChargeTypeOK, RunKnows, Calls
<1>2. pc' \in {"markPaid", "pick", "invoice"}
  BY <1>1 DEF ChargeReplayed, AfterCharge
<1>3. ChargeTypeOK'
  BY <1>1, <1>2 DEF ChargeInv, ChargeTypeOK, TypeOK, ChargeReplayed, ledger, stripe, Calls
<1>4. LiveInvoices(at)' = LiveInvoices(at) /\ Payments(at)' = Payments(at)
  BY <1>1 DEF stripe, IntentsOf, InvoicesOf, LiveInvoices, Payments
<1>5. RunKnows'
  <2>1. CASE key[at].charge = "succeeded"
    <3>1. pc' = "markPaid" /\ Payments(at) # {}
      BY <1>1, <2>1 DEF ChargeReplayed, AfterCharge, ChargeInv, KeysRemember, Payments
    <3> QED BY <1>1, <1>4, <3>1 DEF RunKnows, Calls
  <2>2. CASE key[at].charge = "processing"
    <3>1. pc' = "pick"
      BY <2>2 DEF ChargeReplayed, AfterCharge
    <3> QED BY <3>1 DEF RunKnows, Calls
  <2>3. CASE key[at].charge = "declined"
    <3>1. pc' = "invoice" /\ \A v \in LiveInvoices(at) : key[at].invoice = v
      BY <2>3 DEF ChargeReplayed, AfterCharge, ChargeInv, RunKnows
    <3> QED BY <1>1, <1>4, <2>3, <3>1 DEF RunKnows, Calls, stripe
  <2> QED BY <1>1, <2>1, <2>2, <2>3 DEF Answers
<1> QED BY <1>1, <1>3, <1>5, QuietStep DEF ledger

(* The two marks of the relay. *)
LEMMA MarkInv == ASSUME ChargeInv, TypeOK', MarkPaid \/ MarkFailed PROVE ChargeInv'
<1>1. at \in Fees /\ pc' = "pick" /\ UNCHANGED stripe
  BY DEF MarkPaid, MarkFailed, ChargeInv, RunKnows, Calls
<1>2. ChargeTypeOK'
  BY <1>1 DEF ChargeInv, ChargeTypeOK, MarkPaid, MarkFailed, stripe, Calls
<1>3. RunKnows'
  BY <1>1 DEF RunKnows, Calls
<1>4. CASE MarkPaid
  <2>1. Payments(at) # {}
    BY <1>4 DEF MarkPaid, ChargeInv, RunKnows
  <2>2. \A f \in Fees : /\ fee'[f].status = "Paid" => fee[f].status = "Paid" \/ f = at
                        /\ fee'[f].status = "PaymentFailed" => fee[f].status = "PaymentFailed"
    BY <1>1, <1>4 DEF MarkPaid, RelayMarkReferralFeePaid, ledger,
       ChargeInv, ChargeTypeOK, TypeOK, Fee
  <2> QED BY <1>1, <1>2, <1>3, <2>1, <2>2, QuietStep
<1>5. CASE MarkFailed
  <2>1. LiveInvoices(at) # {}
    BY <1>5 DEF MarkFailed, ChargeInv, RunKnows
  <2>2. \A f \in Fees :
          /\ fee'[f].status = "Paid" => fee[f].status = "Paid"
          /\ fee'[f].status = "PaymentFailed" => fee[f].status = "PaymentFailed" \/ f = at
    BY <1>1, <1>5 DEF MarkFailed, RelayMarkReferralFeeFailed, ledger,
       ChargeInv, ChargeTypeOK, TypeOK, Fee
  <2> QED BY <1>1, <1>2, <1>3, <2>1, <2>2, QuietStep
<1> QED BY <1>4, <1>5

-----------------------------------------------------------------------------
(* Steps of the run that change something at Stripe. *)
LEMMA NewChargeInv ==
  ASSUME ChargeInv, NEW answer \in Answers, NewCharge(answer) PROVE ChargeInv'
<1> USE DEF ChargeInv
<1>1. /\ at \in Fees /\ key[at].charge = None /\ UNCHANGED <<at, held, todo, invoice, ledger>>
      /\ IntentsOf(at) = {} /\ LiveInvoices(at) = {}
      /\ pc' \in {AfterCharge(answer), "charge"}
  BY DEF NewCharge, RunKnows, Calls
<1>2. key' = [key EXCEPT ![at].charge = answer]
  BY DEF NewCharge
<1>3. /\ key'[at].charge = answer /\ key'[at].invoice = key[at].invoice
      /\ \A f \in Fees \ {at} : key'[f] = key[f]
  BY <1>1, <1>2 DEF ChargeTypeOK
<1>4. AfterCharge(answer) \in {"markPaid", "pick", "invoice"}
  BY DEF Answers, AfterCharge
<1>5. \A f \in Fees : InvoicesOf(f)' = InvoicesOf(f) /\ LiveInvoices(f)' = LiveInvoices(f)
  BY <1>1 DEF InvoicesOf, LiveInvoices
<1>6. \A v \in InvoicesOf(at) : invoice[v].seen
  BY <1>1, NoneIsNoObject DEF KeysRemember, Answers
<1>7. ledger' = ledger /\ TypeOK'
  BY <1>1 DEF ledger, ChargeTypeOK, TypeOK
<1>8. CASE answer = "declined"
  <2>1. intent' = intent
    BY <1>8 DEF NewCharge
  <2>2. \A f \in Fees : IntentsOf(f)' = IntentsOf(f) /\ Payments(f)' = Payments(f)
    BY <1>1, <2>1 DEF IntentsOf, Payments, InvoicesOf
  <2>3. ChargeTypeOK'
    BY <1>1, <1>2, <1>4, <1>7, <2>1 DEF ChargeTypeOK, Calls
  <2>4. ObjectsHaveFees' /\ OneAttempt'
    BY <1>1, <1>5, <2>1, <2>2 DEF ObjectsHaveFees, OneAttempt
  <2>5. KeysRemember'
    <3> SUFFICES ASSUME NEW f \in Fees
                 PROVE  /\ \A i \in IntentsOf(f) : ~intent[i].seen =>
                             key'[f].charge \in {"succeeded", "processing"}
                        /\ \A v \in InvoicesOf(f) : ~invoice[v].seen =>
                             key'[f].charge = "declined" /\ key'[f].invoice = v
                        /\ key'[f].charge = "declined" => IntentsOf(f) = {}
                        /\ key'[f].charge = "succeeded" =>
                             \E i \in IntentsOf(f) : intent[i].status = "succeeded"
                        /\ key'[f].invoice # None => key'[f].invoice \in InvoicesOf(f)
      BY <1>1, <1>5, <2>1, <2>2 DEF KeysRemember
    <3>1. CASE f = at
      BY <1>1, <1>3, <1>6, <1>8, <3>1 DEF KeysRemember
    <3>2. CASE f # at
      BY <1>3, <3>2 DEF KeysRemember
    <3> QED BY <3>1, <3>2
  <2>6. RunKnows'
    <3>1. LiveInvoices(at)' = {} /\ IntentsOf(at)' = {} /\ key'[at].charge = "declined"
      BY <1>1, <1>3, <1>5, <1>8, <2>2
    <3>2. pc' \in {"invoice", "charge"}
      BY <1>1, <1>8 DEF AfterCharge
    <3> QED BY <1>1, <3>1, <3>2, NoneIsNoObject DEF RunKnows, Calls, Answers
  <2>7. PaidIsCollected' /\ PausedCanPay'
    BY <1>5, <1>7, <2>2, StaysRecorded DEF ledger
  <2> QED BY <2>3, <2>4, <2>5, <2>6, <2>7
<1>9. CASE answer # "declined"
  <2> PICK i \in Intents :
        /\ intent[i].status = "none"
        /\ intent' = [intent EXCEPT ![i] = [status |-> answer, fee |-> at, seen |-> FALSE]]
    BY <1>9 DEF NewCharge
  <2>1. /\ intent'[i] = [status |-> answer, fee |-> at, seen |-> FALSE]
        /\ \A j \in Intents \ {i} : intent'[j] = intent[j]
    BY DEF ChargeTypeOK
  <2>2. intent[i].fee = None /\ at # None
    BY <1>1, NoneIsNoObject DEF ObjectsHaveFees
  <2>3. /\ IntentsOf(at)' = {i}
        /\ \A f \in Fees \ {at} : IntentsOf(f)' = IntentsOf(f)
    BY <1>1, <2>1, <2>2, NoneIsNoObject DEF IntentsOf
  <2>4. \A f \in Fees : Payments(f) \subseteq Payments(f)'
    BY <1>1, <2>1, <2>2, NoneIsNoObject DEF Payments, IntentsOf, InvoicesOf
  <2>5. answer \in {"succeeded", "processing"}
    BY <1>9 DEF Answers
  <2>6. ChargeTypeOK'
    <3>1. intent' \in [Intents -> [status : {"none", "processing", "succeeded"},
                                   fee : Fees \cup {None}, seen : BOOLEAN]]
      BY <1>1, <2>5 DEF ChargeTypeOK
    <3> QED BY <1>1, <1>2, <1>4, <1>7, <3>1 DEF ChargeTypeOK, Calls
  <2>7. ObjectsHaveFees'
    BY <1>1, <2>1, <2>2, <2>5 DEF ObjectsHaveFees
  <2>8. OneAttempt'
    BY <1>1, <1>5, <2>3 DEF OneAttempt
  <2>9. KeysRemember'
    <3> SUFFICES ASSUME NEW f \in Fees
                 PROVE  /\ \A j \in IntentsOf(f)' : ~intent'[j].seen =>
                             key'[f].charge \in {"succeeded", "processing"}
                        /\ \A v \in InvoicesOf(f) : ~invoice[v].seen =>
                             key'[f].charge = "declined" /\ key'[f].invoice = v
                        /\ key'[f].charge = "declined" => IntentsOf(f)' = {}
                        /\ key'[f].charge = "succeeded" =>
                             \E j \in IntentsOf(f)' : intent'[j].status = "succeeded"
                        /\ key'[f].invoice # None => key'[f].invoice \in InvoicesOf(f)
      BY <1>1, <1>5 DEF KeysRemember
    <3>1. CASE f = at
      BY <1>1, <1>3, <1>6, <2>1, <2>3, <2>5, <3>1 DEF KeysRemember
    <3>2. CASE f # at
      <4>1. \A j \in IntentsOf(f) : intent'[j] = intent[j]
        BY <2>1, <2>2, NoneIsNoObject DEF IntentsOf
      <4> QED BY <1>3, <2>3, <3>2, <4>1 DEF KeysRemember
    <3> QED BY <3>1, <3>2
  <2>10. RunKnows'
    <3>1. LiveInvoices(at)' = {} /\ key'[at].charge = answer
      BY <1>1, <1>3, <1>5
    <3>2. pc' \in {"markPaid", "pick", "charge"} /\ (pc' = "markPaid" => answer = "succeeded")
      BY <1>1, <2>5 DEF AfterCharge
    <3>3. answer = "succeeded" => Payments(at)' # {}
      BY <2>1, <2>3 DEF Payments
    <3>4. answer \notin {None, "declined"}
      BY <2>5, NoneIsNoObject DEF Answers
    <3> QED BY <1>1, <3>1, <3>2, <3>3, <3>4 DEF RunKnows, Calls
  <2>11. PaidIsCollected' /\ PausedCanPay'
    BY <1>5, <1>7, <2>4, StaysRecorded DEF ledger
  <2> QED BY <2>6, <2>7, <2>8, <2>9, <2>10, <2>11
<1> QED BY <1>8, <1>9

LEMMA CreateInvoiceInv == ASSUME ChargeInv, CreateInvoice PROVE ChargeInv'
<1> USE DEF ChargeInv
<1>1. /\ at \in Fees /\ key[at].charge = "declined" /\ pc' = "finalize"
      /\ UNCHANGED <<at, todo, intent, ledger>>
      /\ \A v \in LiveInvoices(at) : key[at].invoice = v
  BY DEF CreateInvoice, RunKnows, Calls
<1>2. CASE key[at].invoice # None
  <2>1. held' = key[at].invoice /\ UNCHANGED stripe /\ held' \in InvoicesOf(at)
    BY <1>1, <1>2 DEF CreateInvoice, stripe, KeysRemember
  <2>2. ChargeTypeOK'
    BY <1>1, <2>1 DEF ChargeTypeOK, TypeOK, InvoicesOf, ledger, stripe, Calls
  <2>3. LiveInvoices(at)' \subseteq {held'} /\ InvoicesOf(at)' = InvoicesOf(at)
    BY <1>1, <2>1 DEF LiveInvoices, InvoicesOf, stripe
  <2>4. RunKnows'
    BY <1>1, <2>1, <2>3 DEF RunKnows, Calls, stripe
  <2> QED BY <1>1, <2>1, <2>2, <2>4, QuietStep DEF ledger
<1>3. CASE key[at].invoice = None
  <2> PICK v \in Invoices :
        /\ invoice[v].status = "none"
        /\ invoice' = [invoice EXCEPT ![v] = [status |-> "draft", fee |-> at, seen |-> FALSE]]
        /\ key' = [key EXCEPT ![at].invoice = v]
        /\ held' = v
    BY <1>3 DEF CreateInvoice
  <2>1. /\ invoice'[v] = [status |-> "draft", fee |-> at, seen |-> FALSE]
        /\ \A w \in Invoices \ {v} : invoice'[w] = invoice[w]
        /\ key'[at].invoice = v /\ key'[at].charge = key[at].charge
        /\ \A f \in Fees \ {at} : key'[f] = key[f]
    BY <1>1 DEF ChargeTypeOK
  <2>2. invoice[v].fee = None /\ at # None /\ v # None
    BY <1>1, NoneIsNoObject DEF ObjectsHaveFees
  <2>3. /\ InvoicesOf(at)' = InvoicesOf(at) \cup {v}
        /\ \A f \in Fees \ {at} : InvoicesOf(f)' = InvoicesOf(f)
    BY <1>1, <2>1, <2>2, NoneIsNoObject DEF InvoicesOf
  <2>4. \A f \in Fees : LiveInvoices(f)' = LiveInvoices(f) /\ IntentsOf(f)' = IntentsOf(f)
    BY <1>1, <2>1, <2>2, NoneIsNoObject DEF LiveInvoices, InvoicesOf, IntentsOf
  <2>5. \A f \in Fees : Payments(f) \subseteq Payments(f)'
    BY <1>1, <2>1, <2>2, NoneIsNoObject DEF Payments, IntentsOf, InvoicesOf
  <2>6. ChargeTypeOK'
    BY <1>1 DEF ChargeTypeOK, TypeOK, ledger, Calls
  <2>7. ObjectsHaveFees' /\ OneAttempt'
    BY <1>1, <2>1, <2>2, <2>4 DEF ObjectsHaveFees, OneAttempt
  <2>8. KeysRemember'
    <3> SUFFICES ASSUME NEW f \in Fees
                 PROVE  /\ \A i \in IntentsOf(f) : ~intent[i].seen =>
                             key'[f].charge \in {"succeeded", "processing"}
                        /\ \A w \in InvoicesOf(f)' : ~invoice'[w].seen =>
                             key'[f].charge = "declined" /\ key'[f].invoice = w
                        /\ key'[f].charge = "declined" => IntentsOf(f) = {}
                        /\ key'[f].charge = "succeeded" =>
                             \E i \in IntentsOf(f) : intent[i].status = "succeeded"
                        /\ key'[f].invoice # None => key'[f].invoice \in InvoicesOf(f)'
      BY <1>1, <2>4 DEF KeysRemember
    <3>1. CASE f = at
      <4>1. \A w \in InvoicesOf(at) : w # v /\ invoice[w].seen /\ invoice'[w] = invoice[w]
        BY <1>1, <1>3, <2>1, <2>2, NoneIsNoObject DEF KeysRemember, InvoicesOf
      <4> QED BY <1>1, <2>1, <2>3, <3>1, <4>1 DEF KeysRemember
    <3>2. CASE f # at
      <4>1. \A w \in InvoicesOf(f) : invoice'[w] = invoice[w]
        BY <2>1, <2>2, NoneIsNoObject DEF InvoicesOf
      <4> QED BY <2>1, <2>3, <3>2, <4>1 DEF KeysRemember
    <3> QED BY <3>1, <3>2
  <2>9. RunKnows'
    <3>1. LiveInvoices(at)' = {} /\ held' \in InvoicesOf(at)' /\ key'[at].charge = "declined"
      BY <1>1, <1>3, <2>1, <2>3, <2>4, NoneIsNoObject DEF LiveInvoices, InvoicesOf
    <3> QED BY <1>1, <3>1 DEF RunKnows, Calls
  <2>10. PaidIsCollected' /\ PausedCanPay'
    BY <1>1, <2>4, <2>5, StaysRecorded DEF ledger
  <2> QED BY <2>6, <2>7, <2>8, <2>9, <2>10
<1> QED BY <1>2, <1>3

LEMMA FinalizeInvoiceInv == ASSUME ChargeInv, FinalizeInvoice PROVE ChargeInv'
<1> USE DEF ChargeInv
<1>1. /\ at \in Fees /\ held \in InvoicesOf(at) /\ LiveInvoices(at) \subseteq {held}
      /\ IntentsOf(at) = {} /\ pc' = "markFailed"
      /\ UNCHANGED <<at, held, todo, intent, key, ledger>>
  BY DEF FinalizeInvoice, RunKnows, KeysRemember, Calls
<1>2. CASE invoice[held].status # "draft"
  <2>1. UNCHANGED stripe
    BY <1>1, <1>2 DEF FinalizeInvoice, stripe
  <2>2. invoice[held].status \in {"open", "paid"}
    BY <1>1, <1>2, NoneIsNoObject DEF InvoicesOf, ObjectsHaveFees, ChargeTypeOK
  <2>3. LiveInvoices(at)' # {}
    BY <1>1, <2>1, <2>2 DEF LiveInvoices, InvoicesOf, stripe
  <2>4. ChargeTypeOK'
    BY <1>1, <2>1 DEF ChargeTypeOK, TypeOK, ledger, stripe, Calls
  <2>5. RunKnows'
    BY <1>1, <2>3 DEF RunKnows, Calls
  <2> QED BY <1>1, <2>1, <2>4, <2>5, QuietStep DEF ledger
<1>3. CASE invoice[held].status = "draft"
  <2>1. /\ invoice' = [invoice EXCEPT ![held].status = "open"] /\ held \in Invoices
        /\ invoice'[held].status = "open" /\ invoice'[held].fee = at
        /\ invoice'[held].seen = invoice[held].seen
        /\ \A v \in Invoices \ {held} : invoice'[v] = invoice[v]
    BY <1>1, <1>3 DEF FinalizeInvoice, ChargeTypeOK, InvoicesOf
  <2>2. \A f \in Fees : IntentsOf(f)' = IntentsOf(f) /\ InvoicesOf(f)' = InvoicesOf(f)
    BY <1>1, <2>1 DEF IntentsOf, InvoicesOf
  <2>3. /\ LiveInvoices(at)' = {held}
        /\ \A f \in Fees \ {at} : LiveInvoices(f)' = LiveInvoices(f)
    BY <1>1, <2>1 DEF LiveInvoices, InvoicesOf
  <2>4. \A f \in Fees : Payments(f) \subseteq Payments(f)' /\ LiveInvoices(f) \subseteq LiveInvoices(f)'
    BY <1>1, <1>3, <2>1, <2>3 DEF Payments, IntentsOf, InvoicesOf
  <2>5. ChargeTypeOK'
    BY <1>1, <2>1 DEF ChargeTypeOK, TypeOK, ledger, Calls
  <2>6. ObjectsHaveFees'
    BY <1>1, <2>1, NoneIsNoObject DEF ObjectsHaveFees
  <2>7. OneAttempt'
    BY <1>1, <2>2, <2>3 DEF OneAttempt
  <2>8. KeysRemember'
    <3>1. \A v \in Invoices : invoice'[v].seen = invoice[v].seen
      BY <2>1
    <3> QED BY <1>1, <2>2, <3>1 DEF KeysRemember, InvoicesOf
  <2>9. RunKnows'
    BY <1>1, <2>3 DEF RunKnows, Calls
  <2>10. PaidIsCollected' /\ PausedCanPay'
    BY <1>1, <2>4, StaysRecorded DEF ledger
  <2> QED BY <2>5, <2>6, <2>7, <2>8, <2>9, <2>10
<1> QED BY <1>2, <1>3

-----------------------------------------------------------------------------
(* Stripe, its objects: intents may fail, invoices are paid, both come into
   sight; what a run has learnt stays true. *)
LEMMA ObjectStep ==
  ASSUME ChargeInv, ChargeTypeOK', ObjectsHaveFees', UNCHANGED <<ledger, run, key>>,
         \A f \in Fees : /\ IntentsOf(f)' \subseteq IntentsOf(f)
                         /\ InvoicesOf(f)' = InvoicesOf(f) /\ LiveInvoices(f)' = LiveInvoices(f)
                         /\ Payments(f) \subseteq Payments(f)',
         \A i \in Intents : intent'[i].fee # None /\ ~intent'[i].seen => ~intent[i].seen,
         \A i \in Intents : intent[i].status = "succeeded" =>
           intent'[i] \in {intent[i], [intent[i] EXCEPT !.seen = TRUE]},
         \A v \in Invoices : ~invoice'[v].seen => ~invoice[v].seen
  PROVE  ChargeInv'
<1> USE DEF ChargeInv
<1>1. OneAttempt'
  BY DEF OneAttempt
<1>2. KeysRemember'
  <2> SUFFICES ASSUME NEW f \in Fees
               PROVE  /\ \A i \in IntentsOf(f)' : ~intent'[i].seen =>
                           key[f].charge \in {"succeeded", "processing"}
                      /\ \A v \in InvoicesOf(f)' : ~invoice'[v].seen =>
                           key[f].charge = "declined" /\ key[f].invoice = v
                      /\ key[f].charge = "declined" => IntentsOf(f)' = {}
                      /\ key[f].charge = "succeeded" =>
                           \E i \in IntentsOf(f)' : intent'[i].status = "succeeded"
                      /\ key[f].invoice # None => key[f].invoice \in InvoicesOf(f)'
    BY DEF KeysRemember
  <2>1. \A i \in IntentsOf(f)' : ~intent'[i].seen => key[f].charge \in {"succeeded", "processing"}
    <3>1. \A i \in IntentsOf(f)' : i \in IntentsOf(f) /\ i \in Intents /\ intent'[i].fee # None
      BY NoneIsNoObject DEF IntentsOf
    <3> QED BY <3>1 DEF KeysRemember
  <2>2. \A v \in InvoicesOf(f)' : ~invoice'[v].seen =>
          key[f].charge = "declined" /\ key[f].invoice = v
    BY DEF KeysRemember, InvoicesOf
  <2>3. key[f].charge = "succeeded" => \E i \in IntentsOf(f)' : intent'[i].status = "succeeded"
    BY SMTT(30) DEF KeysRemember, IntentsOf, ChargeTypeOK
  <2> QED BY <2>1, <2>2, <2>3 DEF KeysRemember
<1>3. RunKnows'
  BY DEF RunKnows, run, Calls
<1>4. PaidIsCollected' /\ PausedCanPay'
  BY StaysRecorded DEF ledger
<1> QED BY <1>1, <1>2, <1>3, <1>4

LEMMA IntentInv ==
  ASSUME ChargeInv, NEW i \in Intents, IntentSettles(i) \/ IntentIsIndexed(i) PROVE ChargeInv'
<1> USE NoneIsNoObject DEF ChargeInv
<1>1. UNCHANGED <<ledger, run, invoice, key>> /\ \A j \in Intents \ {i} : intent'[j] = intent[j]
  BY DEF IntentSettles, IntentIsIndexed, ChargeTypeOK
<1>2. \/ intent[i].status = "processing" /\ intent'[i] = [intent[i] EXCEPT !.status = "succeeded"]
      \/ intent[i].status = "processing" /\ intent'[i] = NoObject
      \/ intent[i].status # "none" /\ intent'[i] = [intent[i] EXCEPT !.seen = TRUE]
  BY DEF IntentSettles, IntentIsIndexed, ChargeTypeOK
<1>3. ChargeTypeOK'
  <2>1. intent' \in [Intents -> [status : {"none", "processing", "succeeded"},
                                 fee : Fees \cup {None}, seen : BOOLEAN]]
    <3>1. CASE intent' = [intent EXCEPT ![i].status = "succeeded"]
      BY <3>1 DEF ChargeTypeOK
    <3>2. CASE intent' = [intent EXCEPT ![i] = NoObject]
      BY <3>2 DEF ChargeTypeOK, NoObject
    <3>3. CASE intent' = [intent EXCEPT ![i].seen = TRUE]
      BY <3>3, ZenonT(60) DEF ChargeTypeOK
    <3> QED BY <3>1, <3>2, <3>3 DEF IntentSettles, IntentIsIndexed
  <2> QED BY <1>1, <2>1 DEF ChargeTypeOK, TypeOK, ledger, run
<1>4. ObjectsHaveFees'
  BY <1>1, <1>2 DEF ObjectsHaveFees, NoObject, ChargeTypeOK
<1>5. ASSUME NEW f \in Fees
      PROVE  /\ IntentsOf(f)' \subseteq IntentsOf(f)
             /\ InvoicesOf(f)' = InvoicesOf(f) /\ LiveInvoices(f)' = LiveInvoices(f)
             /\ Payments(f) \subseteq Payments(f)'
  <2>1. IntentsOf(f)' \subseteq IntentsOf(f)
    BY <1>1, <1>2 DEF IntentsOf, NoObject, ChargeTypeOK
  <2>2. InvoicesOf(f)' = InvoicesOf(f) /\ LiveInvoices(f)' = LiveInvoices(f)
    BY <1>1 DEF InvoicesOf, LiveInvoices
  <2>3. Payments(f) \subseteq Payments(f)'
    BY <1>1, <1>2 DEF Payments, IntentsOf, InvoicesOf, ChargeTypeOK
  <2> QED BY <2>1, <2>2, <2>3
<1>6. \A j \in Intents : intent[j].status = "succeeded" =>
        intent'[j] \in {intent[j], [intent[j] EXCEPT !.seen = TRUE]}
  BY <1>1, <1>2
<1>7. \A j \in Intents : intent'[j].fee # None /\ ~intent'[j].seen => ~intent[j].seen
  BY <1>1, <1>2 DEF NoObject, ChargeTypeOK
<1> QED BY <1>1, <1>3, <1>4, <1>5, <1>6, <1>7, ObjectStep

LEMMA InvoiceInv ==
  ASSUME ChargeInv, NEW v \in Invoices, ContractorPays(v) \/ InvoiceIsIndexed(v) PROVE ChargeInv'
<1> USE NoneIsNoObject DEF ChargeInv
<1>1. UNCHANGED <<ledger, run, intent, key>> /\ \A w \in Invoices \ {v} : invoice'[w] = invoice[w]
  BY DEF ContractorPays, InvoiceIsIndexed, ChargeTypeOK
<1>2. \/ invoice[v].status = "open" /\ invoice'[v] = [invoice[v] EXCEPT !.status = "paid"]
      \/ invoice[v].status # "none" /\ invoice'[v] = [invoice[v] EXCEPT !.seen = TRUE]
  BY DEF ContractorPays, InvoiceIsIndexed, ChargeTypeOK
<1>3. ChargeTypeOK'
  <2>1. invoice' \in [Invoices -> [status : {"none", "draft", "open", "paid"},
                                   fee : Fees \cup {None}, seen : BOOLEAN]]
    <3>1. CASE invoice' = [invoice EXCEPT ![v].status = "paid"]
      BY <3>1, SMTT(30) DEF ChargeTypeOK
    <3>2. CASE invoice' = [invoice EXCEPT ![v].seen = TRUE]
      BY <3>2, ZenonT(60) DEF ChargeTypeOK
    <3> QED BY <3>1, <3>2 DEF ContractorPays, InvoiceIsIndexed
  <2> QED BY <1>1, <2>1 DEF ChargeTypeOK, TypeOK, ledger, run
<1>4. ObjectsHaveFees'
  BY <1>1, <1>2 DEF ObjectsHaveFees, ChargeTypeOK
<1>5. ASSUME NEW f \in Fees
      PROVE  /\ IntentsOf(f)' \subseteq IntentsOf(f)
             /\ InvoicesOf(f)' = InvoicesOf(f) /\ LiveInvoices(f)' = LiveInvoices(f)
             /\ Payments(f) \subseteq Payments(f)'
  <2>1. IntentsOf(f)' \subseteq IntentsOf(f) /\ InvoicesOf(f)' = InvoicesOf(f)
    BY <1>1, <1>2 DEF IntentsOf, InvoicesOf, ChargeTypeOK
  <2>2. LiveInvoices(f)' = LiveInvoices(f)
    BY <1>1, <1>2 DEF InvoicesOf, LiveInvoices, ChargeTypeOK
  <2>3. Payments(f) \subseteq Payments(f)'
    BY <1>1, <1>2 DEF Payments, IntentsOf, InvoicesOf, ChargeTypeOK
  <2> QED BY <2>1, <2>2, <2>3
<1>6. \A w \in Invoices : ~invoice'[w].seen => ~invoice[w].seen
  BY <1>1, <1>2 DEF ChargeTypeOK
<1> QED BY <1>1, <1>3, <1>4, <1>5, <1>6, ObjectStep

LEMMA ChargeKeyInv ==
  ASSUME ChargeInv, NEW f \in Fees, ChargeKeyIsForgotten(f) PROVE ChargeInv'
<1> USE NoneIsNoObject DEF ChargeInv
<1>1. /\ UNCHANGED <<ledger, run, intent, invoice>> /\ pc' \in {"idle", "pick"} /\ AllSeen(f)
      /\ key'[f].charge = None /\ key'[f].invoice = key[f].invoice
      /\ \A g \in Fees \ {f} : key'[g] = key[g]
  BY DEF ChargeKeyIsForgotten, ChargeTypeOK, run
<1>2. ChargeTypeOK'
  BY DEF ChargeKeyIsForgotten, ChargeTypeOK, TypeOK, ledger, run
<1>3. \A g \in Fees : /\ IntentsOf(g)' = IntentsOf(g) /\ InvoicesOf(g)' = InvoicesOf(g)
                      /\ LiveInvoices(g)' = LiveInvoices(g) /\ Payments(g)' = Payments(g)
  BY <1>1 DEF IntentsOf, InvoicesOf, LiveInvoices, Payments
<1>4. ObjectsHaveFees' /\ OneAttempt'
  BY <1>1, <1>3 DEF ObjectsHaveFees, OneAttempt
<1>5. KeysRemember'
  BY <1>1, <1>3 DEF KeysRemember, AllSeen, Answers
<1>6. RunKnows'
  BY <1>1 DEF RunKnows, Calls
<1>7. PaidIsCollected' /\ PausedCanPay'
  BY <1>1, <1>3, StaysRecorded DEF ledger
<1> QED BY <1>2, <1>4, <1>5, <1>6, <1>7

LEMMA InvoiceKeyInv ==
  ASSUME ChargeInv, NEW f \in Fees, InvoiceKeyIsForgotten(f) PROVE ChargeInv'
<1> USE NoneIsNoObject DEF ChargeInv
<1>1. /\ UNCHANGED <<ledger, run, intent>> /\ pc' \in {"idle", "pick"} /\ AllSeen(f)
      /\ key'[f].charge = key[f].charge /\ key'[f].invoice = None
      /\ \A g \in Fees \ {f} : key'[g] = key[g]
  BY DEF InvoiceKeyIsForgotten, ChargeTypeOK, run
<1>2. \A v \in Invoices :
        \/ invoice'[v] = invoice[v]
        \/ invoice'[v] = NoObject /\ v \in InvoicesOf(f) /\ invoice[v].status = "draft"
  BY DEF InvoiceKeyIsForgotten, KeysRemember
<1>3. ChargeTypeOK'
  <2>1. invoice' \in [Invoices -> [status : {"none", "draft", "open", "paid"},
                                   fee : Fees \cup {None}, seen : BOOLEAN]]
    BY DEF InvoiceKeyIsForgotten, ChargeTypeOK, NoObject
  <2>2. key' \in [Fees -> [charge : Answers \cup {None}, invoice : Invoices \cup {None}]]
    BY DEF InvoiceKeyIsForgotten, ChargeTypeOK
  <2> QED BY <1>1, <2>1, <2>2 DEF ChargeTypeOK, TypeOK, ledger, run
<1>4. /\ \A g \in Fees : /\ IntentsOf(g)' = IntentsOf(g) /\ LiveInvoices(g)' = LiveInvoices(g)
                         /\ InvoicesOf(g)' \subseteq InvoicesOf(g) /\ Payments(g)' = Payments(g)
      /\ \A g \in Fees \ {f} : InvoicesOf(g)' = InvoicesOf(g)
  BY <1>1, <1>2 DEF IntentsOf, InvoicesOf, LiveInvoices, Payments, NoObject
<1>5. ObjectsHaveFees' /\ OneAttempt'
  BY <1>1, <1>2, <1>4 DEF ObjectsHaveFees, OneAttempt, NoObject
<1>6. KeysRemember'
  <2>1. \A g \in Fees : \A v \in InvoicesOf(g)' : invoice'[v] = invoice[v]
    BY <1>2 DEF InvoicesOf, NoObject
  <2> SUFFICES ASSUME NEW g \in Fees
               PROVE  /\ \A i \in IntentsOf(g) : ~intent[i].seen =>
                           key'[g].charge \in {"succeeded", "processing"}
                      /\ \A v \in InvoicesOf(g)' : ~invoice[v].seen =>
                           key'[g].charge = "declined" /\ key'[g].invoice = v
                      /\ key'[g].charge = "declined" => IntentsOf(g) = {}
                      /\ key'[g].charge = "succeeded" =>
                           \E i \in IntentsOf(g) : intent[i].status = "succeeded"
                      /\ key'[g].invoice # None => key'[g].invoice \in InvoicesOf(g)'
    BY <1>1, <1>4, <2>1 DEF KeysRemember
  <2> QED BY <1>1, <1>4 DEF KeysRemember, AllSeen
<1>7. RunKnows'
  BY <1>1 DEF RunKnows, Calls
<1>8. PaidIsCollected' /\ PausedCanPay'
  BY <1>1, <1>4, StaysRecorded DEF ledger
<1> QED BY <1>3, <1>5, <1>6, <1>7, <1>8

LEMMA PaymentEventInv ==
  ASSUME ChargeInv, TypeOK', NEW f \in Fees, PaymentEvent(f) PROVE ChargeInv'
<1>1. Payments(f) # {} /\ UNCHANGED <<run, stripe>> /\ fee' = [fee EXCEPT ![f].status = "Paid"]
  BY DEF PaymentEvent, RelayMarkReferralFeePaid
<1>2. UNCHANGED stripe
  BY <1>1
<1>3. ChargeTypeOK'
  BY <1>1 DEF ChargeInv, ChargeTypeOK, run, stripe
<1>4. RunKnows'
  BY <1>1 DEF ChargeInv, RunKnows, run, stripe, IntentsOf, InvoicesOf, LiveInvoices, Payments
<1>5. \A g \in Fees : /\ fee'[g].status = "Paid" => fee[g].status = "Paid" \/ g = f
                      /\ fee'[g].status = "PaymentFailed" => fee[g].status = "PaymentFailed"
  BY <1>1 DEF ChargeInv, ChargeTypeOK, TypeOK, Fee
<1> QED BY <1>1, <1>2, <1>3, <1>4, <1>5, QuietStep

-----------------------------------------------------------------------------
LEMMA NextCharge == Inv /\ Inv' /\ ChargeInv /\ [Next]_vars => ChargeInv'
<1> SUFFICES ASSUME Inv, Inv', ChargeInv, [Next]_vars PROVE ChargeInv'
  OBVIOUS
<1>1. TypeOK'
  BY DEF Inv
<1>2. CASE Others /\ UNCHANGED <<run, stripe>>
  BY <1>1, <1>2, OthersInv
<1>3. CASE RunStep
  BY <1>1, <1>3, BetweenFeesInv, PickFeeInv, SearchIntentsInv, SearchInvoicesInv, ChargeReplayedInv,
     MarkInv, NewChargeInv, CreateInvoiceInv, FinalizeInvoiceInv DEF RunStep
<1>4. CASE StripeStep
  BY <1>1, <1>4, IntentInv, InvoiceInv, ChargeKeyInv, InvoiceKeyInv, PaymentEventInv DEF StripeStep
<1>5. CASE UNCHANGED vars
  <2>1. UNCHANGED <<fee, run>> /\ UNCHANGED stripe
    BY <1>5 DEF vars, ledger
  <2>2. ChargeTypeOK'
    BY <1>1, <2>1 DEF ChargeInv, ChargeTypeOK, run, stripe
  <2>3. RunKnows'
    BY <2>1 DEF ChargeInv, RunKnows, run, stripe, IntentsOf, InvoicesOf, LiveInvoices, Payments
  <2> QED BY <2>1, <2>2, <2>3, QuietStep
<1> QED BY <1>2, <1>3, <1>4, <1>5 DEF Next

LEMMA SafeSpecInv == SafeSpec => []ChargeInv
<1>1. Init => Inv
  BY InitInv DEF Init
<1>2. Inv /\ ChargeInv /\ [Next]_vars => Inv'
  BY StepOfLedger, NextInv DEF ChargeInv
<1>3. Inv /\ ChargeInv /\ [Next]_vars => ChargeInv'
  BY <1>2, NextCharge
<1> QED BY <1>1, <1>2, <1>3, InitCharge, PTL DEF SafeSpec

(* The charge run, Stripe and their failures only do to the ledger what the
   ledger allows, so what is proved of the ledger holds of the composition. *)
THEOREM ImplementsLedger == SafeSpec => LedgerSpec
<1>1. Init => LedgerInit
  BY DEF Init
<1>2. ChargeInv /\ [Next]_vars => [LedgerNext]_ledger
  BY StepOfLedger DEF ChargeInv
<1> QED BY <1>1, <1>2, SafeSpecInv, PTL DEF SafeSpec, LedgerSpec

(* referralFees.ts: whatever call fails, loses its answer or is cut off, a
   contractor pays a fee once. *)
THEOREM ChargedOnce == Spec => []CollectedOnce
<1>1. ChargeInv => CollectedOnce
  BY DEF ChargeInv, OneAttempt, CollectedOnce, Payments, LiveInvoices
<1> QED BY <1>1, SafeSpecInv, PTL DEF Spec

(* A fee is recorded as paid only when the money has come in. *)
THEOREM PaidMeansCollected == Spec => []PaidIsCollected
<1>1. ChargeInv => PaidIsCollected
  BY DEF ChargeInv
<1> QED BY <1>1, SafeSpecInv, PTL DEF Spec

(* A contractor whose payment has failed has an invoice to pay. *)
THEOREM PausedHasInvoice == Spec => []PausedCanPay
<1>1. ChargeInv => PausedCanPay
  BY DEF ChargeInv
<1> QED BY <1>1, SafeSpecInv, PTL DEF Spec
=============================================================================
