--------------------------- MODULE ReferralCharge ---------------------------
(***************************************************************************)
(* Collecting the referral fees: the hourly charge run of the voice Worker *)
(* (agents/voice/src/referralFees.ts) between the ledger of the fee        *)
(* canister and Stripe.  The run takes the due fees and handles one after  *)
(* the other; every call it makes is a step of its own, may fail, may be   *)
(* carried out and lose its answer, and the run may be cut off anywhere.   *)
(* Runs do not overlap: they start hourly and are limited to minutes.      *)
(* Stripe and its webhooks are external: payment intents, invoices, a      *)
(* search that sees an object only some time after it was made, and an     *)
(* idempotency key that replays the first answer until it is forgotten.    *)
(***************************************************************************)
EXTENDS ReferralLedger

CONSTANTS
  Intents,   \* ids of payment intents that are under way or succeeded
  Invoices   \* ids of invoices

VARIABLES
  pc,      \* where the run stands; "idle" between two runs
  todo,    \* the due fees the run has still to handle
  at,      \* the fee in hand
  held,    \* the invoice in hand
  intent,  \* Stripe's payment intents
  invoice, \* Stripe's invoices
  key      \* what Stripe remembers for the keys rf-<fee> and rf-inv-<fee>

run == <<pc, todo, at, held>>
stripe == <<intent, invoice, key>>
vars == <<ledger, run, stripe>>

Answers == {"succeeded", "processing", "declined"}
Calls == {"search", "searchInvoices", "charge", "invoice", "finalize", "markPaid", "markFailed"}

ASSUME NoneIsNoObject == None \notin Fees \cup Invoices \cup Answers

ChargeTypeOK ==
  /\ TypeOK
  /\ pc \in {"idle", "pick"} \cup Calls
  /\ todo \in SUBSET Fees
  /\ at \in Fees \cup {None}
  /\ held \in Invoices \cup {None}
  /\ intent \in [Intents -> [status : {"none", "processing", "succeeded"},
                             fee : Fees \cup {None}, seen : BOOLEAN]]
  /\ invoice \in [Invoices -> [status : {"none", "draft", "open", "paid"},
                               fee : Fees \cup {None}, seen : BOOLEAN]]
  /\ key \in [Fees -> [charge : Answers \cup {None}, invoice : Invoices \cup {None}]]

NoObject == [status |-> "none", fee |-> None, seen |-> FALSE]
NoKey == [charge |-> None, invoice |-> None]

Init ==
  /\ LedgerInit
  /\ pc = "idle" /\ todo = {} /\ at = None /\ held = None
  /\ intent = [i \in Intents |-> NoObject]
  /\ invoice = [v \in Invoices |-> NoObject]
  /\ key = [f \in Fees |-> NoKey]

IntentsOf(f) == {i \in Intents : intent[i].fee = f}
InvoicesOf(f) == {v \in Invoices : invoice[v].fee = f}
Payments(f) ==
  {i \in IntentsOf(f) : intent[i].status = "succeeded"}
    \cup {v \in InvoicesOf(f) : invoice[v].status = "paid"}
AllSeen(f) == (\A i \in IntentsOf(f) : intent[i].seen) /\ (\A v \in InvoicesOf(f) : invoice[v].seen)

-----------------------------------------------------------------------------
(* The charge run. *)
BeginRun ==
  /\ pc = "idle"
  /\ TakeDueReferralFees
  /\ todo' = DueFees(FallenBack) /\ pc' = "pick"
  /\ UNCHANGED <<at, held, stripe>>

PickFee(f) ==
  /\ pc = "pick" /\ f \in todo
  /\ at' = f /\ todo' = todo \ {f} /\ pc' = "search"
  /\ UNCHANGED <<ledger, held, stripe>>

(* What the search finds: only what its index has seen. *)
FoundIntent(status) == \E i \in IntentsOf(at) : intent[i].status = status /\ intent[i].seen
FoundInvoices(status) == {v \in InvoicesOf(at) : invoice[v].status = status /\ invoice[v].seen}

(* mutant of SearchIntents: what is still processing is not noticed *)
SearchIntentsSettled ==
  /\ pc = "search"
  /\ pc' = IF FoundIntent("succeeded") THEN "markPaid" ELSE "searchInvoices"
  /\ UNCHANGED <<ledger, todo, at, held, stripe>>

(* mutant of SearchIntents: an intent under way is taken for paid *)
SearchIntentsHasty ==
  /\ pc = "search"
  /\ pc' = IF FoundIntent("succeeded") \/ FoundIntent("processing") THEN "markPaid"
           ELSE "searchInvoices"
  /\ UNCHANGED <<ledger, todo, at, held, stripe>>

(* priorAttempt: a charge that succeeded is recorded, one that is under way is
   left for the next run. *)
SearchIntents ==
  /\ pc = "search"
  /\ pc' = CASE FoundIntent("succeeded")  -> "markPaid"
             [] ~FoundIntent("succeeded") /\ FoundIntent("processing") -> "pick"
             [] OTHER -> "searchInvoices"
  /\ UNCHANGED <<ledger, todo, at, held, stripe>>

(* mutant of SearchInvoices: an open invoice is left for the next run, too *)
SearchInvoicesSkipping ==
  /\ pc = "searchInvoices"
  /\ pc' = IF FoundInvoices("paid") # {} THEN "markPaid"
           ELSE IF FoundInvoices("open") # {} THEN "pick" ELSE "charge"
  /\ UNCHANGED <<ledger, todo, at, held, stripe>>

SearchInvoices ==
  /\ pc = "searchInvoices"
  /\ IF FoundInvoices("paid") # {} THEN pc' = "markPaid" /\ UNCHANGED held
     ELSE IF FoundInvoices("open") # {} THEN pc' = "markFailed" /\ held' \in FoundInvoices("open")
     ELSE pc' = "charge" /\ UNCHANGED held
  /\ UNCHANGED <<ledger, todo, at, stripe>>

AfterCharge(answer) ==
  CASE answer = "succeeded" -> "markPaid" [] answer = "processing" -> "pick" [] OTHER -> "invoice"

(* Stripe charges the card.  A declined intent concerns no later step and is
   dropped at once.  The client library sends the call again, with the same
   key, when the answer does not arrive. *)
NewCharge(answer) ==
  /\ pc = "charge" /\ key[at].charge = None
  /\ IF answer = "declined" THEN UNCHANGED intent
     ELSE \E i \in Intents : /\ intent[i].status = "none"
                             /\ intent' = [intent EXCEPT ![i] =
                                  [status |-> answer, fee |-> at, seen |-> FALSE]]
  /\ key' = [key EXCEPT ![at].charge = answer]
  /\ pc' \in {AfterCharge(answer), "charge"}
  /\ UNCHANGED <<ledger, todo, at, held, invoice>>

(* The key is known: Stripe gives its first answer again. *)
ChargeReplayed ==
  /\ pc = "charge" /\ key[at].charge # None
  /\ pc' = AfterCharge(key[at].charge)
  /\ UNCHANGED <<ledger, todo, at, held, stripe>>

(* The card was declined: an invoice, at first a draft. *)
CreateInvoice ==
  /\ pc = "invoice"
  /\ IF key[at].invoice # None
     THEN held' = key[at].invoice /\ UNCHANGED <<invoice, key>>
     ELSE \E v \in Invoices :
            /\ invoice[v].status = "none"
            /\ invoice' = [invoice EXCEPT ![v] = [status |-> "draft", fee |-> at, seen |-> FALSE]]
            /\ key' = [key EXCEPT ![at].invoice = v]
            /\ held' = v
  /\ pc' = "finalize"
  /\ UNCHANGED <<ledger, todo, at, intent>>

(* A draft is finalized and sent; what an earlier run finalized is left alone. *)
FinalizeInvoice ==
  /\ pc = "finalize" /\ pc' = "markFailed"
  /\ IF invoice[held].status = "draft"
     THEN invoice' = [invoice EXCEPT ![held].status = "open"]
     ELSE UNCHANGED invoice
  /\ UNCHANGED <<ledger, todo, at, held, intent, key>>

MarkPaid ==
  /\ pc = "markPaid" /\ pc' = "pick"
  /\ RelayMarkReferralFeePaid(at) \/ (~MayBePaid(at) /\ UNCHANGED ledger)
  /\ UNCHANGED <<todo, at, held, stripe>>

MarkFailed ==
  /\ pc = "markFailed" /\ pc' = "pick"
  /\ RelayMarkReferralFeeFailed(at) \/ (fee[at].status # "Due" /\ UNCHANGED ledger)
  /\ UNCHANGED <<todo, at, held, stripe>>

EndRun ==
  /\ pc = "pick" /\ todo = {}
  /\ pc' = "idle" /\ at' = None /\ held' = None
  /\ UNCHANGED <<ledger, todo, stripe>>

(* A call fails, or its answer is lost: on to the next fee. *)
CallFails ==
  /\ pc \in Calls /\ pc' = "pick"
  /\ UNCHANGED <<ledger, todo, at, held, stripe>>

RunIsCutOff ==
  /\ pc # "idle"
  /\ pc' = "idle" /\ todo' = {} /\ at' = None /\ held' = None
  /\ UNCHANGED <<ledger, stripe>>

-----------------------------------------------------------------------------
(* Stripe. *)
IntentSettles(i) ==
  /\ intent[i].status = "processing"
  /\ \/ intent' = [intent EXCEPT ![i].status = "succeeded"]
     \/ intent' = [intent EXCEPT ![i] = NoObject]   \* it failed
  /\ UNCHANGED <<ledger, run, invoice, key>>

ContractorPays(v) ==
  /\ invoice[v].status = "open"
  /\ invoice' = [invoice EXCEPT ![v].status = "paid"]
  /\ UNCHANGED <<ledger, run, intent, key>>

IntentIsIndexed(i) ==
  /\ intent[i].status # "none" /\ ~intent[i].seen
  /\ intent' = [intent EXCEPT ![i].seen = TRUE]
  /\ UNCHANGED <<ledger, run, invoice, key>>

InvoiceIsIndexed(v) ==
  /\ invoice[v].status # "none" /\ ~invoice[v].seen
  /\ invoice' = [invoice EXCEPT ![v].seen = TRUE]
  /\ UNCHANGED <<ledger, run, intent, key>>

(* Keys live for a day; the index is behind by minutes and a run lasts minutes,
   so a key outlives every search that could have missed what it made.  A
   draft that no key finds again is of no use and dropped. *)
ChargeKeyIsForgotten(f) ==
  /\ pc \in {"idle", "pick"} /\ key[f].charge # None /\ AllSeen(f)
  /\ key' = [key EXCEPT ![f].charge = None]
  /\ UNCHANGED <<ledger, run, intent, invoice>>

InvoiceKeyIsForgotten(f) ==
  /\ pc \in {"idle", "pick"} /\ key[f].invoice # None /\ AllSeen(f)
  /\ key' = [key EXCEPT ![f].invoice = None]
  /\ invoice' = [v \in Invoices |->
       IF v = key[f].invoice /\ invoice[v].status = "draft" THEN NoObject ELSE invoice[v]]
  /\ UNCHANGED <<ledger, run, intent>>

(* The webhooks: markPaymentIntentPaid and markInvoicePaid, repeated or late. *)
PaymentEvent(f) ==
  /\ Payments(f) # {}
  /\ RelayMarkReferralFeePaid(f)
  /\ UNCHANGED <<run, stripe>>

-----------------------------------------------------------------------------
RunStep ==
  \/ BeginRun \/ EndRun \/ SearchIntents \/ SearchInvoices \/ ChargeReplayed
  \/ CreateInvoice \/ FinalizeInvoice \/ MarkPaid \/ MarkFailed \/ CallFails \/ RunIsCutOff
  \/ \E f \in Fees : PickFee(f)
  \/ \E answer \in Answers : NewCharge(answer)

StripeStep ==
  \/ \E i \in Intents : IntentSettles(i) \/ IntentIsIndexed(i)
  \/ \E v \in Invoices : ContractorPays(v) \/ InvoiceIsIndexed(v)
  \/ \E f \in Fees : ChargeKeyIsForgotten(f) \/ InvoiceKeyIsForgotten(f) \/ PaymentEvent(f)

Next == (Others /\ UNCHANGED <<run, stripe>>) \/ RunStep \/ StripeStep

(* The card is accepted or declined, and the answer arrives. *)
CardAnswers ==
  \E answer \in {"succeeded", "declined"} : NewCharge(answer) /\ pc' = AfterCharge(answer)

(* The cron starts run after run; an outage of Stripe or of the canister ends,
   so a call that is made again and again succeeds at last, and a card that is
   charged again and again at last answers.  Stripe settles and
   indexes what it was given, forgets keys, and repeats the event of a paid
   invoice for three days, which is taken to be long enough. *)
Fairness ==
  /\ WF_vars(BeginRun) /\ WF_vars(EndRun)
  /\ \A f \in Fees : SF_vars(PickFee(f)) /\ SF_vars(ChargeKeyIsForgotten(f))
  /\ SF_vars(SearchIntents) /\ SF_vars(SearchInvoices)
  /\ SF_vars(CardAnswers) /\ SF_vars(ChargeReplayed)
  /\ SF_vars(CreateInvoice) /\ SF_vars(FinalizeInvoice) /\ SF_vars(MarkPaid) /\ SF_vars(MarkFailed)
  /\ \A i \in Intents : WF_vars(IntentSettles(i)) /\ WF_vars(IntentIsIndexed(i))
  /\ \A v \in Invoices : WF_vars(InvoiceIsIndexed(v))
  /\ \A f \in Fees : WF_vars(PaymentEvent(f) /\ fee[f].status = "PaymentFailed")

SafeSpec == Init /\ [][Next]_vars
Spec == SafeSpec /\ Fairness

-----------------------------------------------------------------------------
(* "the next run must find the earlier charge or invoice instead of charging
   again": whatever call fails, loses its answer or is cut off, a contractor
   pays a fee once, by card or by invoice. *)
CollectedOnce ==
  \A f \in Fees : \A x, y \in Payments(f) : x = y

(* A fee is recorded as paid only when the money has come in. *)
PaidIsCollected ==
  \A f \in Fees : fee[f].status = "Paid" => Payments(f) # {}

(* A failed payment pauses bidding after 30 days: the contractor then has an
   invoice that can be paid, and the search finds it or the key still does. *)
PausedCanPay ==
  \A f \in Fees : fee[f].status = "PaymentFailed" =>
    \E v \in InvoicesOf(f) : invoice[v].status \in {"open", "paid"}

(* A due fee does not stay due, for all the outages on the way. *)
DueIsSettled == \A f \in Fees : fee[f].status = "Due" ~> fee[f].status # "Due"

(* Money that has come in is recorded, unless an admin waives the fee. *)
CollectedIsRecorded ==
  \A f \in Fees : Payments(f) # {} ~> fee[f].status \in {"Paid", "Waived"}
=============================================================================
