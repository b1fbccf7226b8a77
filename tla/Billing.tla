------------------------------ MODULE Billing ------------------------------
(***************************************************************************)
(* Plans, gifts and agent credits: Stripe, the webhook and the success     *)
(* pages of the voice Worker (agents/voice/src/index.ts, rateLimiter.ts)   *)
(* and the payment canister (backend/payment/main.mo).                     *)
(* Stripe is external: it keeps the subscriptions, and delivers an event   *)
(* again, in any order and to several isolates at once, until it has been  *)
(* answered with success.  A delivery looks for the event's done marker,   *)
(* claims it, calls the canister and records it as done; every call may    *)
(* fail, be carried out without its answer, or be the Worker's last.       *)
(* A subscription, a gift, an ICP payment and the handoff year last one    *)
(* Period.  There is one paid tier, as every principal has one role.  The  *)
(* 12 months a credit lasts are left out.                                  *)
(***************************************************************************)
EXTENDS Naturals, FiniteSets

CONSTANTS
  Users,      \* principals
  Subs,       \* Stripe subscriptions
  Packs,      \* checkout sessions of credit packs
  Gifts,      \* checkout sessions of gifts
  Homes,      \* properties handed over at closing
  Deliveries, \* webhook requests under way
  PackSize,   \* credits in a pack
  Period,     \* how long a plan is paid for
  Horizon,    \* the last moment looked at
  MaxBought,  \* periods a user buys besides, before paying with ICP
  MaxEvents,  \* events Stripe has in all
  None

ASSUME SizesAreNatural == PackSize \in Nat /\ Period \in Nat \ {0} /\ Horizon \in Nat /\ MaxBought \in Nat /\ MaxEvents \in Nat
ASSUME NoneIsApart == None \notin Users \cup Subs \cup Packs \cup Gifts
ASSUME RefsDiffer == Subs \cap Packs = {}

VARIABLES
  clock,
  sub,       \* Stripe: who pays, until when, and whether the last charge worked
  events,    \* Stripe: events without a successful answer
  pack,      \* Stripe: who has paid for a pack
  gift,      \* a gift: paid at Stripe, registered, redeemed by someone
  done,      \* Worker: whevt:<event>:done
  busy,      \* Worker: whevt:<event>:busy
  delivery,  \* Worker: webhook requests
  page,      \* Worker: the verify request of a user, holding what it has read
  plan,      \* canister: subscriptions
  consumed,  \* canister: consumedStripeRefs
  credits,   \* canister: agentCreditBalances
  handoff,   \* canister: handoffGrantsByBuyer, handoffGrantsByProperty
  buying,    \* canister: activeSubscribers, callers waiting for the ledger
  granted,   \* ghost: how often a pack was granted
  spent,     \* ghost: credits used
  bought     \* ghost: periods a user got by gift, handoff or ICP

stripe == <<sub, events, pack>>
once == <<done, busy>>
worker == <<once, delivery, page>>
canister == <<plan, consumed, credits, gift, handoff, buying, granted, spent, bought>>
vars == <<clock, stripe, worker, canister>>

Times == 0..(Horizon + Period)
Ends == Period..(Horizon + Period)
Event(kind, of, end) == [kind |-> kind, of |-> of, end |-> end]
Events ==
  [kind : {"paid", "updated", "failed", "ended"}, of : Subs, end : Ends]
    \cup [kind : {"feeFailed"}, of : Users, end : {0}]
    \cup [kind : {"credits"}, of : Packs, end : {0}] \cup [kind : {"gift"}, of : Gifts, end : {0}]
NoEvent == Event("none", None, 0)

Init ==
  /\ clock = 0
  /\ sub = [s \in Subs |-> [owner |-> None, status |-> "none", end |-> 0]]
  /\ events = {} /\ pack = [k \in Packs |-> None]
  /\ gift = [g \in Gifts |-> [state |-> "none", by |-> None]]
  /\ done = {} /\ busy = {}
  /\ delivery = [d \in Deliveries |-> [pc |-> "idle", event |-> NoEvent, end |-> 0]]
  /\ page = [u \in Users |-> [sub |-> None, end |-> 0]]
  /\ plan = [u \in Users |-> [tier |-> "Free", until |-> 0]]
  /\ consumed = {} /\ credits = [u \in Users |-> 0]
  /\ handoff = [buyers |-> {}, homes |-> [h \in Homes |-> None]]
  /\ buying = {}
  /\ granted = [k \in Packs |-> 0] /\ spent = [u \in Users |-> 0]
  /\ bought = [u \in Users |-> 0]

-----------------------------------------------------------------------------
(* Stripe. *)
PassTime ==
  /\ clock < Horizon /\ clock' = clock + 1
  /\ UNCHANGED <<stripe, worker, canister>>

Emits(new) ==
  /\ new \cap (events \cup done) = {}
  /\ Cardinality(events \cup done \cup new) <= MaxEvents
  /\ events' = events \cup new

(* The first period, or the next one when the last is over. *)
ChargeSucceeds(s, u) ==
  /\ \/ sub[s].status = "none"
     \/ sub[s].status \in {"active", "past_due"} /\ sub[s].owner = u /\ sub[s].end <= clock
  /\ sub' = [sub EXCEPT ![s] = [owner |-> u, status |-> "active", end |-> clock + Period]]
  /\ Emits({Event("paid", s, clock + Period), Event("updated", s, clock + Period)})
  /\ UNCHANGED <<clock, pack, worker, canister>>

ChargeFails(s) ==
  /\ sub[s].status = "active" /\ sub[s].end <= clock
  /\ sub' = [sub EXCEPT ![s].status = "past_due"]
  /\ Emits({Event("failed", s, sub[s].end)})
  /\ UNCHANGED <<clock, pack, worker, canister>>

(* Cancelled at the end of the period, or given up after failed charges. *)
SubscriptionEnds(s) ==
  /\ sub[s].status \in {"active", "past_due"} /\ sub[s].end <= clock
  /\ sub' = [sub EXCEPT ![s].status = "canceled"]
  /\ Emits({Event("ended", s, sub[s].end)})
  /\ UNCHANGED <<clock, pack, worker, canister>>

(* A contractor's referral-fee invoice is not paid. *)
FeeInvoiceFails(u) ==
  /\ Emits({Event("feeFailed", u, 0)})
  /\ UNCHANGED <<clock, sub, pack, worker, canister>>

PayForPack(k, u) ==
  /\ pack[k] = None
  /\ pack' = [pack EXCEPT ![k] = u]
  /\ Emits({Event("credits", k, 0)})
  /\ UNCHANGED <<clock, sub, worker, canister>>

PayForGift(g) ==
  /\ gift[g].state = "none"
  /\ gift' = [gift EXCEPT ![g].state = "paid"]
  /\ Emits({Event("gift", g, 0)})
  /\ UNCHANGED <<clock, sub, pack, worker, plan, consumed, credits, handoff, buying,
                 granted, spent, bought>>

-----------------------------------------------------------------------------
(* The payment canister. *)
(* adminActivateStripeSubscription, Free for 0 months. *)
Downgrade(u) ==
  /\ plan' = [plan EXCEPT ![u] = [tier |-> "Free", until |-> clock]]
  /\ UNCHANGED <<consumed, credits, gift, handoff, buying, granted, spent, bought>>

(* mutant of PaidUntil: the period counts from the call *)
PaidUntilFromNow(u, end) == clock + Period

(* mutant of PaidUntil: what runs is not looked at *)
PaidUntilAsTold(u, end) == end

(* A plan that runs longer, such as a gift, is not shortened. *)
PaidUntil(u, end) ==
  IF plan[u].tier = "Pro" /\ plan[u].until > end THEN plan[u].until ELSE end

(* stripeActivateSubscription: once per subscription and period. *)
Activate(u, s, end) ==
  /\ IF <<s, end>> \in consumed THEN UNCHANGED <<plan, consumed>>
     ELSE /\ consumed' = consumed \cup {<<s, end>>}
          /\ plan' = [plan EXCEPT ![u] = [tier |-> "Pro", until |-> PaidUntil(u, end)]]
  /\ UNCHANGED <<credits, gift, handoff, buying, granted, spent, bought>>

(* mutant of IsGranted: the Stripe reference is not looked up *)
IsGrantedNever(k) == FALSE

IsGranted(k) == <<k, 0>> \in consumed

(* stripeGrantAgentCredits: once per checkout session. *)
GrantCredits(k) ==
  /\ IF IsGranted(k) THEN UNCHANGED <<credits, consumed, granted>>
     ELSE /\ consumed' = consumed \cup {<<k, 0>>}
          /\ credits' = [credits EXCEPT ![pack[k]] = @ + PackSize]
          /\ granted' = [granted EXCEPT ![k] = @ + 1]
  /\ UNCHANGED <<plan, gift, handoff, buying, spent, bought>>

(* mutant of RecordGift: a gift on record is written again *)
RecordGiftAfresh(g) ==
  /\ gift' = [gift EXCEPT ![g] = [state |-> "registered", by |-> None]]
  /\ UNCHANGED <<plan, consumed, credits, handoff, buying, granted, spent, bought>>

(* stripeRecordGift: a gift on record is never overwritten. *)
RecordGift(g) ==
  /\ IF gift[g].state = "paid" THEN gift' = [gift EXCEPT ![g].state = "registered"]
     ELSE UNCHANGED gift
  /\ UNCHANGED <<plan, consumed, credits, handoff, buying, granted, spent, bought>>

(* redeemGift: a plan that runs is extended. *)
RedeemGift(u, g) ==
  /\ gift[g].state = "registered"
  /\ LET runs == plan[u].tier = "Pro" /\ plan[u].until > clock IN
     plan' = [plan EXCEPT ![u] = [tier |-> "Pro",
                                  until |-> (IF runs THEN plan[u].until ELSE clock) + Period]]
  /\ gift' = [gift EXCEPT ![g] = [state |-> "redeemed", by |-> u]]
  /\ bought' = [bought EXCEPT ![u] = @ + 1]
  /\ UNCHANGED <<clock, stripe, worker, consumed, credits, handoff, buying, granted, spent>>

(* grantHandoffYear: once per buyer, once a year per home, and only to a buyer
   without a paid plan. *)
GrantHandoffYear(u, h) ==
  /\ u \notin handoff.buyers /\ \A t \in 0..clock : handoff.homes[h] = t => clock - t >= Period
  /\ ~(plan[u].tier = "Pro" /\ plan[u].until > clock)
  /\ plan' = [plan EXCEPT ![u] = [tier |-> "Pro", until |-> clock + Period]]
  /\ handoff' = [buyers |-> handoff.buyers \cup {u},
                 homes |-> [handoff.homes EXCEPT ![h] = clock]]
  /\ bought' = [bought EXCEPT ![u] = @ + 1]
  /\ UNCHANGED <<clock, stripe, worker, consumed, credits, gift, buying, granted, spent>>

(* subscribe, paid with ICP: one call of a caller at a time waits for the
   exchange rate and the ledger ... *)
Subscribe(u) ==
  /\ u \notin buying /\ bought[u] < MaxBought
  /\ buying' = buying \cup {u}
  /\ UNCHANGED <<clock, stripe, worker, plan, consumed, credits, gift, handoff,
                 granted, spent, bought>>

(* ... and a payment starts a new period, whatever runs by then. *)
LedgerAnswers(u, paid) ==
  /\ u \in buying
  /\ buying' = buying \ {u}
  /\ IF paid
     THEN /\ plan' = [plan EXCEPT ![u] = [tier |-> "Pro", until |-> clock + Period]]
          /\ bought' = [bought EXCEPT ![u] = @ + 1]
     ELSE UNCHANGED <<plan, bought>>
  /\ UNCHANGED <<clock, stripe, worker, consumed, credits, gift, handoff, granted, spent>>

(* consumeAgentCredit, when the plan's own calls are used up. *)
ConsumeAgentCredit(u) ==
  /\ credits[u] > 0
  /\ credits' = [credits EXCEPT ![u] = @ - 1] /\ spent' = [spent EXCEPT ![u] = @ + 1]
  /\ UNCHANGED <<clock, stripe, worker, plan, consumed, gift, handoff, buying, granted, bought>>

-----------------------------------------------------------------------------
(* The Worker: webhook deliveries. *)
Idle == [pc |-> "idle", event |-> NoEvent, end |-> 0]

(* Stripe delivers; beginOnce looks for the done marker. *)
Deliver(d, e) ==
  /\ e \in events /\ delivery[d].pc = "idle"
  /\ IF e \in done
     THEN events' = events \ {e} /\ UNCHANGED delivery
     ELSE /\ delivery' = [delivery EXCEPT ![d] = [pc |-> "claim", event |-> e, end |-> 0]]
          /\ UNCHANGED events
  /\ UNCHANGED <<clock, sub, pack, canister, once, page>>

(* beginOnce: busy is claimed, or Stripe has to come again. *)
Claim(d) ==
  LET e == delivery[d].event IN
  /\ delivery[d].pc = "claim"
  /\ IF e \in busy
     THEN delivery' = [delivery EXCEPT ![d] = Idle] /\ UNCHANGED busy
     ELSE delivery' = [delivery EXCEPT ![d].pc = "handle"] /\ busy' = busy \cup {e}
  /\ UNCHANGED <<clock, stripe, canister, done, page>>

(* Whose plan an event is about. *)
Payer(e) == IF e.kind = "feeFailed" THEN e.of ELSE sub[e.of].owner

(* invoice.paid: the subscription is read from Stripe first; one that is no
   longer active changes nothing. *)
ReadSubscription(d) ==
  LET e == delivery[d].event IN
  /\ delivery[d].pc = "handle" /\ e.kind = "paid"
  /\ delivery' = [delivery EXCEPT ![d] =
       IF sub[e.of].status = "active" THEN [@ EXCEPT !.pc = "activate", !.end = sub[e.of].end]
       ELSE [@ EXCEPT !.pc = "finish"]]
  /\ UNCHANGED <<clock, stripe, canister, once, page>>

(* The call an event makes, which moves the payment canister. *)
Effect(d) ==
  LET e == delivery[d].event  pc == delivery[d].pc IN
  \/ pc = "handle" /\ e.kind \in {"failed", "ended", "feeFailed"} /\ Downgrade(Payer(e))
  \/ pc = "handle" /\ e.kind = "updated" /\ e.end > clock /\ Activate(Payer(e), e.of, e.end)
  \/ pc = "activate" /\ delivery[d].end > clock /\ Activate(Payer(e), e.of, delivery[d].end)
  \/ pc = "handle" /\ e.kind = "credits" /\ GrantCredits(e.of)
  \/ pc = "handle" /\ e.kind = "gift" /\ RecordGift(e.of)

Succeeds(d) ==
  /\ Effect(d)
  /\ delivery' = [delivery EXCEPT ![d].pc = "finish"]
  /\ UNCHANGED <<clock, stripe, once, page>>

(* mutant of Fails: a failed event is marked as done, too *)
FailsForGood(d) ==
  /\ delivery[d].pc \in {"handle", "activate"}
  /\ delivery' = [delivery EXCEPT ![d].pc = "finish"]
  /\ UNCHANGED <<clock, stripe, canister, once, page>>

(* The call fails, or its answer is lost: abortOnce, and Stripe comes again. *)
Fails(d) ==
  /\ delivery[d].pc \in {"handle", "activate"}
  /\ busy' = busy \ {delivery[d].event}
  /\ delivery' = [delivery EXCEPT ![d] = Idle]
  /\ (Effect(d) \/ UNCHANGED canister)
  /\ UNCHANGED <<clock, stripe, done, page>>

(* finishOnce, and the answer to Stripe, which may not arrive. *)
Finish(d) ==
  LET e == delivery[d].event IN
  /\ delivery[d].pc = "finish"
  /\ done' = done \cup {e} /\ busy' = busy \ {e}
  /\ delivery' = [delivery EXCEPT ![d] = Idle]
  /\ (events' = events \ {e} \/ UNCHANGED events)
  /\ UNCHANGED <<clock, sub, pack, canister, page>>

(* The isolate dies; the call may still be carried out.  Its claim lapses. *)
Die(d) ==
  /\ delivery[d].pc # "idle"
  /\ delivery' = [delivery EXCEPT ![d] = Idle]
  /\ (Effect(d) \/ UNCHANGED canister)
  /\ UNCHANGED <<clock, stripe, once, page>>

(* mutant of ClaimLapses: a claim is held until it is released *)
ClaimStays(e) == FALSE /\ UNCHANGED vars

ClaimLapses(e) ==
  /\ e \in busy /\ \A d \in Deliveries : delivery[d].event = e => delivery[d].pc = "claim"
  /\ busy' = busy \ {e}
  /\ UNCHANGED <<clock, stripe, canister, done, delivery, page>>

(* The success pages: verify-session, verify-subscription, and credit packs. *)
VerifyRead(u, s) ==
  /\ page[u].sub = None /\ sub[s].owner = u /\ sub[s].status = "active"
  /\ page' = [page EXCEPT ![u] = [sub |-> s, end |-> sub[s].end]]
  /\ UNCHANGED <<clock, stripe, canister, once, delivery>>

VerifyActivate(u) ==
  /\ page[u].sub # None
  /\ IF page[u].end > clock THEN Activate(u, page[u].sub, page[u].end) ELSE UNCHANGED canister
  /\ page' = [page EXCEPT ![u] = [sub |-> None, end |-> 0]]
  /\ UNCHANGED <<clock, stripe, once, delivery>>

VerifyCredits(u, k) ==
  /\ pack[k] = u
  /\ GrantCredits(k)
  /\ UNCHANGED <<clock, stripe, worker>>

VerifyGift(g) ==
  /\ gift[g].state # "none"
  /\ RecordGift(g)
  /\ UNCHANGED <<clock, stripe, worker>>

-----------------------------------------------------------------------------
Steps(d) == Claim(d) \/ ReadSubscription(d) \/ Succeeds(d) \/ Fails(d) \/ Finish(d)

Next ==
  \/ PassTime
  \/ \E s \in Subs : \/ ChargeFails(s) \/ SubscriptionEnds(s)
                     \/ \E u \in Users : ChargeSucceeds(s, u) \/ VerifyRead(u, s)
  \/ \E u \in Users : \/ FeeInvoiceFails(u) \/ Subscribe(u) \/ ConsumeAgentCredit(u)
                      \/ \E paid \in BOOLEAN : LedgerAnswers(u, paid)
                      \/ VerifyActivate(u)
                      \/ \E k \in Packs : PayForPack(k, u) \/ VerifyCredits(u, k)
                      \/ \E g \in Gifts : RedeemGift(u, g)
                      \/ \E h \in Homes : GrantHandoffYear(u, h)
  \/ \E g \in Gifts : PayForGift(g) \/ VerifyGift(g)
  \/ \E d \in Deliveries : Steps(d) \/ Die(d) \/ \E e \in Events : Deliver(d, e)
  \/ \E e \in Events : ClaimLapses(e)

(* Stripe delivers an event again and again until it is answered (for three
   days, taken as long enough), an isolate that runs goes on or dies, a claim
   lapses, and a call is carried out when it is repeated often enough.  What
   is stated below needs it for these events only. *)
Awaited == {e \in Events : e.kind \in {"updated", "credits"}}
Fairness ==
  /\ \A d \in Deliveries : WF_vars(Steps(d))
  /\ \A e \in Awaited : /\ WF_vars(ClaimLapses(e))
                        /\ SF_vars(\E d \in Deliveries : Deliver(d, e))
                        /\ SF_vars(\E d \in Deliveries : delivery[d].event = e /\ Claim(d))
                        /\ SF_vars(\E d \in Deliveries : delivery[d].event = e /\ Succeeds(d))

Spec == Init /\ [][Next]_vars /\ Fairness

-----------------------------------------------------------------------------
TypeOK ==
  /\ clock \in 0..Horizon
  /\ sub \in [Subs -> [owner : Users \cup {None}, end : Times,
                       status : {"none", "active", "past_due", "canceled"}]]
  /\ events \subseteq Events /\ pack \in [Packs -> Users \cup {None}]
  /\ gift \in [Gifts -> [state : {"none", "paid", "registered", "redeemed"},
                         by : Users \cup {None}]]
  /\ done \subseteq Events /\ busy \subseteq Events
  /\ delivery \in [Deliveries -> [pc : {"idle", "claim", "handle", "activate", "finish"},
                                  event : Events \cup {NoEvent}, end : Times]]
  /\ page \in [Users -> [sub : Subs \cup {None}, end : Times]]
  /\ plan \in [Users -> [tier : {"Free", "Pro"}, until : Nat]]
  /\ consumed \subseteq (Subs \X Times) \cup (Packs \X {0})
  /\ credits \in [Users -> Nat] /\ spent \in [Users -> Nat] /\ granted \in [Packs -> Nat]
  /\ handoff \in [buyers : SUBSET Users, homes : [Homes -> (0..Horizon) \cup {None}]]
  /\ buying \subseteq Users /\ bought \in [Users -> Nat]

(* However often, on whatever path and with whatever answers lost an event or
   a success page asks for it, a pack that was paid for is granted once, and a
   user has no credits but those. *)
CreditsOnce ==
  /\ \A k \in Packs : granted[k] <= (IF pack[k] = None THEN 0 ELSE 1)
  /\ \A u \in Users : credits[u] + spent[u]
       = PackSize * Cardinality({k \in Packs : pack[k] = u /\ granted[k] > 0})

(* Replays "can never extend access beyond what Stripe says": a plan runs no
   longer than the last period Stripe charged for, and what was bought besides. *)
WithinPaid ==
  \A u \in Users : plan[u].tier = "Pro" =>
    \E t \in {clock} \cup {sub[s].end : s \in {x \in Subs : sub[x].owner = u}} :
      plan[u].until <= t + Period * bought[u]

(* Stripe has an event about u that takes a plan away. *)
FailureTold(u) ==
  \E e \in events \cup done : e.kind \in {"failed", "ended", "feeFailed"} /\ Payer(e) = u

(* The answer of the ledger starts a plan anew and may cut one; nothing else
   shortens a plan that runs, unless Stripe has told of a failure. *)
KeepsPaidTime(u) ==
  (/\ plan[u].tier = "Pro" /\ plan[u].until > clock
   /\ u \notin buying \ buying' /\ ~FailureTold(u))
    => plan'[u].tier = "Pro" /\ plan'[u].until >= plan[u].until

(* Late and repeated events, and success pages that read Stripe before a
   renewal or a gift, neither lengthen a plan beyond what was paid for nor cut
   one that runs. *)
PlansAreAsPaid == [][WithinPaid' /\ \A u \in Users : KeepsPaidTime(u)]_vars

(* A gift is redeemed once: no replay of its registration gives it out again. *)
GiftsAreRedeemedOnce ==
  [][\A g \in Gifts : gift[g].state = "redeemed" => gift'[g] = gift[g]]_vars

(* A period Stripe has charged for reaches the canister, unless it is over or
   the subscription has ended before. *)
PeriodsAreActivated ==
  \A s \in Subs, e \in Ends :
    (sub[s].status = "active" /\ sub[s].end = e)
      ~> (<<s, e>> \in consumed \/ clock >= e \/ sub[s].status # "active")

(* A credit pack that was paid for is granted at last. *)
PacksAreGranted == \A k \in Packs : pack[k] # None ~> granted[k] > 0
=============================================================================
