---------------------------- MODULE BillingProofs ----------------------------
(***************************************************************************)
(* Proofs about Billing, for any number of users, subscriptions, packs,    *)
(* gifts, homes and deliveries, any sizes and any horizon.  What makes a   *)
(* pack's grant safe against every replay is in Granted: its reference is  *)
(* in consumedStripeRefs exactly when it has been granted.                 *)
(***************************************************************************)
EXTENDS Billing, FiniteSetTheorems, TLAPS

(* A delivery holds an event while it is under way, and a payment while it *)
(* activates one.                                                          *)
DeliveriesHoldEvents ==
  \A d \in Deliveries :
    /\ delivery[d].pc # "idle" => delivery[d].event \in Events
    /\ delivery[d].pc = "activate" => delivery[d].event.kind = "paid"

(* A subscription that was ever charged has a payer and an end to its period. *)
ChargedAreOwned ==
  \A s \in Subs : sub[s].status # "none" => sub[s].owner \in Users /\ sub[s].end \in Ends

TInv == TypeOK /\ DeliveriesHoldEvents /\ ChargedAreOwned

SubRecord == [owner : Users \cup {None}, end : Times,
              status : {"none", "active", "past_due", "canceled"}]
GiftRecord == [state : {"none", "paid", "registered", "redeemed"}, by : Users \cup {None}]

LEMMA EventTypes ==
  /\ \A e \in Events : /\ e.kind \in {"paid", "updated", "failed", "ended"} => e.of \in Subs /\ e.end \in Ends
                       /\ e.kind = "credits" => e.of \in Packs
                       /\ e.kind = "gift" => e.of \in Gifts
  /\ Ends \subseteq Times /\ Times \subseteq Nat
  /\ \A k \in {"paid", "updated", "failed", "ended"}, s \in Subs, t \in Ends : Event(k, s, t) \in Events
  /\ \A u \in Users : Event("feeFailed", u, 0) \in Events
  /\ \A k \in Packs : Event("credits", k, 0) \in Events
  /\ \A g \in Gifts : Event("gift", g, 0) \in Events
BY SizesAreNatural DEF Events, Event, Ends, Times

LEMMA TInit == Init => TInv
BY SizesAreNatural DEF Init, TInv, TypeOK, DeliveriesHoldEvents, ChargedAreOwned, Times, NoEvent, Event

-----------------------------------------------------------------------------
(* What the steps at Stripe leave to prove. *)
LEMMA StripeType ==
  ASSUME TInv, UNCHANGED <<worker, plan, consumed, credits, handoff, buying, granted, spent, bought>>,
         clock' \in 0..Horizon,
         sub' \in [Subs -> SubRecord], ChargedAreOwned',
         events' \subseteq Events, pack' \in [Packs -> Users \cup {None}],
         gift' \in [Gifts -> GiftRecord]
  PROVE  TInv'
BY DEF worker, once, TInv, TypeOK, DeliveriesHoldEvents, SubRecord, GiftRecord

LEMMA StripeInv ==
  ASSUME TInv,
         \/ PassTime
         \/ \E s \in Subs : ChargeFails(s) \/ SubscriptionEnds(s) \/ \E u \in Users : ChargeSucceeds(s, u)
         \/ \E u \in Users : FeeInvoiceFails(u) \/ \E k \in Packs : PayForPack(k, u)
         \/ \E g \in Gifts : PayForGift(g)
  PROVE  TInv'
<1> USE DEF stripe, canister
<1>1. /\ sub \in [Subs -> SubRecord] /\ gift \in [Gifts -> GiftRecord] /\ events \subseteq Events
      /\ pack \in [Packs -> Users \cup {None}] /\ clock \in 0..Horizon /\ ChargedAreOwned
  BY DEF TInv, TypeOK, SubRecord, GiftRecord
<1>2. CASE PassTime
  <2>1. clock' \in 0..Horizon
    BY <1>1, <1>2, SizesAreNatural DEF PassTime
  <2> QED BY <1>1, <1>2, <2>1, StripeType DEF PassTime, ChargedAreOwned
<1>3. ASSUME NEW s \in Subs, NEW u \in Users, ChargeSucceeds(s, u) PROVE TInv'
  <2>1. clock + Period \in Ends /\ clock + Period \in Times
    BY <1>1, SizesAreNatural DEF Ends, Times
  <2>2. /\ Event("paid", s, clock + Period) \in Events
        /\ Event("updated", s, clock + Period) \in Events
    BY <2>1, EventTypes
  <2>3. events' \subseteq Events
    BY <1>1, <1>3, <2>2 DEF ChargeSucceeds, Emits
  <2>4. sub' \in [Subs -> SubRecord] /\ ChargedAreOwned'
    BY <1>1, <1>3, <2>1 DEF ChargeSucceeds, SubRecord, ChargedAreOwned
  <2> QED BY <1>1, <1>3, <2>3, <2>4, StripeType DEF ChargeSucceeds
<1>4. ASSUME NEW s \in Subs, NEW kind \in {"failed", "ended"}, NEW state \in {"past_due", "canceled"},
             sub[s].status # "none", sub' = [sub EXCEPT ![s].status = state],
             Emits({Event(kind, s, sub[s].end)}), UNCHANGED <<clock, pack, worker, canister>>
      PROVE  TInv'
  <2>1. sub[s] \in SubRecord /\ sub[s].end \in Ends
    BY <1>1, <1>4 DEF ChargedAreOwned
  <2>2. Event(kind, s, sub[s].end) \in Events
    BY <2>1, EventTypes
  <2>3. events' \subseteq Events
    BY <1>1, <1>4, <2>2 DEF Emits
  <2>4. [sub[s] EXCEPT !.status = state] \in SubRecord
    BY <2>1 DEF SubRecord
  <2>5. sub' \in [Subs -> SubRecord] /\ ChargedAreOwned'
    BY <1>1, <1>4, <2>4 DEF ChargedAreOwned, SubRecord
  <2> QED BY <1>1, <1>4, <2>3, <2>5, StripeType
<1>5. ASSUME NEW u \in Users, FeeInvoiceFails(u) PROVE TInv'
  <2>1. events' \subseteq Events
    BY <1>1, <1>5, EventTypes DEF FeeInvoiceFails, Emits
  <2> QED BY <1>1, <1>5, <2>1, StripeType DEF FeeInvoiceFails, ChargedAreOwned
<1>6. ASSUME NEW u \in Users, NEW k \in Packs, PayForPack(k, u) PROVE TInv'
  <2>1. events' \subseteq Events /\ pack' \in [Packs -> Users \cup {None}]
    BY <1>1, <1>6, EventTypes DEF PayForPack, Emits
  <2> QED BY <1>1, <1>6, <2>1, StripeType DEF PayForPack, ChargedAreOwned
<1>7. ASSUME NEW g \in Gifts, PayForGift(g) PROVE TInv'
  <2>1. events' \subseteq Events
    BY <1>1, <1>7, EventTypes DEF PayForGift, Emits
  <2>2. [gift[g] EXCEPT !.state = "paid"] \in GiftRecord
    BY <1>1 DEF GiftRecord
  <2>3. gift' \in [Gifts -> GiftRecord]
    BY <1>1, <1>7, <2>2 DEF PayForGift
  <2> QED BY <1>1, <1>7, <2>1, <2>3, StripeType DEF PayForGift, ChargedAreOwned
<1> QED BY <1>2, <1>3, <1>4, <1>5, <1>6, <1>7 DEF ChargeFails, SubscriptionEnds

-----------------------------------------------------------------------------
(* The calls to the canister. *)
CanisterType ==
  /\ plan \in [Users -> [tier : {"Free", "Pro"}, until : Nat]]
  /\ consumed \subseteq (Subs \X Times) \cup (Packs \X {0})
  /\ credits \in [Users -> Nat] /\ spent \in [Users -> Nat] /\ granted \in [Packs -> Nat]
  /\ gift \in [Gifts -> GiftRecord]
  /\ handoff \in [buyers : SUBSET Users, homes : [Homes -> (0..Horizon) \cup {None}]]
  /\ buying \subseteq Users /\ bought \in [Users -> Nat]

LEMMA Canister == TypeOK => CanisterType /\ clock \in Nat
BY SizesAreNatural DEF TypeOK, CanisterType, GiftRecord

LEMMA DowngradeType ==
  ASSUME CanisterType, clock \in Nat, NEW u, Downgrade(u) PROVE CanisterType'
<1>1. [tier |-> "Free", until |-> clock] \in [tier : {"Free", "Pro"}, until : Nat]
  OBVIOUS
<1> QED BY <1>1 DEF CanisterType, Downgrade

LEMMA ActivateType ==
  ASSUME CanisterType, NEW u, NEW s \in Subs, NEW end \in Times, Activate(u, s, end)
  PROVE  CanisterType'
<1>1. plan' \in [Users -> [tier : {"Free", "Pro"}, until : Nat]]
  <2>1. CASE u \in Users
    <3>1. PaidUntil(u, end) \in Nat
      BY <2>1, EventTypes DEF PaidUntil, CanisterType
    <3>2. [tier |-> "Pro", until |-> PaidUntil(u, end)] \in [tier : {"Free", "Pro"}, until : Nat]
      BY <3>1
    <3> QED BY <3>2 DEF CanisterType, Activate
  <2>2. CASE u \notin Users
    BY <2>2 DEF CanisterType, Activate
  <2> QED BY <2>1, <2>2
<1>2. <<s, end>> \in Subs \X Times
  OBVIOUS
<1> QED BY <1>1, <1>2 DEF CanisterType, Activate

LEMMA GrantType ==
  ASSUME CanisterType, NEW k \in Packs, GrantCredits(k) PROVE CanisterType'
<1>1. credits' \in [Users -> Nat] /\ granted' \in [Packs -> Nat]
  BY SizesAreNatural DEF CanisterType, GrantCredits
<1>2. <<k, 0>> \in Packs \X {0}
  OBVIOUS
<1> QED BY <1>1, <1>2 DEF CanisterType, GrantCredits

LEMMA GiftType ==
  ASSUME CanisterType, NEW g \in Gifts, RecordGift(g) PROVE CanisterType'
<1>1. [gift[g] EXCEPT !.state = "registered"] \in GiftRecord
  BY DEF CanisterType, GiftRecord
<1> QED BY <1>1 DEF CanisterType, RecordGift

(* The calls of users: gifts, handoff years, ICP and credits. *)
LEMMA UserType ==
  ASSUME CanisterType, clock \in 0..Horizon, NEW u \in Users,
         \/ \E g \in Gifts : RedeemGift(u, g)
         \/ \E h \in Homes : GrantHandoffYear(u, h)
         \/ Subscribe(u) \/ \E paid \in BOOLEAN : LedgerAnswers(u, paid)
         \/ ConsumeAgentCredit(u)
  PROVE  CanisterType'
<1> USE SizesAreNatural DEF CanisterType
<1>1. bought[u] + 1 \in Nat /\ clock \in Nat /\ clock + Period \in Nat
  OBVIOUS
<1>2. \A t \in Nat : [tier |-> "Pro", until |-> t + Period] \in [tier : {"Free", "Pro"}, until : Nat]
  OBVIOUS
<1>3. ASSUME NEW g \in Gifts, RedeemGift(u, g) PROVE CanisterType'
  <2>1. PICK t \in Nat : plan' = [plan EXCEPT ![u] = [tier |-> "Pro", until |-> t + Period]]
    BY <1>1, <1>3 DEF RedeemGift
  <2>2. [state |-> "redeemed", by |-> u] \in GiftRecord
    BY DEF GiftRecord
  <2> QED BY <1>1, <1>2, <1>3, <2>1, <2>2 DEF RedeemGift
<1>4. ASSUME NEW h \in Homes, GrantHandoffYear(u, h) PROVE CanisterType'
  <2>1. handoff' \in [buyers : SUBSET Users, homes : [Homes -> (0..Horizon) \cup {None}]]
    BY <1>4 DEF GrantHandoffYear
  <2> QED BY <1>1, <1>2, <1>4, <2>1 DEF GrantHandoffYear
<1>5. CASE Subscribe(u) \/ \E paid \in BOOLEAN : LedgerAnswers(u, paid)
  BY <1>1, <1>2, <1>5 DEF Subscribe, LedgerAnswers
<1>6. CASE ConsumeAgentCredit(u)
  BY <1>6 DEF ConsumeAgentCredit
<1> QED BY <1>3, <1>4, <1>5, <1>6

-----------------------------------------------------------------------------
(* The Worker. *)
WorkerType ==
  /\ events \subseteq Events /\ done \subseteq Events /\ busy \subseteq Events
  /\ delivery \in [Deliveries -> [pc : {"idle", "claim", "handle", "activate", "finish"},
                                  event : Events \cup {NoEvent}, end : Times]]
  /\ page \in [Users -> [sub : Subs \cup {None}, end : Times]]
  /\ DeliveriesHoldEvents

LEMMA PartsOfType ==
  ASSUME TInv
  PROVE  /\ clock \in 0..Horizon /\ clock \in Nat /\ sub \in [Subs -> SubRecord]
         /\ pack \in [Packs -> Users \cup {None}]
         /\ ChargedAreOwned /\ CanisterType /\ WorkerType
BY SizesAreNatural DEF TInv, TypeOK, SubRecord, GiftRecord, CanisterType, WorkerType

(* A call that an event makes keeps the canister well-typed. *)
LEMMA EffectType ==
  ASSUME TInv, NEW d \in Deliveries, Effect(d) PROVE CanisterType'
<1>1. CanisterType /\ clock \in Nat /\ WorkerType
  BY PartsOfType
<1>2. /\ delivery[d].pc # "idle" => delivery[d].event \in Events
      /\ delivery[d].pc = "activate" => delivery[d].event.kind = "paid"
      /\ delivery[d].end \in Times
  BY <1>1 DEF WorkerType, DeliveriesHoldEvents
<1>3. CASE Downgrade(Payer(delivery[d].event))
  BY <1>1, <1>3, DowngradeType
<1>4. CASE /\ delivery[d].pc = "handle" /\ delivery[d].event.kind = "updated"
           /\ Activate(Payer(delivery[d].event), delivery[d].event.of, delivery[d].event.end)
  <2>1. delivery[d].event.of \in Subs /\ delivery[d].event.end \in Times
    BY <1>2, <1>4, EventTypes
  <2> QED BY <1>1, <1>4, <2>1, ActivateType
<1>5. CASE /\ delivery[d].pc = "activate"
           /\ Activate(Payer(delivery[d].event), delivery[d].event.of, delivery[d].end)
  <2>1. delivery[d].event.of \in Subs
    BY <1>2, <1>5, EventTypes
  <2> QED BY <1>1, <1>2, <1>5, <2>1, ActivateType
<1>6. CASE /\ delivery[d].pc = "handle" /\ delivery[d].event.kind = "credits"
           /\ GrantCredits(delivery[d].event.of)
  <2>1. delivery[d].event.of \in Packs
    BY <1>2, <1>6, EventTypes
  <2> QED BY <1>1, <1>6, <2>1, GrantType
<1>7. CASE /\ delivery[d].pc = "handle" /\ delivery[d].event.kind = "gift"
           /\ RecordGift(delivery[d].event.of)
  <2>1. delivery[d].event.of \in Gifts
    BY <1>2, <1>7, EventTypes
  <2> QED BY <1>1, <1>7, <2>1, GiftType
<1> QED BY <1>3, <1>4, <1>5, <1>6, <1>7 DEF Effect

LEMMA CanisterSame == CanisterType /\ UNCHANGED canister => CanisterType'
BY DEF CanisterType, canister

LEMMA DeliveryInv ==
  ASSUME TInv, NEW d \in Deliveries,
         Steps(d) \/ Die(d) \/ \E e \in Events : Deliver(d, e)
  PROVE  TInv'
<1>1. /\ clock \in 0..Horizon /\ sub \in [Subs -> SubRecord]
      /\ pack \in [Packs -> Users \cup {None}] /\ ChargedAreOwned /\ CanisterType /\ WorkerType
  BY PartsOfType
<1>2. UNCHANGED <<clock, sub, pack, page>> /\ ChargedAreOwned'
  BY <1>1 DEF Steps, Die, Deliver, Claim, ReadSubscription, Succeeds, Fails, Finish, stripe,
              ChargedAreOwned
<1>3. CanisterType'
  <2>1. Effect(d) \/ UNCHANGED canister
    BY DEF Steps, Die, Deliver, Claim, ReadSubscription, Succeeds, Fails, Finish
  <2> QED BY <1>1, <2>1, EffectType, CanisterSame
<1>4. WorkerType'
  <2> DEFINE D == [pc : {"idle", "claim", "handle", "activate", "finish"},
                   event : Events \cup {NoEvent}, end : Times]
  <2>1. delivery[d] \in D /\ delivery \in [Deliveries -> D]
    BY <1>1 DEF WorkerType
  <2>2. ASSUME NEW x \in D, delivery' = [delivery EXCEPT ![d] = x],
               x.pc # "idle" => x.event \in Events, x.pc = "activate" => x.event.kind = "paid"
        PROVE  /\ delivery' \in [Deliveries -> D] /\ DeliveriesHoldEvents'
    <3>1. \A c \in Deliveries : delivery'[c] = IF c = d THEN x ELSE delivery[c]
      BY <2>1, <2>2
    <3> QED BY <1>1, <2>1, <2>2, <3>1 DEF WorkerType, DeliveriesHoldEvents
  <2>3. /\ delivery[d].pc # "idle" => delivery[d].event \in Events
        /\ \A e \in Events : e \in Events
    BY <1>1 DEF WorkerType, DeliveriesHoldEvents
  <2>4. Idle \in D /\ Idle.pc = "idle"
    BY SizesAreNatural DEF Idle, Times
  <2>5. CASE delivery' = [delivery EXCEPT ![d] = Idle]
    <3>1. delivery' \in [Deliveries -> D] /\ DeliveriesHoldEvents'
      BY <2>2, <2>4, <2>5
    <3>2. events' \subseteq Events /\ done' \subseteq Events /\ busy' \subseteq Events
      BY <1>1, <2>3, <2>5 DEF Steps, Die, Deliver, Claim, ReadSubscription, Succeeds, Fails, Finish,
                              stripe, once, WorkerType
    <3> QED BY <1>1, <1>2, <3>1, <3>2 DEF WorkerType
  <2>6. ASSUME NEW e \in Events, Deliver(d, e) PROVE WorkerType'
    <3> DEFINE x == [pc |-> "claim", event |-> e, end |-> 0]
    <3>1. x \in D /\ x.pc = "claim" /\ x.event = e
      BY SizesAreNatural DEF Times
    <3> HIDE DEF D
    <3>2. delivery' \in [Deliveries -> D] /\ DeliveriesHoldEvents'
      BY <1>1, <2>1, <2>2, <2>6, <3>1 DEF Deliver, WorkerType, DeliveriesHoldEvents
    <3> QED BY <1>1, <1>2, <2>6, <3>2 DEF Deliver, WorkerType, once, D
  <2>7. ASSUME NEW x \in D, delivery' = [delivery EXCEPT ![d] = x], delivery[d].pc # "idle",
               x.event = delivery[d].event, x.pc = "activate" => x.event.kind = "paid",
               UNCHANGED <<events, done>>, busy' \subseteq busy \cup {delivery[d].event}
        PROVE  WorkerType'
    <3> HIDE DEF D
    <3>1. delivery' \in [Deliveries -> D] /\ DeliveriesHoldEvents'
      BY <2>2, <2>3, <2>7
    <3> QED BY <1>1, <1>2, <2>3, <2>7, <3>1 DEF WorkerType, D
  <2>8. CASE Claim(d) /\ delivery' = [delivery EXCEPT ![d].pc = "handle"]
    <3> DEFINE x == [delivery[d] EXCEPT !.pc = "handle"]
    <3>1. x \in D /\ x.pc = "handle" /\ x.event = delivery[d].event
      BY <2>1
    <3>2. delivery' = [delivery EXCEPT ![d] = x] /\ busy' \subseteq busy \cup {delivery[d].event}
      BY <2>8 DEF Claim
    <3> HIDE DEF D, x
    <3> QED BY <2>7, <2>8, <3>1, <3>2 DEF Claim, stripe
  <2>9. CASE ReadSubscription(d)
    <3> DEFINE e == delivery[d].event
               x == IF sub[e.of].status = "active"
                    THEN [delivery[d] EXCEPT !.pc = "activate", !.end = sub[e.of].end]
                    ELSE [delivery[d] EXCEPT !.pc = "finish"]
    <3>1. e.kind = "paid" /\ e.of \in Subs /\ sub[e.of].end \in Times
      BY <1>1, <2>3, <2>9, EventTypes DEF ReadSubscription, SubRecord
    <3>2. x \in D /\ x.event = e
      <4>1. CASE sub[e.of].status = "active"
        BY <2>1, <3>1, <4>1
      <4>2. CASE sub[e.of].status # "active"
        BY <2>1, <4>2
      <4> QED BY <4>1, <4>2
    <3>3. delivery' = [delivery EXCEPT ![d] = x]
      BY <2>9 DEF ReadSubscription
    <3> HIDE DEF D, x
    <3> QED BY <2>7, <2>9, <3>1, <3>2, <3>3 DEF ReadSubscription, stripe, once
  <2>10. CASE Succeeds(d)
    <3> DEFINE x == [delivery[d] EXCEPT !.pc = "finish"]
    <3>1. x \in D /\ x.pc = "finish" /\ x.event = delivery[d].event
      BY <2>1
    <3>2. delivery' = [delivery EXCEPT ![d] = x] /\ delivery[d].pc # "idle"
      BY <2>10 DEF Succeeds, Effect
    <3> HIDE DEF D, x
    <3> QED BY <2>7, <2>10, <3>1, <3>2 DEF Succeeds, stripe, once
  <2> QED BY <2>5, <2>6, <2>8, <2>9, <2>10 DEF Steps, Die, Claim, Fails, Finish
<1> QED BY <1>1, <1>2, <1>3, <1>4
        DEF TInv, TypeOK, SubRecord, GiftRecord, CanisterType, WorkerType

LEMMA PageInv ==
  ASSUME TInv,
         \/ \E u \in Users, s \in Subs : VerifyRead(u, s)
         \/ \E u \in Users : VerifyActivate(u) \/ \E k \in Packs : VerifyCredits(u, k)
         \/ \E g \in Gifts : VerifyGift(g)
         \/ \E e \in Events : ClaimLapses(e)
  PROVE  TInv'
<1> USE DEF stripe, worker, once
<1>1. /\ clock \in 0..Horizon /\ sub \in [Subs -> SubRecord]
      /\ pack \in [Packs -> Users \cup {None}] /\ ChargedAreOwned /\ CanisterType /\ WorkerType
  BY PartsOfType
<1>2. /\ UNCHANGED <<clock, sub, pack, events, done, delivery>> /\ ChargedAreOwned'
      /\ DeliveriesHoldEvents'
  BY <1>1 DEF VerifyRead, VerifyActivate, VerifyCredits, VerifyGift, ClaimLapses, ChargedAreOwned,
              WorkerType, DeliveriesHoldEvents
<1>3. busy' \subseteq busy
  BY DEF VerifyRead, VerifyActivate, VerifyCredits, VerifyGift, ClaimLapses
<1>4. page' \in [Users -> [sub : Subs \cup {None}, end : Times]]
  <2>1. ASSUME NEW u \in Users, NEW s \in Subs, VerifyRead(u, s)
        PROVE  page' \in [Users -> [sub : Subs \cup {None}, end : Times]]
    BY <1>1, <2>1 DEF VerifyRead, SubRecord, WorkerType
  <2>2. ASSUME NEW u \in Users, VerifyActivate(u)
        PROVE  page' \in [Users -> [sub : Subs \cup {None}, end : Times]]
    <3>1. [sub |-> None, end |-> 0] \in [sub : Subs \cup {None}, end : Times]
      BY SizesAreNatural DEF Times
    <3> QED BY <1>1, <2>2, <3>1 DEF VerifyActivate, WorkerType
  <2> QED BY <1>1, <2>1, <2>2 DEF VerifyCredits, VerifyGift, ClaimLapses, WorkerType
<1>5. CanisterType'
  <2>1. ASSUME NEW u \in Users, VerifyActivate(u) PROVE CanisterType'
    <3>1. page[u].sub \in Subs /\ page[u].end \in Times
      BY <1>1, <2>1 DEF VerifyActivate, WorkerType
    <3> QED BY <1>1, <2>1, <3>1, ActivateType, CanisterSame DEF VerifyActivate
  <2>2. ASSUME NEW u \in Users, NEW k \in Packs, VerifyCredits(u, k) PROVE CanisterType'
    BY <1>1, <2>2, GrantType DEF VerifyCredits
  <2>3. ASSUME NEW g \in Gifts, VerifyGift(g) PROVE CanisterType'
    BY <1>1, <2>3, GiftType DEF VerifyGift
  <2> QED BY <1>1, <2>1, <2>2, <2>3, CanisterSame DEF VerifyRead, ClaimLapses
<1>6. WorkerType'
  BY <1>1, <1>2, <1>3, <1>4 DEF WorkerType
<1> QED BY <1>1, <1>2, <1>5, <1>6
        DEF TInv, TypeOK, SubRecord, GiftRecord, CanisterType, WorkerType

LEMMA UserInv ==
  ASSUME TInv, NEW u \in Users,
         \/ \E g \in Gifts : RedeemGift(u, g)
         \/ \E h \in Homes : GrantHandoffYear(u, h)
         \/ Subscribe(u) \/ \E paid \in BOOLEAN : LedgerAnswers(u, paid)
         \/ ConsumeAgentCredit(u)
  PROVE  TInv'
<1>1. CanisterType'
  BY UserType, PartsOfType
<1>2. UNCHANGED <<clock, stripe, worker>>
  BY DEF RedeemGift, GrantHandoffYear, Subscribe, LedgerAnswers, ConsumeAgentCredit
<1> QED BY <1>1, <1>2
        DEF TInv, TypeOK, GiftRecord, CanisterType, stripe, worker, once, DeliveriesHoldEvents,
            ChargedAreOwned

LEMMA TNext == TInv /\ [Next]_vars => TInv'
<1> SUFFICES ASSUME TInv, [Next]_vars PROVE TInv'
  OBVIOUS
<1>1. CASE \/ PassTime
           \/ \E s \in Subs : ChargeFails(s) \/ SubscriptionEnds(s) \/ \E u \in Users : ChargeSucceeds(s, u)
           \/ \E u \in Users : FeeInvoiceFails(u) \/ \E k \in Packs : PayForPack(k, u)
           \/ \E g \in Gifts : PayForGift(g)
  BY <1>1, StripeInv
<1>2. CASE \E d \in Deliveries : Steps(d) \/ Die(d) \/ \E e \in Events : Deliver(d, e)
  BY <1>2, DeliveryInv
<1>3. CASE \/ \E u \in Users, s \in Subs : VerifyRead(u, s)
           \/ \E u \in Users : VerifyActivate(u) \/ \E k \in Packs : VerifyCredits(u, k)
           \/ \E g \in Gifts : VerifyGift(g)
           \/ \E e \in Events : ClaimLapses(e)
  BY <1>3, PageInv
<1>4. ASSUME NEW u \in Users,
             \/ \E g \in Gifts : RedeemGift(u, g)
             \/ \E h \in Homes : GrantHandoffYear(u, h)
             \/ Subscribe(u) \/ \E paid \in BOOLEAN : LedgerAnswers(u, paid)
             \/ ConsumeAgentCredit(u)
      PROVE  TInv'
  BY <1>4, UserInv
<1>5. CASE UNCHANGED vars
  BY <1>5 DEF vars, stripe, worker, once, canister, TInv, TypeOK, DeliveriesHoldEvents, ChargedAreOwned
<1> QED BY <1>1, <1>2, <1>3, <1>4, <1>5 DEF Next

(* Plans, credits, gifts and deliveries keep their types; credits, which the *)
(* code counts down, are never negative.                                     *)
THEOREM TypeCorrect == Spec => []TypeOK
<1>1. TInv => TypeOK
  BY DEF TInv
<1> QED BY <1>1, TInit, TNext, PTL DEF Spec

-----------------------------------------------------------------------------
(* Credits.  A pack's reference is consumed when it is granted and not before, *)
(* and nothing asks for a pack that has not been paid for.                     *)
Granted(u) == {k \in Packs : pack[k] = u /\ granted[k] > 0}

GrantsAreConsumed ==
  \A k \in Packs :
    /\ granted[k] = (IF <<k, 0>> \in consumed THEN 1 ELSE 0)
    /\ pack[k] = None => granted[k] = 0

PacksArePaid ==
  /\ \A e \in events : e.kind = "credits" => pack[e.of] # None
  /\ \A d \in Deliveries :
       delivery[d].pc # "idle" /\ delivery[d].event.kind = "credits" => pack[delivery[d].event.of] # None

Balances ==
  \A u \in Users : /\ IsFiniteSet(Granted(u))
                   /\ credits[u] + spent[u] = PackSize * Cardinality(Granted(u))

CInv == TInv /\ GrantsAreConsumed /\ PacksArePaid /\ Balances

LEMMA CInit == Init => CInv
<1> SUFFICES ASSUME Init PROVE CInv
  OBVIOUS
<1>1. TInv
  BY TInit
<1>2. GrantsAreConsumed /\ PacksArePaid
  BY DEF Init, GrantsAreConsumed, PacksArePaid
<1>3. ASSUME NEW u \in Users
      PROVE  IsFiniteSet(Granted(u)) /\ credits[u] + spent[u] = PackSize * Cardinality(Granted(u))
  <2>1. \A k \in Packs : granted[k] = 0
    BY DEF Init
  <2>2. Granted(u) = {}
    BY <2>1 DEF Granted
  <2>3. IsFiniteSet(Granted(u)) /\ Cardinality(Granted(u)) = 0
    BY <2>2, FS_EmptySet
  <2>4. credits[u] = 0 /\ spent[u] = 0 /\ PackSize * 0 = 0
    BY SizesAreNatural DEF Init
  <2> QED BY <2>3, <2>4
<1>4. Balances
  BY <1>3 DEF Balances
<1> QED BY <1>1, <1>2, <1>4 DEF CInv

(* What is left to prove of a step that grants nothing. *)
LEMMA NoGrant ==
  ASSUME CInv, TInv', PacksArePaid', UNCHANGED granted,
         \A k \in Packs : /\ <<k, 0>> \in consumed' <=> <<k, 0>> \in consumed
                          /\ pack[k] # None => pack'[k] = pack[k],
         \A u \in Users : credits'[u] + spent'[u] = credits[u] + spent[u]
  PROVE  CInv'
<1>1. GrantsAreConsumed'
  BY DEF CInv, GrantsAreConsumed
<1>2. \A u \in Users : Granted(u)' = Granted(u)
  <2>1. ASSUME NEW k \in Packs, pack[k] = None PROVE ~(granted[k] > 0)
    <3>1. granted[k] = 0
      BY <2>1 DEF CInv, GrantsAreConsumed
    <3> QED BY <3>1
  <2>2. \A u \in Users, k \in Packs : (pack'[k] = u /\ granted[k] > 0) <=> (pack[k] = u /\ granted[k] > 0)
    BY <2>1
  <2> QED BY <2>2 DEF Granted
<1>3. Balances'
  <2> SUFFICES ASSUME NEW u \in Users
               PROVE  /\ IsFiniteSet(Granted(u)')
                      /\ credits'[u] + spent'[u] = PackSize * Cardinality(Granted(u)')
    BY DEF Balances
  <2> QED BY <1>2 DEF CInv, Balances
<1> QED BY <1>1, <1>3 DEF CInv

LEMMA Grant ==
  ASSUME CInv, TInv', PacksArePaid', NEW k \in Packs, pack[k] # None, GrantCredits(k), UNCHANGED pack
  PROVE  CInv'
<1>1. CASE IsGranted(k)
  <2>1. UNCHANGED <<credits, consumed, granted, spent>>
    BY <1>1 DEF GrantCredits
  <2> QED BY <2>1, NoGrant
<1>2. CASE ~IsGranted(k)
  <2>1. /\ consumed' = consumed \cup {<<k, 0>>} /\ credits' = [credits EXCEPT ![pack[k]] = @ + PackSize]
        /\ granted' = [granted EXCEPT ![k] = @ + 1] /\ UNCHANGED spent
    BY <1>2 DEF GrantCredits
  <2>2. /\ pack[k] \in Users /\ credits \in [Users -> Nat] /\ spent \in [Users -> Nat]
        /\ granted \in [Packs -> Nat] /\ granted[k] = 0
    BY <1>2 DEF CInv, TInv, TypeOK, GrantsAreConsumed, IsGranted
  <2>3. granted'[k] = 1 /\ \A j \in Packs \ {k} : granted'[j] = granted[j]
    BY <2>1, <2>2
  <2>4. GrantsAreConsumed'
    BY <2>1, <2>2, <2>3 DEF CInv, GrantsAreConsumed
  <2>5. \A u \in Users : Granted(u)' = IF u = pack[k] THEN Granted(u) \cup {k} ELSE Granted(u)
    BY <2>2, <2>3 DEF Granted
  <2>6. \A u \in Users : k \notin Granted(u)
    BY <2>2 DEF Granted
  <2>7. Balances'
    <3> SUFFICES ASSUME NEW u \in Users
                 PROVE  /\ IsFiniteSet(Granted(u)')
                        /\ credits'[u] + spent'[u] = PackSize * Cardinality(Granted(u)')
      BY DEF Balances
    <3>1. /\ IsFiniteSet(Granted(u)) /\ Cardinality(Granted(u)) \in Nat
          /\ credits[u] + spent[u] = PackSize * Cardinality(Granted(u))
      BY FS_CardinalityType DEF CInv, Balances
    <3>2. CASE u = pack[k]
      <4>1. IsFiniteSet(Granted(u)') /\ Cardinality(Granted(u)') = Cardinality(Granted(u)) + 1
        BY <2>5, <2>6, <3>1, <3>2, FS_AddElement
      <4>2. credits'[u] = credits[u] + PackSize /\ spent'[u] = spent[u]
        BY <2>1, <2>2, <3>2
      <4>3. \A n \in Nat : PackSize * (n + 1) = PackSize * n + PackSize
        BY SizesAreNatural
      <4>4. credits[u] \in Nat /\ spent[u] \in Nat /\ PackSize * Cardinality(Granted(u)) \in Nat
        BY <2>2, <3>1, SizesAreNatural
      <4> QED BY <3>1, <4>1, <4>2, <4>3, <4>4, SizesAreNatural
    <3>3. CASE u # pack[k]
      BY <2>1, <2>2, <2>5, <3>1, <3>3
    <3> QED BY <3>2, <3>3
  <2> QED BY <2>4, <2>7 DEF CInv
<1> QED BY <1>1, <1>2

(* Only what has been paid for is asked for, and a payment stays. *)
LEMMA PaidNext ==
  ASSUME TInv, PacksArePaid, [Next]_vars
  PROVE  PacksArePaid' /\ \A k \in Packs : pack[k] # None => pack'[k] = pack[k]
<1> USE DEF vars, stripe, worker, once, canister
<1>1. \A k \in Packs : pack[k] # None => pack'[k] = pack[k]
  <2>1. UNCHANGED pack \/ \E k \in Packs, u \in Users : PayForPack(k, u)
    BY DEF Next, PassTime, ChargeFails, SubscriptionEnds, ChargeSucceeds, VerifyRead, FeeInvoiceFails, Subscribe,
           ConsumeAgentCredit, LedgerAnswers, VerifyActivate, VerifyCredits, RedeemGift, GrantHandoffYear,
           PayForGift, VerifyGift, Steps, Claim, ReadSubscription, Succeeds, Fails, Finish, Die, Deliver,
           ClaimLapses
  <2> QED BY <2>1 DEF PayForPack, TInv, TypeOK
<1>2. \A e \in events' : e.kind = "credits" => e \in events \/ pack'[e.of] # None
  <2>1. CASE \E k \in Packs, u \in Users : PayForPack(k, u)
    <3>1. PICK k \in Packs, u \in Users : PayForPack(k, u)
      BY <2>1
    <3>2. pack'[k] # None /\ events' = events \cup {Event("credits", k, 0)}
      BY <3>1, NoneIsApart DEF PayForPack, Emits, TInv, TypeOK
    <3> QED BY <3>2 DEF Event
  <2>2. CASE ~\E k \in Packs, u \in Users : PayForPack(k, u)
    <3>1. CASE events' \subseteq events
      BY <3>1
    <3>2. CASE \E s \in Subs : ChargeFails(s) \/ SubscriptionEnds(s) \/ \E u \in Users : ChargeSucceeds(s, u)
      BY <3>2 DEF ChargeFails, SubscriptionEnds, ChargeSucceeds, Emits, Event
    <3>3. CASE \/ \E u \in Users : FeeInvoiceFails(u)
               \/ \E g \in Gifts : PayForGift(g)
      <4>1. ASSUME NEW u \in Users, FeeInvoiceFails(u)
            PROVE  \A e \in events' : e \in events \/ e.kind = "feeFailed"
        BY <4>1 DEF FeeInvoiceFails, Emits, Event
      <4>2. ASSUME NEW g \in Gifts, PayForGift(g)
            PROVE  \A e \in events' : e \in events \/ e.kind = "gift"
        BY <4>2 DEF PayForGift, Emits, Event
      <4> QED BY <3>3, <4>1, <4>2
    <3> QED BY <2>2, <3>1, <3>2, <3>3
            DEF Next, PassTime, VerifyRead, Subscribe, ConsumeAgentCredit, LedgerAnswers, VerifyActivate,
                VerifyCredits, RedeemGift, GrantHandoffYear, VerifyGift, Steps, Claim, ReadSubscription,
                Succeeds, Fails, Finish, Die, Deliver, ClaimLapses
  <2> QED BY <2>1, <2>2
<1>3. \A c \in Deliveries :
        delivery'[c].pc # "idle" =>
          \/ delivery'[c].event \in events
          \/ delivery[c].pc # "idle" /\ delivery'[c].event = delivery[c].event
  <2>1. UNCHANGED delivery \/ \E d \in Deliveries : Steps(d) \/ Die(d) \/ \E e \in Events : Deliver(d, e)
    BY DEF Next, PassTime, ChargeFails, SubscriptionEnds, ChargeSucceeds, VerifyRead, FeeInvoiceFails, Subscribe,
           ConsumeAgentCredit, LedgerAnswers, VerifyActivate, VerifyCredits, RedeemGift, GrantHandoffYear,
           PayForPack, PayForGift, VerifyGift, ClaimLapses
  <2>2. ASSUME NEW d \in Deliveries, Steps(d) \/ Die(d) \/ \E e \in Events : Deliver(d, e),
               NEW c \in Deliveries, delivery'[c].pc # "idle"
        PROVE  \/ delivery'[c].event \in events
               \/ delivery[c].pc # "idle" /\ delivery'[c].event = delivery[c].event
    <3>1. delivery \in [Deliveries -> [pc : {"idle", "claim", "handle", "activate", "finish"},
                                       event : Events \cup {NoEvent}, end : Times]]
      BY DEF TInv, TypeOK
    <3>2. CASE Claim(d) \/ Finish(d)
      BY <2>2, <3>1, <3>2 DEF Claim, Finish, Idle
    <3>6. CASE ReadSubscription(d)
      <4> DEFINE e == delivery[d].event
                 x == IF sub[e.of].status = "active"
                      THEN [delivery[d] EXCEPT !.pc = "activate", !.end = sub[e.of].end]
                      ELSE [delivery[d] EXCEPT !.pc = "finish"]
      <4>1. delivery' = [delivery EXCEPT ![d] = x] /\ delivery[d].pc # "idle"
        BY <3>6 DEF ReadSubscription
      <4>2. x.event = delivery[d].event
        BY <3>1
      <4> HIDE DEF x
      <4> QED BY <2>2, <3>1, <4>1, <4>2
    <3>3. CASE Succeeds(d)
      BY <2>2, <3>1, <3>3 DEF Succeeds, Effect
    <3>4. CASE Fails(d) \/ Die(d)
      BY <2>2, <3>1, <3>4 DEF Fails, Die, Idle
    <3>5. CASE \E e \in Events : Deliver(d, e)
      BY <2>2, <3>1, <3>5 DEF Deliver
    <3> QED BY <2>2, <3>2, <3>3, <3>4, <3>5, <3>6 DEF Steps
  <2> QED BY <2>1, <2>2
<1>4. /\ events \subseteq Events
      /\ \A d \in Deliveries : delivery[d].pc # "idle" => delivery[d].event \in Events
  BY DEF TInv, TypeOK, DeliveriesHoldEvents
<1>5. \A e \in Events : e.kind = "credits" /\ pack[e.of] # None => pack'[e.of] # None
  BY <1>1, EventTypes
<1> QED BY <1>1, <1>2, <1>3, <1>4, <1>5 DEF PacksArePaid

(* A canister call that an event or a page makes. *)
LEMMA CallKeepsCredits ==
  ASSUME CInv, TInv', PacksArePaid', UNCHANGED pack,
         \/ \E u : Downgrade(u)
         \/ \E u : \E s \in Subs, t \in Times : Activate(u, s, t)
         \/ \E k \in Packs : pack[k] # None /\ GrantCredits(k)
         \/ \E g \in Gifts : RecordGift(g)
         \/ UNCHANGED canister
  PROVE  CInv'
<1>1. ASSUME NEW k \in Packs, pack[k] # None, GrantCredits(k) PROVE CInv'
  BY <1>1, Grant
<1>2. ASSUME UNCHANGED <<credits, spent, granted>>,
             \A k \in Packs : <<k, 0>> \in consumed' <=> <<k, 0>> \in consumed
      PROVE  CInv'
  BY <1>2, NoGrant
<1>3. ASSUME NEW u, NEW s \in Subs, NEW t \in Times, Activate(u, s, t) PROVE CInv'
  <2>1. \A k \in Packs : <<s, t>> # <<k, 0>>
    BY RefsDiffer
  <2>2. \A k \in Packs : <<k, 0>> \in consumed' <=> <<k, 0>> \in consumed
    BY <1>3, <2>1 DEF Activate
  <2> QED BY <1>2, <1>3, <2>2 DEF Activate
<1>4. CASE (\E u : Downgrade(u)) \/ (\E g \in Gifts : RecordGift(g)) \/ UNCHANGED canister
  BY <1>2, <1>4 DEF Downgrade, RecordGift, canister
<1> QED BY <1>1, <1>3, <1>4

LEMMA EffectKeepsCredits ==
  ASSUME CInv, TInv', PacksArePaid', UNCHANGED pack, NEW d \in Deliveries, Effect(d)
  PROVE  CInv'
<1>1. /\ delivery[d].pc # "idle" => delivery[d].event \in Events
      /\ delivery[d].pc = "activate" => delivery[d].event.kind = "paid"
      /\ delivery[d].end \in Times
  BY DEF CInv, TInv, TypeOK, DeliveriesHoldEvents
<1>2. CASE Downgrade(Payer(delivery[d].event))
  BY <1>2, CallKeepsCredits
<1>3. CASE /\ delivery[d].pc = "handle" /\ delivery[d].event.kind = "updated"
           /\ Activate(Payer(delivery[d].event), delivery[d].event.of, delivery[d].event.end)
  <2>1. delivery[d].event.of \in Subs /\ delivery[d].event.end \in Times
    BY <1>1, <1>3, EventTypes
  <2> QED BY <1>3, <2>1, CallKeepsCredits
<1>4. CASE /\ delivery[d].pc = "activate"
           /\ Activate(Payer(delivery[d].event), delivery[d].event.of, delivery[d].end)
  <2>1. delivery[d].event.of \in Subs
    BY <1>1, <1>4, EventTypes
  <2> QED BY <1>1, <1>4, <2>1, CallKeepsCredits
<1>5. CASE /\ delivery[d].pc = "handle" /\ delivery[d].event.kind = "credits"
           /\ GrantCredits(delivery[d].event.of)
  <2>1. delivery[d].event.of \in Packs
    BY <1>1, <1>5, EventTypes
  <2>2. pack[delivery[d].event.of] # None
    BY <1>5 DEF CInv, PacksArePaid
  <2> QED BY <1>5, <2>1, <2>2, CallKeepsCredits
<1>6. CASE /\ delivery[d].pc = "handle" /\ delivery[d].event.kind = "gift"
           /\ RecordGift(delivery[d].event.of)
  <2>1. delivery[d].event.of \in Gifts
    BY <1>1, <1>6, EventTypes
  <2> QED BY <1>6, <2>1, CallKeepsCredits
<1> QED BY <1>2, <1>3, <1>4, <1>5, <1>6 DEF Effect

LEMMA CNext == CInv /\ [Next]_vars => CInv'
<1> SUFFICES ASSUME CInv, [Next]_vars PROVE CInv'
  OBVIOUS
<1>1. TInv /\ PacksArePaid
  BY DEF CInv
<1>2. /\ TInv' /\ PacksArePaid'
      /\ \A k \in Packs : pack[k] # None => pack'[k] = pack[k]
  BY <1>1, TNext, PaidNext
<1>3. ASSUME UNCHANGED <<consumed, granted, credits, spent>> PROVE CInv'
  BY <1>2, <1>3, NoGrant
<1>4. CASE \/ PassTime
           \/ \E s \in Subs : ChargeFails(s) \/ SubscriptionEnds(s) \/ \E u \in Users : ChargeSucceeds(s, u)
           \/ \E u \in Users : FeeInvoiceFails(u) \/ \E k \in Packs : PayForPack(k, u)
           \/ \E g \in Gifts : PayForGift(g)
  BY <1>3, <1>4 DEF PassTime, ChargeFails, SubscriptionEnds, ChargeSucceeds, FeeInvoiceFails, PayForPack,
                    PayForGift, canister
<1>5. ASSUME NEW d \in Deliveries, Steps(d) \/ Die(d) \/ \E e \in Events : Deliver(d, e)
      PROVE  CInv'
  <2>1. UNCHANGED pack /\ (Effect(d) \/ UNCHANGED canister)
    BY <1>5 DEF Steps, Die, Deliver, Claim, ReadSubscription, Succeeds, Fails, Finish, stripe
  <2> QED BY <1>2, <2>1, EffectKeepsCredits, CallKeepsCredits
<1>6. CASE \/ \E u \in Users, s \in Subs : VerifyRead(u, s)
           \/ \E u \in Users : VerifyActivate(u) \/ \E k \in Packs : VerifyCredits(u, k)
           \/ \E g \in Gifts : VerifyGift(g)
           \/ \E e \in Events : ClaimLapses(e)
  <2>1. UNCHANGED pack
    BY <1>6 DEF VerifyRead, VerifyActivate, VerifyCredits, VerifyGift, ClaimLapses, stripe
  <2>2. ASSUME NEW u \in Users, VerifyActivate(u) PROVE CInv'
    <3>1. page[u].sub \in Subs /\ page[u].end \in Times
      BY <1>1, <2>2 DEF VerifyActivate, TInv, TypeOK
    <3> QED BY <1>2, <2>1, <2>2, <3>1, CallKeepsCredits DEF VerifyActivate
  <2>3. ASSUME NEW u \in Users, NEW k \in Packs, VerifyCredits(u, k) PROVE CInv'
    <3>1. pack[k] # None
      BY <2>3, NoneIsApart DEF VerifyCredits
    <3> QED BY <1>2, <2>1, <2>3, <3>1, CallKeepsCredits DEF VerifyCredits
  <2>4. ASSUME NEW g \in Gifts, VerifyGift(g) PROVE CInv'
    BY <1>2, <2>1, <2>4, CallKeepsCredits DEF VerifyGift
  <2>5. CASE UNCHANGED canister
    BY <1>2, <2>1, <2>5, CallKeepsCredits
  <2> QED BY <1>6, <2>2, <2>3, <2>4, <2>5 DEF VerifyRead, ClaimLapses
<1>7. ASSUME NEW u \in Users,
             \/ \E g \in Gifts : RedeemGift(u, g)
             \/ \E h \in Homes : GrantHandoffYear(u, h)
             \/ Subscribe(u) \/ \E paid \in BOOLEAN : LedgerAnswers(u, paid)
      PROVE  CInv'
  <2> QED BY <1>3, <1>7 DEF RedeemGift, GrantHandoffYear, Subscribe, LedgerAnswers
<1>8. ASSUME NEW u \in Users, ConsumeAgentCredit(u) PROVE CInv'
  <2>1. credits \in [Users -> Nat] /\ spent \in [Users -> Nat]
    BY <1>1 DEF TInv, TypeOK
  <2>2. \A x \in Users : credits'[x] + spent'[x] = credits[x] + spent[x]
    BY <1>8, <2>1 DEF ConsumeAgentCredit
  <2> QED BY <1>2, <1>8, <2>2, NoGrant DEF ConsumeAgentCredit
<1>9. CASE UNCHANGED vars
  BY <1>3, <1>9 DEF vars, canister
<1> QED BY <1>4, <1>5, <1>6, <1>7, <1>8, <1>9 DEF Next

(* Whatever is replayed, repeated or lost, a pack that was paid for is granted *)
(* once, and a user's credits are those of the packs granted and not spent.    *)
THEOREM CreditsAreGrantedOnce == Spec => []CreditsOnce
<1>1. CInv => CreditsOnce
  <2> SUFFICES ASSUME CInv PROVE CreditsOnce
    OBVIOUS
  <2>1. ASSUME NEW k \in Packs PROVE granted[k] <= (IF pack[k] = None THEN 0 ELSE 1)
    <3>1. granted[k] \in {0, 1} /\ (pack[k] = None => granted[k] = 0)
      BY DEF CInv, GrantsAreConsumed
    <3> QED BY <3>1
  <2>2. \A u \in Users :
          credits[u] + spent[u] = PackSize * Cardinality({k \in Packs : pack[k] = u /\ granted[k] > 0})
    BY DEF CInv, Balances, Granted
  <2> QED BY <2>1, <2>2 DEF CreditsOnce
<1> QED BY <1>1, CInit, CNext, PTL DEF Spec

-----------------------------------------------------------------------------
(* A gift that was redeemed is not touched again: a replayed registration      *)
(* finds it on record, and a second redemption finds it redeemed.              *)
THEOREM GiftsStayRedeemed == Spec => GiftsAreRedeemedOnce
<1>1. TInv /\ [Next]_vars => [\A g \in Gifts : gift[g].state = "redeemed" => gift'[g] = gift[g]]_vars
  <2> SUFFICES ASSUME TInv, [Next]_vars, NEW g \in Gifts, gift[g].state = "redeemed" PROVE gift'[g] = gift[g]
    OBVIOUS
  <2> USE DEF vars, stripe, worker, once, canister
  <2>1. gift \in [Gifts -> GiftRecord]
    BY PartsOfType DEF CanisterType
  <2>2. \/ UNCHANGED gift
        \/ \E x \in Gifts : PayForGift(x) \/ (\E u \in Users : RedeemGift(u, x))
        \/ \E x : RecordGift(x)
    BY ZenonT(60) DEF Next, PassTime, ChargeFails, SubscriptionEnds, ChargeSucceeds, VerifyRead, FeeInvoiceFails, Subscribe,
           ConsumeAgentCredit, LedgerAnswers, VerifyActivate, VerifyCredits, GrantHandoffYear, PayForPack,
           VerifyGift, Steps, Claim, ReadSubscription, Succeeds, Fails, Finish, Die, Deliver, ClaimLapses,
           Effect, Downgrade, Activate, GrantCredits
  <2>3. CASE \E x \in Gifts : PayForGift(x) \/ (\E u \in Users : RedeemGift(u, x))
    BY <2>1, <2>3 DEF PayForGift, RedeemGift
  <2>4. CASE \E x : RecordGift(x)
    BY <2>1, <2>4 DEF RecordGift
  <2> QED BY <2>2, <2>3, <2>4
<1> QED BY <1>1, TInit, TNext, PTL DEF Spec, GiftsAreRedeemedOnce

-----------------------------------------------------------------------------
(* How long plans run.  Whatever is still to be carried out asks for no more *)
(* than the last period Stripe has charged to the same payer.                *)
UnchargedIsNobodys == \A s \in Subs : sub[s].status = "none" => sub[s].owner = None /\ sub[s].end = 0

NoLongerThanCharged ==
  /\ \A e \in events : e.kind = "updated" => e.end <= sub[e.of].end
  /\ \A d \in Deliveries :
       /\ delivery[d].pc # "idle" /\ delivery[d].event.kind = "updated"
            => delivery[d].event.end <= sub[delivery[d].event.of].end
       /\ delivery[d].pc = "activate" => delivery[d].end <= sub[delivery[d].event.of].end
  /\ \A u \in Users : page[u].sub # None =>
       sub[page[u].sub].owner = u /\ page[u].end <= sub[page[u].sub].end

PInv == TInv /\ UnchargedIsNobodys /\ NoLongerThanCharged /\ WithinPaid

(* A plan may run until a moment when the clock or a charged period allows it, *)
(* and n periods longer.                                                       *)
MayRun(until, u, now, subs, n) ==
  \E t \in Nat : (t = now \/ \E s \in Subs : subs[s].owner = u /\ t = subs[s].end) /\ until <= t + Period * n

PlansMayRun == \A u \in Users : plan[u].tier = "Pro" => MayRun(plan[u].until, u, clock, sub, bought[u])

LEMMA PaidMeansAllowed == TypeOK => (WithinPaid <=> PlansMayRun)
<1> SUFFICES ASSUME TypeOK PROVE WithinPaid <=> PlansMayRun
  OBVIOUS
<1>1. clock \in Nat /\ \A s \in Subs : sub[s].end \in Nat
  BY SizesAreNatural DEF TypeOK, Times
<1>2. ASSUME NEW u \in Users
      PROVE  MayRun(plan[u].until, u, clock, sub, bought[u]) <=>
               \E t \in {clock} \cup {sub[s].end : s \in {x \in Subs : sub[x].owner = u}} :
                 plan[u].until <= t + Period * bought[u]
  <2>1. \A t : t \in {clock} \cup {sub[s].end : s \in {x \in Subs : sub[x].owner = u}}
                 <=> t \in Nat /\ (t = clock \/ \E s \in Subs : sub[s].owner = u /\ t = sub[s].end)
    BY <1>1
  <2> QED BY <2>1 DEF MayRun
<1> QED BY <1>2 DEF WithinPaid, PlansMayRun

(* One period more is bought. *)
LEMMA OnePeriodMore ==
  ASSUME NEW n \in Nat
  PROVE  Period * n \in Nat /\ Period * (n + 1) = Period * n + Period
BY SizesAreNatural

LEMMA PInit == Init => PInv
<1> SUFFICES ASSUME Init PROVE PInv
  OBVIOUS
<1>1. TInv
  BY TInit
<1>2. UnchargedIsNobodys /\ NoLongerThanCharged
  BY DEF Init, UnchargedIsNobodys, NoLongerThanCharged
<1>3. WithinPaid
  BY DEF Init, WithinPaid
<1> QED BY <1>1, <1>2, <1>3 DEF PInv

(* Subscriptions keep their payers, and their periods only move on. *)
LEMMA SubscriptionsGoOn ==
  ASSUME TInv, UnchargedIsNobodys, [Next]_vars
  PROVE  /\ UnchargedIsNobodys'
         /\ \A s \in Subs : /\ sub[s].end <= sub'[s].end
                            /\ sub[s].owner # None => sub'[s].owner = sub[s].owner
<1> USE DEF vars, stripe, worker, once, canister
<1>1. clock \in Nat /\ sub \in [Subs -> SubRecord] /\ \A s \in Subs : sub[s].end \in Nat
  BY EventTypes, PartsOfType DEF SubRecord
<1>2. ASSUME NEW s \in Subs, NEW x \in SubRecord, sub' = [sub EXCEPT ![s] = x], x.status # "none",
             sub[s].end <= x.end, sub[s].owner # None => x.owner = sub[s].owner
      PROVE  /\ UnchargedIsNobodys'
             /\ \A c \in Subs : /\ sub[c].end <= sub'[c].end
                                /\ sub[c].owner # None => sub'[c].owner = sub[c].owner
  <2>1. \A c \in Subs : sub'[c] = IF c = s THEN x ELSE sub[c]
    BY <1>1, <1>2
  <2> QED BY <1>1, <1>2, <2>1 DEF UnchargedIsNobodys
<1>3. ASSUME NEW s \in Subs, NEW u \in Users, ChargeSucceeds(s, u)
      PROVE  /\ UnchargedIsNobodys'
             /\ \A c \in Subs : /\ sub[c].end <= sub'[c].end
                                /\ sub[c].owner # None => sub'[c].owner = sub[c].owner
  <2> DEFINE x == [owner |-> u, status |-> "active", end |-> clock + Period]
  <2>1. clock + Period \in Times /\ clock + Period \in Nat
    BY PartsOfType, SizesAreNatural DEF Times
  <2>2. x \in SubRecord /\ x.status = "active" /\ x.owner = u /\ x.end = clock + Period
    BY <2>1 DEF SubRecord
  <2>3. /\ sub[s].end <= clock + Period
        /\ sub[s].owner # None => u = sub[s].owner
    BY <1>1, <1>3, SizesAreNatural DEF ChargeSucceeds, UnchargedIsNobodys
  <2>4. sub' = [sub EXCEPT ![s] = x]
    BY <1>3 DEF ChargeSucceeds
  <2> HIDE DEF x
  <2> QED BY <1>2, <2>2, <2>3, <2>4
<1>4. ASSUME NEW s \in Subs, NEW state \in {"past_due", "canceled"},
             sub[s].status # "none", sub' = [sub EXCEPT ![s].status = state]
      PROVE  /\ UnchargedIsNobodys'
             /\ \A c \in Subs : /\ sub[c].end <= sub'[c].end
                                /\ sub[c].owner # None => sub'[c].owner = sub[c].owner
  <2> DEFINE x == [sub[s] EXCEPT !.status = state]
  <2>1. x \in SubRecord /\ x.status = state /\ x.owner = sub[s].owner /\ x.end = sub[s].end
    BY <1>1 DEF SubRecord
  <2>2. sub' = [sub EXCEPT ![s] = x]
    BY <1>4
  <2>3. sub[s].end <= x.end /\ (sub[s].owner # None => x.owner = sub[s].owner) /\ x.status # "none"
    BY <1>1, <2>1
  <2> HIDE DEF x
  <2> QED BY <1>2, <2>1, <2>2, <2>3
<1>5. \/ UNCHANGED sub
      \/ \E s \in Subs : \/ \E u \in Users : ChargeSucceeds(s, u)
                         \/ ChargeFails(s) \/ SubscriptionEnds(s)
  BY DEF Next, PassTime, VerifyRead, FeeInvoiceFails, Subscribe,
         ConsumeAgentCredit, LedgerAnswers, VerifyActivate, VerifyCredits, RedeemGift, GrantHandoffYear,
         PayForPack, PayForGift, VerifyGift, Steps, Claim, ReadSubscription, Succeeds, Fails, Finish,
         Die, Deliver, ClaimLapses
<1>6. CASE UNCHANGED sub
  BY <1>1, <1>6 DEF UnchargedIsNobodys
<1> QED BY <1>3, <1>4, <1>5, <1>6 DEF ChargeFails, SubscriptionEnds

(* What is under way stays within what was charged. *)
LEMMA RequestsStayWithin ==
  ASSUME TInv, UnchargedIsNobodys, NoLongerThanCharged, [Next]_vars
  PROVE  NoLongerThanCharged'
<1> USE DEF vars, stripe, worker, once, canister
<1>1. /\ \A s \in Subs : /\ sub[s].end <= sub'[s].end /\ sub[s].end \in Nat /\ sub'[s].end \in Nat
                         /\ sub[s].owner # None => sub'[s].owner = sub[s].owner
      /\ clock \in Nat
  BY SubscriptionsGoOn, TNext, EventTypes, PartsOfType DEF TInv, TypeOK
<1>2. /\ \A e \in Events : e.end \in Nat
      /\ \A e \in Events : e.kind \in {"updated", "paid"} => e.of \in Subs
      /\ events \subseteq Events
      /\ delivery \in [Deliveries -> [pc : {"idle", "claim", "handle", "activate", "finish"},
                                      event : Events \cup {NoEvent}, end : Times]]
      /\ \A d \in Deliveries : /\ delivery[d].pc # "idle" => delivery[d].event \in Events
                               /\ delivery[d].pc = "activate" => delivery[d].event.kind = "paid"
                               /\ delivery[d].end \in Nat
  <2>1. \A e \in Events : e.end \in Nat
    BY SizesAreNatural DEF Events, Event, Ends
  <2>2. \A e \in Events : e.kind \in {"updated", "paid"} => e.of \in Subs
    BY EventTypes
  <2>3. /\ events \subseteq Events /\ Times \subseteq Nat /\ DeliveriesHoldEvents
        /\ delivery \in [Deliveries -> [pc : {"idle", "claim", "handle", "activate", "finish"},
                                        event : Events \cup {NoEvent}, end : Times]]
    BY EventTypes DEF TInv, TypeOK
  <2> QED BY <2>1, <2>2, <2>3 DEF DeliveriesHoldEvents
<1>3. \A e \in events' : e.kind = "updated" =>
        e \in events \/ \E s \in Subs : e.of = s /\ e.end = sub'[s].end
  <2>1. CASE events' \subseteq events
    BY <2>1
  <2>2. ASSUME NEW s \in Subs, NEW u \in Users, ChargeSucceeds(s, u), NEW e \in events', e.kind = "updated"
        PROVE  e \in events \/ \E c \in Subs : e.of = c /\ e.end = sub'[c].end
    <3>1. sub'[s].end = clock + Period
      BY <2>2 DEF ChargeSucceeds, TInv, TypeOK
    <3>2. e \in events \/ e = Event("updated", s, clock + Period)
      BY <2>2 DEF ChargeSucceeds, Emits, Event
    <3> QED BY <3>1, <3>2 DEF Event
  <2>3. ASSUME NEW s \in Subs, ChargeFails(s) \/ SubscriptionEnds(s), NEW e \in events', e.kind = "updated"
        PROVE  e \in events
    BY <2>3 DEF ChargeFails, SubscriptionEnds, Emits, Event
  <2>4. ASSUME NEW u \in Users, NEW k \in Packs, FeeInvoiceFails(u) \/ PayForPack(k, u),
               NEW e \in events', e.kind = "updated"
        PROVE  e \in events
    BY <2>4 DEF FeeInvoiceFails, PayForPack, Emits, Event
  <2>5. ASSUME NEW u \in Users, FeeInvoiceFails(u), NEW e \in events', e.kind = "updated"
        PROVE  e \in events
    BY <2>5 DEF FeeInvoiceFails, Emits, Event
  <2>6. ASSUME NEW g \in Gifts, PayForGift(g), NEW e \in events', e.kind = "updated"
        PROVE  e \in events
    BY <2>6 DEF PayForGift, Emits, Event
  <2>7. \/ events' \subseteq events
        \/ \E s \in Subs : ChargeFails(s) \/ SubscriptionEnds(s) \/ \E u \in Users : ChargeSucceeds(s, u)
        \/ \E u \in Users : FeeInvoiceFails(u) \/ \E k \in Packs : PayForPack(k, u)
        \/ \E g \in Gifts : PayForGift(g)
    BY DEF Next, PassTime, VerifyRead, Subscribe, ConsumeAgentCredit, LedgerAnswers, VerifyActivate,
           VerifyCredits, RedeemGift, GrantHandoffYear, VerifyGift, Steps, Claim, ReadSubscription,
           Succeeds, Fails, Finish, Die, Deliver, ClaimLapses
  <2> QED BY <2>1, <2>2, <2>3, <2>4, <2>5, <2>6, <2>7
<1>4. \A e \in events' : e.kind = "updated" => e.end <= sub'[e.of].end
  <2> SUFFICES ASSUME NEW e \in events', e.kind = "updated" PROVE e.end <= sub'[e.of].end
    OBVIOUS
  <2>1. CASE e \in events
    BY <1>1, <1>2, <2>1 DEF NoLongerThanCharged
  <2>2. CASE e \notin events
    BY <1>1, <1>3, <2>2
  <2> QED BY <2>1, <2>2
(* A delivery takes its event from Stripe and keeps it; it reads a period there. *)
<1>5. ASSUME NEW c \in Deliveries, delivery'[c].pc # "idle"
      PROVE  /\ \/ delivery'[c].event \in events
                \/ delivery[c].pc # "idle" /\ delivery'[c].event = delivery[c].event
             /\ delivery'[c].pc = "activate" =>
                  \/ delivery[c].pc = "activate" /\ delivery'[c] = delivery[c]
                  \/ /\ delivery[c].pc # "idle" /\ delivery[c].event.kind = "paid"
                     /\ delivery'[c].end = sub[delivery[c].event.of].end
                     /\ delivery'[c].event = delivery[c].event
  <2>1. UNCHANGED delivery \/ \E d \in Deliveries : Steps(d) \/ Die(d) \/ \E e \in Events : Deliver(d, e)
    BY DEF Next, PassTime, ChargeFails, SubscriptionEnds, ChargeSucceeds, VerifyRead, FeeInvoiceFails, Subscribe,
           ConsumeAgentCredit, LedgerAnswers, VerifyActivate, VerifyCredits, RedeemGift, GrantHandoffYear,
           PayForPack, PayForGift, VerifyGift, ClaimLapses
  <2>2. CASE UNCHANGED delivery
    BY <1>5, <2>2
  <2>3. ASSUME NEW d \in Deliveries, Steps(d) \/ Die(d) \/ \E e \in Events : Deliver(d, e)
        PROVE  \/ delivery' = [delivery EXCEPT ![d] = Idle] \/ UNCHANGED delivery
               \/ \E e \in events : delivery' = [delivery EXCEPT ![d] = [pc |-> "claim", event |-> e, end |-> 0]]
               \/ /\ delivery[d].pc # "idle"
                  /\ \E pc \in {"handle", "finish"} : delivery' = [delivery EXCEPT ![d].pc = pc]
               \/ /\ delivery[d].pc # "idle" /\ delivery[d].event.kind = "paid"
                  /\ delivery' = [delivery EXCEPT ![d] =
                       [@ EXCEPT !.pc = "activate", !.end = sub[delivery[d].event.of].end]]
    <3>1. CASE ReadSubscription(d)
      BY <3>1 DEF ReadSubscription
    <3>2. CASE Succeeds(d)
      BY <3>2 DEF Succeeds, Effect
    <3>3. CASE Claim(d) \/ Fails(d) \/ Finish(d) \/ Die(d) \/ \E e \in Events : Deliver(d, e)
      BY <3>3 DEF Claim, Fails, Finish, Die, Deliver
    <3> QED BY <2>3, <3>1, <3>2, <3>3 DEF Steps
  <2>4. ASSUME NEW d \in Deliveries, delivery' = [delivery EXCEPT ![d] = Idle]
        PROVE  c # d /\ delivery'[c] = delivery[c]
    BY <1>2, <1>5, <2>4 DEF Idle
  <2>5. ASSUME NEW d \in Deliveries, NEW e \in events,
               delivery' = [delivery EXCEPT ![d] = [pc |-> "claim", event |-> e, end |-> 0]]
        PROVE  delivery'[c] = delivery[c] \/ (delivery'[c].event = e /\ delivery'[c].pc = "claim")
    BY <1>2, <2>5
  <2>6. ASSUME NEW d \in Deliveries, delivery[d].pc # "idle", NEW pc \in {"handle", "finish"},
               delivery' = [delivery EXCEPT ![d].pc = pc]
        PROVE  \/ delivery'[c] = delivery[c]
               \/ c = d /\ delivery'[c].event = delivery[c].event /\ delivery'[c].pc = pc
    BY <1>2, <2>6
  <2>7. ASSUME NEW d \in Deliveries,
               delivery' = [delivery EXCEPT ![d] =
                 [@ EXCEPT !.pc = "activate", !.end = sub[delivery[d].event.of].end]]
        PROVE  \/ delivery'[c] = delivery[c]
               \/ /\ c = d /\ delivery'[c].event = delivery[c].event
                  /\ delivery'[c].end = sub[delivery[c].event.of].end
    BY <1>2, <2>7
  <2>8. CASE \E d \in Deliveries : Steps(d) \/ Die(d) \/ \E e \in Events : Deliver(d, e)
    <3>1. PICK d \in Deliveries : Steps(d) \/ Die(d) \/ \E e \in Events : Deliver(d, e)
      BY <2>8
    <3>2. CASE delivery'[c] = delivery[c]
      BY <1>5, <3>2
    <3>3. CASE delivery'[c] # delivery[c]
      <4>1. CASE \E e \in events : delivery' = [delivery EXCEPT ![d] = [pc |-> "claim", event |-> e, end |-> 0]]
        BY <2>5, <3>3, <4>1
      <4>2. CASE /\ delivery[d].pc # "idle"
                 /\ \E pc \in {"handle", "finish"} : delivery' = [delivery EXCEPT ![d].pc = pc]
        BY <2>6, <3>3, <4>2
      <4>3. CASE /\ delivery[d].pc # "idle" /\ delivery[d].event.kind = "paid"
                 /\ delivery' = [delivery EXCEPT ![d] =
                      [@ EXCEPT !.pc = "activate", !.end = sub[delivery[d].event.of].end]]
        BY <2>7, <3>3, <4>3
      <4> QED BY <2>3, <2>4, <3>1, <3>3, <4>1, <4>2, <4>3
    <3> QED BY <3>2, <3>3
  <2> QED BY <2>1, <2>2, <2>8
<1>6. ASSUME NEW d \in Deliveries, delivery'[d].pc # "idle"
      PROVE  /\ delivery'[d].event.kind = "updated" => delivery'[d].event.end <= sub'[delivery'[d].event.of].end
             /\ delivery'[d].pc = "activate" => delivery'[d].end <= sub'[delivery'[d].event.of].end
  <2>1. delivery'[d].event \in Events
    BY <1>2, <1>5, <1>6
  <2>2. delivery'[d].event.kind = "updated" => delivery'[d].event.end <= sub[delivery'[d].event.of].end
    BY <1>5, <1>6 DEF NoLongerThanCharged
  <2>3. delivery'[d].pc = "activate" =>
          /\ delivery'[d].event.kind = "paid" /\ delivery'[d].end \in Nat
          /\ delivery'[d].end <= sub[delivery'[d].event.of].end
    BY <1>1, <1>2, <1>5, <1>6 DEF NoLongerThanCharged
  <2> QED BY <1>1, <1>2, <2>1, <2>2, <2>3
<1>7. ASSUME NEW u \in Users, page'[u].sub # None
      PROVE  sub'[page'[u].sub].owner = u /\ page'[u].end <= sub'[page'[u].sub].end
  <2>1. /\ page \in [Users -> [sub : Subs \cup {None}, end : Times]] /\ None \notin Users
        /\ \A t \in Times : t \in Nat
    BY EventTypes, NoneIsApart DEF TInv, TypeOK
  <2>2. UNCHANGED page \/ \E x \in Users : VerifyActivate(x) \/ \E s \in Subs : VerifyRead(x, s)
    BY DEF Next, PassTime, ChargeFails, SubscriptionEnds, ChargeSucceeds, FeeInvoiceFails, Subscribe,
           ConsumeAgentCredit, LedgerAnswers, VerifyCredits, RedeemGift, GrantHandoffYear,
           PayForPack, PayForGift, VerifyGift, ClaimLapses, Steps, Claim, ReadSubscription, Succeeds, Fails,
           Finish, Die, Deliver
  <2>3. CASE page'[u] = page[u]
    BY <1>1, <1>7, <2>1, <2>3 DEF NoLongerThanCharged
  <2>4. ASSUME NEW x \in Users, VerifyActivate(x) PROVE page'[u] = page[u]
    BY <1>7, <2>1, <2>4 DEF VerifyActivate
  <2>5. ASSUME NEW x \in Users, NEW s \in Subs, VerifyRead(x, s)
        PROVE  \/ page'[u] = page[u]
               \/ sub[s].owner = u /\ page'[u].sub = s /\ page'[u].end = sub[s].end
    BY <2>1, <2>5 DEF VerifyRead
  <2> QED BY <1>1, <2>1, <2>2, <2>3, <2>4, <2>5
<1> QED BY <1>4, <1>6, <1>7 DEF NoLongerThanCharged

(* What a step does to the plan of a user. *)
LEMMA CallsMovePlans ==
  ASSUME TInv, NoLongerThanCharged, NEW c \in Users,
         NEW d \in Deliveries, Effect(d)
  PROVE  /\ bought' = bought
         /\ \/ plan'[c] = plan[c] \/ plan'[c].tier = "Free"
            \/ \E s \in Subs : /\ sub[s].owner = c
                               /\ \/ plan'[c].until = plan[c].until /\ plan[c].tier = "Pro"
                                  \/ plan'[c].until <= sub[s].end
<1>1. /\ plan \in [Users -> [tier : {"Free", "Pro"}, until : Nat]] /\ None \notin Users
      /\ delivery[d].pc # "idle" => delivery[d].event \in Events
      /\ delivery[d].pc = "activate" => delivery[d].event.kind = "paid"
  BY NoneIsApart DEF TInv, TypeOK, DeliveriesHoldEvents
<1>2. ASSUME NEW u, Downgrade(u)
      PROVE  bought' = bought /\ (plan'[c] = plan[c] \/ plan'[c].tier = "Free")
  BY <1>1, <1>2 DEF Downgrade
<1>3. ASSUME NEW s \in Subs, NEW u, NEW end, Activate(u, s, end), u = sub[s].owner, end <= sub[s].end
      PROVE  /\ bought' = bought
             /\ \/ plan'[c] = plan[c]
                \/ /\ sub[s].owner = c
                   /\ \/ plan'[c].until = plan[c].until /\ plan[c].tier = "Pro"
                      \/ plan'[c].until <= sub[s].end
  BY <1>1, <1>3 DEF Activate, PaidUntil
<1>4. CASE delivery[d].pc = "handle" /\ delivery[d].event.kind = "updated"
  <2>1. delivery[d].event.of \in Subs /\ delivery[d].event.end <= sub[delivery[d].event.of].end
    BY <1>1, <1>4, EventTypes DEF NoLongerThanCharged
  <2>2. Activate(sub[delivery[d].event.of].owner, delivery[d].event.of, delivery[d].event.end)
    BY <1>4 DEF Effect, Payer
  <2> QED BY <1>3, <2>1, <2>2
<1>5. CASE delivery[d].pc = "activate"
  <2>1. delivery[d].event.of \in Subs /\ delivery[d].end <= sub[delivery[d].event.of].end
    BY <1>1, <1>5, EventTypes DEF NoLongerThanCharged
  <2>2. Activate(sub[delivery[d].event.of].owner, delivery[d].event.of, delivery[d].end)
    BY <1>1, <1>5 DEF Effect, Payer
  <2> QED BY <1>3, <2>1, <2>2
<1>6. CASE \E k : GrantCredits(k)
  BY <1>6 DEF GrantCredits
<1>7. CASE \E g : RecordGift(g)
  BY <1>7 DEF RecordGift
<1> QED BY <1>2, <1>4, <1>5, <1>6, <1>7 DEF Effect

(* The steps that move plans. *)
LEMMA PlansAreMovedBy ==
  ASSUME [Next]_vars
  PROVE  \/ UNCHANGED <<plan, bought>> \/ \E d \in Deliveries : Effect(d)
         \/ \E u \in Users : \/ VerifyActivate(u) \/ \E g \in Gifts : RedeemGift(u, g)
                             \/ \E h \in Homes : GrantHandoffYear(u, h)
                             \/ \E paid \in BOOLEAN : LedgerAnswers(u, paid)
<1> USE DEF vars, stripe, worker, once, canister
<1>1. ASSUME NEW k \in Packs, NEW u \in Users, VerifyCredits(u, k) PROVE UNCHANGED <<plan, bought>>
  BY <1>1 DEF VerifyCredits, GrantCredits
<1>2. ASSUME NEW g \in Gifts, VerifyGift(g) PROVE UNCHANGED <<plan, bought>>
  BY <1>2 DEF VerifyGift, RecordGift
<1>3. ASSUME NEW d \in Deliveries, Steps(d) \/ Die(d) PROVE UNCHANGED <<plan, bought>> \/ Effect(d)
  BY <1>3 DEF Steps, Claim, ReadSubscription, Succeeds, Fails, Finish, Die
<1> QED BY <1>1, <1>2, <1>3 DEF Next, PassTime, ChargeFails, SubscriptionEnds, ChargeSucceeds, FeeInvoiceFails,
      Subscribe, ConsumeAgentCredit, PayForPack, PayForGift, ClaimLapses, VerifyRead, Deliver

LEMMA StepsMovePlans ==
  ASSUME TInv, NoLongerThanCharged, NEW c \in Users, [Next]_vars
  PROVE  \/ bought'[c] = bought[c] /\ (plan'[c] = plan[c] \/ plan'[c].tier = "Free")
         \/ /\ bought'[c] = bought[c]
            /\ \E s \in Subs : /\ sub[s].owner = c
                               /\ \/ plan'[c].until = plan[c].until /\ plan[c].tier = "Pro"
                                  \/ plan'[c].until <= sub[s].end
         \/ /\ bought'[c] = bought[c] + 1
            /\ \/ plan[c].tier = "Pro" /\ plan'[c].until = plan[c].until + Period
               \/ plan'[c].until = clock + Period
<1> USE DEF vars, stripe, worker, once, canister
<1>1. /\ plan \in [Users -> [tier : {"Free", "Pro"}, until : Nat]] /\ bought \in [Users -> Nat]
  BY DEF TInv, TypeOK
<1>2. ASSUME NEW u \in Users, \/ \E g \in Gifts : RedeemGift(u, g)
                              \/ \E h \in Homes : GrantHandoffYear(u, h)
                              \/ \E paid \in BOOLEAN : LedgerAnswers(u, paid)
      PROVE  \/ bought'[c] = bought[c] /\ plan'[c] = plan[c]
             \/ /\ bought'[c] = bought[c] + 1
                /\ \/ plan[c].tier = "Pro" /\ plan'[c].until = plan[c].until + Period
                   \/ plan'[c].until = clock + Period
  BY <1>1, <1>2 DEF RedeemGift, GrantHandoffYear, LedgerAnswers
<1>3. ASSUME NEW u \in Users, VerifyActivate(u)
      PROVE  \/ bought' = bought /\ plan'[c] = plan[c]
             \/ /\ bought' = bought
                /\ \E s \in Subs : /\ sub[s].owner = c
                                   /\ \/ plan'[c].until = plan[c].until /\ plan[c].tier = "Pro"
                                      \/ plan'[c].until <= sub[s].end
  <2>1. page[u].sub \in Subs /\ sub[page[u].sub].owner = u /\ page[u].end <= sub[page[u].sub].end
    BY <1>3 DEF VerifyActivate, TInv, TypeOK, NoLongerThanCharged
  <2> QED BY <1>1, <1>3, <2>1 DEF VerifyActivate, Activate, PaidUntil
<1>4. ASSUME NEW d \in Deliveries, Effect(d)
      PROVE  /\ bought' = bought
             /\ \/ plan'[c] = plan[c] \/ plan'[c].tier = "Free"
                \/ \E s \in Subs : /\ sub[s].owner = c
                                   /\ \/ plan'[c].until = plan[c].until /\ plan[c].tier = "Pro"
                                      \/ plan'[c].until <= sub[s].end
  BY <1>4, CallsMovePlans
<1>5. \/ UNCHANGED <<plan, bought>> \/ \E d \in Deliveries : Effect(d)
      \/ \E u \in Users : \/ VerifyActivate(u) \/ \E g \in Gifts : RedeemGift(u, g)
                          \/ \E h \in Homes : GrantHandoffYear(u, h)
                          \/ \E paid \in BOOLEAN : LedgerAnswers(u, paid)
  BY PlansAreMovedBy
<1>6. CASE \E u \in Users : \/ VerifyActivate(u) \/ \E g \in Gifts : RedeemGift(u, g)
                            \/ \E h \in Homes : GrantHandoffYear(u, h)
                            \/ \E paid \in BOOLEAN : LedgerAnswers(u, paid)
  BY <1>2, <1>3, <1>6
<1>7. CASE \E d \in Deliveries : Effect(d)
  BY <1>4, <1>7
<1> QED BY <1>5, <1>6, <1>7

LEMMA PNext == PInv /\ [Next]_vars => PInv'
<1> SUFFICES ASSUME PInv, [Next]_vars PROVE PInv'
  OBVIOUS
<1>1. TInv' /\ UnchargedIsNobodys' /\ NoLongerThanCharged'
  BY TNext, SubscriptionsGoOn, RequestsStayWithin DEF PInv
<1>2. clock \in Nat /\ clock' \in Nat /\ clock <= clock'
  <2>1. clock \in Nat /\ clock' \in Nat
    BY <1>1, SizesAreNatural DEF PInv, TInv, TypeOK
  <2>2. clock' = clock \/ clock' = clock + 1
    BY DEF PInv, Next, vars, stripe, canister, worker, once, PassTime, ChargeFails, SubscriptionEnds, ChargeSucceeds,
         FeeInvoiceFails, Subscribe, ConsumeAgentCredit, PayForPack, PayForGift, ClaimLapses, VerifyRead,
         Deliver, VerifyCredits, VerifyGift, Steps, Die, Claim, ReadSubscription, Succeeds, Fails, Finish,
         VerifyActivate, RedeemGift, GrantHandoffYear, LedgerAnswers
  <2> QED BY <2>1, <2>2
<1>3. /\ \A s \in Subs : /\ sub[s].end \in Nat /\ sub'[s].end \in Nat /\ sub[s].end <= sub'[s].end
                         /\ sub[s].owner # None => sub'[s].owner = sub[s].owner
      /\ None \notin Users /\ \A u \in Users : /\ bought[u] \in Nat /\ plan[u].until \in Nat /\ plan'[u].until \in Nat
                                               /\ plan'[u].tier \in {"Free", "Pro"}
  BY <1>1, SubscriptionsGoOn, EventTypes, NoneIsApart DEF PInv, TInv, TypeOK
<1>4. ASSUME NEW u \in Users, NEW until \in Nat, NEW n \in Nat, MayRun(until, u, clock, sub, n)
      PROVE  MayRun(until, u, clock', sub', n)
  <2>1. Period * n \in Nat
    BY OnePeriodMore
  <2>2. PICK t \in Nat : /\ t = clock \/ \E s \in Subs : sub[s].owner = u /\ t = sub[s].end
                         /\ until <= t + Period * n
    BY <1>4 DEF MayRun
  <2> DEFINE m == Period * n
  <2>3. PICK x \in Nat : /\ x = clock' \/ \E s \in Subs : sub'[s].owner = u /\ x = sub'[s].end
                         /\ t <= x
    BY <1>2, <1>3, <2>2
  <2>4. until <= x + m
    <3>1. m \in Nat /\ until <= t + m
      BY <2>1, <2>2
    <3> HIDE DEF m
    <3> QED BY <2>3, <3>1
  <2> QED BY <2>3, <2>4 DEF MayRun
<1>5. ASSUME NEW u \in Users, plan'[u].tier = "Pro"
      PROVE  MayRun(plan'[u].until, u, clock', sub', bought'[u])
  <2>1. plan[u].tier = "Pro" => MayRun(plan[u].until, u, clock', sub', bought[u])
    BY <1>3, <1>4, PaidMeansAllowed DEF PInv, TInv, PlansMayRun
  <2>2. CASE bought'[u] = bought[u] /\ plan'[u] = plan[u]
    BY <1>5, <2>1, <2>2
  <2>3. CASE /\ bought'[u] = bought[u]
             /\ \E s \in Subs : /\ sub[s].owner = u
                                /\ \/ plan'[u].until = plan[u].until /\ plan[u].tier = "Pro"
                                   \/ plan'[u].until <= sub[s].end
    <3>1. CASE plan'[u].until = plan[u].until /\ plan[u].tier = "Pro"
      BY <2>1, <2>3, <3>1
    <3>2. ASSUME NEW s \in Subs, sub[s].owner = u, plan'[u].until <= sub[s].end
          PROVE  MayRun(plan'[u].until, u, clock', sub', bought[u])
      <4> DEFINE m == Period * bought[u]
      <4>1. m \in Nat /\ sub'[s].end \in Nat /\ plan'[u].until <= sub'[s].end /\ sub'[s].owner = u
        BY <1>3, <3>2, OnePeriodMore
      <4>2. plan'[u].until <= sub'[s].end + m
        <5> HIDE DEF m
        <5> QED BY <1>3, <4>1
      <4> QED BY <4>1, <4>2 DEF MayRun
    <3> QED BY <2>3, <3>1, <3>2
  <2>4. CASE /\ bought'[u] = bought[u] + 1
             /\ \/ plan[u].tier = "Pro" /\ plan'[u].until = plan[u].until + Period
                \/ plan'[u].until = clock + Period
    <3> DEFINE m == Period * bought[u]
    <3>1. m \in Nat /\ Period * bought'[u] = m + Period
      BY <1>3, <2>4, OnePeriodMore
    <3>2. PICK t \in Nat : /\ t = clock' \/ \E s \in Subs : sub'[s].owner = u /\ t = sub'[s].end
                           /\ plan'[u].until <= t + m + Period
      <4>1. CASE plan[u].tier = "Pro" /\ plan'[u].until = plan[u].until + Period
        <5>1. PICK t \in Nat : /\ t = clock' \/ \E s \in Subs : sub'[s].owner = u /\ t = sub'[s].end
                               /\ plan[u].until <= t + m
          BY <2>1, <4>1 DEF MayRun
        <5> HIDE DEF m
        <5> QED BY <1>3, <3>1, <4>1, <5>1, SizesAreNatural
      <4>2. CASE plan'[u].until = clock + Period
        <5> HIDE DEF m
        <5> QED BY <1>2, <3>1, <4>2, SizesAreNatural
      <4> QED BY <2>4, <4>1, <4>2
    <3>3. plan'[u].until <= t + Period * bought'[u]
      <4> HIDE DEF m
      <4> QED BY <3>1, <3>2, SizesAreNatural
    <3> QED BY <3>2, <3>3 DEF MayRun
  <2> QED BY <1>5, <2>2, <2>3, <2>4, StepsMovePlans DEF PInv
<1>6. TypeOK' => (WithinPaid' <=> PlansMayRun')
  BY PaidMeansAllowed, PTL
<1> QED BY <1>1, <1>5, <1>6 DEF PInv, TInv, PlansMayRun

-----------------------------------------------------------------------------
(* Paid time.  What is under way was told by Stripe, and what was told stays  *)
(* told: a plan can only be taken away by an event FailureTold sees.          *)
EventsAreTold == \A d \in Deliveries : delivery[d].pc # "idle" => delivery[d].event \in events \cup done

LEMMA ToldStays ==
  ASSUME TInv, EventsAreTold, [Next]_vars
  PROVE  EventsAreTold'
<1> USE DEF vars, stripe, worker, once, canister
<1>1. \A d \in Deliveries : DOMAIN delivery[d] = {"pc", "event", "end"} /\ delivery \in [Deliveries -> {delivery[x] : x \in Deliveries}]
  BY DEF TInv, TypeOK
<1>2. ASSUME NEW x \in Deliveries, NEW e, Deliver(x, e)
      PROVE  EventsAreTold'
  BY <1>1, <1>2 DEF Deliver, EventsAreTold
<1>3. ASSUME NEW x \in Deliveries, Steps(x) \/ Die(x)
      PROVE  EventsAreTold'
  <2>1. events \cup done \subseteq events' \cup done'
    BY <1>3 DEF Steps, Claim, ReadSubscription, Succeeds, Fails, Finish, Die
  <2>2. ASSUME NEW d \in Deliveries, delivery'[d].pc # "idle"
        PROVE  delivery[d].pc # "idle" /\ delivery'[d].event = delivery[d].event
    <3>1. CASE Claim(x) \/ Finish(x)
      BY <1>1, <2>2, <3>1 DEF Claim, Finish, Idle
    <3>2. CASE ReadSubscription(x)
      BY <1>1, <2>2, <3>2 DEF ReadSubscription
    <3>3. CASE Succeeds(x)
      <4>1. delivery' = [delivery EXCEPT ![x].pc = "finish"] /\ delivery[x].pc # "idle"
        BY <3>3 DEF Succeeds, Effect
      <4> QED BY <1>1, <2>2, <4>1
    <3>4. CASE Fails(x) \/ Die(x)
      <4>1. delivery' = [delivery EXCEPT ![x] = Idle]
        BY <3>4 DEF Fails, Die
      <4> QED BY <1>1, <2>2, <4>1 DEF Idle
    <3> QED BY <1>3, <3>1, <3>2, <3>3, <3>4 DEF Steps
  <2> QED BY <2>1, <2>2 DEF EventsAreTold
<1>4. ASSUME UNCHANGED <<delivery, done>>, events \subseteq events'
      PROVE  EventsAreTold'
  BY <1>4 DEF EventsAreTold
<1>5. \/ UNCHANGED <<delivery, done>> /\ events \subseteq events'
      \/ \E x \in Deliveries : Steps(x) \/ Die(x) \/ \E e \in Events : Deliver(x, e)
  <2>1. ASSUME NEW new, Emits(new) PROVE events \subseteq events'
    BY <2>1 DEF Emits
  <2>2. ASSUME NEW c \in Subs, NEW u \in Users, ChargeSucceeds(c, u)
        PROVE  UNCHANGED <<delivery, done>> /\ events \subseteq events'
    BY <2>1, <2>2 DEF ChargeSucceeds
  <2>3. ASSUME NEW c \in Subs, ChargeFails(c) \/ SubscriptionEnds(c)
        PROVE  UNCHANGED <<delivery, done>> /\ events \subseteq events'
    BY <2>1, <2>3 DEF ChargeFails, SubscriptionEnds
  <2>4. ASSUME NEW u \in Users, FeeInvoiceFails(u) \/ \E k \in Packs : PayForPack(k, u)
        PROVE  UNCHANGED <<delivery, done>> /\ events \subseteq events'
    BY <2>1, <2>4 DEF FeeInvoiceFails, PayForPack
  <2>5. ASSUME NEW g \in Gifts, PayForGift(g) \/ VerifyGift(g)
        PROVE  UNCHANGED <<delivery, done>> /\ events \subseteq events'
    BY <2>1, <2>5 DEF PayForGift, VerifyGift
  <2> QED BY <2>2, <2>3, <2>4, <2>5 DEF Next, PassTime, Subscribe, ConsumeAgentCredit, ClaimLapses, VerifyRead,
        VerifyCredits, VerifyActivate, RedeemGift, GrantHandoffYear, LedgerAnswers
<1> QED BY <1>2, <1>3, <1>4, <1>5

LEMMA EffectKeepsPaidTime ==
  ASSUME TInv, EventsAreTold, NEW u \in Users, NEW d \in Deliveries, Effect(d)
  PROVE  KeepsPaidTime(u)
<1> SUFFICES ASSUME plan[u].tier = "Pro", ~FailureTold(u)
             PROVE  plan'[u].tier = "Pro" /\ plan'[u].until >= plan[u].until
  BY DEF KeepsPaidTime
<1>1. plan \in [Users -> [tier : {"Free", "Pro"}, until : Nat]] /\ plan[u].until \in Nat
  BY DEF TInv, TypeOK
<1>2. CASE delivery[d].pc = "handle" /\ delivery[d].event.kind \in {"failed", "ended", "feeFailed"}
  <2>1. Payer(delivery[d].event) # u
    BY <1>2 DEF FailureTold, EventsAreTold
  <2>2. Downgrade(Payer(delivery[d].event))
    BY <1>2 DEF Effect
  <2> QED BY <1>1, <2>1, <2>2 DEF Downgrade
<1>3. ASSUME NEW x, NEW s, NEW end \in Nat, Activate(x, s, end)
      PROVE  plan'[u].tier = "Pro" /\ plan'[u].until >= plan[u].until
  BY <1>1, <1>3 DEF Activate, PaidUntil
<1>4. CASE delivery[d].pc = "handle" /\ delivery[d].event.kind = "updated"
  <2>1. delivery[d].event.end \in Nat
    BY <1>4, EventTypes DEF TInv, DeliveriesHoldEvents
  <2> QED BY <1>3, <1>4, <2>1 DEF Effect
<1>5. CASE delivery[d].pc = "activate"
  <2>1. delivery[d].end \in Nat
    BY EventTypes DEF TInv, TypeOK
  <2> QED BY <1>3, <1>5, <2>1 DEF Effect
<1>6. CASE \E k : GrantCredits(k) \/ RecordGift(k)
  BY <1>1, <1>6 DEF GrantCredits, RecordGift
<1> QED BY <1>2, <1>4, <1>5, <1>6 DEF Effect

LEMMA StepsKeepPaidTime ==
  ASSUME TInv, EventsAreTold, NEW u \in Users, [Next]_vars
  PROVE  KeepsPaidTime(u)
<1>1. /\ plan \in [Users -> [tier : {"Free", "Pro"}, until : Nat]] /\ plan[u].until \in Nat
      /\ clock \in Nat /\ Period \in Nat
  BY SizesAreNatural DEF TInv, TypeOK
<1>2. CASE UNCHANGED <<plan, bought>>
  BY <1>1, <1>2 DEF KeepsPaidTime
<1>3. ASSUME NEW x \in Users, VerifyActivate(x) PROVE KeepsPaidTime(u)
  <2>1. page[x].end \in Nat
    BY EventTypes DEF TInv, TypeOK
  <2> QED BY <1>1, <1>3, <2>1 DEF VerifyActivate, Activate, PaidUntil, KeepsPaidTime, canister
<1>4. ASSUME NEW x \in Users, NEW g \in Gifts, RedeemGift(x, g) PROVE KeepsPaidTime(u)
  BY <1>1, <1>4 DEF RedeemGift, KeepsPaidTime
<1>5. ASSUME NEW x \in Users, NEW h \in Homes, GrantHandoffYear(x, h) PROVE KeepsPaidTime(u)
  BY <1>1, <1>5 DEF GrantHandoffYear, KeepsPaidTime
<1>6. ASSUME NEW x \in Users, NEW paid \in BOOLEAN, LedgerAnswers(x, paid) PROVE KeepsPaidTime(u)
  BY <1>1, <1>6 DEF LedgerAnswers, KeepsPaidTime
<1> QED BY <1>2, <1>3, <1>4, <1>5, <1>6, PlansAreMovedBy, EffectKeepsPaidTime

(* A plan runs no longer than the clock or the last period Stripe has charged *)
(* its user for, and one Period for each gift, handoff year or ICP payment:   *)
(* no replay, delay or repetition of a call to the canister adds to it, and   *)
(* none cuts a plan that runs, as long as Stripe tells of no failed payment.  *)
THEOREM PlansStayAsPaid == Spec => []WithinPaid /\ PlansAreAsPaid
<1>1. PInv => WithinPaid
  BY DEF PInv
<1>2. Init => EventsAreTold
  BY DEF Init, EventsAreTold
<1>3. PInv /\ EventsAreTold /\ [Next]_vars
        => EventsAreTold' /\ [WithinPaid' /\ \A u \in Users : KeepsPaidTime(u)]_vars
  BY PNext, ToldStays, StepsKeepPaidTime DEF PInv
<1> QED BY PInit, PNext, <1>1, <1>2, <1>3, PTL DEF Spec, PlansAreAsPaid
=============================================================================
