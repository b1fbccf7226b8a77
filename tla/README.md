# HomeGentic: formal verification

TLA+ models of the parts of HomeGentic where several people, canisters and
services act on the same record, the TLC runs that check them, and proofs of
the most important results. Each definition is written from the code; the
table `map` of `PROJECT.json` says from which lines.

Contents: 1 the system, 2 how the models are made, 3 the modules, 4 the runs,
5 the proofs, 6 where the code and its documentation disagree, 7 other
observations, 8 what is not modelled, 9 the plan.

## 1. The system

A homeowner keeps the history of a home; contractors quote for work and sign
finished jobs; agents bid for the right to sell the home, or its owner sells
it without one. Twenty Motoko canisters on the Internet Computer hold the
data. A Cloudflare Worker (`agents/voice`) holds the Stripe integration and the
AI proxy, a relay (`agents/notifications`) reads the canisters' outboxes and
sends push, SMS and e-mail, a gateway (`agents/iot-gateway`) turns vendor
webhooks into sensor events. The mobile app keeps writes made without a
connection in a queue. The front ends hold no rule that a canister does not
check again.

### Components

| component | state | operations that change it | talks to | what is hard | what makes it correct |
|---|---|---|---|---|---|
| **listing: Bid to List** | requests, proposals, masked contact data | open, cancel, bid, withdraw, select, award, erase | agent (licence), fee (charge, status), property (ownership) | every decision is followed by an await and made again; a webhook races the homeowner | one paid winner; decisions are final; one bid per agent and at most five |
| **fee: Bid to List fees** | one record per request | record, invoice, pay, waive | called by listing and the admin | selections and settlements overlap | a paid record never moves to another bid |
| **fee: referral ledger** | bids that carry the fee, fees, indexes by quote and by job | record bid / acceptance / job, take due, mark, waive | quote and job report, the Worker collects | reports lost or in any order; a 60-day fallback | one fee per bid and per job; fees move forward |
| **Worker: referral charge run** | none of its own; Stripe's intents, invoices, keys | hourly run, webhooks | fee, Stripe | every call can fail, lose its answer or be cut off | charged once; recorded in the end |
| **quote** | requests, quotes, sealed bids, reveal snapshots | create, quote, bid, accept, close, cancel, reveal, erase | property, payment, contractor, fee | checks before and after awaits; deadline; account deletion in between | one accepted quote; caps; sealed bids frozen at the deadline |
| **job** | jobs, attestations, invite links, invoice inbox | create, edit, sign, link, propose, approve, invite, redeem, erase | property, contractor, fee | two signatures at once; a profile verified meanwhile | no signature is lost; verified is locked; reported once |
| **property** | homes, address index, transfer links, people a home is shared with, rooms | register, import, verify, transfer, claim, share, erase | payment (limit), listing (take down) | two registrations of one address; links that outlive an owner; deletion while a registration waits | one verified home per address; a transfer ends the seller's rights; nothing remains of who left |
| **listing: sale by owner** | live listings, setups, showings, offers | list, hide or show the score, show, offer, accept, end | property (owner, transfers), job, report, market | four awaits between the ownership check and going live; a take-down meanwhile | one seller of a listing and its setup; nothing outlives the sale |
| **payment** | plans, consumed Stripe references, gifts, handoff years, agent credits | activate, downgrade, grant, redeem, subscribe, consume | ICP ledger, Worker | Stripe events late, out of order, several times; success pages do the same in parallel | an event has its effect once; nobody has a plan longer or shorter than it was paid for |
| **Worker: webhook** | KV claims | Stripe events, success pages | payment, Stripe | a claim is looked at and then taken; an isolate dies | a paid period and a paid pack arrive |
| **notification relay** | cursors, devices, alerts that wait | poll, send, persist | all canisters' outboxes, APNs, FCM, Resend, Twilio | crash between sending and the cursor; a lookup that always fails; a reinstalled canister | no event is skipped but a review request of who is not shown to be Pro; none repeated but by a crash or a failed write |
| **mobile offline queue** | a list of writes per user | enqueue, flush, retry, discard, sign in and out | job | every handler reads the list, waits and writes it back; an answer lost, the app ended | saved writes are kept, and sent once |
| contractor, agent | profiles, `isVerified`, reviews, credentials | register, update, verify, review | job (refresh), fee | the refresh message is sent once | one review per job and reviewer; identity edits drop the flag |
| report | snapshots, share links, certificates | generate, share, revoke | property, job, payment | ownership read before an await | a revoked link shows nothing |
| sensor, IoT gateway | devices, events, job slots | register, record event | property, job | events at once; slot reserved over two awaits | one device per external id; one job per device and hour |
| photo (and R2) | records, totals, hashes | upload, delete | property, job, payment | quota checked before awaits; bytes elsewhere | totals equal the photos stored |
| bills, recurring, maintenance, market, monitoring | per-owner records, metrics | add, update, delete | property, payment | little | arithmetic |
| auth, audit, ai_proxy, referrals | profiles and sessions; append-only log; counters; retired data | register, log, outcalls | | little | |
| shared library | admin lists, indexes, outbox, rate windows, digests | | used by all | the outbox drops its oldest entry when full | an index agrees with what it indexes |

The components in bold are modelled. `PROJECT.json` lists them with what is
left out of each, and the others with the reason.

### How they interact

    homeowner ── select bid ──> listing ── recordFeeOwed ──> fee <── markFeePaid ── admin
                                   │  └── getProfile / isVerifiedAgent ──> agent
    webhook ── markListingFeePaid ─┘

    contractor ── quote ──> quote ── recordReferralBid / Accepted ──> fee (referral ledger)
    both sides ── verifyJob ──> job ── recordReferralJobVerified ──────┘      │ due fees
         ^                       │ <── refreshContractorAttestation ──┐       v
         │                       └── recordJobVerified ──> contractor ┘   voice Worker <──> Stripe
    phone: offline queue                                                      │ events, success pages
                                                                              v
    buyer ── claimTransfer ──> property ── propertyTransferred ──> listing   payment <── gifts, ICP
                                  └────────── grantHandoffYear ───────────────^
    quote, job, listing … : outbox <── getNotificationEvents ── relay ──> push, SMS, e-mail

A message to a canister runs without interruption up to its next `await`. While
it waits, other messages run, and the code after the `await` must read again
whatever it depends on. Most handlers here do, and that is what the canister
models are about. A call to another canister can fail; senders that only
print the failure (`recordReferralBid`, `recordReferralJobVerified`,
`refreshContractorAttestation`, `propertyTransferred`) lose the message for
good. Canister state is stable memory: an upgrade keeps all of it, and a call
that is waiting during an upgrade gets no answer, which is a failed call here.
The Worker and the relay run outside: their processes may end at any await, and
several isolates of the Worker run at once. On the phone one thread runs all
handlers, which interleave at their awaits, and the system may end the app.

## 2. How the models are made

**Calls that wait.** A handler that awaits is a record in `call`, `calls`,
`registering`, `delivery`, `task`, `run` or `pass` (or the variables of the
charge run). One action runs it up to the await, with the checks made there;
the callee answers in an action of its own when its state is in the model; a
further action runs the rest on the state of that moment. The set of call names
bounds how many are under way together. When the other canister's state
is not in the model, its answer may be anything at any time.

**One action for a handler** is used when it awaits nothing, when nothing it
read before the await is used after it except what never changes (in `Job`: the
home and the homeowner of a job), or when it reads nothing before its await
(in `Homes`: links and invitations, whose token is random). Its action then
stands for the moment of resumption.

**Identifiers** are handed out once (counters or random ids): an id that was
deleted stays in state `gone`, `deleted` or `spent` and is not used again, or
is a number that grows. Homes are the exception: a home that was deleted leaves
nothing behind that names it (`Homes` states so), so its id may stand for a new
one.

**Left out everywhere** because they only refuse a call: pauses, rate limits,
admin lists, size limits, argument checks. Also contents, texts, amounts and
metrics. A clock is one flag per deadline, set by an action of its own at any
moment (`closed`, `windowClosed`, `expired`, `old`, `wait`, `due`, `fallback`),
or a number where durations are compared (`Homes`, `Billing`).

**History variables** record what the properties speak about; no guard reads
them, but where one bounds the model (`MaxBought`, `MaxFaults`).

| module | variable | what it records |
|---|---|---|
| `BidToList` | `charged` | which bids a fee record named when it was paid |
| `Job` | `signedBy`, `reported` | who gave the contractor's signature; messages sent |
| `Homes` | `registrant` | who registered a home and has owned it since |
| | `erased` | who deleted the account and has not come back |
| `Billing` | `granted`, `spent`, `bought` | grants per pack, credits used, periods got by gift, handoff or ICP |
| `OfflineQueue` | `author`, `received`, `kept`, `discarded` | what the user, the screen and the server know of a write |
| | `doubtful`, `repeated` | writes the server has and the phone does not know of, or could not note; writes carried out again |
| | `clobbered` | a list was written over one that had changed since it was read |
| `Relay` | `sent`, `crashes` | how often each alert was sent, and the relay crashed or could not write its file |
| | `unasked` | review requests passed over, as no lookup showed their contractor to be Pro |
| | `first`, `stale` | where the relay began to read; the cursor belongs to a canister reinstalled since |

## 3. The modules

| module | models | its state and the code's |
|---|---|---|
| `BidToList` | auction half of `listing/main.mo`, fee records of `fee/main.mo` | `request`, `proposal` are `bidRequests`, `proposals`; `fee` is the record `feeByRequest` points at; what `isVerifiedAgent` answers is a free choice each time |
| `Quote` | `quote/main.mo` | `request`, `quote`; `sealed` and `revealed` hold who has a sealed bid and who is in the `revealedBids` snapshot |
| `ReferralLedger` | referral half of `fee/main.mo` | `bid` is `referralBids`, `fee` is `referralFees` with both indexes |
| `ReferralCharge` | `agents/voice/src/referralFees.ts`, the two payment events of `index.ts`; Stripe as external | EXTENDS `ReferralLedger`; `pc`, `todo`, `at`, `held` are the run's local state; `intent`, `invoice`, `key` are Stripe's |
| `Job` | job records, attestations and invite links of `job/main.mo`; `isVerified` and its refresh from `contractor/main.mo` | `job`, `attest` (`contractorAttest`), `invite` (`inviteTokens`) |
| `Tender` | what any auction promises who takes part: an abstract specification | `verdict`, `waiting`, `winners`, `made` |
| `Title` | what any keeper of homes promises their owners: an abstract specification | `title`, `offered`, `access`, `invited` |
| `Homes` | `property/main.mo`: registration, address index, verification, transfer, sharing, deletion | names as in the code; `registering` are the waiting calls, `inFlight` the lock, `invites` the open manager invitations |
| `ForSale` | sale-by-owner half of `listing/main.mo` | EXTENDS `Title` for the homes; `fsboListings`, `fsboDrafts`, `fsboShowings`, `fsboOffers`, `scoreHidden`; `telling` are the messages of the property canister; `Admins` set up homes that are not theirs |
| `Billing` | `payment/main.mo`, the webhook and success pages of `agents/voice/src/index.ts`, `rateLimiter.ts`; Stripe as external | `plan`, `consumed`, `credits`, `handoff`; `done` and `busy` are the KV entries of an event; `delivery`, `page` the requests under way |
| `OfflineQueue` | `mobile/src/services/offlineQueue.ts` with `auth/useAuth.ts` and `context/AppData.tsx` | `scope`, `agent`, `stored` (AsyncStorage, a list per user); `screen` is what `QueueStatusScreen` shows; `task` and `run` are handlers that wait |
| `Relay` | `agents/notifications/poller.ts`, `events.ts`, `persist.ts`; `shared/Notify.mo` | `cursor`, `held`, `saved` (the file); `pass` is `pollOnce`; `latest`, `outbox` are the canisters' |
| `BidToListProofs`, `QuoteProofs`, `ReferralChargeProofs`, `JobProofs`, `HomesProofs`, `BillingProofs`, `OfflineQueueProofs`, `SaleAndRelayProofs` (of `ForSale` and of `Relay`) | | theorems and proofs |
| `MC…` | | instances for TLC with their symmetry |

### How the modules are composed

- `ReferralCharge` joins two components: a step of the run that calls the
  canister is a conjunction of the run's own change and the ledger's action
  of that name (`TakeDueReferralFees`, `RelayMarkReferralFeePaid`,
  `RelayMarkReferralFeeFailed`), and everything the ledger does for others
  (`Others`) runs in between.
- `Quote` and `BidToList` implement `Tender`: `TenderOf == INSTANCE Tender WITH …`
  maps the status of a request to `verdict`, the pending and the accepted bids on
  it to `waiting` and `winners`, and the bids that have a record, or had one, to
  `made`. In a step of `Tender` a request is decided, its winner chosen among the
  bids that wait at that moment, and the others turned down; the code gets there
  over two or three awaits. The two differ in `MayErase`: the quote canister lets
  a homeowner delete an accepted request, the listing canister keeps an award.
- `Homes` implements `Title`: `TitleOf == INSTANCE Title WITH …` maps the owner of
  a live home to `title`, the giver of its transfer link to `offered`, the users it
  is shared with to `access` and an open invitation to `invited`. `Title` says
  that a home is passed on only by its present owner's own offer; the code
  never asks that, and it holds because a link dies with the ownership it was
  given under.
- `ForSale` stands on `Title` instead of `Homes`: of the property canister it uses
  only what `Title` promises, which `Homes` is shown to keep. `ChangesHands` is
  `Convey` with the message that follows it.

Names follow the code: `submitProposal` is `SubmitProposal` up to its await and
`SubmitProposalResume` after it, and so on. Where it differs:

- `AgentReplies`, `FeeReplies`, `FeeRepliesToErase`, `AskStatusToVerify` and
  `AskStatusToSign` are the callees' answers, read from the state they have when
  they answer; so are `OwnerIs`, `TierAnswers`, `LedgerAnswers`, `RequestAnswers`.
- `RecordFeeOwed` is the fee canister's handler run for `acceptProposal`; a lost
  answer changes nothing more, because `acceptProposal` only passes it on.
- `NewCharge` may leave the run at `charge`: the answer was lost and the
  client library sends the call again with the same key.
- `Fails` and `Die` in `Billing` may carry the canister's call out or not.
- `NotSaved` and `MergeFails` in `OfflineQueue`, `NotSaved` and `DropNotSaved` in
  `Relay`, are writes of the storage or the file that fail. `Look` is the screen's
  reading of the queue, on which *Retry* and *Discard* act later.
- `RespondToShowing` answers *Declined* or *Answered*, which is *Accepted* or
  *AlternateProposed*, and may be given again.
- `Send` in `OfflineQueue` decides whether the server takes the write; `Sent` and
  `NotSent` are what the phone hears of it.

Definitions whose comment begins with *mutant* are faulty variants of the
definition they stand before, as a plausible mistake would write it (a check
not made again after an await, a dropped cap, a missing reset). No
specification uses them. `PROJECT.json` pairs each with the property that
fails when it takes the original's place.

## 4. The runs

All with `tlc -config <cfg> <module>`; each passes.

| run | instance | distinct states | question |
|---|---|---|---|
| `bid_race` | 1 request, 3 bids, 3 agents, 2 calls, 2 slots; the homeowner may delete the account | 526 209 | Do two submissions (for the last slot, or of one agent), selections or awards at once, with cancellation, withdrawal, deletion, licence answers and all fee calls in between, leave one paid winner or none? |
| `quote_race` | 1 request, 3 quotes, 2 contractors, 2 calls, caps 1 and 2, homeowner and one contractor may erase | 118 187 | Quotes, sealed bids, accept, close, cancel, reveal at once, around the deadline |
| `quote_plans` | 3 requests, 1 quote, 2 homeowners on Free, one also contractor and erasing, limit 1 | 176 276 | Does any creation go past the Free limit? |
| `job_sign` | 1 job, 1 home principal, 2 contractors, 1 link, 2 calls | 1.02 million | Signatures by all three ways at once, with linking, edits, deletion and a profile verified meanwhile |
| `referral_ledger` | 3 bids, 2 jobs, 3 fees, 2 places | 36 161 | One fee per bid and job, in every order and with any report lost |
| `referral_charge` | 1 fee, 2 intents, 2 invoices | 12 432 | A fee is collected once and, under fairness, recorded in the end |
| `homes` | 2 users and an admin, 2 homes, 1 address, 2 registrations at once, 1 home per plan, 2 links or invitations, a window of 1 | 138 750 | Do registration, verification, transfer, sharing and deletion in any order keep one verified home per address, the plan's limit and what `Title` promises? |
| `for_sale` | 2 users, one of them an administrator, 1 home, 2 calls, 1 offer, 2 requests for a showing of which 1 is kept, 2 changes of hands | 1.26 million | Does a home change hands, or a listing come down, under waiting calls without leaving anything behind or mixing two sellers? |
| `billing` | 1 user, 1 subscription, 1 gift, 1 delivery, 5 events, 2 time units per period, 2 periods | 3.46 million | Stripe's events late, repeated, in any order and beside the success page, over a renewal: is a plan what was paid for, no longer and no shorter, and a gift redeemed once? |
| `billing_arrives` | 1 user, 1 subscription of one period, 1 pack, 1 home handed over, 2 deliveries, 2 events | 22 241 | Is a pack granted once, and does what was paid for arrive, although calls fail, answers are lost and isolates die? |
| `queue` | 2 users, 1 write, 1 task and 2 flushes at once, 2 back-offs | 237 696 | Is a saved write kept, sent once, and never pending for ever, although the storage may refuse reads and writes? |
| `relay` | the lead of the quote canister (1 event), review requests of the job canister (2 events), 1 recipient, 2 passes, outbox and page of 2, 1 crash, failed write or reinstallation of either | 66 606 | Is every event told, through crashes, failed writes and lookups and paging? |

The properties, by the code they are about; the comment over each says it in
full.

- `AwardedIffOneWinner`, `ChargeThenRelease`, `BidLimits`, `DecisionsAreFinal`
  in `BidToList`. The second is the listing canister's "Invariant 04": a
  homeowner's contact data is released only to a bid whose fee was paid while
  the record named that bid.
- `AcceptedIffOneQuote`, `QuotedIffPending`, `BidCaps`,
  `NothingOutlivesItsRequest`, `OutcomesAreFinal`, `SealedBidsFreeze`,
  `CreationsWithinLimit`, `KeepsTender` in `Quote`. The last is the refinement,
  with `TenderSpec` as the property.
- `OneFeeEach` in `ReferralLedger`; `CollectedOnce`, `PaidIsCollected`,
  `DueIsSettled`, `CollectedIsRecorded` in `ReferralCharge`.
- `ReportedOnce`, `SignedIsAttested`, `SignaturesAreKept` in `Job`.
- `VerifiedHomeHoldsItsAddress`, `WindowIsNotRenewed` (the seven days in which
  others are kept out), `RegistrationsStayInPlan`, `ErasedIsGone`, `KeepsTitle` in
  `Homes`. The last is the refinement, with `TitleSpec` as the property.
- `HiddenScoreIsNotShown`, `NothingOutlivesTheSale`, `SaleHasOneSeller` in
  `ForSale`.
- `CreditsOnce`, `PlansAreAsPaid`, `GiftsAreRedeemedOnce`, `PeriodsAreActivated`,
  `PacksAreGranted` in `Billing`. The second says of every step that it leaves
  plans within an upper bound (`WithinPaid`) and shortens none (`KeepsPaidTime`): a
  late event shortens no plan that runs.
- `SavedIsKept`, `SentOnce`, `PendingResolves` in `OfflineQueue`.
- `NothingSkipped`, `SentOnce`, `EventsAreTold`, `HeldAlertsEnd` in `Relay`.

The type invariant is proved of every module with a proof module, so no run
repeats it. `FeeLifecycle`, `PausedCanPay`, `SettledFeeKeepsItsBid`,
`FreeOpenLimit`, and `KeepsTender` of `BidToList` are proved only; the last would
make `bid_race` much longer.

**Deadlock** is checked but in `bid_race`, whose ids end when all bids are gone, and
in the two runs of `Billing`, where time, events and purchases end by their
bounds. The other instances cannot stop: profiles change,
accounts are deleted, the next hourly run or pass begins.

**Why the bounds are enough to be interesting.** A race needs two calls under
way and a third actor; all handlers of one action give the third.

- In `bid_race` three agents compete for two slots, so two submissions at once
  race for the last, and a withdrawal makes room for the third bid. Three quotes
  give a winner, a loser and, after a deletion, a new one; caps of 1 and 2 make
  limits bite. Deletion of an agent's own account
  runs in `BidToList` only in the proofs, which are for any set of `Erasers`.
- In `referral_ledger` three bids over two places give two matches for one job
  and a bid that matches nothing. In `referral_charge` two intents and two
  invoices allow the double charge the properties exclude; fees are handled one
  after the other, so a second fee adds nothing to the first.
- One job is enough in `job_sign`, and one home in `for_sale`, because no
  invariant relates two; the proofs of the same invariants have no such bound.
  In `for_sale` a home keeps one request for a showing, so a second drops it
  once it is answered and is refused before; the administrator is also a seller
  and a buyer, so setups of homes that are not the caller's meet every other
  call. That a second offer is rejected with the first one's acceptance no
  property needs; the proofs are for any number.
- In `homes` two homes compete for one address, a plan of one home makes the
  second registration the one too many, a link life of 0 lets links expire, and
  the third user imports rows as an admin.
- In `billing` a period takes two units of time. Each charge makes two events, so
  four give a first period and its renewal and the fifth a failed payment, a
  cancellation or a gift; the one delivery takes them in any order and again,
  beside the success page, which reads Stripe before or after the renewal. So the
  first period's event may come when the second is paid, has run, or was
  activated by the page. Two deliveries at once, and packs, are in
  `billing_arrives`, which has one period: it asks whether that period arrives, not
  what a later one does to it. The proofs bound neither.
- In `queue` two users, one after the other on the phone, can each have a list;
  a second write would only add orders between entries that no handler
  compares. Three attempts reach `failed`. Two flushes are what the mutant of
  `MayFlush` needs; the code never runs both. `Unspoiled` cuts off behaviours
  once a list was clobbered (section 6), of which no property says anything. Every
  load, save and merge may fail, any number of times.
- In `relay` a page of two holds both events of the job canister, in order, and
  being full makes the reading go on to a next page; the lead and each of
  the review requests may fail its lookup; a crash, a failed write and the
  reinstallation of either canister, also of the one whose lead waits, meet
  every step of a pass. The outboxes are as long as what is recorded: that pruning
  skips nothing else is shown by `RelaySkipsNothing`, for any length.

**Symmetry** is over ids of one kind and over principals that no constant set
tells apart (in `for_sale` over calls only). The runs with liveness properties
(`referral_charge`, `billing_arrives`, `queue`, `relay`) and `billing` use none.

### Fairness

`referral_charge`:

- `BeginRun`, `EndRun`: weak. The platform's cron starts a run every hour.
- Each call of the run, and picking up a due fee: strong. A call may fail or
  be cut off any number of times, but an outage ends: made again and again, it
  succeeds. For `charge` this means that the card is at last accepted or
  declined and the answer arrives (`CardAnswers`); neither is assumed of the
  first attempt.
- Stripe settles intents and indexes objects (weak) and forgets keys (strong).
- The event of a paid invoice is repeated until it is handled, assumed of fees
  with a failed payment only: Stripe repeats for three days.

`billing_arrives`, for the events of periods and packs only (`Awaited`):

- A delivery that has begun goes on, fails or dies (weak): requests end.
- Stripe delivers, and an event that is delivered again and again gets its claim
  and its call through (strong). Stripe repeats for three days.
- A claim whose holder is gone lapses (weak): KV entries have a lifetime of five
  minutes. Taking this away (`ClaimStays`) loses a paid period.

`queue`: handlers that have begun go on, waits end, screens follow the session,
and a user who is signed in comes back to the app (weak); the network and the
storage answer when asked again and again: a flush at last reads the list as it
is, and writes it back (strong). Nobody has to sign in, log,
retry or discard, and the server need not accept.

`relay`: the timer starts passes, a pass goes on, delays end (weak); a request
that is asked for again and again, and an outbox, answer (strong). The
lookups that a lead needs may fail for ever, which is why `EventsAreTold` excepts
what a lead of the same canister holds back; so may those of a review request,
which is then told to nobody.

Nothing is assumed of contractors (an invoice may stay unpaid for ever), of
admins, or of the reports of other canisters.

## 5. The proofs

TLC looks at a small instance; the theorems hold for every number of requests,
bids, principals, homes, links, events, concurrent calls and concurrent account
deletions, and every value of the limits. They rest on the assumptions of the
modules only: limits are numbers, and `None`, `Nobody`, `Unknown` and `Admin` are
not the names of anything else; in `Job`, that a contractor has no role on the
home; in `Billing`, that subscriptions and packs have different references; in
`Relay`, that there are canisters to read, and finitely many.

| module | theorem | property |
|---|---|---|
| `BidToListProofs` | `TypeCorrect` | `TypeOK` |
| | `OneWinner` | `AwardedIffOneWinner` |
| | `ChargedBeforeRelease` | `ChargeThenRelease` |
| | `BidsWithinLimits` | `BidLimits` |
| | `Finality`, `SettledFeeIsFixed` | `DecisionsAreFinal`, `SettledFeeKeepsItsBid` |
| | `ImplementsTender` | `KeepsTender`: every step is a step of `Tender` or a stutter |
| `QuoteProofs` | `TypeCorrect` | `TypeOK` |
| | `OneAcceptedQuote`, `QuotedWhilePending`, `BidsWithinCaps`, `ErasureIsComplete` | `AcceptedIffOneQuote`, `QuotedIffPending`, `BidCaps`, `NothingOutlivesItsRequest` |
| | `Finality`, `SealedBidsStay` | `OutcomesAreFinal`, `SealedBidsFreeze` |
| | `CreationsStayWithinLimit` | `CreationsWithinLimit` |
| | `ImplementsTender` | `KeepsTender` |
| | `FreeWithinLimit` | `FreeOpenLimit`, if nobody deletes an account |
| `ReferralChargeProofs` | `OneFeeEachHolds`, `FeesMoveForward` | `OneFeeEach`, `FeeLifecycle` |
| | `ChargedOnce`, `PaidMeansCollected`, `PausedHasInvoice` | `CollectedOnce`, `PaidIsCollected`, `PausedCanPay` |
| | `ImplementsLedger` | the composition takes the ledger's steps only |
| `JobProofs` | `TypeCorrect`, `ReportedOnceHolds`, `SignedIsAttestedHolds`, `SignaturesKept` | `TypeOK`, `ReportedOnce`, `SignedIsAttested`, `SignaturesAreKept` |
| `HomesProofs` | `TypeCorrect` | `TypeOK` |
| | `OneVerifiedHome` | `VerifiedHomeHoldsItsAddress` |
| | `ErasureIsComplete`, `WindowHolds` | `ErasedIsGone`, `WindowIsNotRenewed` |
| | `PlansHold` | `RegistrationsStayInPlan` |
| | `ImplementsTitle` | `KeepsTitle`: every step is a step of `Title` or a stutter |
| `SaleAndRelayProofs` | `TypeCorrect` | `TypeOK` of `ForSale` |
| | `HiddenScoreStaysHidden`, `SalesLeaveNothing`, `OneSellerEach` | `HiddenScoreIsNotShown`, `NothingOutlivesTheSale`, `SaleHasOneSeller` |
| | `KeepsTitles` | `ForSale` moves titles only as `Title` does |
| | `RelayTypesHold`, `RelaySkipsNothing`, `RelaySendsOnce` | `RelayTypeOK`, `NothingSkipped`, `SentOnce` of `Relay` |
| `BillingProofs` | `TypeCorrect` | `TypeOK` |
| | `CreditsAreGrantedOnce`, `GiftsStayRedeemed` | `CreditsOnce`, `GiftsAreRedeemedOnce` |
| | `PlansStayAsPaid` | `PlansAreAsPaid` |
| `OfflineQueueProofs` | `TypeCorrect` | `TypeOK` |
| | `SavedWritesAreKept`, `NothingIsSentTwice` | `SavedIsKept`, `SentOnce` |

The arguments, each along one inductive invariant:

- **BidToList.** A resumed call may only rely on what it reads again, so `Inv`
  says little of a waiting call: it names what it works on (`CallsAreFilled`).
  `SlotsInv` and `OneBidEach` hold because the checks of `submitProposal` run after
  the await, in the step that stores the bid. `DecidedInv` states the verdict bid
  by bid. `ReleaseInv` is what makes charge-then-release survive an await: a
  waiting award has seen a settled record for its bid, and although the record
  may be waived or reopened since, that the bid was charged stays true.
  The refinement of `Tender` needs `DecidedInv` in two places: an open request has
  no accepted bid, so the award gives it its only winner; and an accepted bid's
  request has its flag set, so no account deletion takes a winner.
- **Quote.** `Verdicts` ties the status of a request to each quote on it: a
  quote waits exactly while its request is not accepted, and a request with a
  quote is not `#Open`. Account deletion keeps this only because it reopens a
  request without quotes, which is also why `FreeOpenLimit` needs its
  condition. `Capped` carries finiteness along with each cardinality, because a
  cardinality says nothing of an infinite set. For `Tender`, `CallsAreFilled` is
  what an acceptance needs: the quote it was called for is still on the request
  it was called for, or gone.
- **ReferralLedger.** An id not handed out is in neither index, so a new fee
  cannot collide with an old one.
- **ReferralCharge.** The run may not remember an earlier attempt, Stripe's
  search may not show it, and a key may be forgotten; never all three.
  `KeysRemember` says that an object the search may miss is one its key still
  gives again, and `RunKnows` carries what the search found up to the charge:
  a charge whose key is new meets no other intent and no invoice to pay. So
  `OneAttempt` holds: a fee has one intent, or one invoice that can be paid.
- **Job.** `CallsKnow` says what the first part of a call has established and
  time cannot undo. In particular a contractor's own signing call has asked for
  the attestation, so the signature is stored with it.
- **Homes.** Every home at an address leads back to an index entry for a live
  home there, and a verified one is the entry itself. `CallsAreKnown` says that
  who waits for an answer holds the lock: so deletion, which asks for the lock,
  meets no registration of its own, and two registrations of a user never count
  the same homes. `PlanInv` then says that a registration past the plan's check
  keeps a place free until its home is stored. `LinksAreGiven` is what the
  refinement needs: an open link was given by the home's present owner, although
  `claimTransfer` asks only for the link.
- **ForSale.** The three invariants and the types are inductive together. What is
  filed for a home is filed in the step that looks its listing or setup up, and a
  setup is stored in the step that sees that the home is not live.
- **Billing.** A pack's reference is in `consumed` exactly when it was granted, and
  nothing that may still be carried out asks for a pack nobody paid for: not an
  event, a delivery or a success page. For `PlansAreAsPaid`, `PInv` says the same of
  time: no call, event or page asks for a later day than Stripe has charged its
  user for (`NoLongerThanCharged`), and subscriptions keep their payers while
  their periods only move on.
- **OfflineQueue.** What a flush still has to send was pending when it was read,
  and it waits for an answer about exactly one such write. `Kept` says where the
  copies of a write are while no list has been clobbered: in its author's list only
  (`AuthorHolds`), in the hands of the one flush on its way (`OneRun`, `RunKnows`),
  and nowhere while it is first being saved (`Unsaved`). A write the server has
  is out of every list, about to be taken out by that flush, or doubtful
  (`SentLeaves`), so a flush that finds it pending has lost its answer before.
- **Relay.** `RelayInv`. A page misses no event that the outbox keeps between the
  cursor and the page's end (`Page`), and while its oldest event is handled, each
  user it is for was sent it, holds an alert or is still to be told
  (`IsBeingTold`). So when the cursor passes that event nothing is skipped
  (`Skipped`). For `SentOnce`, `Budget` counts what an alert may still cost: one if
  it waits to be sent, one if its event is yet to be handled. Only a crash or a
  failed write adds to the sum, and only one: an alert that is being sent is not being told. That a
  cursor or a page of before a reinstallation does no harm is `Fresh`: no alert
  of the canister's new age has been touched by then.

Only model-checked: every liveness property (`DueIsSettled`,
`CollectedIsRecorded`, `PeriodsAreActivated`, `PacksAreGranted`,
`PendingResolves`, `EventsAreTold`, `HeldAlertsEnd`), as liveness and `ENABLED` are
outside the backends of TLAPS. Every other property that a run checks is proved.

## 6. Where the code and its documentation disagree

Each was seen on a model: the property in the words of the quoted line fails
on it. No run keeps them; the properties of section 4 are stated around them,
and say so.

1. `listing/main.mo:1826`. `deleteMyData` asks the fee canister about each
   request and then deletes. `acceptProposal` can record a fee in between: the
   request is deleted with a fee owed for it, which the doc comment excludes.
2. `listing/main.mo:948`. "A licence revoked after the bid went in can't win":
   the licence is checked at selection (`:857`), not when the payment settles and the
   bid is awarded.
3. `quote/main.mo:1669`. A contractor's account deletion turns a quoted request
   into an open one without counting, so a homeowner on Free can have more than
   three.
4. `fee/main.mo:409`. Once the 60-day fallback has made an accepted bid's fee
   due, the verified job for it matches another bid of the same contractor, home
   and trade: a second fee.
5. `job/main.mo:1784`. `updateJobStatus` stores any status, `approveJobProposal`
   signs for both on any job awaiting approval, and `linkContractor` (`:817`) keeps the
   signature of the contractor it replaces. So a job can be verified that its
   linked contractor never signed.
6. `property/main.mo:1554` ("The seller's FSBO listing, showings and offers come
   down"). `activateFsboListing` asks who owns the home (`listing/main.mo:1279`) and
   goes live four awaits later; a transfer and its take-down may pass in between,
   and the former owner's listing then goes live for good. And the call that
   takes the listing down may be lost, which is only printed. So that who sells a
   home owns it is claimed by no property.
7. `offlineQueue.ts:169`. A flush that outlives the sign-out of its user sends the
   rest of the queue with the agent of whoever signs in next. Lines 29–31
   say that one person's writes are never sent under another's identity.
   `received` holds the identities, and no property claims that it is the
   author's.
8. `offlineQueue.ts:123`. Two handlers that load the list, wait and save it are not
   serialised, and a storage that fails to answer counts as an empty list: the
   save that follows drops the other's entries. Lines 25–26 say that nothing
   the user saved disappears. `clobbered` marks the step.
9. `offlineQueue.ts:133` ("Concurrent calls share one run, so nothing is sent
   twice"). A flush writes the list back at its end (`:195–200`); the app being ended,
   the user signing out, or the storage refusing that write leaves sent entries
   in it, and the next flush sends them again. `SentOnce` excepts `doubtful`.
10. `offlineQueue.ts:192` ("Keep anything enqueued or changed while this run was
    sending"). What was enqueued is kept; an entry changed by *Retry* meanwhile
    gets the run's copy.
11. `docs/EXTERNAL_APIS.md:115–117` ("reverting the tier when a subscription
    lapses"). `invoice.payment_failed` falls back to the invoice's own metadata
    (`index.ts:1698–1704`), which a referral-fee invoice carries too: a contractor who
    does not pay a referral fee loses a paid plan. And a failed-payment event
    handled after the paid one leaves the payer on Free: the period's reference is
    consumed, so no repetition sets the plan again.
12. `shared/Notify.mo:8` ("so each event is sent once"). The relay sends and then moves
    the cursor: once more for each crash in between, and for each write of its
    file that fails there. `SentOnce` counts both in `crashes`.
13. `poller.ts:8–10` ("a crash or a failed canister lookup resumes at the first unsent
    event rather than skipping it"). A review request whose contractor cannot be
    looked up is passed over for good (`events.ts:156–159`; `__tests__/events.test.ts:149` asks
    for it). `NothingSkipped` excepts `unasked`.
14. `listing/main.mo:1400` ("Property owner only", of `saveFsboDraft`). An
    administrator's setup is stored without asking who owns the home (`:1410`), with
    the administrator as its owner, also over the owner's own (`SaveAsAdmin`).
15. `listing/main.mo:1555` ("Bounded per listing, per day and per buyer", of showing
    requests). A declined request may be accepted later (`:1634`), when its
    buyer has already filed others in its place: more are open than one may file.

## 7. Other observations

Seen while reading or on the models; no line of the repository promises the
opposite, or the part is not modelled.

- A bid's letter is the number of stored bids, so after an account deletion
  the next letter may repeat one in use (`listing/main.mo:758`).
- `markFeePaid` undoes a waiver (`fee/main.mo:301`); a referral fee waived after
  a run has taken it is still charged, and the mark is then refused.
- A fee can be owed for a selection whose reply was lost or whose request was
  cancelled meanwhile; a paid one can then never be released (`listing/main.mo:944`).
- The refresh of an attestation may arrive between `contractorStatus` and the
  resumed call, or be lost; the signature then never counts (`job/main.mo:1206`).
- `redeemInviteToken` checks expiry before its awaits only; `createInviteToken`
  reads nothing again and binds the link to the contractor of before.
- `getMyInboxToken` resumes after `deleteMyData`; `relayAddEmailDraft` keeps the
  day of before its await.
- A registration waits while its caller claims the same address's home by
  transfer link: the caller then has two homes at one address, and one more than
  the plan allows. `RegistrationsStayInPlan` counts registered homes.
- Two offers on one home can both be `#Accepted`: accepting rejects the others that
  are active at that moment, and an offer logged later can be accepted too.
- `fileShowing` notifies the seller it read before its await.
- A `propertyTransferred` that arrives late also takes down what the buyer has set
  up by then; one that is lost is only printed, and the seller's listing stays up.
- A claim on a webhook event outlives the request that handles it by up to five
  minutes, in which Stripe's repetitions are turned away (`rateLimiter.ts:108`).
- `subscribe` paid with ICP starts the plan anew from the day it is paid, and may
  cut one that a gift had prolonged (`payment/main.mo:770`); `KeepsPaidTime` excepts it.
- `subscribe` may lose the reply of a ledger transfer that took the money
  (`payment/main.mo:740`); a retry is a new transfer.
- A lead's key in the relay is `${canisterId}:${seq}`; after a reinstallation the numbers
  begin again, and a new lead with an old one's key is not held again. An outbox
  that has grown past the cursor again by the next pass is taken for the old
  one: its first events are skipped.
- The sensor canister reserves a job slot over two awaits (`sensor/main.mo:850`),
  the photo canister checks quotas before its awaits (`photo/main.mo:572`), and the
  report canister reads ownership before an await (`report/main.mo:933`): hazards
  of components that are not modelled yet.

## 8. What is not modelled

The models cover the handlers of the canisters, the Worker, the relay and the
phone's queue that hold shared state. Most of the repository by lines is user
interface, tests and documentation, which hold no rule of their own.

The components listed as *not modelled* in `PROJECT.json`, with the reason for
each: because they come later (section 9), or because they hold no state
another actor touches (bills, recurring, maintenance, market, monitoring,
audit, ai_proxy, auth, the e-mail Worker, the front ends).

Inside the modelled components:

- **listing**: counter-offers, price changes and their history, photos, messages,
  the record of an agent's closes, the daily limit of showing requests, admins
  acting for a seller except in a setup.
- **fee**: saving a card and the 30-day overdue gate (`referralBidAllowed`).
- **quote**: vetKD key derivation and usage summaries. **job**: the invoice inbox
  and metrics. **agent, contractor**: profiles and reviews.
- **property**: identity checks, insurance, rooms, approvals, notifications, the transfer
  history, per-day limits, the admin switches. The levels Basic and Premium are both
  *Verified*; `isActive` is always true, as nothing clears it. A user's
  plan does not change during a run of the model, so a downgrade below the number
  of homes owned is left out.
- **payment**: cancelling, admin grants, prices and the expiry of credits; one paid tier.
- **Worker**: creating checkouts, identity sessions, saved cards, e-mails, AI quotas.
- **relay**: devices and preferences. All channels are one delivery, which may fail and is
  not tried again. A registration that writes the file early is `OtherSave`.
- **offline queue**: the order of entries and what they hold.

Simplifications that a reader should know:

- In `BidToList`, `Quote` and `Job` who owns or manages a home does not change;
  `Homes` and `ForSale` are about homes that change hands.
- In `ForSale` an owner's deletion of the account in the property canister is not
  among the titles' moves: the app deletes the data of the listing canister
  with it, and the two calls are independent.
- The newest of several matches is any of them in `ReferralLedger`.
- A Stripe key outlives every search that could have missed what it made
  (keys live a day, the index is minutes behind, a run takes minutes).
- An invoice created by a run whose call to Stripe failed is either created or
  not; a draft no key finds again is dropped, as nobody can pay it.
- A write of the relay's file that fails is counted where an alert was sent or an event
  handled. Not modelled are one that fails when only the cursor is stored (the
  cursor in memory has moved, the file follows with the next write) and one that
  fails when a closed lead's alert is dropped.
- Storage writes that fail leave the stored list as it was.
- The relay's `Handled` saves the alerts and the cursor in one step; what a crash
  between the two saves leaves is what `OtherSave` and a crash leave.
- The builder's import checks all rows and then stores them; `BulkRegister` checks
  each row when it stores it, and the import awaits nothing in between.

## 9. The plan

Built, in this order: `BidToList`, `Quote`, `ReferralLedger`, `ReferralCharge`,
`Job`, `Title`, `Homes`, `ForSale`, `Billing`, `OfflineQueue`, `Relay`, `Tender`. What is left,
most important first:

1. `Sensor`, `Photo`, `Report`: slots, quotas and ownership read before awaits.
2. `Reviews`, counter-offers, the invoice inbox, AI quotas.
3. A further abstract specification: a fee that is owed, collected once and
   closed, implemented by `ReferralCharge`.
4. `Homes` in place of `Title` under `Quote` and `Job`, so that a home changes hands
   while a request or a job is open.
