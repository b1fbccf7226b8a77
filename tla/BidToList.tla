------------------------------ MODULE BidToList ------------------------------
(***************************************************************************)
(* Bid to List: the listing canister's sealed-bid auction, the platform    *)
(* fee records of the fee canister and the licence answers of the agent    *)
(* canister.                                                               *)
(*                                                                         *)
(* A canister runs one message at a time, but an `await` ends the atomic   *)
(* section: other messages run before the reply arrives.  A call that      *)
(* awaits is therefore a record in `call` (or `erase`): the part up to the *)
(* await starts it, the callee answers in a step of its own, and the rest  *)
(* of the handler is the resume step.  Pausing and rate limits only refuse *)
(* a call, which is the same as not making it.                             *)
(***************************************************************************)
EXTENDS Naturals, FiniteSets

CONSTANTS
  Requests,      \* ids nextBidId may hand out; never reused
  Proposals,     \* ids nextProposalId may hand out; never reused
  Homeowners,    \* principals that may open requests
  Agents,        \* principals that may bid; may overlap Homeowners
  Erasers,       \* principals that may delete their account
  Calls,         \* slots for the calls in flight at one time
  MaxProposals,  \* MAX_PROPOSALS_PER_REQUEST, five in the code
  None,          \* no request, proposal or principal
  Unknown        \* the fee canister could not be reached

ASSUME MaxProposalsAssumption == MaxProposals \in Nat \ {0}
ASSUME NoneAssumption ==
  /\ None \notin Requests \cup Proposals \cup Homeowners \cup Agents
  /\ Unknown \notin Proposals \cup {None}

VARIABLES
  request,   \* listing: requests, by id
  proposal,  \* listing: proposals, by id
  fee,       \* fee: the record feeByRequest holds for a request
  call,      \* submitProposal, acceptProposal, markListingFeePaid in flight
  erase,     \* deleteMyData in flight, one per caller
  charged    \* history: the (request, proposal) pairs whose fee was #Paid

vars == <<request, proposal, fee, call, erase, charged>>

Request == [status : {"none", "Open", "Cancelled", "Awarded", "gone"},
            owner : Homeowners \cup {None}, feePaid : BOOLEAN, closed : BOOLEAN]
Proposal == [status : {"none", "Pending", "Accepted", "Rejected", "Withdrawn", "gone"},
             req : Requests \cup {None}, agent : Agents \cup {None}, letter : 0..MaxProposals]
Fee == [status : {"none", "Owed", "Invoiced", "Paid", "Waived"},
        proposal : Proposals \cup {None}, agent : Agents \cup {None}]
Call == [op : {"idle", "submit", "accept", "award"},
         pc : {"idle", "ask", "yes", "no", "charge"},
         req : Requests \cup {None}, prop : Proposals \cup {None},
         agent : Agents \cup {None}]
Erase == [busy : BOOLEAN, reqs : SUBSET Requests, props : SUBSET Proposals,
          ask : SUBSET Requests, sel : [Requests -> Proposals \cup {None, Unknown}]]

NoRequest(s) == [status |-> s, owner |-> None, feePaid |-> FALSE, closed |-> FALSE]
NoProposal(s) == [status |-> s, req |-> None, agent |-> None, letter |-> 0]
NoFee == [status |-> "none", proposal |-> None, agent |-> None]
Idle == [op |-> "idle", pc |-> "idle", req |-> None, prop |-> None, agent |-> None]
NoErase == [busy |-> FALSE, reqs |-> {}, props |-> {}, ask |-> {},
            sel |-> [r \in Requests |-> None]]

TypeOK ==
  /\ request \in [Requests -> Request]
  /\ proposal \in [Proposals -> Proposal]
  /\ fee \in [Requests -> Fee]
  /\ call \in [Calls -> Call]
  /\ erase \in [Erasers -> Erase]
  /\ charged \subseteq Requests \X Proposals

Init ==
  /\ request = [r \in Requests |-> NoRequest("none")]
  /\ proposal = [p \in Proposals |-> NoProposal("none")]
  /\ fee = [r \in Requests |-> NoFee]
  /\ call = [c \in Calls |-> Idle]
  /\ erase = [u \in Erasers |-> NoErase]
  /\ charged = {}

-----------------------------------------------------------------------------
RequestExists(r) == request[r].status \notin {"none", "gone"}
ProposalExists(p) == proposal[p].status \notin {"none", "gone"}

(* proposalsFor: every stored bid on r, withdrawn and rejected ones too *)
ProposalsFor(r) == {p \in Proposals : ProposalExists(p) /\ proposal[p].req = r}

(* awardedLocally of deleteMyData; also markListingFeePaid's early return *)
AwardedLocally(r) == request[r].status = "Awarded" \/ request[r].feePaid

Begin(c, rec) == call[c] = Idle /\ call' = [call EXCEPT ![c] = rec]
End(c) == call' = [call EXCEPT ![c] = Idle]

-----------------------------------------------------------------------------
(* Homeowner: a request opens once the property canister has confirmed the
   ownership (a read whose answer nothing here can make stale). *)
CreateBidRequest(r, h) ==
  /\ request[r].status = "none"
  /\ request' = [request EXCEPT ![r] =
       [status |-> "Open", owner |-> h, feePaid |-> FALSE, closed |-> FALSE]]
  /\ UNCHANGED <<proposal, fee, call, erase, charged>>

(* Time passes bidDeadline: no more bids, but selection stays possible. *)
BidWindowCloses(r) ==
  /\ RequestExists(r) /\ ~request[r].closed
  /\ request' = [request EXCEPT ![r].closed = TRUE]
  /\ UNCHANGED <<proposal, fee, call, erase, charged>>

CancelBidRequest(r) ==
  /\ request[r].status = "Open"
  /\ request' = [request EXCEPT ![r].status = "Cancelled"]
  /\ UNCHANGED <<proposal, fee, call, erase, charged>>

-----------------------------------------------------------------------------
(* Agent: submitProposal first awaits agent.getProfile, and reads the
   request and its bids only after the reply. *)
SubmitProposal(c, r, a) ==
  /\ RequestExists(r)
  /\ Begin(c, [op |-> "submit", pc |-> "ask", req |-> r, prop |-> None, agent |-> a])
  /\ UNCHANGED <<request, proposal, fee, erase, charged>>

(* agent.getProfile / agent.isVerifiedAgent.  An admin verifies a profile or
   revokes it, and the agent edits or deletes it, at any time and whatever the
   auction does, and nothing else here reads the flag: either answer may come
   to any call.  No profile, an unverified one and a call that fails are "no". *)
AgentReplies(c) ==
  /\ call[c].op \in {"submit", "accept"} /\ call[c].pc = "ask"
  /\ \E answer \in {"yes", "no"} : call' = [call EXCEPT ![c].pc = answer]
  /\ UNCHANGED <<request, proposal, fee, erase, charged>>

(* mutant of CanSubmit: the bids are not counted again after the await *)
CanSubmitUncounted(c) ==
  LET r == call[c].req IN
  /\ request[r].status = "Open"
  /\ ~request[r].closed
  /\ \A p \in ProposalsFor(r) : proposal[p].agent # call[c].agent

CanSubmit(c) ==
  LET r == call[c].req IN
  /\ request[r].status = "Open"
  /\ ~request[r].closed
  /\ Cardinality(ProposalsFor(r)) < MaxProposals
  /\ \A p \in ProposalsFor(r) : proposal[p].agent # call[c].agent

(* LETTERS[existing.size()]; LETTERS has one entry per slot *)
NextLetter(r) == Cardinality(ProposalsFor(r)) + 1

SubmitProposalResume(c) ==
  /\ call[c].op = "submit" /\ call[c].pc = "yes"
  /\ CanSubmit(c)
  /\ \E p \in Proposals :
       /\ proposal[p].status = "none"
       /\ proposal' = [proposal EXCEPT ![p] =
            [status |-> "Pending", req |-> call[c].req, agent |-> call[c].agent,
             letter |-> NextLetter(call[c].req)]]
  /\ End(c)
  /\ UNCHANGED <<request, fee, erase, charged>>

WithdrawProposal(p) ==
  /\ proposal[p].status = "Pending"
  /\ proposal' = [proposal EXCEPT ![p].status = "Withdrawn"]
  /\ UNCHANGED <<request, fee, call, erase, charged>>

-----------------------------------------------------------------------------
StillSelectable(r, p) == request[r].status = "Open" /\ proposal[p].status = "Pending"

(* Homeowner: acceptProposal checks the bid, awaits the licence check,
   checks the bid again and awaits fee.recordFeeOwed. *)
AcceptProposal(c, p) ==
  /\ ProposalExists(p)
  /\ StillSelectable(proposal[p].req, p)
  /\ Begin(c, [op |-> "accept", pc |-> "ask", req |-> proposal[p].req, prop |-> p,
               agent |-> proposal[p].agent])
  /\ UNCHANGED <<request, proposal, fee, erase, charged>>

AcceptProposalResume(c) ==
  /\ call[c].op = "accept" /\ call[c].pc = "yes"
  /\ StillSelectable(call[c].req, call[c].prop)
  /\ call' = [call EXCEPT ![c].pc = "charge"]
  /\ UNCHANGED <<request, proposal, fee, erase, charged>>

(* What recordFeeOwed stores: a new #Owed record, or the open record of the
   request pointed at the new selection with its status kept. *)
Retargeted(f, p, a) ==
  [status |-> IF f.status = "none" THEN "Owed" ELSE f.status, proposal |-> p, agent |-> a]

(* fee.recordFeeOwed executes; a #Paid record answers #AlreadyExists and a
   call that cannot be delivered changes nothing.  acceptProposal only
   passes the answer on. *)
RecordFeeOwed(c) ==
  LET r == call[c].req IN
  /\ call[c].op = "accept" /\ call[c].pc = "charge"
  /\ fee' = [fee EXCEPT ![r] = IF @.status = "Paid" THEN @
                                ELSE Retargeted(@, call[c].prop, call[c].agent)]
  /\ End(c)
  /\ UNCHANGED <<request, proposal, erase, charged>>

RecordFeeOwedFails(c) ==
  /\ call[c].op = "accept" /\ call[c].pc = "charge"
  /\ End(c)
  /\ UNCHANGED <<request, proposal, fee, erase, charged>>

-----------------------------------------------------------------------------
(* Admin-held webhook identity: markListingFeePaid(r, p) returns early on an
   awarded request, awaits fee.getFeeForRequest and reads everything again. *)
MarkListingFeePaid(c, r, p) ==
  /\ RequestExists(r) /\ ~(request[r].status = "Awarded" /\ request[r].feePaid)
  /\ proposal[p].status # "none"
  /\ Begin(c, [op |-> "award", pc |-> "ask", req |-> r, prop |-> p, agent |-> None])
  /\ UNCHANGED <<request, proposal, fee, erase, charged>>

(* mutant of FeeReplies: the record's status is not looked at *)
FeeRepliesUnsettled(c) ==
  LET f == fee[call[c].req] IN
  /\ call[c].op = "award" /\ call[c].pc = "ask"
  /\ \/ /\ f.proposal = call[c].prop
        /\ call' = [call EXCEPT ![c].pc = "yes", ![c].agent = f.agent]
     \/ call' = [call EXCEPT ![c].pc = "no"]
  /\ UNCHANGED <<request, proposal, fee, erase, charged>>

(* The record must be #Paid for exactly this proposal; its agent is kept. *)
FeeReplies(c) ==
  LET f == fee[call[c].req] IN
  /\ call[c].op = "award" /\ call[c].pc = "ask"
  /\ \/ /\ f.status = "Paid" /\ f.proposal = call[c].prop
        /\ call' = [call EXCEPT ![c].pc = "yes", ![c].agent = f.agent]
     \/ call' = [call EXCEPT ![c].pc = "no"]
  /\ UNCHANGED <<request, proposal, fee, erase, charged>>

CanAward(r, p, a) ==
  /\ request[r].status = "Open"
  /\ proposal[p].status = "Pending"
  /\ proposal[p].req = r
  /\ proposal[p].agent = a

(* mutant of Decided: the other bids stay pending *)
DecidedAlone(r, p) == [proposal EXCEPT ![p].status = "Accepted"]

(* The winner is accepted, the other pending bids are rejected. *)
Decided(r, p) ==
  [q \in Proposals |->
     IF q = p THEN [proposal[q] EXCEPT !.status = "Accepted"]
     ELSE IF proposal[q].req = r /\ proposal[q].status = "Pending"
          THEN [proposal[q] EXCEPT !.status = "Rejected"]
          ELSE proposal[q]]

MarkListingFeePaidResume(c) ==
  LET r == call[c].req
      p == call[c].prop IN
  /\ call[c].op = "award" /\ call[c].pc = "yes"
  /\ CanAward(r, p, call[c].agent)
  /\ proposal' = Decided(r, p)
  /\ request' = [request EXCEPT ![r].status = "Awarded", ![r].feePaid = TRUE]
  /\ End(c)
  /\ UNCHANGED <<fee, erase, charged>>

(* Every other reply ends the call with an error and no change. *)
ReturnError(c) ==
  /\ \/ call[c].pc = "no"
     \/ /\ call[c].pc = "yes"
        /\ \/ call[c].op = "submit" /\ ~CanSubmit(c)
           \/ call[c].op = "accept" /\ ~StillSelectable(call[c].req, call[c].prop)
           \/ call[c].op = "award" /\ ~CanAward(call[c].req, call[c].prop, call[c].agent)
  /\ End(c)
  /\ UNCHANGED <<request, proposal, fee, erase, charged>>

-----------------------------------------------------------------------------
(* Account deletion.  Candidates are collected first ... *)
DeleteMyData(u) ==
  LET reqs == {r \in Requests : RequestExists(r) /\ request[r].owner = u /\ ~AwardedLocally(r)}
      props == {p \in Proposals :
                  /\ ProposalExists(p) /\ proposal[p].agent = u
                  /\ proposal[p].status # "Accepted"
                  /\ request[proposal[p].req].status = "Open"
                  /\ ~AwardedLocally(proposal[p].req)}
  IN /\ ~erase[u].busy
     /\ reqs \cup props # {}
     /\ erase' = [erase EXCEPT ![u] =
          [busy |-> TRUE, reqs |-> reqs, props |-> props,
           ask |-> reqs \cup {proposal[p].req : p \in props},
           sel |-> [r \in Requests |-> None]]]
     /\ UNCHANGED <<request, proposal, fee, call, charged>>

(* ... then fee.getFeeForRequest is awaited for each request in turn ... *)
FeeRepliesToErase(u, r) ==
  /\ erase[u].busy /\ r \in erase[u].ask
  /\ \E answer \in {fee[r].proposal, Unknown} :
       erase' = [erase EXCEPT ![u].ask = @ \ {r}, ![u].sel[r] = answer]
  /\ UNCHANGED <<request, proposal, fee, call, charged>>

(* mutant of ErasedRequests: the award flags are not read again *)
ErasedRequestsStale(u) ==
  {r \in erase[u].reqs : RequestExists(r) /\ erase[u].sel[r] = None}

ErasedRequests(u) ==
  {r \in erase[u].reqs : RequestExists(r) /\ ~AwardedLocally(r) /\ erase[u].sel[r] = None}

ErasedProposals(u) ==
  {p \in Proposals : ProposalExists(p) /\ proposal[p].req \in ErasedRequests(u)}
  \cup
  {p \in erase[u].props :
     /\ ProposalExists(p) /\ proposal[p].status # "Accepted"
     /\ request[proposal[p].req].status = "Open" /\ ~AwardedLocally(proposal[p].req)
     /\ erase[u].sel[proposal[p].req] \notin {Unknown, p}}

(* ... and what the answers allow is removed, the local state read again. *)
DeleteMyDataResume(u) ==
  /\ erase[u].busy /\ erase[u].ask = {}
  /\ request' = [r \in Requests |->
       IF r \in ErasedRequests(u) THEN NoRequest("gone") ELSE request[r]]
  /\ proposal' = [p \in Proposals |->
       IF p \in ErasedProposals(u) THEN NoProposal("gone") ELSE proposal[p]]
  /\ erase' = [erase EXCEPT ![u] = NoErase]
  /\ UNCHANGED <<fee, call, charged>>

-----------------------------------------------------------------------------
(* fee canister, admin only *)
MarkFeeInvoiced(r) ==
  /\ fee[r].status \in {"Owed", "Invoiced"}
  /\ fee' = [fee EXCEPT ![r].status = "Invoiced"]
  /\ UNCHANGED <<request, proposal, call, erase, charged>>

MarkFeePaid(r) ==
  /\ fee[r].status \notin {"none", "Paid"}
  /\ fee' = [fee EXCEPT ![r].status = "Paid"]
  /\ charged' = charged \cup {<<r, fee[r].proposal>>}
  /\ UNCHANGED <<request, proposal, call, erase>>

WaiveFee(r) ==
  /\ fee[r].status # "none"
  /\ fee' = [fee EXCEPT ![r].status = "Waived"]
  /\ UNCHANGED <<request, proposal, call, erase, charged>>

-----------------------------------------------------------------------------
RequestNext(r) ==
  \/ \E h \in Homeowners : CreateBidRequest(r, h)
  \/ BidWindowCloses(r) \/ CancelBidRequest(r)
  \/ MarkFeeInvoiced(r) \/ MarkFeePaid(r) \/ WaiveFee(r)

CallNext(c) ==
  \/ \E r \in Requests, a \in Agents : SubmitProposal(c, r, a)
  \/ \E p \in Proposals : AcceptProposal(c, p)
  \/ \E r \in Requests, p \in Proposals : MarkListingFeePaid(c, r, p)
  \/ AgentReplies(c) \/ FeeReplies(c)
  \/ SubmitProposalResume(c) \/ AcceptProposalResume(c)
  \/ RecordFeeOwed(c) \/ RecordFeeOwedFails(c)
  \/ MarkListingFeePaidResume(c) \/ ReturnError(c)

EraseNext(u) ==
  \/ DeleteMyData(u)
  \/ \E r \in Requests : FeeRepliesToErase(u, r)
  \/ DeleteMyDataResume(u)

Next ==
  \/ \E r \in Requests : RequestNext(r)
  \/ \E p \in Proposals : WithdrawProposal(p)
  \/ \E c \in Calls : CallNext(c)
  \/ \E u \in Erasers : EraseNext(u)

Spec == Init /\ [][Next]_vars

-----------------------------------------------------------------------------
(* Race of two selections, a cancellation and a webhook retry: a request is
   awarded exactly when its fee flag is set, with exactly one accepted bid
   and no bid left pending, and no other request has an accepted bid
   (markListingFeePaid). *)
AwardedIffOneWinner ==
  \A r \in Requests :
    LET winners == {p \in ProposalsFor(r) : proposal[p].status = "Accepted"} IN
    /\ request[r].status = "Awarded" <=> request[r].feePaid
    /\ request[r].feePaid =>
         /\ \E p \in winners : winners = {p}
         /\ \A p \in ProposalsFor(r) : proposal[p].status # "Pending"
    /\ ~request[r].feePaid => winners = {}

(* Invariant 04, charge then release: the bid an unmasked request was
   awarded to is one whose platform fee record was #Paid while it named that
   bid, whatever selections, refunds and retries ran in between. *)
ChargeThenRelease ==
  \A p \in Proposals :
    proposal[p].status = "Accepted" => <<proposal[p].req, p>> \in charged

(* submitProposal decides after its await: two submissions of one agent in
   flight, or many agents at the last slot, still leave one bid per agent and
   at most MaxProposals bids on a request. *)
BidLimits ==
  \A r \in Requests :
    /\ Cardinality(ProposalsFor(r)) <= MaxProposals
    /\ \A p, q \in ProposalsFor(r) : proposal[p].agent = proposal[q].agent => p = q

(* Cancel against award, withdraw against award, account deletion against
   award: what a request or a bid was decided to be is never decided again,
   an awarded request and its winner are never deleted, and a winner keeps
   its request. *)
DecisionsAreFinal ==
  [][/\ \A r \in Requests :
          /\ request[r].status = "Awarded" => request'[r].status = "Awarded"
          /\ request[r].status = "Cancelled" => request'[r].status \in {"Cancelled", "gone"}
     /\ \A p \in Proposals :
          /\ proposal[p].status = "Accepted" => proposal'[p] = proposal[p]
          /\ proposal[p].status \in {"Rejected", "Withdrawn"} =>
               proposal'[p].status \in {proposal[p].status, "gone"}]_vars

(* A fee that has settled is never pointed at another bid: the homeowner who
   selects again while a webhook settles the first selection gets
   #AlreadyExists (recordFeeOwed). *)
SettledFeeKeepsItsBid ==
  [][\A r \in Requests : fee[r].status = "Paid" =>
       fee'[r].proposal = fee[r].proposal /\ fee'[r].agent = fee[r].agent]_vars

(* The auction keeps what Tender promises, whatever awaits: an award that acts
   on a request cancelled or a bid withdrawn or lost meanwhile, a bid that
   comes in after the award, and an account deletion that takes an awarded
   request or its winner are no steps of Tender. *)
BidsThatAre(status, r) ==
  {p \in Proposals : proposal[p].status = status /\ proposal[p].req = r}

VerdictOf(status) ==
  CASE status = "Open" -> "open"
    [] status = "Cancelled" -> "ended"
    [] status = "Awarded" -> "awarded"
    [] OTHER -> status

TenderOf == INSTANCE Tender WITH
  Bids <- Proposals,
  MayErase <- {"open", "ended"},
  verdict <- [r \in Requests |-> VerdictOf(request[r].status)],
  waiting <- [r \in Requests |-> BidsThatAre("Pending", r)],
  winners <- [r \in Requests |-> BidsThatAre("Accepted", r)],
  made <- {p \in Proposals : proposal[p].status # "none"}

KeepsTender == TenderOf!TenderSpec
=============================================================================
