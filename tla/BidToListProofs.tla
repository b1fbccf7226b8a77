-------------------------- MODULE BidToListProofs --------------------------
(***************************************************************************)
(* Theorems about BidToList, for every number of requests, bids, agents,   *)
(* concurrent calls and concurrent account deletions.                      *)
(***************************************************************************)
EXTENDS BidToList, FiniteSetTheorems, TLAPS

(* A stored bid names its request and its bidder. *)
BidsAreFiled ==
  \A p \in Proposals : ProposalExists(p) =>
    proposal[p].req \in Requests /\ proposal[p].agent \in Agents

(* A request holds finitely many bids, never more than its slots. *)
SlotsInv ==
  \A r \in Requests :
    /\ IsFiniteSet(ProposalsFor(r))
    /\ Cardinality(ProposalsFor(r)) <= MaxProposals

(* A call that is past its await names what its operation needs. *)
CallsAreFilled ==
  \A c \in Calls :
    /\ call[c].op = "submit" => call[c].req \in Requests /\ call[c].agent \in Agents
    /\ call[c].op = "accept" =>
         call[c].req \in Requests /\ call[c].prop \in Proposals /\ call[c].agent \in Agents
    /\ call[c].op = "award" => call[c].req \in Requests /\ call[c].prop \in Proposals
    /\ call[c].op = "idle" => call[c].pc = "idle"

(* A fee record names the bid it was recorded for. *)
FeesNameABid == \A r \in Requests : fee[r].status # "none" => fee[r].proposal \in Proposals

Inv == TypeOK /\ BidsAreFiled /\ SlotsInv /\ CallsAreFilled /\ FeesNameABid

-----------------------------------------------------------------------------
(* A set that gains at most one element stays finite and grows by at most one. *)
LEMMA AddOne ==
  ASSUME NEW S, NEW T, NEW x, IsFiniteSet(S), T \subseteq S \cup {x}
  PROVE  IsFiniteSet(T) /\ Cardinality(T) \in Nat /\ Cardinality(T) <= Cardinality(S) + 1
<1>1. IsFiniteSet(S \cup {x}) /\ Cardinality(S \cup {x}) \in Nat
      /\ Cardinality(S \cup {x}) <= Cardinality(S) + 1
  BY FS_AddElement, FS_CardinalityType, SMT
<1>2. IsFiniteSet(T) /\ Cardinality(T) <= Cardinality(S \cup {x})
  BY <1>1, FS_Subset
<1>3. Cardinality(T) \in Nat /\ Cardinality(S) \in Nat
  BY <1>2, FS_CardinalityType
<1> QED BY <1>1, <1>2, <1>3

(* The bids of a request that loses bids, or keeps them, respect its slots. *)
LEMMA FewerBids ==
  ASSUME NEW S, NEW T, IsFiniteSet(S), T \subseteq S, Cardinality(S) <= MaxProposals
  PROVE  IsFiniteSet(T) /\ Cardinality(T) <= MaxProposals
<1>1. IsFiniteSet(T) /\ Cardinality(T) <= Cardinality(S)
  BY FS_Subset
<1>2. Cardinality(T) \in Nat /\ Cardinality(S) \in Nat
  BY <1>1, FS_CardinalityType
<1> QED BY <1>1, <1>2, MaxProposalsAssumption

LEMMA InitInv == Init => Inv
<1> SUFFICES ASSUME Init PROVE Inv
  OBVIOUS
<1> USE MaxProposalsAssumption DEF Init
<1>1. TypeOK
  BY DEF TypeOK, Request, Proposal, Fee, Call, Erase, NoRequest, NoProposal,
         NoFee, Idle, NoErase
<1>2. BidsAreFiled
  BY DEF BidsAreFiled, ProposalExists, NoProposal
<1>3. SlotsInv
  <2>1. ASSUME NEW r \in Requests PROVE ProposalsFor(r) = {}
    BY DEF ProposalsFor, ProposalExists, NoProposal
  <2> QED BY <2>1, FS_EmptySet DEF SlotsInv
<1>4. CallsAreFilled
  BY DEF CallsAreFilled, Idle
<1>5. FeesNameABid
  BY DEF FeesNameABid, NoFee
<1> QED BY <1>1, <1>2, <1>3, <1>4, <1>5 DEF Inv

(* A step that removes no bid's filing and files no new bid keeps the filing
   and the slots. *)
LEMMA NoNewBid ==
  ASSUME Inv,
         \A p \in Proposals : ProposalExists(p)' =>
           /\ ProposalExists(p)
           /\ proposal'[p].req = proposal[p].req /\ proposal'[p].agent = proposal[p].agent
  PROVE  BidsAreFiled' /\ SlotsInv'
<1>1. BidsAreFiled'
  BY DEF Inv, BidsAreFiled
<1>2. ASSUME NEW r \in Requests PROVE ProposalsFor(r)' \subseteq ProposalsFor(r)
  BY DEF ProposalsFor
<1>3. SlotsInv'
  BY <1>2, FewerBids DEF Inv, SlotsInv
<1> QED BY <1>1, <1>3

(* Filing one new bid on a request with a free slot keeps its slots. *)
LEMMA OneNewBid ==
  ASSUME Inv, NEW r0 \in Requests, NEW p \in Proposals, NEW b, b.req = r0, b.agent \in Agents,
         Cardinality(ProposalsFor(r0)) < MaxProposals,
         proposal' = [proposal EXCEPT ![p] = b]
  PROVE  BidsAreFiled' /\ SlotsInv'
<1> USE DEF Inv
<1>1. BidsAreFiled'
  BY DEF BidsAreFiled, ProposalExists, TypeOK
<1>2. ASSUME NEW r \in Requests, r # r0
      PROVE  IsFiniteSet(ProposalsFor(r)') /\ Cardinality(ProposalsFor(r)') <= MaxProposals
  <2>1. ProposalsFor(r)' \subseteq ProposalsFor(r)
    BY <1>2 DEF ProposalsFor, ProposalExists, TypeOK
  <2> QED BY <2>1, FewerBids DEF SlotsInv
<1>3. IsFiniteSet(ProposalsFor(r0)') /\ Cardinality(ProposalsFor(r0)') <= MaxProposals
  <2>1. ProposalsFor(r0)' \subseteq ProposalsFor(r0) \cup {p}
    BY DEF ProposalsFor, ProposalExists, TypeOK
  <2>2. IsFiniteSet(ProposalsFor(r0)) /\ Cardinality(ProposalsFor(r0)) \in Nat
    BY FS_CardinalityType DEF SlotsInv
  <2>3. IsFiniteSet(ProposalsFor(r0)') /\ Cardinality(ProposalsFor(r0)') \in Nat
        /\ Cardinality(ProposalsFor(r0)') <= Cardinality(ProposalsFor(r0)) + 1
    BY <2>1, <2>2, AddOne
  <2> QED BY <2>2, <2>3, MaxProposalsAssumption
<1>4. SlotsInv'
  BY <1>2, <1>3 DEF SlotsInv
<1> QED BY <1>1, <1>4

LEMMA NextInv == Inv /\ [Next]_vars => Inv'
<1> SUFFICES ASSUME Inv, [Next]_vars PROVE Inv'
  OBVIOUS
<1> USE MaxProposalsAssumption
<1>0. TypeOK /\ BidsAreFiled /\ SlotsInv /\ CallsAreFilled /\ FeesNameABid
  BY DEF Inv
<1>1. ASSUME NEW r \in Requests, RequestNext(r) PROVE Inv'
  <2>1. UNCHANGED <<proposal, call, erase>>
    BY <1>1 DEF RequestNext, CreateBidRequest, BidWindowCloses, CancelBidRequest,
       MarkFeeInvoiced, MarkFeePaid, WaiveFee
  <2>2. BidsAreFiled' /\ SlotsInv'
    BY <2>1, NoNewBid DEF ProposalExists
  <2>3. CallsAreFilled'
    BY <1>0, <2>1 DEF CallsAreFilled
  <2>4. TypeOK' /\ FeesNameABid'
    <3> USE <1>0, <2>1 DEF TypeOK, Request, Fee, FeesNameABid
    <3>1. CASE \E h \in Homeowners : CreateBidRequest(r, h)
      BY <3>1 DEF CreateBidRequest
    <3>2. CASE BidWindowCloses(r)
      BY <3>2, ZenonT(60) DEF BidWindowCloses
    <3>3. CASE CancelBidRequest(r)
      BY <3>3, SMTT(30) DEF CancelBidRequest
    <3>4. CASE MarkFeeInvoiced(r)
      BY <3>4 DEF MarkFeeInvoiced
    <3>5. CASE MarkFeePaid(r)
      <4>1. fee' \in [Requests -> Fee] /\ FeesNameABid'
        BY <3>5, SMTT(30) DEF MarkFeePaid
      <4>2. charged' \subseteq Requests \X Proposals
        BY <3>5 DEF MarkFeePaid
      <4> QED BY <3>5, <4>1, <4>2 DEF MarkFeePaid
    <3>6. CASE WaiveFee(r)
      <4>1. fee' = [fee EXCEPT ![r].status = "Waived"] /\ fee[r].status # "none"
        BY <3>6 DEF WaiveFee
      <4>2. fee' \in [Requests -> Fee]
        BY <4>1, SMTT(30)
      <4>3. FeesNameABid'
        BY <4>1
      <4> QED BY <3>6, <4>2, <4>3 DEF WaiveFee
    <3> QED BY <1>1, <3>1, <3>2, <3>3, <3>4, <3>5, <3>6 DEF RequestNext
  <2> QED BY <2>2, <2>3, <2>4 DEF Inv
<1>2. ASSUME NEW p \in Proposals, WithdrawProposal(p) PROVE Inv'
  <2>1. BidsAreFiled' /\ SlotsInv'
    BY <1>0, <1>2, NoNewBid DEF WithdrawProposal, ProposalExists, TypeOK, Proposal
  <2>2. TypeOK' /\ CallsAreFilled' /\ FeesNameABid'
    BY <1>0, <1>2 DEF WithdrawProposal, TypeOK, Proposal, CallsAreFilled, FeesNameABid
  <2> QED BY <2>1, <2>2 DEF Inv
<1>3. ASSUME NEW c \in Calls, CallNext(c) PROVE Inv'
  <2> USE <1>0
  <2>1. CASE \E r \in Requests, a \in Agents : SubmitProposal(c, r, a)
    <3>1. BidsAreFiled' /\ SlotsInv'
      BY <2>1, NoNewBid DEF SubmitProposal, ProposalExists
    <3>2. TypeOK' /\ CallsAreFilled' /\ FeesNameABid'
      BY <2>1 DEF SubmitProposal, Begin, TypeOK, Call, CallsAreFilled, FeesNameABid
    <3> QED BY <3>1, <3>2 DEF Inv
  <2>2. CASE \E p \in Proposals : AcceptProposal(c, p)
    <3>1. BidsAreFiled' /\ SlotsInv'
      BY <2>2, NoNewBid DEF AcceptProposal, ProposalExists
    <3> PICK p \in Proposals : AcceptProposal(c, p)
      BY <2>2
    <3>2. proposal[p].req \in Requests /\ proposal[p].agent \in Agents
      BY DEF AcceptProposal, BidsAreFiled
    <3>3. TypeOK' /\ CallsAreFilled' /\ FeesNameABid'
      BY <3>2 DEF AcceptProposal, Begin, TypeOK, Call, CallsAreFilled, FeesNameABid
    <3> QED BY <3>1, <3>3 DEF Inv
  <2>3. CASE \E r \in Requests, p \in Proposals : MarkListingFeePaid(c, r, p)
    <3>1. BidsAreFiled' /\ SlotsInv'
      BY <2>3, NoNewBid DEF MarkListingFeePaid, ProposalExists
    <3>2. TypeOK' /\ CallsAreFilled' /\ FeesNameABid'
      BY <2>3 DEF MarkListingFeePaid, Begin, TypeOK, Call, CallsAreFilled, FeesNameABid
    <3> QED BY <3>1, <3>2 DEF Inv
  <2>4. CASE AgentReplies(c)
    <3>1. BidsAreFiled' /\ SlotsInv'
      BY <2>4, NoNewBid DEF AgentReplies, ProposalExists
    <3>2. TypeOK' /\ CallsAreFilled' /\ FeesNameABid'
      BY <2>4 DEF AgentReplies, TypeOK, Call, CallsAreFilled, FeesNameABid
    <3> QED BY <3>1, <3>2 DEF Inv
  <2>5. CASE FeeReplies(c)
    <3>1. BidsAreFiled' /\ SlotsInv'
      BY <2>5, NoNewBid DEF FeeReplies, ProposalExists
    <3> PICK d \in {"yes", "no"}, a \in Agents \cup {None} :
               call' = [call EXCEPT ![c].pc = d, ![c].agent = a]
      <4>1. call[c].agent \in Agents \cup {None} /\ fee[call[c].req].agent \in Agents \cup {None}
        BY <2>5 DEF FeeReplies, TypeOK, Call, Fee, CallsAreFilled
      <4>2. CASE call' = [call EXCEPT ![c].pc = "no"]
        <5>1. call' = [call EXCEPT ![c].pc = "no", ![c].agent = call[c].agent]
          BY <4>2 DEF TypeOK, Call
        <5> QED BY <4>1, <5>1
      <4>3. CASE call' = [call EXCEPT ![c].pc = "yes", ![c].agent = fee[call[c].req].agent]
        BY <4>1, <4>3
      <4> QED BY <2>5, <4>2, <4>3 DEF FeeReplies
    <3>2. TypeOK' /\ CallsAreFilled' /\ FeesNameABid'
      <4>1. call' \in [Calls -> Call]
        <5>1. call \in [Calls -> Call] /\ call[c] \in Call
          BY DEF TypeOK
        <5>2. [call[c] EXCEPT !.pc = d, !.agent = a] \in Call
          BY <5>1 DEF Call
        <5>3. call' = [call EXCEPT ![c] = [call[c] EXCEPT !.pc = d, !.agent = a]]
          BY <5>1 DEF Call
        <5> QED BY <5>1, <5>2, <5>3
      <4>2. call[c].op = "award" /\ UNCHANGED <<request, proposal, fee, erase, charged>>
        BY <2>5 DEF FeeReplies
      <4>3. CallsAreFilled'
        BY <4>2 DEF TypeOK, Call, CallsAreFilled
      <4> QED BY <4>1, <4>2, <4>3 DEF TypeOK, FeesNameABid
    <3> QED BY <3>1, <3>2 DEF Inv
  <2>6. CASE SubmitProposalResume(c)
    <3> PICK r0 \in Requests : r0 = call[c].req
      BY <2>6 DEF SubmitProposalResume, CallsAreFilled
    <3> DEFINE b == [status |-> "Pending", req |-> r0, agent |-> call[c].agent,
                    letter |-> NextLetter(r0)]
    <3> PICK p \in Proposals : proposal' = [proposal EXCEPT ![p] = b]
      BY <2>6 DEF SubmitProposalResume
    <3>1. Cardinality(ProposalsFor(r0)) < MaxProposals
      BY <2>6 DEF SubmitProposalResume, CanSubmit
    <3>2. b.req = r0 /\ b.agent \in Agents
      BY <2>6 DEF SubmitProposalResume, CallsAreFilled
    <3>3. BidsAreFiled' /\ SlotsInv'
      <4> HIDE DEF b
      <4> QED BY <3>1, <3>2, OneNewBid
    <3>4. NextLetter(r0) \in 0..MaxProposals
      BY <3>1, FS_CardinalityType DEF NextLetter, SlotsInv
    <3>5. TypeOK' /\ CallsAreFilled' /\ FeesNameABid'
      BY <2>6, <3>4 DEF SubmitProposalResume, End, Idle, TypeOK, Call, Proposal,
         CallsAreFilled, FeesNameABid
    <3> QED BY <3>3, <3>5 DEF Inv
  <2>7. CASE AcceptProposalResume(c)
    <3>1. BidsAreFiled' /\ SlotsInv'
      BY <2>7, NoNewBid DEF AcceptProposalResume, ProposalExists
    <3>2. TypeOK' /\ CallsAreFilled' /\ FeesNameABid'
      BY <2>7 DEF AcceptProposalResume, TypeOK, Call, CallsAreFilled, FeesNameABid
    <3> QED BY <3>1, <3>2 DEF Inv
  <2>8. CASE RecordFeeOwed(c)
    <3>1. BidsAreFiled' /\ SlotsInv'
      BY <2>8, NoNewBid DEF RecordFeeOwed, ProposalExists
    <3>2. TypeOK' /\ CallsAreFilled' /\ FeesNameABid'
      BY <2>8 DEF RecordFeeOwed, Retargeted, End, Idle, TypeOK, Call, Fee,
         CallsAreFilled, FeesNameABid
    <3> QED BY <3>1, <3>2 DEF Inv
  <2>9. CASE RecordFeeOwedFails(c) \/ ReturnError(c)
    <3>1. BidsAreFiled' /\ SlotsInv'
      BY <2>9, NoNewBid DEF RecordFeeOwedFails, ReturnError, ProposalExists
    <3>2. TypeOK' /\ CallsAreFilled' /\ FeesNameABid'
      BY <2>9 DEF RecordFeeOwedFails, ReturnError, End, Idle, TypeOK, Call,
         CallsAreFilled, FeesNameABid
    <3> QED BY <3>1, <3>2 DEF Inv
  <2>10. CASE MarkListingFeePaidResume(c)
    <3>1. BidsAreFiled' /\ SlotsInv'
      BY <2>10, NoNewBid DEF MarkListingFeePaidResume, CanAward, Decided,
         ProposalExists, TypeOK, Proposal
    <3>2. request' \in [Requests -> Request]
      BY <2>10, ZenonT(60) DEF MarkListingFeePaidResume, TypeOK, Request
    <3>3. proposal' \in [Proposals -> Proposal]
      BY <2>10 DEF MarkListingFeePaidResume, Decided, TypeOK, Proposal
    <3>4. TypeOK' /\ CallsAreFilled' /\ FeesNameABid'
      BY <2>10, <3>2, <3>3 DEF MarkListingFeePaidResume, End, Idle, TypeOK, Call,
         CallsAreFilled, FeesNameABid
    <3> QED BY <3>1, <3>4 DEF Inv
  <2> QED BY <1>3, <2>1, <2>2, <2>3, <2>4, <2>5, <2>6, <2>7, <2>8, <2>9, <2>10 DEF CallNext
<1>4. ASSUME NEW u \in Erasers, EraseNext(u) PROVE Inv'
  <2> USE <1>0
  <2>1. CASE DeleteMyData(u)
    <3>1. BidsAreFiled' /\ SlotsInv'
      BY <2>1, NoNewBid DEF DeleteMyData, ProposalExists
    <3>2. TypeOK' /\ CallsAreFilled' /\ FeesNameABid'
      BY <2>1 DEF DeleteMyData, TypeOK, Erase, CallsAreFilled, FeesNameABid, BidsAreFiled
    <3> QED BY <3>1, <3>2 DEF Inv
  <2>2. CASE \E r \in Requests : FeeRepliesToErase(u, r)
    <3>1. BidsAreFiled' /\ SlotsInv'
      BY <2>2, NoNewBid DEF FeeRepliesToErase, ProposalExists
    <3>2. TypeOK' /\ CallsAreFilled' /\ FeesNameABid'
      <4> PICK r \in Requests : FeeRepliesToErase(u, r)
        BY <2>2
      <4> PICK answer \in {fee[r].proposal, Unknown} :
            erase' = [erase EXCEPT ![u].ask = @ \ {r}, ![u].sel[r] = answer]
        BY DEF FeeRepliesToErase
      <4>1. answer \in Proposals \cup {None, Unknown}
        BY DEF TypeOK, Fee
      <4>2. erase[u] \in Erase
        BY DEF TypeOK
      <4>3. [erase[u].sel EXCEPT ![r] = answer] \in [Requests -> Proposals \cup {None, Unknown}]
        BY <4>1, <4>2 DEF Erase
      <4>4. [erase[u] EXCEPT !.ask = @ \ {r}, !.sel[r] = answer] \in Erase
        BY <4>2, <4>3 DEF Erase
      <4>5. erase' \in [Erasers -> Erase]
        BY <4>4 DEF TypeOK
      <4> QED BY <4>5 DEF FeeRepliesToErase, TypeOK, CallsAreFilled, FeesNameABid
    <3> QED BY <3>1, <3>2 DEF Inv
  <2>3. CASE DeleteMyDataResume(u)
    <3>1. BidsAreFiled' /\ SlotsInv'
      BY <2>3, NoNewBid DEF DeleteMyDataResume, ProposalExists, NoProposal
    <3>2. TypeOK' /\ CallsAreFilled' /\ FeesNameABid'
      BY <2>3 DEF DeleteMyDataResume, NoProposal, NoRequest, NoErase, TypeOK, Request,
         Proposal, Erase, CallsAreFilled, FeesNameABid
    <3> QED BY <3>1, <3>2 DEF Inv
  <2> QED BY <1>4, <2>1, <2>2, <2>3 DEF EraseNext
<1>5. CASE UNCHANGED vars
  <2>1. BidsAreFiled' /\ SlotsInv'
    BY <1>5, NoNewBid DEF vars, ProposalExists
  <2>2. TypeOK' /\ CallsAreFilled' /\ FeesNameABid'
    BY <1>0, <1>5 DEF vars, TypeOK, CallsAreFilled, FeesNameABid
  <2> QED BY <2>1, <2>2 DEF Inv
<1> QED BY <1>1, <1>2, <1>3, <1>4, <1>5 DEF Next

-----------------------------------------------------------------------------
(* Every value the canisters and the calls in flight hold stays in its type,
   the letters within the slots: submitProposal's re-check after the await is
   what keeps LETTERS[existing.size()] in range. *)
THEOREM TypeCorrect == Spec => []TypeOK
<1>1. Inv => TypeOK
  BY DEF Inv
<1> QED BY InitInv, NextInv, <1>1, PTL DEF Spec

THEOREM SpecInv == Spec => []Inv
  BY InitInv, NextInv, PTL DEF Spec

-----------------------------------------------------------------------------
(* AwardedIffOneWinner bid by bid, the form in which a step is followed. *)
DecidedInv ==
  /\ \A r \in Requests : request[r].status = "Awarded" <=> request[r].feePaid
  /\ \A r \in Requests : request[r].feePaid =>
       \E p \in Proposals : proposal[p].status = "Accepted" /\ proposal[p].req = r
  /\ \A p \in Proposals : proposal[p].status = "Accepted" => request[proposal[p].req].feePaid
  /\ \A p, q \in Proposals :
       /\ proposal[p].status = "Accepted" /\ proposal[q].status = "Accepted"
       /\ proposal[p].req = proposal[q].req
       => p = q
  /\ \A p \in Proposals : proposal[p].status = "Pending" => ~request[proposal[p].req].feePaid

LEMMA DecidedImplies == Inv /\ DecidedInv => AwardedIffOneWinner
<1> SUFFICES ASSUME Inv, DecidedInv, NEW r \in Requests
             PROVE  LET winners == {p \in ProposalsFor(r) : proposal[p].status = "Accepted"} IN
                    /\ request[r].status = "Awarded" <=> request[r].feePaid
                    /\ request[r].feePaid =>
                         /\ \E p \in winners : winners = {p}
                         /\ \A p \in ProposalsFor(r) : proposal[p].status # "Pending"
                    /\ ~request[r].feePaid => winners = {}
  BY DEF AwardedIffOneWinner
<1> DEFINE winners == {p \in ProposalsFor(r) : proposal[p].status = "Accepted"}
<1> USE DEF DecidedInv, ProposalsFor, ProposalExists
<1>1. request[r].feePaid => \E p \in winners : winners = {p}
  <2> HAVE request[r].feePaid
  <2> PICK p \in Proposals : proposal[p].status = "Accepted" /\ proposal[p].req = r
    OBVIOUS
  <2>1. p \in winners
    OBVIOUS
  <2>2. \A q \in winners : q = p
    OBVIOUS
  <2> QED BY <2>1, <2>2
<1>2. ~request[r].feePaid => winners = {}
  OBVIOUS
<1>3. request[r].feePaid => \A p \in ProposalsFor(r) : proposal[p].status # "Pending"
  OBVIOUS
<1> QED BY <1>1, <1>2, <1>3

LEMMA InitDecided == Init => DecidedInv
  BY DEF Init, DecidedInv, NoRequest, NoProposal

(* A step of the homeowner or the admin: no bid changes. *)
LEMMA RequestKeepsDecided ==
  ASSUME Inv, DecidedInv, NEW r \in Requests, RequestNext(r)
  PROVE  DecidedInv'
<1> USE DEF Inv, TypeOK, Request, Proposal, DecidedInv
<1>1. CASE \E h \in Homeowners : CreateBidRequest(r, h)
  BY <1>1 DEF CreateBidRequest
<1>2. CASE BidWindowCloses(r)
  BY <1>2 DEF BidWindowCloses
<1>3. CASE CancelBidRequest(r)
  BY <1>3 DEF CancelBidRequest
<1>4. CASE MarkFeeInvoiced(r) \/ MarkFeePaid(r) \/ WaiveFee(r)
  BY <1>4 DEF MarkFeeInvoiced, MarkFeePaid, WaiveFee
<1> QED BY <1>1, <1>2, <1>3, <1>4 DEF RequestNext

(* The award itself: a request that was open gets its winner. *)
LEMMA AwardKeepsDecided ==
  ASSUME Inv, DecidedInv, NEW c \in Calls, MarkListingFeePaidResume(c)
  PROVE  DecidedInv'
<1> USE DEF Inv
<1>1. PICK r \in Requests, p \in Proposals : r = call[c].req /\ p = call[c].prop
  BY DEF MarkListingFeePaidResume, CallsAreFilled
<1>2. /\ request[r].status = "Open" /\ ~request[r].feePaid
      /\ proposal[p].status = "Pending" /\ proposal[p].req = r
  BY <1>1 DEF MarkListingFeePaidResume, CanAward, DecidedInv
<1>3. /\ request' = [request EXCEPT ![r].status = "Awarded", ![r].feePaid = TRUE]
      /\ proposal' = Decided(r, p)
  BY <1>1 DEF MarkListingFeePaidResume
<1>4. request'[r].status = "Awarded" /\ request'[r].feePaid
      /\ \A s \in Requests \ {r} : request'[s] = request[s]
  BY <1>3 DEF TypeOK, Request
<1>5. /\ proposal'[p].status = "Accepted" /\ proposal'[p].req = r
      /\ \A q \in Proposals \ {p} :
           /\ proposal'[q].req = proposal[q].req
           /\ proposal'[q].status = IF proposal[q].req = r /\ proposal[q].status = "Pending"
                                    THEN "Rejected" ELSE proposal[q].status
  BY <1>2, <1>3 DEF Decided, TypeOK, Proposal
<1>6. \A q \in Proposals : proposal[q].status \in {"Accepted", "Pending"} =>
        proposal[q].req \in Requests
  BY DEF BidsAreFiled, ProposalExists
<1>7. \A q \in Proposals : proposal[q].status = "Accepted" => proposal[q].req # r
  BY <1>2 DEF DecidedInv
<1> QED BY <1>2, <1>4, <1>5, <1>6, <1>7 DEF DecidedInv

(* Account deletion only takes what the award flags, read after the last
   await, leave to it. *)
LEMMA EraseKeepsDecided ==
  ASSUME Inv, DecidedInv, NEW u \in Erasers, DeleteMyDataResume(u)
  PROVE  DecidedInv'
<1> USE DEF Inv
<1> DEFINE R == ErasedRequests(u)
           P == ErasedProposals(u)
<1>1. \A r \in R : ~request[r].feePaid /\ request[r].status # "Awarded"
  BY DEF ErasedRequests, AwardedLocally
<1>2. \A p \in P : proposal[p].status # "Accepted"
  BY <1>1 DEF ErasedProposals, DecidedInv
<1>3. \A p \in Proposals : ProposalExists(p) /\ proposal[p].req \in R => p \in P
  BY DEF ErasedProposals
<1>4. /\ \A r \in R \cap Requests : ~request'[r].feePaid /\ request'[r].status = "gone"
      /\ \A r \in Requests \ R : request'[r] = request[r]
  BY DEF DeleteMyDataResume, NoRequest
<1>5. /\ \A p \in P \cap Proposals : proposal'[p].status = "gone"
      /\ \A p \in Proposals \ P : proposal'[p] = proposal[p]
  BY DEF DeleteMyDataResume, NoProposal
<1>6. \A q \in Proposals : proposal[q].status \in {"Accepted", "Pending"} =>
        proposal[q].req \in Requests
  BY DEF BidsAreFiled, ProposalExists
<1> HIDE DEF R, P
<1> QED BY <1>1, <1>2, <1>3, <1>4, <1>5, <1>6 DEF DecidedInv, ProposalExists

(* Filing a bid or withdrawing one decides nothing. *)
LEMMA BidKeepsDecided ==
  ASSUME Inv, DecidedInv,
         \/ \E c \in Calls : SubmitProposalResume(c)
         \/ \E p \in Proposals : WithdrawProposal(p)
  PROVE  DecidedInv'
<1> USE DEF Inv
<1>1. ASSUME NEW p \in Proposals, WithdrawProposal(p) PROVE DecidedInv'
  BY <1>1 DEF WithdrawProposal, TypeOK, Proposal, DecidedInv
<1>2. ASSUME NEW c \in Calls, SubmitProposalResume(c) PROVE DecidedInv'
  <2>1. PICK r \in Requests : r = call[c].req
    BY <1>2 DEF SubmitProposalResume, CallsAreFilled
  <2>2. request[r].status = "Open" /\ UNCHANGED request
    BY <1>2, <2>1 DEF SubmitProposalResume, CanSubmit
  <2>3. PICK p \in Proposals :
          /\ proposal[p].status = "none"
          /\ proposal'[p].status = "Pending" /\ proposal'[p].req = r
          /\ \A q \in Proposals \ {p} : proposal'[q] = proposal[q]
    BY <1>2, <2>1 DEF SubmitProposalResume, TypeOK
  <2> QED BY <2>2, <2>3 DEF DecidedInv
<1> QED BY <1>1, <1>2

(* A step that touches neither the requests nor the bids: all the others. *)
OtherCallNext(c) ==
  \/ \E r \in Requests, a \in Agents : SubmitProposal(c, r, a)
  \/ \E p \in Proposals : AcceptProposal(c, p)
  \/ \E r \in Requests, p \in Proposals : MarkListingFeePaid(c, r, p)
  \/ AgentReplies(c) \/ FeeReplies(c) \/ AcceptProposalResume(c)
  \/ RecordFeeOwed(c) \/ RecordFeeOwedFails(c) \/ ReturnError(c)

LEMMA OtherCallKeepsBids ==
  ASSUME NEW c, OtherCallNext(c)
  PROVE  UNCHANGED <<request, proposal>>
BY DEF OtherCallNext, SubmitProposal, AcceptProposal, MarkListingFeePaid, AgentReplies,
   FeeReplies, AcceptProposalResume, RecordFeeOwed, RecordFeeOwedFails, ReturnError

LEMMA OtherEraseKeepsBids ==
  ASSUME NEW u, DeleteMyData(u) \/ \E r \in Requests : FeeRepliesToErase(u, r)
  PROVE  UNCHANGED <<request, proposal>>
BY DEF DeleteMyData, FeeRepliesToErase

(* The steps by what they do to requests and bids. *)
LEMMA StepKinds ==
  ASSUME [Next]_vars
  PROVE  \/ \E r \in Requests : RequestNext(r)
         \/ \E c \in Calls : SubmitProposalResume(c)
         \/ \E p \in Proposals : WithdrawProposal(p)
         \/ \E c \in Calls : MarkListingFeePaidResume(c)
         \/ \E u \in Erasers : DeleteMyDataResume(u)
         \/ UNCHANGED <<request, proposal>>
<1>1. ASSUME NEW c \in Calls, CallNext(c)
      PROVE  OtherCallNext(c) \/ SubmitProposalResume(c) \/ MarkListingFeePaidResume(c)
  BY <1>1 DEF CallNext, OtherCallNext
<1>2. ASSUME NEW u \in Erasers, EraseNext(u)
      PROVE  DeleteMyDataResume(u) \/ UNCHANGED <<request, proposal>>
  BY <1>2, OtherEraseKeepsBids DEF EraseNext
<1> QED BY <1>1, <1>2, OtherCallKeepsBids DEF Next, vars

LEMMA NextDecided == Inv /\ DecidedInv /\ [Next]_vars => DecidedInv'
<1> SUFFICES ASSUME Inv, DecidedInv, [Next]_vars PROVE DecidedInv'
  OBVIOUS
<1>1. ASSUME UNCHANGED <<request, proposal>> PROVE DecidedInv'
  BY <1>1 DEF DecidedInv
<1> QED BY <1>1, StepKinds, RequestKeepsDecided, BidKeepsDecided, AwardKeepsDecided,
     EraseKeepsDecided

(* Two selections, a cancellation, webhook retries and account deletions in
   any order leave a request awarded exactly when it has one winner and no
   bid pending: markListingFeePaid's re-check makes the award atomic. *)
THEOREM OneWinner == Spec => []AwardedIffOneWinner
BY InitInv, NextInv, InitDecided, NextDecided, DecidedImplies, PTL DEF Spec

-----------------------------------------------------------------------------
(* A settled record's bid was charged, and so was the bid of a call that has
   seen the settled record: the answer of getFeeForRequest may be old when it
   is used, but a charge cannot be undone. *)
ReleaseInv ==
  /\ \A r \in Requests : fee[r].status = "Paid" => <<r, fee[r].proposal>> \in charged
  /\ \A c \in Calls : call[c].op = "award" /\ call[c].pc = "yes" =>
       <<call[c].req, call[c].prop>> \in charged
  /\ ChargeThenRelease

LEMMA InitRelease == Init => ReleaseInv
BY DEF Init, ReleaseInv, ChargeThenRelease, NoFee, NoProposal, Idle

LEMMA RequestKeepsRelease ==
  ASSUME Inv, ReleaseInv, NEW r \in Requests, RequestNext(r)
  PROVE  ReleaseInv'
<1> USE DEF Inv, ReleaseInv, ChargeThenRelease
<1>1. UNCHANGED <<proposal, call>> /\ charged \subseteq charged'
  BY DEF RequestNext, CreateBidRequest, BidWindowCloses, CancelBidRequest,
     MarkFeeInvoiced, MarkFeePaid, WaiveFee
<1>2. ASSUME NEW s \in Requests, fee'[s].status = "Paid"
      PROVE  <<s, fee'[s].proposal>> \in charged'
  <2>1. CASE MarkFeePaid(r)
    <3>1. /\ fee'[r].proposal = fee[r].proposal
          /\ s # r => fee'[s] = fee[s]
          /\ <<r, fee[r].proposal>> \in charged'
      BY <2>1 DEF MarkFeePaid, TypeOK, Fee
    <3> QED BY <1>1, <1>2, <3>1
  <2>2. CASE MarkFeeInvoiced(r) \/ WaiveFee(r)
    <3>1. fee'[s] = fee[s]
      BY <1>2, <2>2 DEF MarkFeeInvoiced, WaiveFee, TypeOK, Fee
    <3> QED BY <1>1, <1>2, <3>1
  <2>3. CASE \/ \E h \in Homeowners : CreateBidRequest(r, h)
             \/ BidWindowCloses(r) \/ CancelBidRequest(r)
    BY <1>1, <1>2, <2>3 DEF CreateBidRequest, BidWindowCloses, CancelBidRequest
  <2> QED BY <2>1, <2>2, <2>3 DEF RequestNext
<1> QED BY <1>1, <1>2

LEMMA CallKeepsRelease ==
  ASSUME Inv, ReleaseInv, NEW c \in Calls, CallNext(c)
  PROVE  ReleaseInv'
<1> USE DEF Inv, ReleaseInv, ChargeThenRelease
<1>1. CASE SubmitProposalResume(c)
  <2>1. UNCHANGED <<fee, charged>> /\ call' = [call EXCEPT ![c] = Idle]
    BY <1>1 DEF SubmitProposalResume, End
  <2>2. \A q \in Proposals : proposal'[q] = proposal[q] \/ proposal'[q].status = "Pending"
    BY <1>1 DEF SubmitProposalResume, TypeOK
  <2> QED BY <2>1, <2>2 DEF Idle, TypeOK
<1>2. CASE MarkListingFeePaidResume(c)
  <2>1. PICK r \in Requests, p \in Proposals : r = call[c].req /\ p = call[c].prop
    BY <1>2 DEF MarkListingFeePaidResume, CallsAreFilled
  <2>2. /\ <<r, p>> \in charged /\ proposal[p].req = r
        /\ UNCHANGED <<fee, charged>> /\ call' = [call EXCEPT ![c] = Idle]
        /\ proposal' = Decided(r, p)
    BY <1>2, <2>1 DEF MarkListingFeePaidResume, CanAward, End
  <2>3. \A q \in Proposals :
          /\ proposal'[q].req = proposal[q].req
          /\ proposal'[q].status = "Accepted" => q = p \/ proposal[q].status = "Accepted"
    BY <2>2 DEF Decided, TypeOK, Proposal
  <2> QED BY <2>2, <2>3 DEF Idle, TypeOK
<1>3. CASE FeeReplies(c)
  <2>1. /\ UNCHANGED <<proposal, fee, charged>>
        /\ \A d \in Calls \ {c} : call'[d] = call[d]
        /\ call'[c].op = call[c].op /\ call'[c].req = call[c].req
        /\ call'[c].prop = call[c].prop
        /\ call'[c].pc = "yes" =>
             fee[call[c].req].status = "Paid" /\ fee[call[c].req].proposal = call[c].prop
    BY <1>3 DEF FeeReplies, TypeOK, Call
  <2>2. call[c].req \in Requests
    BY <1>3 DEF FeeReplies, CallsAreFilled
  <2> QED BY <2>1, <2>2
<1>4. CASE RecordFeeOwed(c)
  <2>1. /\ UNCHANGED <<proposal, charged>> /\ call' = [call EXCEPT ![c] = Idle]
        /\ \A r \in Requests : fee'[r] = fee[r] \/ fee'[r].status # "Paid"
    BY <1>4 DEF RecordFeeOwed, End, Retargeted, TypeOK
  <2> QED BY <2>1 DEF Idle, TypeOK
<1>5. CASE \/ \E r \in Requests, a \in Agents : SubmitProposal(c, r, a)
           \/ \E p \in Proposals : AcceptProposal(c, p)
           \/ \E r \in Requests, p \in Proposals : MarkListingFeePaid(c, r, p)
           \/ AgentReplies(c) \/ AcceptProposalResume(c)
           \/ RecordFeeOwedFails(c) \/ ReturnError(c)
  <2>1. /\ UNCHANGED <<proposal, fee, charged>>
        /\ \A d \in Calls : call'[d] = call[d] \/ call'[d].pc # "yes" \/ call'[d].op # "award"
    BY <1>5 DEF SubmitProposal, AcceptProposal, MarkListingFeePaid, AgentReplies,
       AcceptProposalResume, RecordFeeOwedFails, ReturnError, Begin, End, Idle, TypeOK, Call
  <2> QED BY <2>1
<1> QED BY <1>1, <1>2, <1>3, <1>4, <1>5 DEF CallNext

LEMMA NextRelease == Inv /\ ReleaseInv /\ [Next]_vars => ReleaseInv'
<1> SUFFICES ASSUME Inv, ReleaseInv, [Next]_vars PROVE ReleaseInv'
  OBVIOUS
<1> USE DEF ReleaseInv, ChargeThenRelease
<1>1. ASSUME NEW u \in Erasers, EraseNext(u) PROVE ReleaseInv'
  <2>1. /\ UNCHANGED <<fee, call, charged>>
        /\ \A p \in Proposals : proposal'[p] = proposal[p] \/ proposal'[p].status = "gone"
    <3>1. CASE DeleteMyDataResume(u)
      BY <3>1 DEF DeleteMyDataResume, NoProposal
    <3>2. CASE DeleteMyData(u) \/ \E r \in Requests : FeeRepliesToErase(u, r)
      BY <3>2 DEF DeleteMyData, FeeRepliesToErase
    <3> QED BY <1>1, <3>1, <3>2 DEF EraseNext
  <2> QED BY <2>1
<1>2. ASSUME NEW p \in Proposals, WithdrawProposal(p) PROVE ReleaseInv'
  <2>1. /\ UNCHANGED <<fee, call, charged>>
        /\ \A q \in Proposals :
             /\ proposal'[q].req = proposal[q].req
             /\ proposal'[q].status = "Accepted" => proposal[q].status = "Accepted"
    BY <1>2 DEF WithdrawProposal, Inv, TypeOK, Proposal
  <2> QED BY <2>1
<1>3. ASSUME UNCHANGED vars PROVE ReleaseInv'
  BY <1>3 DEF vars
<1> HIDE DEF ReleaseInv
<1> QED BY <1>1, <1>2, <1>3, RequestKeepsRelease, CallKeepsRelease DEF Next

(* Invariant 04: whatever selections, webhooks, waivers and deletions run in
   between, the accepted bid is one whose fee record settled naming it. *)
THEOREM ChargedBeforeRelease == Spec => []ChargeThenRelease
<1>1. ReleaseInv => ChargeThenRelease
  BY DEF ReleaseInv
<1> QED BY InitInv, NextInv, InitRelease, NextRelease, <1>1, PTL DEF Spec

-----------------------------------------------------------------------------
(* An agent has at most one stored bid on a request. *)
OneBidEach ==
  \A p, q \in Proposals :
    /\ ProposalExists(p) /\ ProposalExists(q)
    /\ proposal[p].req = proposal[q].req /\ proposal[p].agent = proposal[q].agent
    => p = q

LEMMA InitOneBid == Init => OneBidEach
BY DEF Init, OneBidEach, ProposalExists, NoProposal

LEMMA NextOneBid == Inv /\ OneBidEach /\ [Next]_vars => OneBidEach'
<1> SUFFICES ASSUME Inv, OneBidEach, [Next]_vars PROVE OneBidEach'
  OBVIOUS
<1> USE DEF Inv
<1>1. ASSUME \A p \in Proposals : ProposalExists(p)' =>
               /\ ProposalExists(p)
               /\ proposal'[p].req = proposal[p].req /\ proposal'[p].agent = proposal[p].agent
      PROVE  OneBidEach'
  BY <1>1 DEF OneBidEach
<1>2. ASSUME NEW c \in Calls, SubmitProposalResume(c) PROVE OneBidEach'
  <2>1. PICK r \in Requests : r = call[c].req
    BY <1>2 DEF SubmitProposalResume, CallsAreFilled
  <2>2. PICK p \in Proposals :
          /\ proposal'[p].req = r /\ proposal'[p].agent = call[c].agent
          /\ \A q \in Proposals \ {p} : proposal'[q] = proposal[q]
    BY <1>2, <2>1 DEF SubmitProposalResume, TypeOK
  <2>3. \A q \in Proposals : ProposalExists(q) /\ proposal[q].req = r =>
          proposal[q].agent # call[c].agent
    BY <1>2, <2>1 DEF SubmitProposalResume, CanSubmit, ProposalsFor
  <2> QED BY <2>2, <2>3 DEF OneBidEach, ProposalExists
<1>3. ASSUME NEW r \in Requests, RequestNext(r) PROVE UNCHANGED proposal
  BY <1>3 DEF RequestNext, CreateBidRequest, BidWindowCloses, CancelBidRequest,
     MarkFeeInvoiced, MarkFeePaid, WaiveFee
<1>4. ASSUME NEW p \in Proposals, WithdrawProposal(p) PROVE OneBidEach'
  BY <1>1, <1>4 DEF WithdrawProposal, ProposalExists, TypeOK, Proposal
<1>5. ASSUME NEW c \in Calls, MarkListingFeePaidResume(c) PROVE OneBidEach'
  BY <1>1, <1>5 DEF MarkListingFeePaidResume, CanAward, Decided, ProposalExists,
     TypeOK, Proposal
<1>6. ASSUME NEW u \in Erasers, DeleteMyDataResume(u) PROVE OneBidEach'
  BY <1>1, <1>6 DEF DeleteMyDataResume, NoProposal, ProposalExists
<1>7. ASSUME UNCHANGED proposal PROVE OneBidEach'
  BY <1>1, <1>7 DEF ProposalExists
<1> QED BY <1>2, <1>3, <1>4, <1>5, <1>6, <1>7, StepKinds

(* Two submissions of one agent in flight, or a crowd at the last slot, leave
   one bid per agent and no request over its slots. *)
THEOREM BidsWithinLimits == Spec => []BidLimits
<1>1. Inv /\ OneBidEach => BidLimits
  BY DEF Inv, SlotsInv, OneBidEach, BidLimits, ProposalsFor
<1> QED BY InitInv, NextInv, InitOneBid, NextOneBid, <1>1, PTL DEF Spec

-----------------------------------------------------------------------------
(* What one step may never do, as a formula on the step. *)
Final ==
  /\ \A r \in Requests :
       /\ request[r].status = "Awarded" => request'[r].status = "Awarded"
       /\ request[r].status = "Cancelled" => request'[r].status \in {"Cancelled", "gone"}
  /\ \A p \in Proposals :
       /\ proposal[p].status = "Accepted" => proposal'[p] = proposal[p]
       /\ proposal[p].status \in {"Rejected", "Withdrawn"} =>
            proposal'[p].status \in {proposal[p].status, "gone"}

LEMMA StepIsFinal ==
  ASSUME Inv, DecidedInv, [Next]_vars
  PROVE  Final
<1> USE DEF Inv
<1>1. ASSUME NEW r \in Requests, RequestNext(r) PROVE Final
  <2>1. UNCHANGED proposal
    BY <1>1 DEF RequestNext, CreateBidRequest, BidWindowCloses, CancelBidRequest,
       MarkFeeInvoiced, MarkFeePaid, WaiveFee
  <2>2. \A s \in Requests :
          \/ request'[s].status = request[s].status
          \/ request[s].status \in {"none", "Open"}
    BY <1>1 DEF RequestNext, CreateBidRequest, BidWindowCloses, CancelBidRequest,
       MarkFeeInvoiced, MarkFeePaid, WaiveFee, TypeOK, Request
  <2> QED BY <2>1, <2>2 DEF Final
<1>2. ASSUME NEW p \in Proposals, WithdrawProposal(p) PROVE Final
  <2>1. UNCHANGED request /\ \A q \in Proposals : q # p => proposal'[q] = proposal[q]
    BY <1>2 DEF WithdrawProposal, TypeOK
  <2>2. proposal[p].status = "Pending"
    BY <1>2 DEF WithdrawProposal
  <2> QED BY <2>1, <2>2 DEF Final
<1>3. ASSUME NEW c \in Calls, SubmitProposalResume(c) PROVE Final
  <2>1. UNCHANGED request
        /\ \A p \in Proposals : proposal'[p] = proposal[p] \/ proposal[p].status = "none"
    BY <1>3 DEF SubmitProposalResume, TypeOK
  <2> QED BY <2>1 DEF Final
<1>4. ASSUME NEW c \in Calls, MarkListingFeePaidResume(c) PROVE Final
  <2>1. PICK r \in Requests, p \in Proposals : r = call[c].req /\ p = call[c].prop
    BY <1>4 DEF MarkListingFeePaidResume, CallsAreFilled
  <2>2. /\ request[r].status = "Open"
        /\ \A s \in Requests \ {r} : request'[s] = request[s]
    BY <1>4, <2>1 DEF MarkListingFeePaidResume, CanAward, TypeOK
  <2>3. \A q \in Proposals : proposal[q].status = "Pending" \/ proposal'[q] = proposal[q]
    BY <1>4, <2>1 DEF MarkListingFeePaidResume, CanAward, Decided
  <2> QED BY <2>2, <2>3 DEF Final
<1>5. ASSUME NEW u \in Erasers, DeleteMyDataResume(u) PROVE Final
  <2> DEFINE R == ErasedRequests(u)
             P == ErasedProposals(u)
  <2>1. \A r \in R : ~request[r].feePaid /\ request[r].status # "Awarded"
    BY DEF ErasedRequests, AwardedLocally
  <2>2. \A p \in P : proposal[p].status # "Accepted"
    BY <2>1 DEF ErasedProposals, DecidedInv
  <2>3. /\ \A r \in Requests : request'[r] = request[r] \/ (r \in R /\ request'[r].status = "gone")
        /\ \A p \in Proposals : proposal'[p] = proposal[p] \/ (p \in P /\ proposal'[p].status = "gone")
    BY <1>5 DEF DeleteMyDataResume, NoRequest, NoProposal
  <2> HIDE DEF R, P
  <2> QED BY <2>1, <2>2, <2>3 DEF Final
<1>6. ASSUME UNCHANGED <<request, proposal>> PROVE Final
  BY <1>6 DEF Final
<1> QED BY <1>1, <1>2, <1>3, <1>4, <1>5, <1>6, StepKinds

(* Cancel, withdraw and account deletion against the award: what was decided
   is never decided again, an award and its winner are never deleted. *)
THEOREM Finality == Spec => DecisionsAreFinal
<1>1. Inv /\ DecidedInv /\ [Next]_vars => [Final]_vars
  BY StepIsFinal
<1>2. [][Final]_vars => DecisionsAreFinal
  BY PTL DEF DecisionsAreFinal, Final
<1> QED BY InitInv, NextInv, InitDecided, NextDecided, <1>1, <1>2, PTL DEF Spec

(* A settled fee keeps the bid and the agent it was charged for. *)
THEOREM SettledFeeIsFixed == Spec => SettledFeeKeepsItsBid
<1> DEFINE Kept == \A r \in Requests : fee[r].status = "Paid" =>
                     fee'[r].proposal = fee[r].proposal /\ fee'[r].agent = fee[r].agent
<1>1. ASSUME Inv, [Next]_vars PROVE Kept
  <2> USE <1>1 DEF Inv, TypeOK, Fee
  <2>1. ASSUME NEW r \in Requests, RequestNext(r) PROVE Kept
    BY <2>1 DEF RequestNext, CreateBidRequest, BidWindowCloses, CancelBidRequest,
       MarkFeeInvoiced, MarkFeePaid, WaiveFee
  <2>2. ASSUME NEW c \in Calls, RecordFeeOwed(c) PROVE Kept
    BY <2>2 DEF RecordFeeOwed, Retargeted
  <2>3. ASSUME NEW c \in Calls, CallNext(c), ~RecordFeeOwed(c) PROVE UNCHANGED fee
    BY <2>3 DEF CallNext, SubmitProposal, AcceptProposal, MarkListingFeePaid,
       AgentReplies, FeeReplies, SubmitProposalResume, AcceptProposalResume,
       RecordFeeOwedFails, MarkListingFeePaidResume, ReturnError
  <2>4. ASSUME NEW u \in Erasers, EraseNext(u) PROVE UNCHANGED fee
    BY <2>4 DEF EraseNext, DeleteMyData, FeeRepliesToErase, DeleteMyDataResume
  <2>5. ASSUME NEW p \in Proposals, WithdrawProposal(p) PROVE UNCHANGED fee
    BY <2>5 DEF WithdrawProposal
  <2> QED BY <2>1, <2>2, <2>3, <2>4, <2>5 DEF Next, vars
<1>2. Inv /\ [Next]_vars => [Kept]_vars
  BY <1>1
<1>3. [][Kept]_vars => SettledFeeKeepsItsBid
  BY PTL DEF SettledFeeKeepsItsBid
<1> QED BY InitInv, NextInv, <1>2, <1>3, PTL DEF Spec
-----------------------------------------------------------------------------
(* Tender, operation by operation. *)
LEMMA SameVerdicts ==
  ASSUME \A r \in Requests : request'[r].status = request[r].status
  PROVE  \A r \in Requests : VerdictOf(request[r].status)' = VerdictOf(request[r].status)
BY DEF VerdictOf

LEMMA SameBids ==
  ASSUME UNCHANGED proposal
  PROVE  /\ \A s, r : BidsThatAre(s, r)' = BidsThatAre(s, r)
         /\ {p \in Proposals : proposal'[p].status # "none"} =
            {p \in Proposals : proposal[p].status # "none"}
BY DEF BidsThatAre

(* A step that changes no status and no bid is none of Tender's. *)
LEMMA TenderUnchanged ==
  ASSUME UNCHANGED proposal, \A r \in Requests : request'[r].status = request[r].status
  PROVE  UNCHANGED TenderOf!tenderVars
BY SameVerdicts, SameBids DEF TenderOf!tenderVars

LEMMA TenderAnnounced ==
  ASSUME Inv, NEW r \in Requests, NEW h \in Homeowners, CreateBidRequest(r, h)
  PROVE  TenderOf!Announce(r)
<1>1. \A s \in Requests :
        request'[s].status = IF s = r THEN "Open" ELSE request[s].status
  BY DEF CreateBidRequest, Inv, TypeOK
<1>2. \A s \in Requests :
        VerdictOf(request[s].status)' = IF s = r THEN "open" ELSE VerdictOf(request[s].status)
  BY <1>1 DEF VerdictOf
<1>3. VerdictOf(request[r].status) = "none"
  BY DEF CreateBidRequest, VerdictOf
<1> QED BY <1>2, <1>3, SameBids DEF CreateBidRequest, TenderOf!Announce

LEMMA TenderEnded ==
  ASSUME Inv, NEW r \in Requests, CancelBidRequest(r)
  PROVE  TenderOf!End(r)
<1>1. \A s \in Requests :
        request'[s].status = IF s = r THEN "Cancelled" ELSE request[s].status
  BY DEF CancelBidRequest, Inv, TypeOK, Request
<1>2. \A s \in Requests :
        VerdictOf(request[s].status)' = IF s = r THEN "ended" ELSE VerdictOf(request[s].status)
  BY <1>1 DEF VerdictOf
<1>3. VerdictOf(request[r].status) = "open"
  BY DEF CancelBidRequest, VerdictOf
<1> QED BY <1>2, <1>3, SameBids DEF CancelBidRequest, TenderOf!End

LEMMA TenderMade ==
  ASSUME Inv, NEW c \in Calls, SubmitProposalResume(c)
  PROVE  TenderOf!TenderNext
<1> USE DEF Inv
<1>1. PICK r \in Requests : r = call[c].req
  BY DEF SubmitProposalResume, CallsAreFilled
<1>2. PICK p \in Proposals :
        /\ proposal[p].status = "none"
        /\ proposal'[p].status = "Pending" /\ proposal'[p].req = r
        /\ \A q \in Proposals \ {p} : proposal'[q] = proposal[q]
  BY <1>1 DEF SubmitProposalResume, TypeOK
<1>3. VerdictOf(request[r].status) = "open" /\ UNCHANGED request
  BY <1>1 DEF SubmitProposalResume, CanSubmit, VerdictOf
<1>4. \A s \in Requests : BidsThatAre("Pending", s)' =
        IF s = r THEN BidsThatAre("Pending", s) \cup {p} ELSE BidsThatAre("Pending", s)
  BY <1>2 DEF BidsThatAre
<1>5. \A s \in Requests : BidsThatAre("Accepted", s)' = BidsThatAre("Accepted", s)
  BY <1>2 DEF BidsThatAre
<1>6. {q \in Proposals : proposal'[q].status # "none"} =
      {q \in Proposals : proposal[q].status # "none"} \cup {p}
  BY <1>2
<1>7. TenderOf!Make(r, p)
  BY <1>2, <1>3, <1>4, <1>5, <1>6, SameVerdicts DEF TenderOf!Make
<1> QED BY <1>7 DEF TenderOf!TenderNext

LEMMA TenderAwarded ==
  ASSUME Inv, DecidedInv, NEW c \in Calls, MarkListingFeePaidResume(c)
  PROVE  TenderOf!TenderNext
<1> USE DEF Inv
<1>1. PICK r \in Requests, p \in Proposals : r = call[c].req /\ p = call[c].prop
  BY DEF MarkListingFeePaidResume, CallsAreFilled
<1>2. /\ request[r].status = "Open" /\ ~request[r].feePaid
      /\ proposal[p].status = "Pending" /\ proposal[p].req = r
  BY <1>1 DEF MarkListingFeePaidResume, CanAward, DecidedInv
<1>3. \A s \in Requests :
        request'[s].status = IF s = r THEN "Awarded" ELSE request[s].status
  BY <1>1 DEF MarkListingFeePaidResume, TypeOK, Request
<1>4. /\ proposal'[p].status = "Accepted" /\ proposal'[p].req = r
      /\ \A q \in Proposals \ {p} :
           /\ proposal'[q].req = proposal[q].req
           /\ proposal'[q].status = IF proposal[q].req = r /\ proposal[q].status = "Pending"
                                    THEN "Rejected" ELSE proposal[q].status
  BY <1>1, <1>2 DEF MarkListingFeePaidResume, Decided, TypeOK, Proposal
<1>5. \A q \in Proposals : proposal[q].status = "Accepted" => proposal[q].req # r
  BY <1>2 DEF DecidedInv
<1>6. \A s \in Requests :
        VerdictOf(request[s].status)' = IF s = r THEN "awarded" ELSE VerdictOf(request[s].status)
  BY <1>3 DEF VerdictOf
<1>7. \A s \in Requests : BidsThatAre("Pending", s)' =
        IF s = r THEN {} ELSE BidsThatAre("Pending", s)
  BY <1>2, <1>4 DEF BidsThatAre
<1>8. \A s \in Requests : BidsThatAre("Accepted", s)' =
        IF s = r THEN {p} ELSE BidsThatAre("Accepted", s)
  BY <1>2, <1>4, <1>5 DEF BidsThatAre
<1>9. {q \in Proposals : proposal'[q].status # "none"} =
      {q \in Proposals : proposal[q].status # "none"}
  BY <1>2, <1>4
<1>10. VerdictOf(request[r].status) = "open" /\ p \in BidsThatAre("Pending", r)
  BY <1>2 DEF VerdictOf, BidsThatAre
<1>11. TenderOf!Award(r, p)
  BY <1>6, <1>7, <1>8, <1>9, <1>10 DEF TenderOf!Award
<1> QED BY <1>11 DEF TenderOf!TenderNext

(* Bids leave by a withdrawal, and with an account. *)
LEMMA TenderTakenOut ==
  ASSUME NEW R \in SUBSET Requests, NEW B \in SUBSET Proposals,
         \A r \in R : request[r].status \in {"Open", "Cancelled"} /\ request'[r].status = "gone",
         \A r \in Requests \ R : request'[r].status = request[r].status,
         \A p \in Proposals \ B : /\ proposal'[p] = proposal[p]
                                  /\ ProposalExists(p) => proposal[p].req \notin R,
         \A p \in B : /\ proposal[p].status \notin {"none", "Accepted"}
                      /\ proposal'[p].status \notin {"none", "Pending", "Accepted"}
  PROVE  TenderOf!TenderNext
<1>1. \A r \in R : VerdictOf(request[r].status) \in {"open", "ended"}
  BY DEF VerdictOf
<1>2. \A r \in Requests :
        VerdictOf(request[r].status)' = IF r \in R THEN "gone" ELSE VerdictOf(request[r].status)
  BY DEF VerdictOf
<1>3. \A r \in Requests : BidsThatAre("Pending", r)' =
        IF r \in R THEN {} ELSE BidsThatAre("Pending", r) \ B
  BY DEF BidsThatAre, ProposalExists
<1>4. \A r \in Requests : BidsThatAre("Accepted", r)' =
        IF r \in R THEN {} ELSE BidsThatAre("Accepted", r)
  BY DEF BidsThatAre, ProposalExists
<1>5. {p \in Proposals : proposal'[p].status # "none"} =
      {p \in Proposals : proposal[p].status # "none"}
  OBVIOUS
<1>6. TenderOf!TakeOut(R, B)
  BY <1>1, <1>2, <1>3, <1>4, <1>5 DEF TenderOf!TakeOut
<1> QED BY <1>6 DEF TenderOf!TenderNext

LEMMA TenderErased ==
  ASSUME Inv, DecidedInv, NEW u \in Erasers, DeleteMyDataResume(u)
  PROVE  TenderOf!TenderNext
<1> USE DEF Inv
<1>1. ErasedRequests(u) \in SUBSET Requests /\ ErasedProposals(u) \in SUBSET Proposals
  BY DEF ErasedRequests, ErasedProposals, TypeOK, Erase
<1>2. \A r \in ErasedRequests(u) :
        request[r].status \in {"Open", "Cancelled"} /\ ~request[r].feePaid
  BY <1>1 DEF ErasedRequests, AwardedLocally, RequestExists, TypeOK, Request
<1>3. \A p \in ErasedProposals(u) : proposal[p].status \notin {"none", "Accepted"}
  BY <1>2 DEF ErasedProposals, ProposalExists, DecidedInv
<1>4. /\ \A r \in ErasedRequests(u) : request'[r].status = "gone"
      /\ \A r \in Requests \ ErasedRequests(u) : request'[r].status = request[r].status
      /\ \A p \in ErasedProposals(u) : proposal'[p].status = "gone"
      /\ \A p \in Proposals \ ErasedProposals(u) : proposal'[p] = proposal[p]
  BY <1>1 DEF DeleteMyDataResume, NoRequest, NoProposal
<1>5. \A p \in Proposals \ ErasedProposals(u) :
        ProposalExists(p) => proposal[p].req \notin ErasedRequests(u)
  BY DEF ErasedProposals
<1> QED BY <1>1, <1>2, <1>3, <1>4, <1>5, TenderTakenOut

LEMMA TenderWithdrawn ==
  ASSUME Inv, NEW p \in Proposals, WithdrawProposal(p)
  PROVE  TenderOf!TenderNext
<1>1. /\ \A q \in Proposals \ {p} : proposal'[q] = proposal[q]
      /\ proposal[p].status = "Pending" /\ proposal'[p].status = "Withdrawn"
      /\ UNCHANGED request
  BY DEF WithdrawProposal, Inv, TypeOK, Proposal
<1>2. {p} \in SUBSET Proposals /\ {} \in SUBSET Requests
  OBVIOUS
<1> QED BY <1>1, <1>2, TenderTakenOut

LEMMA TenderStep ==
  ASSUME Inv, DecidedInv, [Next]_vars
  PROVE  TenderOf!TenderNext \/ UNCHANGED TenderOf!tenderVars
<1>1. ASSUME NEW r \in Requests, RequestNext(r)
      PROVE  TenderOf!TenderNext \/ UNCHANGED TenderOf!tenderVars
  <2>1. CASE \E h \in Homeowners : CreateBidRequest(r, h)
    BY <2>1, TenderAnnounced DEF TenderOf!TenderNext
  <2>2. CASE CancelBidRequest(r)
    BY <2>2, TenderEnded DEF TenderOf!TenderNext
  <2>3. CASE BidWindowCloses(r)
    <3>1. UNCHANGED proposal /\ \A s \in Requests : request'[s].status = request[s].status
      BY <2>3 DEF BidWindowCloses, Inv, TypeOK, Request
    <3> QED BY <3>1, TenderUnchanged
  <2>4. CASE MarkFeeInvoiced(r) \/ MarkFeePaid(r) \/ WaiveFee(r)
    BY <2>4, TenderUnchanged DEF MarkFeeInvoiced, MarkFeePaid, WaiveFee
  <2> QED BY <1>1, <2>1, <2>2, <2>3, <2>4 DEF RequestNext
<1>2. CASE UNCHANGED <<request, proposal>>
  BY <1>2, TenderUnchanged
<1> QED BY <1>1, <1>2, StepKinds, TenderMade, TenderAwarded, TenderErased, TenderWithdrawn

LEMMA TenderStart == Init => TenderOf!TenderInit
<1> SUFFICES ASSUME Init PROVE TenderOf!TenderInit
  OBVIOUS
<1>1. /\ \A r \in Requests : VerdictOf(request[r].status) = "none"
      /\ \A r \in Requests : BidsThatAre("Pending", r) = {} /\ BidsThatAre("Accepted", r) = {}
      /\ {p \in Proposals : proposal[p].status # "none"} = {}
  BY DEF Init, NoRequest, NoProposal, VerdictOf, BidsThatAre
<1> QED BY <1>1 DEF TenderOf!TenderInit

(* Every step of the auction, its calls awaiting in any order, is a step of
   Tender or leaves it alone: markListingFeePaid decides in one step what it
   reads again after the fee canister's answer, and deleteMyData takes no
   award. *)
THEOREM ImplementsTender == Spec => KeepsTender
<1>1. Inv /\ DecidedInv /\ [Next]_vars => [TenderOf!TenderNext]_(TenderOf!tenderVars)
  BY TenderStep
<1> QED BY InitInv, NextInv, InitDecided, NextDecided, TenderStart, <1>1, PTL
       DEF Spec, KeepsTender, TenderOf!TenderSpec
=============================================================================
