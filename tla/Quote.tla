-------------------------------- MODULE Quote --------------------------------
(***************************************************************************)
(* The quote canister: a homeowner's quote requests, the contractors'      *)
(* quotes and sealed bids on them, and account deletion.                   *)
(*                                                                         *)
(* Every operation but account deletion asks another canister first        *)
(* (property, payment, contractor, fee).  It is a record in `call`: one    *)
(* action runs the handler up to its await, another the rest of it when    *)
(* the answers are in, reading the state again.  The answers are external: *)
(* any of them may refuse or fail, and then the call ends with an error.   *)
(* Rate limits and the pause only refuse a call, as if it was not made.    *)
(***************************************************************************)
EXTENDS Naturals, FiniteSets

CONSTANTS
  Requests,     \* ids nextReqId may hand out; never reused
  Quotes,       \* ids nextQuoteId may hand out; never reused
  Homeowners,   \* principals that open requests
  Contractors,  \* principals that bid; may overlap Homeowners
  Erasers,      \* principals that may delete their account
  Paying,       \* homeowners whose properties are on a paid plan
  Calls,        \* slots for the calls in flight at one time
  Caps,         \* the maxBids a homeowner may choose; a large one is no cap
  FreeLimit,    \* open requests a Free homeowner may have, three in the code
  None          \* no request, quote or principal

ASSUME CapsAssumption == Caps \subseteq Nat
ASSUME FreeLimitAssumption == FreeLimit \in Nat
ASSUME NoneAssumption == None \notin Requests \cup Quotes \cup Homeowners \cup Contractors

VARIABLES
  request,   \* requests, by id
  quote,     \* quotes, by id
  sealed,    \* for each request the contractors with a sealed bid on it
  revealed,  \* for each request the bidders in its revealedBids snapshot
  call       \* the calls in flight

vars == <<request, quote, sealed, revealed, call>>

Request == [status : {"none", "Open", "Quoted", "Accepted", "Closed", "Cancelled", "gone"},
            owner : Homeowners \cup {None}, hasWindow : BOOLEAN, windowClosed : BOOLEAN,
            cap : Caps \cup {None}]
Quote == [status : {"none", "Pending", "Accepted", "Rejected", "gone"},
          req : Requests \cup {None}, by : Contractors \cup {None}, expired : BOOLEAN]
Call == [op : {"idle", "create", "quote", "bid", "accept", "close", "cancel", "reveal"},
         req : Requests \cup {None}, quote : Quotes \cup {None},
         by : Homeowners \cup Contractors \cup {None}]

NoRequest(s) == [status |-> s, owner |-> None, hasWindow |-> FALSE, windowClosed |-> FALSE,
                 cap |-> None]
NoQuote(s) == [status |-> s, req |-> None, by |-> None, expired |-> FALSE]
Idle == [op |-> "idle", req |-> None, quote |-> None, by |-> None]

(* Statuses stay among those some handler assigns: a quote never becomes
   #Expired, which the type has and validUntil alone decides. *)
TypeOK ==
  /\ request \in [Requests -> Request]
  /\ quote \in [Quotes -> Quote]
  /\ sealed \in [Requests -> SUBSET Contractors]
  /\ revealed \in [Requests -> SUBSET Contractors]
  /\ call \in [Calls -> Call]

Init ==
  /\ request = [r \in Requests |-> NoRequest("none")]
  /\ quote = [q \in Quotes |-> NoQuote("none")]
  /\ sealed = [r \in Requests |-> {}]
  /\ revealed = [r \in Requests |-> {}]
  /\ call = [c \in Calls |-> Idle]

-----------------------------------------------------------------------------
RequestExists(r) == request[r].status \notin {"none", "gone"}
QuoteExists(q) == quote[q].status \notin {"none", "gone"}
QuotesFor(r) == {q \in Quotes : QuoteExists(q) /\ quote[q].req = r}
PendingOn(r) == {q \in QuotesFor(r) : quote[q].status = "Pending"}

TakesBids(r) == request[r].status \in {"Open", "Quoted"}
OpenRequests(h) == {r \in Requests : request[r].status = "Open" /\ request[r].owner = h}

Begin(c, rec) ==
  /\ call[c] = Idle
  /\ call' = [call EXCEPT ![c] = rec]
  /\ UNCHANGED <<request, quote, sealed, revealed>>
End(c) == call' = [call EXCEPT ![c] = Idle]
Resumes(c, op) == call[c].op = op

-----------------------------------------------------------------------------
(* Homeowner: createQuoteRequest, and createSealedBidRequest, which sets a
   bid window.  Ownership and plan are asked for; the open requests are
   counted after the answers. *)
CreateQuoteRequest(c, h) ==
  Begin(c, [op |-> "create", req |-> None, quote |-> None, by |-> h])

(* mutant of CanCreate: the open requests are not counted again *)
CanCreateUncounted(h, hasWindow) == h \in Paying \/ ~hasWindow

(* Free: at most FreeLimit requests with status #Open, and no sealed bids. *)
CanCreate(h, hasWindow) ==
  h \in Paying \/ (~hasWindow /\ Cardinality(OpenRequests(h)) < FreeLimit)

CreateQuoteRequestResume(c) ==
  /\ Resumes(c, "create")
  /\ \E r \in Requests, hasWindow \in BOOLEAN, cap \in Caps :
       /\ request[r].status = "none"
       /\ CanCreate(call[c].by, hasWindow)
       /\ request' = [request EXCEPT ![r] =
            [status |-> "Open", owner |-> call[c].by, hasWindow |-> hasWindow,
             windowClosed |-> FALSE, cap |-> cap]]
  /\ End(c)
  /\ UNCHANGED <<quote, sealed, revealed>>

(* Time passes closeAt. *)
WindowCloses(r) ==
  /\ RequestExists(r) /\ request[r].hasWindow /\ ~request[r].windowClosed
  /\ request' = [request EXCEPT ![r].windowClosed = TRUE]
  /\ UNCHANGED <<quote, sealed, revealed, call>>

-----------------------------------------------------------------------------
(* Contractor: a quote.  canBidOn refuses the homeowner's own bid. *)
SubmitQuote(c, r, k) ==
  /\ RequestExists(r) /\ request[r].owner # k
  /\ Begin(c, [op |-> "quote", req |-> r, quote |-> None, by |-> k])

(* mutant of CanQuote: one pending quote per contractor is not checked again *)
CanQuoteTwice(r, k) ==
  /\ TakesBids(r)
  /\ Cardinality(PendingOn(r)) < request[r].cap

CanQuote(r, k) ==
  /\ TakesBids(r)
  /\ \A q \in PendingOn(r) : quote[q].by # k
  /\ Cardinality(PendingOn(r)) < request[r].cap

SubmitQuoteResume(c) ==
  LET r == call[c].req IN
  /\ Resumes(c, "quote")
  /\ CanQuote(r, call[c].by)
  /\ \E q \in Quotes :
       /\ quote[q].status = "none"
       /\ quote' = [quote EXCEPT ![q] =
            [status |-> "Pending", req |-> r, by |-> call[c].by, expired |-> FALSE]]
  /\ request' = [request EXCEPT ![r].status = "Quoted"]
  /\ End(c)
  /\ UNCHANGED <<sealed, revealed>>

(* Time passes validUntil. *)
QuoteExpires(q) ==
  /\ quote[q].status = "Pending" /\ ~quote[q].expired
  /\ quote' = [quote EXCEPT ![q].expired = TRUE]
  /\ UNCHANGED <<request, sealed, revealed, call>>

(* Contractor: a sealed bid, on any request; only a request with a window
   can refuse it for being late. *)
SubmitSealedBid(c, r, k) ==
  /\ RequestExists(r) /\ request[r].owner # k
  /\ Begin(c, [op |-> "bid", req |-> r, quote |-> None, by |-> k])

(* mutant of CanBid: the window is only checked before the await *)
CanBidLate(r, k) ==
  /\ TakesBids(r)
  /\ k \notin sealed[r]
  /\ Cardinality(sealed[r]) < request[r].cap

CanBid(r, k) ==
  /\ TakesBids(r) /\ ~request[r].windowClosed
  /\ k \notin sealed[r]
  /\ Cardinality(sealed[r]) < request[r].cap

SubmitSealedBidResume(c) ==
  LET r == call[c].req IN
  /\ Resumes(c, "bid")
  /\ CanBid(r, call[c].by)
  /\ sealed' = [sealed EXCEPT ![r] = @ \cup {call[c].by}]
  /\ End(c)
  /\ UNCHANGED <<request, quote, revealed>>

-----------------------------------------------------------------------------
(* The owner or a manager of the property: accept, close, cancel, reveal. *)
AcceptQuote(c, q) ==
  /\ QuoteExists(q)
  /\ Begin(c, [op |-> "accept", req |-> quote[q].req, quote |-> q, by |-> None])

(* mutant of CanAccept: the request is not read again *)
CanAcceptStale(r, q) == quote[q].status = "Pending" /\ ~quote[q].expired

CanAccept(r, q) ==
  /\ RequestExists(r) /\ request[r].status \notin {"Accepted", "Closed", "Cancelled"}
  /\ quote[q].status = "Pending" /\ ~quote[q].expired

(* mutant of Decided: the other quotes stay pending *)
DecidedAlone(r, q) == [quote EXCEPT ![q].status = "Accepted"]

(* The quote is accepted, the other pending ones are rejected. *)
Decided(r, q) ==
  [p \in Quotes |->
     IF p = q THEN [quote[p] EXCEPT !.status = "Accepted"]
     ELSE IF p \in PendingOn(r) THEN [quote[p] EXCEPT !.status = "Rejected"]
     ELSE quote[p]]

AcceptQuoteResume(c) ==
  LET r == call[c].req
      q == call[c].quote IN
  /\ Resumes(c, "accept")
  /\ CanAccept(r, q)
  /\ quote' = Decided(r, q)
  /\ request' = [request EXCEPT ![r].status = "Accepted"]
  /\ End(c)
  /\ UNCHANGED <<sealed, revealed>>

CloseQuoteRequest(c, r) ==
  /\ RequestExists(r)
  /\ Begin(c, [op |-> "close", req |-> r, quote |-> None, by |-> None])

CloseQuoteRequestResume(c) ==
  /\ Resumes(c, "close")
  /\ TakesBids(call[c].req)
  /\ request' = [request EXCEPT ![call[c].req].status = "Closed"]
  /\ End(c)
  /\ UNCHANGED <<quote, sealed, revealed>>

CancelQuoteRequest(c, r) ==
  /\ RequestExists(r)
  /\ Begin(c, [op |-> "cancel", req |-> r, quote |-> None, by |-> None])

(* mutant: the status is only checked before the await *)
CancelQuoteRequestResumeStale(c) ==
  /\ Resumes(c, "cancel")
  /\ RequestExists(call[c].req)
  /\ request' = [request EXCEPT ![call[c].req].status = "Cancelled"]
  /\ End(c)
  /\ UNCHANGED <<quote, sealed, revealed>>

CancelQuoteRequestResume(c) ==
  /\ Resumes(c, "cancel")
  /\ TakesBids(call[c].req)
  /\ request' = [request EXCEPT ![call[c].req].status = "Cancelled"]
  /\ End(c)
  /\ UNCHANGED <<quote, sealed, revealed>>

(* revealBids caches a snapshot of the bids once the window has closed.
   (revealBidsEncrypted checks the same and stores nothing.) *)
RevealBids(c, r) ==
  /\ RequestExists(r)
  /\ Begin(c, [op |-> "reveal", req |-> r, quote |-> None, by |-> None])

CanReveal(r) == request[r].windowClosed /\ sealed[r] # {} /\ revealed[r] = {}

(* The handler holds on to the request it read before the await. *)
RevealBidsResume(c) ==
  LET r == call[c].req IN
  /\ Resumes(c, "reveal")
  /\ CanReveal(r)
  /\ revealed' = [revealed EXCEPT ![r] = sealed[r]]
  /\ End(c)
  /\ UNCHANGED <<request, quote, sealed>>

(* The call ends with an error and no change: a canister it asks refuses,
   fails or cannot be reached, or a check after the await does not hold. *)
ReturnError(c) ==
  /\ call[c] # Idle
  /\ End(c)
  /\ UNCHANGED <<request, quote, sealed, revealed>>

-----------------------------------------------------------------------------
(* Account deletion awaits nothing.  The caller's own requests go with all
   that is on them; the caller's bids go while the request takes bids. *)
OwnRequests(u) == {r \in Requests : RequestExists(r) /\ request[r].owner = u}

(* mutant of ErasedQuotes: the bids on the caller's requests stay *)
ErasedQuotesOfBidder(u) ==
  {q \in Quotes : QuoteExists(q) /\ quote[q].by = u /\ quote[q].status = "Pending"
                   /\ TakesBids(quote[q].req)}

ErasedQuotes(u) ==
  {q \in Quotes :
     /\ QuoteExists(q)
     /\ \/ quote[q].req \in OwnRequests(u)
        \/ quote[q].by = u /\ quote[q].status = "Pending" /\ TakesBids(quote[q].req)}

(* A sealed bid stays once the request was decided, revealed or its window
   closed. *)
KeepsSealedBid(r) == ~TakesBids(r) \/ revealed[r] # {} \/ request[r].windowClosed

(* mutant of Reopened: a request left without quotes stays #Quoted *)
ReopenedNever(u, r) == FALSE

(* A quoted request whose last quote is deleted is open again. *)
Reopened(u, r) ==
  /\ request[r].status = "Quoted"
  /\ \E q \in ErasedQuotes(u) : quote[q].req = r
  /\ QuotesFor(r) \subseteq ErasedQuotes(u)

DeleteMyData(u) ==
  /\ request' = [r \in Requests |->
       IF r \in OwnRequests(u) THEN NoRequest("gone")
       ELSE IF Reopened(u, r) THEN [request[r] EXCEPT !.status = "Open"]
       ELSE request[r]]
  /\ quote' = [q \in Quotes |-> IF q \in ErasedQuotes(u) THEN NoQuote("gone") ELSE quote[q]]
  /\ sealed' = [r \in Requests |->
       IF r \in OwnRequests(u) THEN {}
       ELSE IF KeepsSealedBid(r) THEN sealed[r] ELSE sealed[r] \ {u}]
  /\ revealed' = [r \in Requests |-> IF r \in OwnRequests(u) THEN {} ELSE revealed[r]]
  /\ UNCHANGED call

-----------------------------------------------------------------------------
CallNext(c) ==
  \/ \E h \in Homeowners : CreateQuoteRequest(c, h)
  \/ \E r \in Requests, k \in Contractors : SubmitQuote(c, r, k) \/ SubmitSealedBid(c, r, k)
  \/ \E q \in Quotes : AcceptQuote(c, q)
  \/ \E r \in Requests :
       CloseQuoteRequest(c, r) \/ CancelQuoteRequest(c, r) \/ RevealBids(c, r)
  \/ CreateQuoteRequestResume(c) \/ SubmitQuoteResume(c) \/ SubmitSealedBidResume(c)
  \/ AcceptQuoteResume(c) \/ CloseQuoteRequestResume(c) \/ CancelQuoteRequestResume(c)
  \/ RevealBidsResume(c) \/ ReturnError(c)

Next ==
  \/ \E c \in Calls : CallNext(c)
  \/ \E r \in Requests : WindowCloses(r)
  \/ \E q \in Quotes : QuoteExpires(q)
  \/ \E u \in Erasers : DeleteMyData(u)

Spec == Init /\ [][Next]_vars

-----------------------------------------------------------------------------
(* Two acceptances, a close and a cancel in flight at once: a request is
   accepted exactly when one of its quotes is, that quote is the only one, and
   none is left pending (acceptQuote's re-read after its await). *)
AcceptedIffOneQuote ==
  \A r \in Requests :
    LET accepted == {q \in QuotesFor(r) : quote[q].status = "Accepted"} IN
    /\ request[r].status = "Accepted" =>
         /\ \E q \in accepted : accepted = {q}
         /\ PendingOn(r) = {}
    /\ request[r].status # "Accepted" => accepted = {}

(* A request says #Quoted exactly while a quote waits on it; the status and
   the quotes are changed by different handlers and by account deletion. *)
QuotedIffPending ==
  \A r \in Requests :
    TakesBids(r) => (request[r].status = "Quoted" <=> PendingOn(r) # {})

(* However many submissions are in flight, a contractor has one pending quote
   on a request and maxBids bounds the quotes and the sealed bids. *)
BidCaps ==
  \A r \in Requests :
    /\ \A p, q \in PendingOn(r) : quote[p].by = quote[q].by => p = q
    /\ TakesBids(r) => Cardinality(PendingOn(r)) <= request[r].cap
    /\ RequestExists(r) => Cardinality(sealed[r]) <= request[r].cap

(* A homeowner's account deletion takes the requests with everything on them,
   and no bid or reveal that was under way puts anything back. *)
NothingOutlivesItsRequest ==
  /\ \A q \in Quotes : QuoteExists(q) => RequestExists(quote[q].req)
  /\ \A r \in Requests : ~RequestExists(r) => sealed[r] = {} /\ revealed[r] = {}

(* A homeowner on the Free plan has at most FreeLimit requests with status
   #Open.  The code keeps this only while no bidder deletes an account. *)
FreeOpenLimit ==
  \A h \in Homeowners \ Paying : Cardinality(OpenRequests(h)) <= FreeLimit

(* Whatever creations are in flight, none of them takes a homeowner on the
   Free plan past the limit, also after a deletion has reopened requests. *)
CreationsWithinLimit ==
  [][\A h \in Homeowners \ Paying, r \in Requests :
       request[r].status = "none" /\ request'[r].status = "Open" /\ request'[r].owner = h =>
         Cardinality(OpenRequests(h)') <= FreeLimit]_vars

(* Close against cancel against accept: a decided request and a decided quote
   keep their outcome; only the homeowner's own deletion removes them. *)
OutcomesAreFinal ==
  [][/\ \A r \in Requests :
          request[r].status \in {"Accepted", "Closed", "Cancelled"} =>
            request'[r].status \in {request[r].status, "gone"}
     /\ \A q \in Quotes :
          quote[q].status \in {"Accepted", "Rejected"} =>
            \/ quote'[q] = quote[q]
            \/ quote'[q].status = "gone" /\ request'[quote[q].req].status = "gone"]_vars

(* Nothing joins or leaves the sealed bids of a request once its window has
   closed - a bid whose checks were under way at the deadline, or a bidder who
   deletes the account - and the snapshot shown to the homeowner is all of
   them. *)
SealedBidsFreeze ==
  [][\A r \in Requests :
       /\ request[r].windowClosed /\ request'[r].status # "gone" => sealed'[r] = sealed[r]
       /\ revealed'[r] # {} => revealed'[r] = sealed'[r]]_vars

(* The requests keep what Tender promises: an acceptance, a close or a cancel
   that acts on a request decided meanwhile, and a quote that comes in after
   the decision, are no steps of Tender.  Only the homeowner's own account
   deletion takes an accepted quote, together with its request. *)
QuotesThatAre(status, r) == {q \in Quotes : quote[q].status = status /\ quote[q].req = r}

VerdictOf(status) ==
  CASE status \in {"Open", "Quoted"} -> "open"
    [] status \in {"Closed", "Cancelled"} -> "ended"
    [] status = "Accepted" -> "awarded"
    [] OTHER -> status

TenderOf == INSTANCE Tender WITH
  Bids <- Quotes,
  MayErase <- {"open", "ended", "awarded"},
  verdict <- [r \in Requests |-> VerdictOf(request[r].status)],
  waiting <- [r \in Requests |-> QuotesThatAre("Pending", r)],
  winners <- [r \in Requests |-> QuotesThatAre("Accepted", r)],
  made <- {q \in Quotes : quote[q].status # "none"}

KeepsTender == TenderOf!TenderSpec
=============================================================================
