----------------------------- MODULE QuoteProofs -----------------------------
(***************************************************************************)
(* Theorems about Quote, for every number of requests, quotes, principals  *)
(* and calls in flight.                                                    *)
(***************************************************************************)
EXTENDS Quote, FiniteSetTheorems, TLAPS

(* A call that is past its await names what its operation needs; the quote of
   an acceptance stays on the request the call names, or is gone. *)
CallsAreFilled ==
  \A c \in Calls :
    /\ call[c].op = "create" => call[c].by \in Homeowners
    /\ call[c].op \in {"quote", "bid"} => call[c].req \in Requests /\ call[c].by \in Contractors
    /\ call[c].op \in {"close", "cancel", "reveal"} => call[c].req \in Requests
    /\ call[c].op = "accept" =>
         /\ call[c].req \in Requests /\ call[c].quote \in Quotes
         /\ quote[call[c].quote].status # "none"
         /\ QuoteExists(call[c].quote) => quote[call[c].quote].req = call[c].req

(* What exists names what it belongs to, and that exists too. *)
Filed ==
  /\ \A r \in Requests : RequestExists(r) => request[r].owner \in Homeowners /\ request[r].cap \in Caps
  /\ \A r \in Requests : ~RequestExists(r) => sealed[r] = {} /\ revealed[r] = {}
  /\ \A q \in Quotes : QuoteExists(q) =>
       quote[q].req \in Requests /\ quote[q].by \in Contractors /\ RequestExists(quote[q].req)

(* The status of a request against the quotes on it, quote by quote. *)
Verdicts ==
  /\ \A q \in Quotes : QuoteExists(q) =>
       (quote[q].status = "Pending" <=> request[quote[q].req].status # "Accepted")
  /\ \A q \in Quotes : QuoteExists(q) => request[quote[q].req].status # "Open"
  /\ \A p, q \in Quotes : quote[p].status = "Accepted" /\ quote[q].status = "Accepted"
       /\ quote[p].req = quote[q].req => p = q
  /\ \A r \in Requests : request[r].status = "Accepted" =>
       \E q \in Quotes : quote[q].status = "Accepted" /\ quote[q].req = r
  /\ \A r \in Requests : request[r].status = "Quoted" =>
       \E q \in Quotes : QuoteExists(q) /\ quote[q].req = r

(* No contractor has two pending quotes on a request. *)
OnePending ==
  \A p, q \in Quotes :
    quote[p].status = "Pending" /\ quote[q].status = "Pending"
    /\ quote[p].req = quote[q].req /\ quote[p].by = quote[q].by => p = q

(* A set within the cap of a request; a set nobody has counted may be infinite. *)
Within(S, n) == IsFiniteSet(S) /\ Cardinality(S) <= n

Capped ==
  \A r \in Requests : RequestExists(r) =>
    Within(PendingOn(r), request[r].cap) /\ Within(sealed[r], request[r].cap)

(* A snapshot is taken once the window has closed, and stays true. *)
Snapshots ==
  \A r \in Requests : revealed[r] # {} => request[r].windowClosed /\ revealed[r] = sealed[r]

Inv == TypeOK /\ CallsAreFilled /\ Filed /\ Verdicts /\ OnePending /\ Capped /\ Snapshots

-----------------------------------------------------------------------------
(* A set below the cap may gain an element. *)
LEMMA OneMore ==
  ASSUME NEW S, NEW T, NEW x, NEW n \in Nat, IsFiniteSet(S), Cardinality(S) < n,
         T \subseteq S \cup {x}
  PROVE  Within(T, n)
<1>1. IsFiniteSet(S \cup {x}) /\ Cardinality(S \cup {x}) \in Nat
      /\ Cardinality(S \cup {x}) <= Cardinality(S) + 1
  BY FS_AddElement, FS_CardinalityType, SMT
<1>2. IsFiniteSet(T) /\ Cardinality(T) <= Cardinality(S \cup {x})
  BY <1>1, FS_Subset
<1>3. Cardinality(T) \in Nat /\ Cardinality(S) \in Nat
  BY <1>2, FS_CardinalityType
<1> QED BY <1>1, <1>2, <1>3 DEF Within

(* A set within the cap may lose elements. *)
LEMMA Fewer ==
  ASSUME NEW S, NEW T, NEW n \in Nat, Within(S, n), T \subseteq S
  PROVE  Within(T, n)
<1>1. IsFiniteSet(T) /\ Cardinality(T) <= Cardinality(S)
  BY FS_Subset DEF Within
<1>2. Cardinality(T) \in Nat /\ Cardinality(S) \in Nat
  BY <1>1, FS_CardinalityType DEF Within
<1> QED BY <1>1, <1>2 DEF Within

(* A step that does not add a pending quote or a sealed bid to a request, and
   keeps the caps, keeps them respected. *)
LEMMA NothingMore ==
  ASSUME TypeOK, Filed, Capped,
         \A r \in Requests : RequestExists(r)' =>
           \/ /\ RequestExists(r) /\ request'[r].cap = request[r].cap
              /\ PendingOn(r)' \subseteq PendingOn(r) /\ sealed'[r] \subseteq sealed[r]
           \/ request'[r].cap \in Caps /\ PendingOn(r)' = {} /\ sealed'[r] = {}
  PROVE  Capped'
<1> SUFFICES ASSUME NEW r \in Requests, RequestExists(r)'
             PROVE  Within(PendingOn(r)', request'[r].cap) /\ Within(sealed'[r], request'[r].cap)
  BY DEF Capped, Within
<1>1. CASE RequestExists(r) /\ request'[r].cap = request[r].cap
           /\ PendingOn(r)' \subseteq PendingOn(r) /\ sealed'[r] \subseteq sealed[r]
  <2>1. request[r].cap \in Nat
    BY <1>1, CapsAssumption DEF Filed
  <2>2. Within(PendingOn(r), request[r].cap) /\ Within(sealed[r], request[r].cap)
    BY <1>1 DEF Capped
  <2> QED BY <1>1, <2>1, <2>2, Fewer
<1>2. CASE request'[r].cap \in Caps /\ PendingOn(r)' = {} /\ sealed'[r] = {}
  <2>1. request'[r].cap \in Nat
    BY <1>2, CapsAssumption
  <2> QED BY <1>2, <2>1, FS_EmptySet DEF Within
<1> QED BY <1>1, <1>2

LEMMA InitInv == Init => Inv
<1> SUFFICES ASSUME Init PROVE Inv
  OBVIOUS
<1> USE DEF Init, NoRequest, NoQuote, Idle, RequestExists, QuoteExists
<1>1. TypeOK
  BY DEF TypeOK, Request, Quote, Call
<1>2. CallsAreFilled /\ Filed
  BY DEF CallsAreFilled, Filed
<1>3. Verdicts
  BY DEF Verdicts
<1>4. OnePending /\ Capped /\ Snapshots
  BY DEF OnePending, Capped, Snapshots
<1> QED BY <1>1, <1>2, <1>3, <1>4 DEF Inv

(* A step that only begins or ends calls keeps what is said of the rest. *)
LEMMA CallsOnly ==
  ASSUME Inv, UNCHANGED <<request, quote, sealed, revealed>>
  PROVE  Filed' /\ Verdicts' /\ OnePending' /\ Capped' /\ Snapshots'
<1>1. Filed' /\ Verdicts' /\ OnePending' /\ Snapshots'
  BY DEF Inv, Filed, Verdicts, OnePending, Snapshots, RequestExists, QuoteExists
<1>2. ASSUME NEW r \in Requests PROVE PendingOn(r)' = PendingOn(r) /\ (RequestExists(r)' <=> RequestExists(r))
  BY DEF PendingOn, QuotesFor, QuoteExists, RequestExists
<1>3. Capped'
  BY <1>2 DEF Inv, Capped
<1> QED BY <1>1, <1>3

LEMMA CallStart ==
  ASSUME Inv, NEW c \in Calls,
         \/ \E h \in Homeowners : CreateQuoteRequest(c, h)
         \/ \E r \in Requests, k \in Contractors : SubmitQuote(c, r, k) \/ SubmitSealedBid(c, r, k)
         \/ \E q \in Quotes : AcceptQuote(c, q)
         \/ \E r \in Requests :
              CloseQuoteRequest(c, r) \/ CancelQuoteRequest(c, r) \/ RevealBids(c, r)
         \/ ReturnError(c)
  PROVE  Inv'
<1> USE DEF Inv, CreateQuoteRequest, SubmitQuote, SubmitSealedBid, AcceptQuote, CloseQuoteRequest,
            CancelQuoteRequest, RevealBids, ReturnError, Begin, End, Idle
<1>1. UNCHANGED <<request, quote, sealed, revealed>>
  OBVIOUS
<1>2. Filed' /\ Verdicts' /\ OnePending' /\ Capped' /\ Snapshots'
  BY <1>1, CallsOnly
<1>3. TypeOK'
  BY DEF TypeOK, Call, Filed
<1>4. CallsAreFilled'
  BY DEF TypeOK, CallsAreFilled, Filed, QuoteExists
<1> QED BY <1>2, <1>3, <1>4

(* The end of a call, and no change to what its siblings name. *)
LEMMA CallEnd ==
  ASSUME Inv, NEW c \in Calls, End(c),
         \A q \in Quotes : /\ quote[q].status # "none" => quote'[q].status # "none"
                           /\ QuoteExists(q)' /\ quote[q].status # "none" =>
                                QuoteExists(q) /\ quote'[q].req = quote[q].req
  PROVE  CallsAreFilled' /\ call' \in [Calls -> Call]
  BY DEF Inv, CallsAreFilled, TypeOK, Call, End, Idle

LEMMA CreateInv ==
  ASSUME Inv, NEW c \in Calls, CreateQuoteRequestResume(c)
  PROVE  Inv'
<1> USE DEF Inv
<1> PICK r \in Requests, w \in BOOLEAN, cap \in Caps :
      /\ request[r].status = "none"
      /\ request' = [request EXCEPT ![r] =
            [status |-> "Open", owner |-> call[c].by, hasWindow |-> w,
             windowClosed |-> FALSE, cap |-> cap]]
  BY DEF CreateQuoteRequestResume
<1>1. call[c].by \in Homeowners
  BY DEF CreateQuoteRequestResume, Resumes, CallsAreFilled
<1>2. UNCHANGED <<quote, sealed, revealed>> /\ End(c)
  BY DEF CreateQuoteRequestResume
<1>3. ASSUME NEW q \in Quotes, QuoteExists(q)
      PROVE  quote[q].req \in Requests /\ quote[q].req # r
  BY <1>3 DEF Filed, RequestExists
<1>4. CallsAreFilled' /\ call' \in [Calls -> Call]
  BY <1>2, CallEnd DEF QuoteExists
<1>5. TypeOK'
  BY <1>1, <1>2, <1>4 DEF TypeOK, Request
<1>6. Filed'
  BY <1>1, <1>2, <1>3 DEF Filed, RequestExists, QuoteExists, TypeOK
<1>7. Verdicts'
  BY <1>2, <1>3 DEF Verdicts, QuoteExists, TypeOK
<1>8. OnePending'
  BY <1>2 DEF OnePending
<1>9. Snapshots'
  BY <1>2 DEF Snapshots, Filed, RequestExists, TypeOK
<1>10. Capped'
  <2>1. ASSUME NEW s \in Requests PROVE PendingOn(s)' = PendingOn(s)
    BY <1>2 DEF PendingOn, QuotesFor, QuoteExists
  <2>2. PendingOn(r) = {} /\ sealed[r] = {}
    BY <1>3 DEF PendingOn, QuotesFor, Filed, RequestExists
  <2>3. ASSUME NEW s \in Requests, s # r
        PROVE request'[s] = request[s]
    BY <2>3 DEF TypeOK
  <2>4. request'[r].cap \in Caps
    BY DEF TypeOK
  <2> QED BY <1>2, <2>1, <2>2, <2>3, <2>4, NothingMore DEF RequestExists
<1> QED BY <1>4, <1>5, <1>6, <1>7, <1>8, <1>9, <1>10

LEMMA TimeInv ==
  ASSUME Inv, (\E r \in Requests : WindowCloses(r)) \/ (\E q \in Quotes : QuoteExpires(q))
  PROVE  Inv'
<1> USE DEF Inv
<1>1. CASE \E r \in Requests : WindowCloses(r)
  <2> PICK r \in Requests : WindowCloses(r)
    BY <1>1
  <2>1. ASSUME NEW s \in Requests
        PROVE /\ request'[s].status = request[s].status /\ request'[s].owner = request[s].owner
              /\ request'[s].cap = request[s].cap
              /\ request[s].windowClosed => request'[s].windowClosed
    BY DEF WindowCloses, TypeOK
  <2>2. UNCHANGED <<quote, sealed, revealed, call>>
    BY DEF WindowCloses
  <2>3. TypeOK'
    BY ZenonT(60) DEF WindowCloses, TypeOK, Request
  <2>4. CallsAreFilled' /\ OnePending' /\ Snapshots'
    BY <2>1, <2>2 DEF CallsAreFilled, OnePending, Snapshots, QuoteExists
  <2>5. Filed'
    BY <2>1, <2>2 DEF Filed, RequestExists, QuoteExists
  <2>6. Verdicts'
    BY <2>1, <2>2 DEF Verdicts, Filed, QuoteExists
  <2>7. Capped'
    <3>1. ASSUME NEW s \in Requests PROVE PendingOn(s)' = PendingOn(s)
      BY <2>2 DEF PendingOn, QuotesFor, QuoteExists
    <3> QED BY <2>1, <2>2, <3>1, NothingMore DEF RequestExists
  <2> QED BY <2>3, <2>4, <2>5, <2>6, <2>7
<1>2. CASE \E q \in Quotes : QuoteExpires(q)
  <2> PICK q \in Quotes : QuoteExpires(q)
    BY <1>2
  <2>1. ASSUME NEW s \in Quotes
        PROVE quote'[s].status = quote[s].status /\ quote'[s].req = quote[s].req
              /\ quote'[s].by = quote[s].by
    BY DEF QuoteExpires, TypeOK
  <2>2. UNCHANGED <<request, sealed, revealed, call>>
    BY DEF QuoteExpires
  <2>3. TypeOK'
    BY ZenonT(60) DEF QuoteExpires, TypeOK, Quote
  <2>4. CallsAreFilled'
    BY <2>1, <2>2 DEF CallsAreFilled, QuoteExists
  <2>5. Filed' /\ Snapshots' /\ OnePending'
    BY <2>1, <2>2 DEF Filed, Snapshots, OnePending, RequestExists, QuoteExists
  <2>6. Verdicts'
    BY <2>1, <2>2 DEF Verdicts, QuoteExists
  <2>7. Capped'
    <3>1. ASSUME NEW s \in Requests PROVE PendingOn(s)' = PendingOn(s)
      BY <2>1, <2>2 DEF PendingOn, QuotesFor, QuoteExists
    <3> QED BY <2>2, <3>1, NothingMore DEF RequestExists
  <2> QED BY <2>3, <2>4, <2>5, <2>6, <2>7
<1> QED BY <1>1, <1>2

LEMMA QuoteInv ==
  ASSUME Inv, NEW c \in Calls, SubmitQuoteResume(c)
  PROVE  Inv'
<1> USE DEF Inv
<1> PICK r \in Requests : r = call[c].req
  BY DEF SubmitQuoteResume, Resumes, CallsAreFilled
<1> PICK k \in Contractors : k = call[c].by
  BY DEF SubmitQuoteResume, Resumes, CallsAreFilled
<1> PICK q \in Quotes :
      /\ quote[q].status = "none"
      /\ quote' = [quote EXCEPT ![q] =
            [status |-> "Pending", req |-> r, by |-> k, expired |-> FALSE]]
  BY DEF SubmitQuoteResume
<1>1. /\ request' = [request EXCEPT ![r].status = "Quoted"]
      /\ UNCHANGED <<sealed, revealed>> /\ End(c) /\ CanQuote(r, k)
  BY DEF SubmitQuoteResume
<1>2. ASSUME NEW s \in Requests
      PROVE  /\ request'[s].owner = request[s].owner /\ request'[s].cap = request[s].cap
             /\ request'[s].windowClosed = request[s].windowClosed
             /\ s # r => request'[s] = request[s]
             /\ RequestExists(s)' <=> RequestExists(s)
  BY <1>1 DEF TypeOK, RequestExists, CanQuote, TakesBids
<1>3. request'[r].status = "Quoted" /\ request[r].status \in {"Open", "Quoted"} /\ RequestExists(r)
  BY <1>1 DEF TypeOK, CanQuote, TakesBids, RequestExists
<1>4. /\ quote'[q] = [status |-> "Pending", req |-> r, by |-> k, expired |-> FALSE]
      /\ \A p \in Quotes : p # q => quote'[p] = quote[p]
  BY DEF TypeOK
<1>5. CallsAreFilled' /\ call' \in [Calls -> Call]
  BY <1>1, <1>4, CallEnd DEF QuoteExists
<1>6. TypeOK'
  <2>1. request' \in [Requests -> Request]
    BY <1>1, SMTT(30) DEF TypeOK, Request
  <2>2. quote' \in [Quotes -> Quote]
    BY DEF TypeOK, Quote
  <2> QED BY <1>1, <1>5, <2>1, <2>2 DEF TypeOK
<1>7. Filed'
  BY <1>1, <1>2, <1>3, <1>4 DEF Filed, QuoteExists
<1>8. Verdicts'
  <2>1. \A p \in Quotes : QuoteExists(p)' =>
          /\ quote'[p].status = "Pending" <=> request'[quote'[p].req].status # "Accepted"
          /\ request'[quote'[p].req].status # "Open"
    BY <1>2, <1>3, <1>4 DEF Verdicts, QuoteExists, Filed
  <2>2. \A p \in Quotes : quote'[p].status = "Accepted" => p # q /\ quote[p] = quote'[p]
    BY <1>4
  <2>3. \A s \in Requests : request'[s].status = "Accepted" =>
          \E p \in Quotes : quote'[p].status = "Accepted" /\ quote'[p].req = s
    BY <1>2, <1>3, <1>4 DEF Verdicts
  <2>4. \A s \in Requests : request'[s].status = "Quoted" =>
          \E p \in Quotes : QuoteExists(p)' /\ quote'[p].req = s
    BY <1>2, <1>4 DEF Verdicts, QuoteExists
  <2> QED BY <2>1, <2>2, <2>3, <2>4 DEF Verdicts
<1>9. OnePending'
  <2>1. \A p \in Quotes : quote[p].status = "Pending" /\ quote[p].req = r => quote[p].by # k
    BY <1>1 DEF CanQuote, PendingOn, QuotesFor, QuoteExists
  <2> QED BY <1>4, <2>1 DEF OnePending
<1>10. Snapshots'
  BY <1>1, <1>2 DEF Snapshots
<1>11. Capped'
  <2>1. ASSUME NEW s \in Requests, s # r PROVE PendingOn(s)' = PendingOn(s)
    BY <1>4, <2>1 DEF PendingOn, QuotesFor, QuoteExists
  <2>2. PendingOn(r)' \subseteq PendingOn(r) \cup {q}
    BY <1>4 DEF PendingOn, QuotesFor, QuoteExists
  <2>3. request[r].cap \in Nat
    BY <1>3, CapsAssumption DEF Filed
  <2>4. IsFiniteSet(PendingOn(r)) /\ Cardinality(PendingOn(r)) < request[r].cap
    BY <1>1, <1>3 DEF Capped, Within, CanQuote
  <2>5. Within(PendingOn(r)', request[r].cap)
    BY <2>2, <2>3, <2>4, OneMore
  <2> QED BY <1>1, <1>2, <2>1, <2>5 DEF Capped
<1> QED BY <1>5, <1>6, <1>7, <1>8, <1>9, <1>10, <1>11

LEMMA BidInv ==
  ASSUME Inv, NEW c \in Calls, SubmitSealedBidResume(c)
  PROVE  Inv'
<1> USE DEF Inv
<1> PICK r \in Requests : r = call[c].req
  BY DEF SubmitSealedBidResume, Resumes, CallsAreFilled
<1> PICK k \in Contractors : k = call[c].by
  BY DEF SubmitSealedBidResume, Resumes, CallsAreFilled
<1>1. /\ sealed' = [sealed EXCEPT ![r] = @ \cup {k}] /\ UNCHANGED <<request, quote, revealed>>
      /\ End(c) /\ CanBid(r, k)
  BY DEF SubmitSealedBidResume
<1>2. RequestExists(r)
  BY <1>1 DEF CanBid, TakesBids, RequestExists
<1>3. CallsAreFilled' /\ call' \in [Calls -> Call]
  BY <1>1, CallEnd DEF QuoteExists
<1>4. TypeOK'
  BY <1>1, <1>3 DEF TypeOK
<1>5. Filed' /\ Verdicts' /\ OnePending'
  BY <1>1, <1>2 DEF Filed, Verdicts, OnePending, RequestExists, QuoteExists, TypeOK
<1>6. Snapshots'
  BY <1>1 DEF Snapshots, CanBid, TypeOK
<1>7. Capped'
  <2>1. ASSUME NEW s \in Requests
        PROVE PendingOn(s)' = PendingOn(s) /\ (RequestExists(s)' <=> RequestExists(s))
    BY <1>1 DEF PendingOn, QuotesFor, QuoteExists, RequestExists
  <2>2. request[r].cap \in Nat
    BY <1>2, CapsAssumption DEF Filed
  <2>3. IsFiniteSet(sealed[r]) /\ Cardinality(sealed[r]) < request[r].cap
    BY <1>1, <1>2 DEF Capped, Within, CanBid
  <2>4. sealed'[r] \subseteq sealed[r] \cup {k}
    BY <1>1 DEF TypeOK
  <2>5. Within(sealed'[r], request[r].cap)
    BY <2>2, <2>3, <2>4, OneMore
  <2>6. ASSUME NEW s \in Requests, s # r PROVE sealed'[s] = sealed[s]
    BY <1>1, <2>6 DEF TypeOK
  <2> QED BY <1>1, <2>1, <2>5, <2>6 DEF Capped
<1> QED BY <1>3, <1>4, <1>5, <1>6, <1>7

LEMMA AcceptInv ==
  ASSUME Inv, NEW c \in Calls, AcceptQuoteResume(c)
  PROVE  Inv'
<1> USE DEF Inv
<1> PICK r \in Requests : r = call[c].req
  BY DEF AcceptQuoteResume, Resumes, CallsAreFilled
<1> PICK q \in Quotes : q = call[c].quote
  BY DEF AcceptQuoteResume, Resumes, CallsAreFilled
<1>1. /\ quote' = Decided(r, q)
      /\ request' = [request EXCEPT ![r].status = "Accepted"]
      /\ UNCHANGED <<sealed, revealed>> /\ End(c) /\ CanAccept(r, q)
  BY DEF AcceptQuoteResume
<1>2. quote[q].status = "Pending" /\ quote[q].req = r /\ RequestExists(r)
      /\ request[r].status # "Accepted"
  BY <1>1 DEF CanAccept, CallsAreFilled, AcceptQuoteResume, Resumes, QuoteExists
<1>3. ASSUME NEW s \in Requests
      PROVE  /\ request'[s].owner = request[s].owner /\ request'[s].cap = request[s].cap
             /\ request'[s].windowClosed = request[s].windowClosed
             /\ s # r => request'[s] = request[s]
             /\ s = r => request'[s].status = "Accepted"
             /\ RequestExists(s)' <=> RequestExists(s)
  BY <1>1, <1>2 DEF TypeOK, RequestExists
<1>4. ASSUME NEW p \in Quotes
      PROVE  /\ quote'[p].req = quote[p].req /\ quote'[p].by = quote[p].by
             /\ p = q => quote'[p].status = "Accepted"
             /\ p # q /\ quote[p].status = "Pending" /\ quote[p].req = r =>
                  quote'[p].status = "Rejected"
             /\ quote[p].status # "Pending" \/ quote[p].req # r => quote'[p] = quote[p]
             /\ QuoteExists(p)' <=> QuoteExists(p)
  <2>1. quote'[p] = (IF p = q THEN [quote[p] EXCEPT !.status = "Accepted"]
                     ELSE IF p \in PendingOn(r) THEN [quote[p] EXCEPT !.status = "Rejected"]
                     ELSE quote[p])
    BY <1>1 DEF Decided
  <2>2. quote[p] \in Quote
    BY DEF TypeOK
  <2>3. p \in PendingOn(r) <=> quote[p].status = "Pending" /\ quote[p].req = r
    BY DEF PendingOn, QuotesFor, QuoteExists
  <2> QED BY <1>2, <2>1, <2>2, <2>3 DEF Quote, QuoteExists
<1>5. CallsAreFilled' /\ call' \in [Calls -> Call]
  BY <1>1, <1>4, CallEnd DEF QuoteExists
<1>6. TypeOK'
  <2>1. request' \in [Requests -> Request]
    <3>1. [request[r] EXCEPT !.status = "Accepted"] \in Request
      BY DEF TypeOK, Request
    <3> QED BY <1>1, <3>1 DEF TypeOK
  <2>2. quote' \in [Quotes -> Quote]
    BY <1>1 DEF TypeOK, Quote, Decided
  <2> QED BY <1>1, <1>5, <2>1, <2>2 DEF TypeOK
<1>7. Filed'
  BY <1>1, <1>3, <1>4 DEF Filed
<1>8. Verdicts'
  <2>1. ASSUME NEW p \in Quotes, QuoteExists(p)'
        PROVE  /\ quote'[p].status = "Pending" <=> request'[quote'[p].req].status # "Accepted"
               /\ request'[quote'[p].req].status # "Open"
    <3>1. QuoteExists(p) /\ quote[p].req \in Requests /\ quote'[p].req = quote[p].req
      BY <1>4, <2>1 DEF Filed
    <3>2. CASE quote[p].req = r
      BY <1>2, <1>3, <1>4, <3>1, <3>2 DEF Verdicts
    <3>3. CASE quote[p].req # r
      BY <1>2, <1>3, <1>4, <3>1, <3>3 DEF Verdicts
    <3> QED BY <3>2, <3>3
  <2>2. \A p \in Quotes : quote[p].req = r => quote[p].status # "Accepted"
    BY <1>2 DEF Verdicts, QuoteExists
  <2>3. \A p, s \in Quotes : quote'[p].status = "Accepted" /\ quote'[s].status = "Accepted"
          /\ quote'[p].req = quote'[s].req => p = s
    BY <1>2, <1>4, <2>2 DEF Verdicts
  <2>4. \A s \in Requests : request'[s].status = "Accepted" =>
          \E p \in Quotes : quote'[p].status = "Accepted" /\ quote'[p].req = s
    BY <1>2, <1>3, <1>4 DEF Verdicts
  <2>5. \A s \in Requests : request'[s].status = "Quoted" =>
          \E p \in Quotes : QuoteExists(p)' /\ quote'[p].req = s
    BY <1>3, <1>4 DEF Verdicts
  <2> QED BY <2>1, <2>3, <2>4, <2>5 DEF Verdicts
<1>9. OnePending'
  BY <1>4 DEF OnePending
<1>10. Snapshots'
  BY <1>1, <1>3 DEF Snapshots
<1>11. Capped'
  <2>1. ASSUME NEW s \in Requests PROVE PendingOn(s)' \subseteq PendingOn(s)
    BY <1>4 DEF PendingOn, QuotesFor, QuoteExists
  <2> QED BY <1>1, <1>3, <2>1, NothingMore
<1> QED BY <1>5, <1>6, <1>7, <1>8, <1>9, <1>10, <1>11

LEMMA CloseInv ==
  ASSUME Inv, NEW c \in Calls, CloseQuoteRequestResume(c) \/ CancelQuoteRequestResume(c)
  PROVE  Inv'
<1> USE DEF Inv
<1> PICK r \in Requests, s \in {"Closed", "Cancelled"} :
      /\ TakesBids(r)
      /\ request' = [request EXCEPT ![r].status = s]
      /\ UNCHANGED <<quote, sealed, revealed>> /\ End(c)
  BY DEF CloseQuoteRequestResume, CancelQuoteRequestResume, Resumes, CallsAreFilled
<1>1. ASSUME NEW u \in Requests
      PROVE  /\ request'[u].owner = request[u].owner /\ request'[u].cap = request[u].cap
             /\ request'[u].windowClosed = request[u].windowClosed
             /\ u # r => request'[u] = request[u]
             /\ u = r => request'[u].status \in {"Closed", "Cancelled"}
             /\ RequestExists(u)' <=> RequestExists(u)
  BY DEF TypeOK, RequestExists, TakesBids
<1>2. request[r].status \in {"Open", "Quoted"}
  BY DEF TakesBids
<1>3. CallsAreFilled' /\ call' \in [Calls -> Call]
  BY CallEnd DEF QuoteExists
<1>4. TypeOK'
  <2>1. [request[r] EXCEPT !.status = s] \in Request
    BY DEF TypeOK, Request
  <2> QED BY <1>3, <2>1 DEF TypeOK
<1>5. Filed'
  BY <1>1 DEF Filed, QuoteExists
<1>6. Verdicts'
  <2>1. ASSUME NEW p \in Quotes, QuoteExists(p)'
        PROVE  /\ quote'[p].status = "Pending" <=> request'[quote'[p].req].status # "Accepted"
               /\ request'[quote'[p].req].status # "Open"
    <3>1. QuoteExists(p) /\ quote[p].req \in Requests
      BY <2>1 DEF Filed, QuoteExists
    <3> QED BY <1>1, <1>2, <3>1 DEF Verdicts
  <2> QED BY <1>1, <2>1 DEF Verdicts, QuoteExists
<1>7. OnePending' /\ Snapshots'
  BY <1>1 DEF OnePending, Snapshots
<1>8. Capped'
  <2>1. ASSUME NEW u \in Requests PROVE PendingOn(u)' = PendingOn(u)
    BY DEF PendingOn, QuotesFor, QuoteExists
  <2> QED BY <1>1, <2>1, NothingMore
<1> QED BY <1>3, <1>4, <1>5, <1>6, <1>7, <1>8

LEMMA RevealInv ==
  ASSUME Inv, NEW c \in Calls, RevealBidsResume(c)
  PROVE  Inv'
<1> USE DEF Inv
<1> PICK r \in Requests : r = call[c].req
  BY DEF RevealBidsResume, Resumes, CallsAreFilled
<1>1. /\ CanReveal(r) /\ revealed' = [revealed EXCEPT ![r] = sealed[r]]
      /\ UNCHANGED <<request, quote, sealed>> /\ End(c)
  BY DEF RevealBidsResume
<1>2. CallsAreFilled' /\ call' \in [Calls -> Call]
  BY <1>1, CallEnd DEF QuoteExists
<1>3. TypeOK'
  BY <1>1, <1>2 DEF TypeOK
<1>4. Filed' /\ Verdicts' /\ OnePending' /\ Snapshots'
  BY <1>1 DEF Filed, Verdicts, OnePending, Snapshots, CanReveal, RequestExists, QuoteExists, TypeOK
<1>5. Capped'
  <2>1. ASSUME NEW u \in Requests PROVE PendingOn(u)' = PendingOn(u)
    BY <1>1 DEF PendingOn, QuotesFor, QuoteExists
  <2> QED BY <1>1, <2>1, NothingMore DEF RequestExists, Filed
<1> QED BY <1>2, <1>3, <1>4, <1>5

LEMMA DeleteInv ==
  ASSUME Inv, NEW u \in Erasers, DeleteMyData(u)
  PROVE  Inv'
<1> USE DEF Inv
<1>1. ASSUME NEW r \in Requests, r \in OwnRequests(u)
      PROVE  request'[r] = NoRequest("gone") /\ sealed'[r] = {} /\ revealed'[r] = {}
  BY <1>1 DEF DeleteMyData
<1>2. ASSUME NEW r \in Requests, r \notin OwnRequests(u)
      PROVE  /\ Reopened(u, r) => request'[r] = [request[r] EXCEPT !.status = "Open"]
             /\ ~Reopened(u, r) => request'[r] = request[r]
             /\ sealed'[r] = (IF KeepsSealedBid(r) THEN sealed[r] ELSE sealed[r] \ {u})
             /\ revealed'[r] = revealed[r]
  BY <1>2 DEF DeleteMyData
<1>3. ASSUME NEW q \in Quotes
      PROVE  quote'[q] = IF q \in ErasedQuotes(u) THEN NoQuote("gone") ELSE quote[q]
  BY DEF DeleteMyData
<1>4. call' = call
  BY DEF DeleteMyData
<1>5. ASSUME NEW r \in Requests
      PROVE  /\ RequestExists(r)' <=> RequestExists(r) /\ r \notin OwnRequests(u)
             /\ RequestExists(r)' =>
                  /\ request'[r].owner = request[r].owner /\ request'[r].cap = request[r].cap
                  /\ request'[r].windowClosed = request[r].windowClosed
                  /\ \/ request'[r].status = request[r].status
                     \/ Reopened(u, r) /\ request'[r].status = "Open"
  <2>1. CASE r \in OwnRequests(u)
    BY <1>1, <2>1 DEF RequestExists, NoRequest
  <2>2. CASE r \notin OwnRequests(u) /\ Reopened(u, r)
    BY <1>2, <2>2 DEF RequestExists, Reopened, TypeOK, Request
  <2>3. CASE r \notin OwnRequests(u) /\ ~Reopened(u, r)
    BY <1>2, <2>3 DEF RequestExists
  <2> QED BY <2>1, <2>2, <2>3
<1>6. ASSUME NEW q \in Quotes
      PROVE  /\ QuoteExists(q)' <=> QuoteExists(q) /\ q \notin ErasedQuotes(u)
             /\ QuoteExists(q)' => quote'[q] = quote[q] /\ quote[q].req \notin OwnRequests(u)
             /\ quote'[q].status \in {"Pending", "Accepted"} => QuoteExists(q)'
             /\ quote[q].status # "none" => quote'[q].status # "none"
  BY <1>3 DEF QuoteExists, NoQuote, ErasedQuotes
<1>7. TypeOK'
  <2>1. request' \in [Requests -> Request]
    <3>1. \A r \in Requests : [request[r] EXCEPT !.status = "Open"] \in Request
      BY DEF TypeOK, Request
    <3>2. NoRequest("gone") \in Request
      BY DEF NoRequest, Request
    <3> QED BY <3>1, <3>2 DEF DeleteMyData, TypeOK
  <2>2. quote' \in [Quotes -> Quote]
    <3>1. NoQuote("gone") \in Quote
      BY DEF NoQuote, Quote
    <3> QED BY <3>1 DEF DeleteMyData, TypeOK
  <2>3. sealed' \in [Requests -> SUBSET Contractors] /\ revealed' \in [Requests -> SUBSET Contractors]
    BY DEF DeleteMyData, TypeOK
  <2> QED BY <1>4, <2>1, <2>2, <2>3 DEF TypeOK
<1>8. CallsAreFilled'
  BY <1>4, <1>6 DEF CallsAreFilled
<1>9. Filed'
  <2>1. \A r \in Requests : RequestExists(r)' =>
          request'[r].owner \in Homeowners /\ request'[r].cap \in Caps
    BY <1>5 DEF Filed
  <2>2. \A r \in Requests : ~RequestExists(r)' => sealed'[r] = {} /\ revealed'[r] = {}
    BY <1>1, <1>2, <1>5 DEF Filed
  <2>3. ASSUME NEW q \in Quotes, QuoteExists(q)'
        PROVE  (quote[q].req \in Requests /\ quote[q].by \in Contractors /\ RequestExists(quote[q].req))'
    <3>1. quote'[q] = quote[q] /\ quote[q].req \in Requests /\ quote[q].by \in Contractors
          /\ RequestExists(quote[q].req) /\ quote[q].req \notin OwnRequests(u)
      BY <1>6, <2>3 DEF Filed
    <3>2. \A r \in Requests : RequestExists(r) /\ r \notin OwnRequests(u) => RequestExists(r)'
      BY <1>5
    <3> QED BY <3>1, <3>2 DEF RequestExists
  <2> QED BY <2>1, <2>2, <2>3 DEF Filed
<1>10. Verdicts'
  <2>1. ASSUME NEW q \in Quotes, QuoteExists(q)'
        PROVE  /\ quote'[q].status = "Pending" <=> request'[quote'[q].req].status # "Accepted"
               /\ request'[quote'[q].req].status # "Open"
    <3>1. /\ QuoteExists(q) /\ quote'[q] = quote[q] /\ quote[q].req \in Requests
          /\ q \notin ErasedQuotes(u) /\ RequestExists(quote[q].req)'
      BY <1>5, <1>6, <2>1 DEF Filed
    <3>2. ~Reopened(u, quote[q].req)
      BY <3>1 DEF Reopened, QuotesFor
    <3> QED BY <1>5, <3>1, <3>2 DEF Verdicts
  <2>2. \A p, q \in Quotes : quote'[p].status = "Accepted" /\ quote'[q].status = "Accepted"
          /\ quote'[p].req = quote'[q].req => p = q
    BY <1>6 DEF Verdicts
  <2>3. ASSUME NEW r \in Requests, request'[r].status = "Accepted"
        PROVE  \E q \in Quotes : quote'[q].status = "Accepted" /\ quote'[q].req = r
    <3>1. r \notin OwnRequests(u) /\ request[r].status = "Accepted"
      BY <1>5, <2>3 DEF RequestExists
    <3>2. PICK q \in Quotes : quote[q].status = "Accepted" /\ quote[q].req = r
      BY <3>1 DEF Verdicts
    <3>3. q \notin ErasedQuotes(u)
      BY <3>1, <3>2 DEF ErasedQuotes
    <3> QED BY <1>3, <3>2, <3>3
  <2>4. ASSUME NEW r \in Requests, request'[r].status = "Quoted"
        PROVE  \E q \in Quotes : QuoteExists(q)' /\ quote'[q].req = r
    <3>1. r \notin OwnRequests(u) /\ request[r].status = "Quoted"
      BY <1>5, <2>4 DEF RequestExists
    <3>2. ~Reopened(u, r)
      BY <1>2, <2>4, <3>1 DEF TypeOK, Request
    <3>3. PICK q \in Quotes : QuoteExists(q) /\ quote[q].req = r
      BY <3>1 DEF Verdicts
    <3>4. CASE q \notin ErasedQuotes(u)
      BY <1>6, <3>3, <3>4
    <3>5. CASE q \in ErasedQuotes(u)
      <4>1. PICK p \in Quotes : p \in QuotesFor(r) /\ p \notin ErasedQuotes(u)
        BY <3>1, <3>2, <3>3, <3>5 DEF Reopened, QuotesFor
      <4> QED BY <1>6, <4>1 DEF QuotesFor
    <3> QED BY <3>4, <3>5
  <2> QED BY <2>1, <2>2, <2>3, <2>4 DEF Verdicts
<1>11. OnePending'
  BY <1>6 DEF OnePending
<1>12. Snapshots'
  <2> SUFFICES ASSUME NEW r \in Requests, revealed'[r] # {}
               PROVE  request'[r].windowClosed /\ revealed'[r] = sealed'[r]
    BY DEF Snapshots
  <2>1. r \notin OwnRequests(u) /\ revealed'[r] = revealed[r] /\ revealed[r] # {}
    BY <1>1, <1>2
  <2>2. KeepsSealedBid(r) /\ RequestExists(r)'
    BY <1>5, <2>1 DEF KeepsSealedBid, Filed
  <2> QED BY <1>2, <1>5, <2>1, <2>2 DEF Snapshots
<1>13. Capped'
  <2>1. ASSUME NEW r \in Requests, RequestExists(r)'
        PROVE  PendingOn(r)' \subseteq PendingOn(r) /\ sealed'[r] \subseteq sealed[r]
    <3>1. sealed'[r] \subseteq sealed[r]
      BY <1>2, <1>5, <2>1
    <3>2. PendingOn(r)' \subseteq PendingOn(r)
      BY <1>6 DEF PendingOn, QuotesFor
    <3> QED BY <3>1, <3>2
  <2> QED BY <1>5, <2>1, NothingMore
<1> QED BY <1>7, <1>8, <1>9, <1>10, <1>11, <1>12, <1>13

LEMMA NextInv == Inv /\ [Next]_vars => Inv'
<1> SUFFICES ASSUME Inv, [Next]_vars PROVE Inv'
  OBVIOUS
<1>1. ASSUME NEW c \in Calls, CallNext(c) PROVE Inv'
  BY <1>1, CallStart, CreateInv, QuoteInv, BidInv, AcceptInv, CloseInv, RevealInv DEF CallNext
<1>2. CASE \E u \in Erasers : DeleteMyData(u)
  BY <1>2, DeleteInv
<1>3. CASE UNCHANGED vars
  <2>1. Filed' /\ Verdicts' /\ OnePending' /\ Capped' /\ Snapshots'
    BY <1>3, CallsOnly DEF vars
  <2>2. TypeOK' /\ CallsAreFilled'
    BY <1>3 DEF vars, Inv, TypeOK, CallsAreFilled, QuoteExists
  <2> QED BY <2>1, <2>2 DEF Inv
<1> QED BY <1>1, <1>2, <1>3, TimeInv DEF Next

(* The inductive invariant the theorems below are read from. *)
THEOREM SpecInv == Spec => []Inv
  BY InitInv, NextInv, PTL DEF Spec

(* Every state has the types, whatever the numbers of ids and calls: no
   handler of the quote canister assigns a status outside its list. *)
THEOREM TypeCorrect == Spec => []TypeOK
<1>1. Inv => TypeOK
  BY DEF Inv
<1> QED BY <1>1, SpecInv, PTL

(* acceptQuote against itself, closing, cancelling and account deletion: a
   request is accepted exactly when it has one accepted quote and none pending. *)
THEOREM OneAcceptedQuote == Spec => []AcceptedIffOneQuote
<1>1. Inv => AcceptedIffOneQuote
  <2> SUFFICES ASSUME Inv, NEW r \in Requests
               PROVE  LET accepted == {q \in QuotesFor(r) : quote[q].status = "Accepted"} IN
                      /\ request[r].status = "Accepted" =>
                           /\ \E q \in accepted : accepted = {q}
                           /\ PendingOn(r) = {}
                      /\ request[r].status # "Accepted" => accepted = {}
    BY DEF AcceptedIffOneQuote
  <2> DEFINE accepted == {q \in QuotesFor(r) : quote[q].status = "Accepted"}
  <2>1. CASE request[r].status = "Accepted"
    <3>1. PICK q \in Quotes : quote[q].status = "Accepted" /\ quote[q].req = r
      BY <2>1 DEF Inv, Verdicts
    <3>2. \A p \in accepted : p = q
      BY <3>1 DEF QuotesFor, Inv, Verdicts
    <3>3. q \in accepted
      BY <3>1 DEF QuotesFor, QuoteExists
    <3>4. PendingOn(r) = {}
      BY <2>1 DEF PendingOn, QuotesFor, Inv, Verdicts
    <3> HIDE DEF accepted
    <3> QED BY <2>1, <3>2, <3>3, <3>4 DEF accepted
  <2>2. CASE request[r].status # "Accepted"
    BY <2>2 DEF QuotesFor, Inv, Verdicts
  <2> QED BY <2>1, <2>2
<1> QED BY <1>1, SpecInv, PTL

(* A request that takes bids is #Quoted exactly while a quote waits on it. *)
THEOREM QuotedWhilePending == Spec => []QuotedIffPending
<1>1. Inv => QuotedIffPending
  <2> SUFFICES ASSUME Inv, NEW r \in Requests, TakesBids(r)
               PROVE  request[r].status = "Quoted" <=> PendingOn(r) # {}
    BY DEF QuotedIffPending
  <2>1. ASSUME request[r].status = "Quoted" PROVE PendingOn(r) # {}
    BY <2>1 DEF Inv, Verdicts, PendingOn, QuotesFor
  <2>2. ASSUME NEW q \in PendingOn(r) PROVE request[r].status = "Quoted"
    BY <2>2 DEF Inv, Verdicts, PendingOn, QuotesFor, TakesBids
  <2> QED BY <2>1, <2>2
<1> QED BY <1>1, SpecInv, PTL

(* One pending quote per contractor and maxBids hold with any number of
   submissions in flight, because they are checked after the awaits. *)
THEOREM BidsWithinCaps == Spec => []BidCaps
<1>1. Inv => BidCaps
  <2> SUFFICES ASSUME Inv, NEW r \in Requests
               PROVE  /\ \A p, q \in PendingOn(r) : quote[p].by = quote[q].by => p = q
                      /\ TakesBids(r) => Cardinality(PendingOn(r)) <= request[r].cap
                      /\ RequestExists(r) => Cardinality(sealed[r]) <= request[r].cap
    BY DEF BidCaps
  <2>1. \A p, q \in PendingOn(r) : quote[p].by = quote[q].by => p = q
    BY DEF Inv, OnePending, PendingOn, QuotesFor
  <2>2. TakesBids(r) => RequestExists(r)
    BY DEF TakesBids, RequestExists
  <2> QED BY <2>1, <2>2 DEF Inv, Capped, Within
<1> QED BY <1>1, SpecInv, PTL

(* Account deletion leaves nothing behind, and no call under way brings
   anything back. *)
THEOREM ErasureIsComplete == Spec => []NothingOutlivesItsRequest
<1>1. Inv => NothingOutlivesItsRequest
  BY DEF Inv, Filed, NothingOutlivesItsRequest
<1> QED BY <1>1, SpecInv, PTL

-----------------------------------------------------------------------------
(* The outcome of a request and of a quote across one step. *)
RequestKept(r) ==
  request[r].status \in {"Accepted", "Closed", "Cancelled"} =>
    request'[r].status \in {request[r].status, "gone"}

QuoteKept(q) ==
  quote[q].status \in {"Accepted", "Rejected"} =>
    \/ quote'[q] = quote[q]
    \/ quote'[q].status = "gone" /\ request'[quote[q].req].status = "gone"

LEMMA StepKeepsOutcomes ==
  ASSUME Inv, [Next]_vars
  PROVE  (\A r \in Requests : RequestKept(r)) /\ (\A q \in Quotes : QuoteKept(q))
<1> USE DEF Inv, RequestKept, QuoteKept
<1>1. CASE UNCHANGED <<request, quote>>
  BY <1>1
<1>2. ASSUME NEW c \in Calls, CreateQuoteRequestResume(c)
      PROVE  (\A r \in Requests : RequestKept(r)) /\ (\A q \in Quotes : QuoteKept(q))
  BY <1>2 DEF CreateQuoteRequestResume, TypeOK
<1>3. ASSUME NEW c \in Calls, SubmitQuoteResume(c)
      PROVE  (\A r \in Requests : RequestKept(r)) /\ (\A q \in Quotes : QuoteKept(q))
  BY <1>3 DEF SubmitQuoteResume, TypeOK, CanQuote, TakesBids
<1>4. ASSUME NEW c \in Calls, CloseQuoteRequestResume(c) \/ CancelQuoteRequestResume(c)
      PROVE  (\A r \in Requests : RequestKept(r)) /\ (\A q \in Quotes : QuoteKept(q))
  BY <1>4 DEF CloseQuoteRequestResume, CancelQuoteRequestResume, TypeOK, TakesBids
<1>5. ASSUME NEW c \in Calls, AcceptQuoteResume(c)
      PROVE  (\A r \in Requests : RequestKept(r)) /\ (\A q \in Quotes : QuoteKept(q))
  <2>1. \A r \in Requests : RequestKept(r)
    BY <1>5 DEF AcceptQuoteResume, CanAccept, TypeOK
  <2>2. ASSUME NEW q \in Quotes, quote[q].status \in {"Accepted", "Rejected"}
        PROVE  quote'[q] = quote[q]
    <3>1. q \notin PendingOn(call[c].req) /\ q # call[c].quote
      BY <1>5, <2>2 DEF PendingOn, AcceptQuoteResume, CanAccept
    <3> QED BY <1>5, <3>1 DEF AcceptQuoteResume, Decided
  <2> QED BY <2>1, <2>2
<1>6. ASSUME NEW u \in Erasers, DeleteMyData(u)
      PROVE  (\A r \in Requests : RequestKept(r)) /\ (\A q \in Quotes : QuoteKept(q))
  <2>1. ASSUME NEW r \in Requests PROVE RequestKept(r)
    BY <1>6 DEF DeleteMyData, Reopened, NoRequest
  <2>2. ASSUME NEW q \in Quotes, quote[q].status \in {"Accepted", "Rejected"}
        PROVE  QuoteKept(q)
    <3>1. CASE q \in ErasedQuotes(u)
      <4>1. quote[q].req \in OwnRequests(u)
        BY <2>2, <3>1 DEF ErasedQuotes
      <4> QED BY <1>6, <3>1, <4>1 DEF DeleteMyData, NoQuote, NoRequest, OwnRequests
    <3>2. CASE q \notin ErasedQuotes(u)
      BY <1>6, <3>2 DEF DeleteMyData
    <3> QED BY <3>1, <3>2
  <2> QED BY <2>1, <2>2
<1>7. CASE \E r \in Requests : WindowCloses(r)
  BY <1>7 DEF WindowCloses, TypeOK
<1>8. CASE \E q \in Quotes : QuoteExpires(q)
  BY <1>8 DEF QuoteExpires, TypeOK
<1>9. ASSUME NEW c \in Calls, CallNext(c)
      PROVE  (\A r \in Requests : RequestKept(r)) /\ (\A q \in Quotes : QuoteKept(q))
  <2>1. CASE SubmitSealedBidResume(c) \/ RevealBidsResume(c) \/ ReturnError(c)
    BY <1>1, <2>1 DEF SubmitSealedBidResume, RevealBidsResume, ReturnError
  <2>2. CASE \/ \E h \in Homeowners : CreateQuoteRequest(c, h)
             \/ \E r \in Requests, k \in Contractors : SubmitQuote(c, r, k) \/ SubmitSealedBid(c, r, k)
             \/ \E q \in Quotes : AcceptQuote(c, q)
             \/ \E r \in Requests :
                  CloseQuoteRequest(c, r) \/ CancelQuoteRequest(c, r) \/ RevealBids(c, r)
    BY <1>1, <2>2 DEF CreateQuoteRequest, SubmitQuote, SubmitSealedBid, AcceptQuote,
       CloseQuoteRequest, CancelQuoteRequest, RevealBids, Begin
  <2> QED BY <1>2, <1>3, <1>4, <1>5, <1>9, <2>1, <2>2 DEF CallNext
<1>10. CASE UNCHANGED vars
  BY <1>1, <1>10 DEF vars
<1> QED BY <1>6, <1>7, <1>8, <1>9, <1>10 DEF Next

(* Accepting, closing and cancelling each decide a request once and for all,
   and a quote with it. *)
THEOREM Finality == Spec => OutcomesAreFinal
<1>1. Inv /\ [Next]_vars =>
        [/\ \A r \in Requests :
              request[r].status \in {"Accepted", "Closed", "Cancelled"} =>
                request'[r].status \in {request[r].status, "gone"}
         /\ \A q \in Quotes :
              quote[q].status \in {"Accepted", "Rejected"} =>
                \/ quote'[q] = quote[q]
                \/ quote'[q].status = "gone" /\ request'[quote[q].req].status = "gone"]_vars
  BY StepKeepsOutcomes DEF RequestKept, QuoteKept
<1> QED BY <1>1, SpecInv, PTL DEF Spec, OutcomesAreFinal

(* The sealed bids of one request across one step. *)
BidsFrozen(r) ==
  request[r].windowClosed /\ request'[r].status # "gone" => sealed'[r] = sealed[r]

LEMMA StepKeepsSealedBids ==
  ASSUME Inv, [Next]_vars, NEW r \in Requests
  PROVE  BidsFrozen(r)
<1> USE DEF Inv, BidsFrozen
<1>1. ASSUME NEW c \in Calls, SubmitSealedBidResume(c) PROVE BidsFrozen(r)
  BY <1>1 DEF SubmitSealedBidResume, CanBid, TypeOK
<1>2. ASSUME NEW u \in Erasers, DeleteMyData(u) PROVE BidsFrozen(r)
  BY <1>2 DEF DeleteMyData, KeepsSealedBid, NoRequest
<1>3. ASSUME NEW c \in Calls, CallNext(c) PROVE BidsFrozen(r)
  <2>1. CASE UNCHANGED sealed
    BY <2>1
  <2> QED BY <1>1, <1>3, <2>1 DEF CallNext, CreateQuoteRequest, SubmitQuote, SubmitSealedBid,
       AcceptQuote, CloseQuoteRequest, CancelQuoteRequest, RevealBids, Begin,
       CreateQuoteRequestResume, SubmitQuoteResume, AcceptQuoteResume, CloseQuoteRequestResume,
       CancelQuoteRequestResume, RevealBidsResume, ReturnError
<1> QED BY <1>2, <1>3 DEF Next, WindowCloses, QuoteExpires, vars

(* A sealed bid neither arrives nor leaves after the deadline, and the snapshot
   a homeowner is shown is all of the bids. *)
THEOREM SealedBidsStay == Spec => SealedBidsFreeze
<1>1. Inv /\ Inv' /\ [Next]_vars =>
        [\A r \in Requests :
           /\ request[r].windowClosed /\ request'[r].status # "gone" => sealed'[r] = sealed[r]
           /\ revealed'[r] # {} => revealed'[r] = sealed'[r]]_vars
  <2>1. Inv' => \A r \in Requests : revealed'[r] # {} => revealed'[r] = sealed'[r]
    BY DEF Inv, Snapshots
  <2> QED BY <2>1, StepKeepsSealedBids DEF BidsFrozen
<1> QED BY <1>1, SpecInv, PTL DEF Spec, SealedBidsFreeze

-----------------------------------------------------------------------------
(* The open requests of every homeowner on the Free plan are within the limit. *)
FreeInv == \A h \in Homeowners \ Paying : Within(OpenRequests(h), FreeLimit)

LEMMA FreeStep ==
  ASSUME Inv, FreeInv, [Next]_vars, Erasers = {}
  PROVE  FreeInv'
<1> USE DEF Inv
<1> SUFFICES ASSUME NEW h \in Homeowners \ Paying PROVE Within(OpenRequests(h)', FreeLimit)
  BY DEF FreeInv, Within
<1>1. Within(OpenRequests(h), FreeLimit)
  BY DEF FreeInv
<1>2. CASE OpenRequests(h)' \subseteq OpenRequests(h)
  BY <1>1, <1>2, Fewer, FreeLimitAssumption
<1>3. ASSUME NEW c \in Calls, CreateQuoteRequestResume(c)
      PROVE  Within(OpenRequests(h)', FreeLimit)
  <2> PICK r \in Requests, w \in BOOLEAN, cap \in Caps :
        /\ CanCreate(call[c].by, w)
        /\ request' = [request EXCEPT ![r] =
              [status |-> "Open", owner |-> call[c].by, hasWindow |-> w,
               windowClosed |-> FALSE, cap |-> cap]]
    BY <1>3 DEF CreateQuoteRequestResume
  <2>1. CASE call[c].by # h
    BY <1>2, <2>1 DEF OpenRequests, TypeOK
  <2>2. CASE call[c].by = h
    <3>1. IsFiniteSet(OpenRequests(h)) /\ Cardinality(OpenRequests(h)) < FreeLimit
      BY <1>1, <2>2 DEF CanCreate, Within
    <3>2. OpenRequests(h)' \subseteq OpenRequests(h) \cup {r}
      BY DEF OpenRequests, TypeOK
    <3> QED BY <3>1, <3>2, OneMore, FreeLimitAssumption
  <2> QED BY <2>1, <2>2
<1>4. CASE UNCHANGED request
  BY <1>2, <1>4 DEF OpenRequests
<1>5. ASSUME NEW c \in Calls,
             SubmitQuoteResume(c) \/ AcceptQuoteResume(c) \/ CloseQuoteRequestResume(c)
             \/ CancelQuoteRequestResume(c)
      PROVE  Within(OpenRequests(h)', FreeLimit)
  <2>1. PICK s \in {"Quoted", "Accepted", "Closed", "Cancelled"} :
          request' = [request EXCEPT ![call[c].req].status = s]
    BY <1>5 DEF SubmitQuoteResume, AcceptQuoteResume, CloseQuoteRequestResume,
       CancelQuoteRequestResume
  <2>2. OpenRequests(h)' \subseteq OpenRequests(h)
    BY <2>1 DEF OpenRequests, TypeOK, Request
  <2> QED BY <1>2, <2>2
<1>6. CASE \E r \in Requests : WindowCloses(r)
  <2> PICK r \in Requests : request' = [request EXCEPT ![r].windowClosed = TRUE]
    BY <1>6 DEF WindowCloses
  <2>1. OpenRequests(h)' \subseteq OpenRequests(h)
    <3>1. ASSUME NEW s \in Requests
          PROVE  request'[s].status = request[s].status /\ request'[s].owner = request[s].owner
      BY DEF TypeOK, Request
    <3> QED BY <3>1 DEF OpenRequests
  <2> QED BY <1>2, <2>1
<1>7. ASSUME NEW c \in Calls, CallNext(c) PROVE Within(OpenRequests(h)', FreeLimit)
  BY <1>3, <1>4, <1>5, <1>7 DEF CallNext, CreateQuoteRequest, SubmitQuote, SubmitSealedBid,
     AcceptQuote, CloseQuoteRequest, CancelQuoteRequest, RevealBids, Begin,
     SubmitSealedBidResume, RevealBidsResume, ReturnError
<1> QED BY <1>4, <1>6, <1>7 DEF Next, QuoteExpires, vars

(* While nobody deletes an account, a Free homeowner stays within the limit
   however many creations are in flight. *)
THEOREM FreeWithinLimit ==
  ASSUME Erasers = {}
  PROVE  Spec => []FreeOpenLimit
<1>1. Init => FreeInv
  <2> SUFFICES ASSUME Init, NEW h \in Homeowners PROVE Within(OpenRequests(h), FreeLimit)
    BY DEF FreeInv
  <2>1. OpenRequests(h) = {}
    BY DEF Init, OpenRequests, NoRequest
  <2> QED BY <2>1, FS_EmptySet, FreeLimitAssumption DEF Within
<1>2. Inv /\ FreeInv /\ [Next]_vars => FreeInv'
  BY FreeStep
<1>3. FreeInv => FreeOpenLimit
  BY DEF FreeInv, FreeOpenLimit, Within
<1> QED BY <1>1, <1>2, <1>3, SpecInv, PTL DEF Spec

(* Only finitely many requests have been created. *)
Created == {r \in Requests : request[r].status # "none"}

(* The handlers that move a request to another status need one that exists. *)
LEMMA StatusSteps ==
  ASSUME Inv, NEW c \in Calls,
         \/ SubmitQuoteResume(c) \/ AcceptQuoteResume(c)
         \/ CloseQuoteRequestResume(c) \/ CancelQuoteRequestResume(c)
  PROVE  \E r \in Requests, s \in {"Quoted", "Accepted", "Closed", "Cancelled"} :
           RequestExists(r) /\ request' = [request EXCEPT ![r].status = s]
<1> USE DEF Inv, CallsAreFilled, Resumes, RequestExists, TakesBids
<1>1. CASE SubmitQuoteResume(c)
  BY <1>1 DEF SubmitQuoteResume, CanQuote
<1>2. CASE AcceptQuoteResume(c)
  BY <1>2 DEF AcceptQuoteResume, CanAccept
<1>3. CASE CloseQuoteRequestResume(c)
  BY <1>3 DEF CloseQuoteRequestResume
<1>4. CASE CancelQuoteRequestResume(c)
  BY <1>4 DEF CancelQuoteRequestResume
<1> QED BY <1>1, <1>2, <1>3, <1>4

LEMMA CreatedFinite == Spec => []IsFiniteSet(Created)
<1>1. Init => IsFiniteSet(Created)
  <2> SUFFICES ASSUME Init PROVE Created = {}
    BY FS_EmptySet
  <2> QED BY DEF Init, Created, NoRequest
<1>2. Inv /\ IsFiniteSet(Created) /\ [Next]_vars => IsFiniteSet(Created)'
  <2> SUFFICES ASSUME Inv, IsFiniteSet(Created), [Next]_vars
               PROVE  IsFiniteSet(Created')
    OBVIOUS
  <2>1. PICK r : Created' \subseteq Created \cup {r}
    <3>1. ASSUME NEW c \in Calls, CreateQuoteRequestResume(c)
          PROVE  \E r : Created' \subseteq Created \cup {r}
      BY <3>1 DEF CreateQuoteRequestResume, Created, Inv, TypeOK
    <3>2. CASE \A r \in Requests : request'[r].status # "none" => request[r].status # "none"
      BY <3>2 DEF Created
    <3>3. ASSUME NEW c \in Calls, CallNext(c)
          PROVE  \E r : Created' \subseteq Created \cup {r}
      <4>1. CASE UNCHANGED request
        BY <3>2, <4>1
      <4>2. CASE \/ SubmitQuoteResume(c) \/ AcceptQuoteResume(c)
                 \/ CloseQuoteRequestResume(c) \/ CancelQuoteRequestResume(c)
        <5> PICK r \in Requests, s \in {"Quoted", "Accepted", "Closed", "Cancelled"} :
              RequestExists(r) /\ request' = [request EXCEPT ![r].status = s]
          BY <4>2, StatusSteps
        <5> QED BY <3>2 DEF RequestExists, Inv, TypeOK
      <4> QED BY <3>1, <3>3, <4>1, <4>2 DEF CallNext, CreateQuoteRequest, SubmitQuote,
           SubmitSealedBid, AcceptQuote, CloseQuoteRequest, CancelQuoteRequest, RevealBids, Begin,
           SubmitSealedBidResume, RevealBidsResume, ReturnError
    <3>4. ASSUME NEW u \in Erasers, DeleteMyData(u)
          PROVE  \E r : Created' \subseteq Created \cup {r}
      <4>1. \A r \in Requests : request'[r].status # "none" => request[r].status # "none"
        BY <3>4 DEF DeleteMyData, OwnRequests, RequestExists, Reopened
      <4> QED BY <3>2, <4>1
    <3>5. CASE \E r \in Requests : WindowCloses(r)
      BY <3>2, <3>5 DEF WindowCloses, Inv, TypeOK
    <3>6. CASE UNCHANGED request
      BY <3>2, <3>6
    <3> QED BY <3>3, <3>4, <3>5, <3>6 DEF Next, QuoteExpires, vars
  <2>2. IsFiniteSet(Created \cup {r})
    BY FS_AddElement
  <2> QED BY <2>1, <2>2, FS_Subset
<1> QED BY <1>1, <1>2, SpecInv, PTL DEF Spec

(* Only the end of createQuoteRequest and createSealedBidRequest makes a
   request that did not exist #Open. *)
LEMMA StepsThatCreate ==
  ASSUME Inv, [Next]_vars, NEW r \in Requests,
         request[r].status = "none", request'[r].status = "Open"
  PROVE  \E c \in Calls : CreateQuoteRequestResume(c)
<1>1. ASSUME NEW u \in Erasers, DeleteMyData(u) PROVE FALSE
  BY <1>1 DEF DeleteMyData, NoRequest, Reopened
<1>2. ASSUME NEW c \in Calls, CallNext(c), ~CreateQuoteRequestResume(c) PROVE FALSE
  <2>1. CASE UNCHANGED request
    BY <2>1
  <2>2. CASE \/ SubmitQuoteResume(c) \/ AcceptQuoteResume(c)
             \/ CloseQuoteRequestResume(c) \/ CancelQuoteRequestResume(c)
    <3> PICK u \in Requests, s \in {"Quoted", "Accepted", "Closed", "Cancelled"} :
          RequestExists(u) /\ request' = [request EXCEPT ![u].status = s]
      BY <2>2, StatusSteps
    <3> QED BY DEF RequestExists, Inv, TypeOK
  <2> QED BY <1>2, <2>1, <2>2 DEF CallNext, CreateQuoteRequest, SubmitQuote,
       SubmitSealedBid, AcceptQuote, CloseQuoteRequest, CancelQuoteRequest, RevealBids, Begin,
       SubmitSealedBidResume, RevealBidsResume, ReturnError
<1>3. CASE \E s \in Requests : WindowCloses(s)
  BY <1>3 DEF WindowCloses, Inv, TypeOK
<1> QED BY <1>1, <1>2, <1>3 DEF Next, QuoteExpires, vars

(* createQuoteRequest counts after its awaits: no creation takes a Free
   homeowner past the limit, whatever else is in flight and whoever deletes an
   account. *)
THEOREM CreationsStayWithinLimit == Spec => CreationsWithinLimit
<1>1. Inv /\ IsFiniteSet(Created) /\ [Next]_vars =>
        [\A h \in Homeowners \ Paying, r \in Requests :
           request[r].status = "none" /\ request'[r].status = "Open" /\ request'[r].owner = h =>
             Cardinality(OpenRequests(h)') <= FreeLimit]_vars
  <2> SUFFICES ASSUME Inv, IsFiniteSet(Created), [Next]_vars, NEW h \in Homeowners \ Paying,
                      NEW r \in Requests, request[r].status = "none",
                      request'[r].status = "Open", request'[r].owner = h
               PROVE  Cardinality(OpenRequests(h)') <= FreeLimit
    OBVIOUS
  <2>1. PICK c \in Calls : CreateQuoteRequestResume(c)
    BY StepsThatCreate
  <2> PICK s \in Requests, w \in BOOLEAN, cap \in Caps :
        /\ request[s].status = "none" /\ CanCreate(call[c].by, w)
        /\ request' = [request EXCEPT ![s] =
              [status |-> "Open", owner |-> call[c].by, hasWindow |-> w,
               windowClosed |-> FALSE, cap |-> cap]]
    BY <2>1 DEF CreateQuoteRequestResume
  <2>2. s = r /\ call[c].by = h
    BY DEF Inv, TypeOK
  <2>3. Cardinality(OpenRequests(h)) < FreeLimit
    BY <2>2 DEF CanCreate
  <2>4. OpenRequests(h) \subseteq Created
    BY DEF OpenRequests, Created
  <2>5. IsFiniteSet(OpenRequests(h))
    BY <2>4, FS_Subset
  <2>6. OpenRequests(h)' \subseteq OpenRequests(h) \cup {r}
    BY <2>2 DEF OpenRequests, Inv, TypeOK
  <2>7. Within(OpenRequests(h)', FreeLimit)
    BY <2>3, <2>5, <2>6, OneMore, FreeLimitAssumption
  <2> QED BY <2>7 DEF Within
<1> QED BY <1>1, SpecInv, CreatedFinite, PTL DEF Spec, CreationsWithinLimit

-----------------------------------------------------------------------------
(* Tender, operation by operation. *)
LEMMA SameQuotes ==
  ASSUME \A q \in Quotes : quote'[q].status = quote[q].status /\ quote'[q].req = quote[q].req
  PROVE  /\ \A s, r : QuotesThatAre(s, r)' = QuotesThatAre(s, r)
         /\ {q \in Quotes : quote'[q].status # "none"} = {q \in Quotes : quote[q].status # "none"}
BY DEF QuotesThatAre

(* A step that changes no status is none of Tender's. *)
LEMMA TenderUnchanged ==
  ASSUME \A r \in Requests : request'[r].status = request[r].status,
         \A q \in Quotes : quote'[q].status = quote[q].status /\ quote'[q].req = quote[q].req
  PROVE  UNCHANGED TenderOf!tenderVars
<1>1. \A r \in Requests : VerdictOf(request[r].status)' = VerdictOf(request[r].status)
  BY DEF VerdictOf
<1> QED BY <1>1, SameQuotes DEF TenderOf!tenderVars

LEMMA TenderAnnounced ==
  ASSUME Inv, NEW c \in Calls, CreateQuoteRequestResume(c)
  PROVE  TenderOf!TenderNext
<1>1. PICK r \in Requests :
        /\ request[r].status = "none" /\ request'[r].status = "Open"
        /\ \A s \in Requests \ {r} : request'[s] = request[s]
  BY DEF CreateQuoteRequestResume, Inv, TypeOK
<1>2. \A s \in Requests :
        VerdictOf(request[s].status)' = IF s = r THEN "open" ELSE VerdictOf(request[s].status)
  BY <1>1 DEF VerdictOf
<1>3. VerdictOf(request[r].status) = "none"
  BY <1>1 DEF VerdictOf
<1>4. TenderOf!Announce(r)
  BY <1>2, <1>3, SameQuotes DEF CreateQuoteRequestResume, TenderOf!Announce
<1> QED BY <1>4 DEF TenderOf!TenderNext

(* A quote opens no request again: it was open, or quoted, after the await. *)
LEMMA TenderMade ==
  ASSUME Inv, NEW c \in Calls, SubmitQuoteResume(c)
  PROVE  TenderOf!TenderNext
<1> USE DEF Inv
<1>1. PICK r \in Requests : r = call[c].req
  BY DEF SubmitQuoteResume, Resumes, CallsAreFilled
<1>2. PICK q \in Quotes :
        /\ quote[q].status = "none"
        /\ quote'[q].status = "Pending" /\ quote'[q].req = r
        /\ \A p \in Quotes \ {q} : quote'[p] = quote[p]
  BY <1>1 DEF SubmitQuoteResume, TypeOK
<1>3. /\ request[r].status \in {"Open", "Quoted"} /\ request'[r].status = "Quoted"
      /\ \A s \in Requests \ {r} : request'[s] = request[s]
  BY <1>1 DEF SubmitQuoteResume, CanQuote, TakesBids, TypeOK, Request
<1>4. /\ VerdictOf(request[r].status) = "open"
      /\ \A s \in Requests : VerdictOf(request[s].status)' = VerdictOf(request[s].status)
  BY <1>3 DEF VerdictOf
<1>5. \A s \in Requests : QuotesThatAre("Pending", s)' =
        IF s = r THEN QuotesThatAre("Pending", s) \cup {q} ELSE QuotesThatAre("Pending", s)
  BY <1>2 DEF QuotesThatAre
<1>6. \A s \in Requests : QuotesThatAre("Accepted", s)' = QuotesThatAre("Accepted", s)
  BY <1>2 DEF QuotesThatAre
<1>7. {p \in Quotes : quote'[p].status # "none"} = {p \in Quotes : quote[p].status # "none"} \cup {q}
  BY <1>2
<1>8. TenderOf!Make(r, q)
  BY <1>2, <1>4, <1>5, <1>6, <1>7 DEF TenderOf!Make
<1> QED BY <1>8 DEF TenderOf!TenderNext

LEMMA TenderAwarded ==
  ASSUME Inv, NEW c \in Calls, AcceptQuoteResume(c)
  PROVE  TenderOf!TenderNext
<1> USE DEF Inv
<1>1. PICK r \in Requests, q \in Quotes : r = call[c].req /\ q = call[c].quote
  BY DEF AcceptQuoteResume, Resumes, CallsAreFilled
<1>2. /\ quote[q].status = "Pending" /\ quote[q].req = r
      /\ request[r].status \in {"Open", "Quoted"}
  BY <1>1 DEF AcceptQuoteResume, Resumes, CanAccept, CallsAreFilled, QuoteExists, RequestExists,
     TypeOK, Request
<1>3. \A s \in Requests :
        request'[s].status = IF s = r THEN "Accepted" ELSE request[s].status
  BY <1>1 DEF AcceptQuoteResume, TypeOK, Request
<1>4. /\ quote'[q].status = "Accepted" /\ quote'[q].req = r
      /\ \A p \in Quotes \ {q} :
           /\ quote'[p].req = quote[p].req
           /\ quote'[p].status = IF quote[p].req = r /\ quote[p].status = "Pending"
                                 THEN "Rejected" ELSE quote[p].status
  <2>1. quote' = Decided(r, q)
    BY <1>1 DEF AcceptQuoteResume
  <2>2. \A p \in Quotes : p \in PendingOn(r) <=> quote[p].req = r /\ quote[p].status = "Pending"
    BY DEF PendingOn, QuotesFor, QuoteExists
  <2> QED BY <1>2, <2>1, <2>2 DEF Decided, TypeOK, Quote
<1>5. \A p \in Quotes : quote[p].status = "Accepted" => quote[p].req # r
  BY <1>2 DEF Verdicts, QuoteExists
<1>6. \A s \in Requests :
        VerdictOf(request[s].status)' = IF s = r THEN "awarded" ELSE VerdictOf(request[s].status)
  BY <1>3 DEF VerdictOf
<1>7. \A s \in Requests : QuotesThatAre("Pending", s)' =
        IF s = r THEN {} ELSE QuotesThatAre("Pending", s)
  BY <1>2, <1>4 DEF QuotesThatAre
<1>8. \A s \in Requests : QuotesThatAre("Accepted", s)' =
        IF s = r THEN {q} ELSE QuotesThatAre("Accepted", s)
  BY <1>2, <1>4, <1>5 DEF QuotesThatAre
<1>9. {p \in Quotes : quote'[p].status # "none"} = {p \in Quotes : quote[p].status # "none"}
  BY <1>2, <1>4
<1>10. VerdictOf(request[r].status) = "open" /\ q \in QuotesThatAre("Pending", r)
  BY <1>2 DEF VerdictOf, QuotesThatAre
<1>11. TenderOf!Award(r, q)
  BY <1>6, <1>7, <1>8, <1>9, <1>10 DEF TenderOf!Award
<1> QED BY <1>11 DEF TenderOf!TenderNext

LEMMA TenderEnded ==
  ASSUME Inv, NEW c \in Calls, CloseQuoteRequestResume(c) \/ CancelQuoteRequestResume(c)
  PROVE  TenderOf!TenderNext
<1>1. PICK r \in Requests :
        /\ request[r].status \in {"Open", "Quoted"}
        /\ request'[r].status \in {"Closed", "Cancelled"}
        /\ \A s \in Requests \ {r} : request'[s] = request[s]
  BY DEF CloseQuoteRequestResume, CancelQuoteRequestResume, Resumes, TakesBids, Inv,
     CallsAreFilled, TypeOK, Request
<1>2. /\ VerdictOf(request[r].status) = "open"
      /\ \A s \in Requests :
           VerdictOf(request[s].status)' = IF s = r THEN "ended" ELSE VerdictOf(request[s].status)
  BY <1>1 DEF VerdictOf
<1>3. UNCHANGED quote
  BY DEF CloseQuoteRequestResume, CancelQuoteRequestResume
<1>4. TenderOf!End(r)
  BY <1>2, <1>3, SameQuotes DEF TenderOf!End
<1> QED BY <1>4 DEF TenderOf!TenderNext

(* An account goes with its own requests and what is on them, and with the
   bids of its own that are still waiting. *)
LEMMA TenderErased ==
  ASSUME Inv, NEW u \in Erasers, DeleteMyData(u)
  PROVE  TenderOf!TenderNext
<1> USE DEF Inv
<1> DEFINE R == OwnRequests(u)
           B == ErasedQuotes(u)
<1>1. R \in SUBSET Requests /\ B \in SUBSET Quotes
  BY DEF OwnRequests, ErasedQuotes
<1>2. \A r \in R : VerdictOf(request[r].status) \in {"open", "ended", "awarded"}
  BY DEF OwnRequests, RequestExists, VerdictOf, TypeOK, Request
<1>3. \A r \in Requests :
        VerdictOf(request[r].status)' = IF r \in R THEN "gone" ELSE VerdictOf(request[r].status)
  <2>1. ASSUME NEW r \in Requests, r \in R PROVE request'[r].status = "gone"
    BY <2>1 DEF DeleteMyData, NoRequest
  <2>2. ASSUME NEW r \in Requests, r \notin R
        PROVE  \/ request'[r].status = request[r].status
               \/ request[r].status = "Quoted" /\ request'[r].status = "Open"
    BY <2>2 DEF DeleteMyData, Reopened, TypeOK, Request
  <2> HIDE DEF R
  <2> QED BY <2>1, <2>2 DEF VerdictOf
<1>4. /\ \A q \in Quotes : q \in B => quote'[q].status = "gone"
      /\ \A q \in Quotes : q \notin B => quote'[q] = quote[q]
  BY DEF DeleteMyData, NoQuote
<1>5. \A q \in Quotes : QuoteExists(q) /\ quote[q].req \in R => q \in B
  BY DEF ErasedQuotes
<1>6. \A q \in B : QuoteExists(q) /\ (quote[q].status = "Pending" \/ quote[q].req \in R)
  BY DEF ErasedQuotes
<1> HIDE DEF R, B
<1>7. \A r \in Requests : QuotesThatAre("Pending", r)' =
        IF r \in R THEN {} ELSE QuotesThatAre("Pending", r) \ B
  BY <1>4, <1>5 DEF QuotesThatAre, QuoteExists
<1>8. \A r \in Requests : QuotesThatAre("Accepted", r)' =
        IF r \in R THEN {} ELSE QuotesThatAre("Accepted", r)
  BY <1>4, <1>5, <1>6 DEF QuotesThatAre, QuoteExists
<1>9. {q \in Quotes : quote'[q].status # "none"} = {q \in Quotes : quote[q].status # "none"}
  BY <1>4, <1>6 DEF QuoteExists
<1>10. TenderOf!TakeOut(R, B)
  BY <1>1, <1>2, <1>3, <1>7, <1>8, <1>9 DEF TenderOf!TakeOut
<1> QED BY <1>1, <1>10 DEF TenderOf!TenderNext

LEMMA TenderStep ==
  ASSUME Inv, [Next]_vars
  PROVE  TenderOf!TenderNext \/ UNCHANGED TenderOf!tenderVars
<1>1. ASSUME UNCHANGED <<request, quote>> PROVE UNCHANGED TenderOf!tenderVars
  BY <1>1, TenderUnchanged
<1>2. ASSUME NEW c \in Calls, CallNext(c)
      PROVE  TenderOf!TenderNext \/ UNCHANGED TenderOf!tenderVars
  <2>1. CASE SubmitSealedBidResume(c) \/ RevealBidsResume(c) \/ ReturnError(c)
    BY <1>1, <2>1 DEF SubmitSealedBidResume, RevealBidsResume, ReturnError
  <2>2. CASE \/ \E h \in Homeowners : CreateQuoteRequest(c, h)
             \/ \E r \in Requests, k \in Contractors : SubmitQuote(c, r, k) \/ SubmitSealedBid(c, r, k)
             \/ \E q \in Quotes : AcceptQuote(c, q)
             \/ \E r \in Requests :
                  CloseQuoteRequest(c, r) \/ CancelQuoteRequest(c, r) \/ RevealBids(c, r)
    BY <1>1, <2>2 DEF CreateQuoteRequest, SubmitQuote, SubmitSealedBid, AcceptQuote,
       CloseQuoteRequest, CancelQuoteRequest, RevealBids, Begin
  <2> QED BY <1>2, <2>1, <2>2, TenderAnnounced, TenderMade, TenderAwarded, TenderEnded DEF CallNext
<1>3. ASSUME NEW r \in Requests, WindowCloses(r) PROVE UNCHANGED TenderOf!tenderVars
  <2>1. UNCHANGED quote /\ \A s \in Requests : request'[s].status = request[s].status
    BY <1>3 DEF WindowCloses, Inv, TypeOK, Request
  <2> QED BY <2>1, TenderUnchanged
<1>4. ASSUME NEW q \in Quotes, QuoteExpires(q) PROVE UNCHANGED TenderOf!tenderVars
  <2>1. UNCHANGED request
        /\ \A p \in Quotes : quote'[p].status = quote[p].status /\ quote'[p].req = quote[p].req
    BY <1>4 DEF QuoteExpires, Inv, TypeOK, Quote
  <2> QED BY <2>1, TenderUnchanged
<1>5. CASE UNCHANGED vars
  BY <1>1, <1>5 DEF vars
<1> QED BY <1>2, <1>3, <1>4, <1>5, TenderErased DEF Next

LEMMA TenderStart == Init => TenderOf!TenderInit
<1> SUFFICES ASSUME Init PROVE TenderOf!TenderInit
  OBVIOUS
<1>1. /\ \A r \in Requests : VerdictOf(request[r].status) = "none"
      /\ \A r \in Requests : QuotesThatAre("Pending", r) = {} /\ QuotesThatAre("Accepted", r) = {}
      /\ {q \in Quotes : quote[q].status # "none"} = {}
  BY DEF Init, NoRequest, NoQuote, VerdictOf, QuotesThatAre
<1> QED BY <1>1 DEF TenderOf!TenderInit

(* Every step of the quote canister, its calls awaiting in any order, is a
   step of Tender or leaves it alone: acceptQuote, closeQuoteRequest and
   cancelQuoteRequest read the status again after their awaits. *)
THEOREM ImplementsTender == Spec => KeepsTender
<1>1. Inv /\ [Next]_vars => [TenderOf!TenderNext]_(TenderOf!tenderVars)
  BY TenderStep
<1> QED BY SpecInv, TenderStart, <1>1, PTL DEF Spec, KeepsTender, TenderOf!TenderSpec
=============================================================================
