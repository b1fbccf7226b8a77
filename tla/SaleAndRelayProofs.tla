------------------------ MODULE SaleAndRelayProofs -------------------------
(***************************************************************************)
(* Proofs about ForSale, for any number of users, homes and waiting calls, *)
(* and about Relay, for any number of canisters, events, people told,      *)
(* crashes and reinstallations.  The two share nothing but this module.    *)
(*                                                                         *)
(* What is proved of ForSale is inductive with its types.                  *)
(*                                                                         *)
(* NothingSkipped and SentOnce are not.  RelayInv says of the first that   *)
(* the event being handled is told to all it is for, or waits (IsBeingTold)*)
(* and that a page misses no event the outbox keeps (Page); of the second  *)
(* how often an alert may still be sent (Budget): it waits to be, or its   *)
(* event is yet to be handled, and never both unless the relay crashed.    *)
(***************************************************************************)
EXTENDS ForSale, Relay, FiniteSetTheorems, WellFoundedInduction, TLAPS

(* ForSale. *)
Inv == TypeOK /\ HiddenScoreIsNotShown /\ NothingOutlivesTheSale /\ SaleHasOneSeller

LEMMA InitInv == Init => Inv
<1> SUFFICES ASSUME Init PROVE Inv
  OBVIOUS
<1> USE LimitsAreNatural DEF Init, TitleInit
<1>1. TypeOK
  BY DEF TypeOK
<1>2. HiddenScoreIsNotShown /\ NothingOutlivesTheSale /\ SaleHasOneSeller
  BY DEF HiddenScoreIsNotShown, NothingOutlivesTheSale, SaleHasOneSeller, IsLive, Seller
<1> QED BY <1>1, <1>2 DEF Inv

-----------------------------------------------------------------------------
(* A step that leaves the sales alone keeps what is said about them. *)
LEMMA SalesUntouched ==
  ASSUME Inv, fsbo' = fsbo
  PROVE  HiddenScoreIsNotShown' /\ NothingOutlivesTheSale' /\ SaleHasOneSeller'
BY DEF Inv, fsbo, showings, offers, HiddenScoreIsNotShown, NothingOutlivesTheSale, SaleHasOneSeller,
       IsLive, Seller

(* One that leaves the listings and the setups alone keeps their seller. *)
LEMMA SellersStay ==
  ASSUME Inv, fsboListings' = fsboListings, fsboDrafts' = fsboDrafts
  PROVE  SaleHasOneSeller' /\ \A h \in Homes : (IsLive(h)' <=> IsLive(h)) /\ Seller(h)' = Seller(h)
BY DEF Inv, SaleHasOneSeller, IsLive, Seller

LEMMA Resumed ==
  ASSUME TypeOK, NEW c \in Calls, NEW kind \in Kinds, Resumes(c, kind)
  PROVE  calls[c] \in Waiting /\ calls' \in [Calls -> Waiting \cup {Idle}]
BY DEF TypeOK, Resumes, Idle, Kinds, OwnerKinds

-----------------------------------------------------------------------------
LEMMA TitlesInv ==
  ASSUME Inv, OwnerActs \/ \E u \in Users, h \in Homes : ChangesHands(u, h)
  PROVE  Inv'
<1> USE LimitsAreNatural
<1>1. CASE OwnerActs
  <2>1. title' \in [Homes -> Users \cup {Nobody}] /\ offered' \in [Homes -> Users \cup {Nobody}]
    <3> USE DEF Inv, TypeOK
    <3>1. ASSUME NEW h \in Homes, Offer(h) \/ Withdraw(h) PROVE <2>1!:
      BY <3>1 DEF Offer, Withdraw
    <3>2. ASSUME NEW h \in Homes, NEW u \in Users, Acquire(u, h) PROVE <2>1!:
      BY <3>2 DEF Acquire
    <3> QED BY <1>1, <3>1, <3>2 DEF OwnerActs
  <2>2. UNCHANGED sales
    BY <1>1 DEF OwnerActs
  <2>3. TypeOK'
    BY <2>1, <2>2 DEF Inv, TypeOK, sales, fsbo, showings, offers, transfers
  <2> QED BY <2>2, <2>3, SalesUntouched DEF Inv, sales
<1>2. ASSUME NEW u \in Users, NEW h \in Homes, ChangesHands(u, h) PROVE Inv'
  <2> USE <1>2 DEF ChangesHands, Convey
  <2>1. TypeOK'
    BY DEF Inv, TypeOK, fsbo, showings, offers
  <2> QED BY <2>1, SalesUntouched DEF Inv
<1> QED BY <1>1, <1>2

LEMMA BeginsInv ==
  ASSUME Inv, NEW c \in Calls, NEW kind \in Kinds, NEW u \in Users, NEW h \in Homes,
         NEW answered \in BOOLEAN, Begins(c, kind, u, h, answered),
         UNCHANGED <<titleVars, fsboListings, fsboDrafts, showings, offers, transfers>>,
         scoreHidden' \subseteq scoreHidden
  PROVE  Inv'
<1> USE DEF Begins, titleVars, showings, offers, transfers
<1>1. TypeOK'
  BY DEF Inv, TypeOK, Waiting
<1>2. HiddenScoreIsNotShown' /\ NothingOutlivesTheSale'
  BY DEF Inv, TypeOK, HiddenScoreIsNotShown, NothingOutlivesTheSale, IsLive, Seller
<1> QED BY <1>1, <1>2, SellersStay DEF Inv

LEMMA AnswersInv ==
  ASSUME Inv, NEW c \in Calls, OwnerIs(c) \/ CallFails(c)
  PROVE  Inv'
<1> USE DEF OwnerIs, CallFails, titleVars, transfers
<1>1. TypeOK'
  <2>1. calls[c] \in Waiting
    BY DEF Inv, TypeOK
  <2>2. [calls[c] EXCEPT !.answered = TRUE] \in Waiting
    BY <2>1 DEF Waiting
  <2>3. calls' \in [Calls -> Waiting \cup {Idle}]
    BY <2>2 DEF Inv, TypeOK
  <2> QED BY <2>3 DEF Inv, TypeOK, fsbo, showings, offers
<1> QED BY <1>1, SalesUntouched DEF Inv

-----------------------------------------------------------------------------
LEMMA ActivateInv ==
  ASSUME Inv, NEW c \in Calls, NEW scored \in BOOLEAN, ActivateFsboListing(c, scored)
  PROVE  Inv'
<1> USE NobodyIsNoUser DEF ActivateFsboListing, titleVars, showings, offers, transfers
<1> DEFINE h == calls[c].home
           u == calls[c].user
<1>1. calls[c] \in Waiting /\ calls' \in [Calls -> Waiting \cup {Idle}]
  BY Resumed DEF Inv, Kinds, OwnerKinds
<1>2. h \in Homes /\ u \in Users
  BY <1>1 DEF Waiting
<1>3. TypeOK'
  BY <1>1, <1>2 DEF Inv, TypeOK, Listing
<1>4. /\ \A x \in Homes \ {h} : fsboListings'[x] = fsboListings[x] /\ fsboDrafts'[x] = fsboDrafts[x]
      /\ fsboListings'[h] = [homeowner |-> u, scored |-> scored] /\ fsboDrafts'[h] = u
  BY <1>2 DEF Inv, TypeOK
<1>5. \A x \in Homes : x = h => IsLive(x)' /\ Seller(x)' = u
  <2>1. [homeowner |-> u, scored |-> scored] \in Listing
    BY <1>2 DEF Listing
  <2> QED BY <1>4, <2>1, NobodyIsNoListing DEF Seller, IsLive
<1>6. HiddenScoreIsNotShown'
  BY <1>2, <1>4 DEF Inv, HiddenScoreIsNotShown, IsLive, MayShowScore
<1>7. NothingOutlivesTheSale'
  BY <1>2, <1>4, <1>5 DEF Inv, NothingOutlivesTheSale, IsLive, Seller
<1>8. SaleHasOneSeller'
  BY <1>4 DEF Inv, SaleHasOneSeller, IsLive
<1> QED BY <1>3, <1>6, <1>7, <1>8 DEF Inv

(* A setup that is saved is of a home that is not live. *)
LEMMA SaveInv ==
  ASSUME Inv, NEW h \in Homes, NEW u \in Users, ~IsLive(h), fsboDrafts' = [fsboDrafts EXCEPT ![h] = u],
         calls' \in [Calls -> Waiting \cup {Idle}],
         UNCHANGED <<titleVars, fsboListings, scoreHidden, showings, offers, transfers>>
  PROVE  Inv'
<1> USE NobodyIsNoUser DEF titleVars, showings, offers, transfers
<1>1. TypeOK'
  BY DEF Inv, TypeOK
<1>2. HiddenScoreIsNotShown'
  BY DEF Inv, HiddenScoreIsNotShown, IsLive
<1>3. \A x \in Homes : Seller(x)' = Seller(x) \/ (x = h /\ Seller(x)' = u)
  BY DEF Inv, TypeOK, Seller, IsLive
<1>4. NothingOutlivesTheSale'
  BY <1>3 DEF Inv, NothingOutlivesTheSale, IsLive
<1>5. SaleHasOneSeller'
  BY DEF Inv, TypeOK, SaleHasOneSeller, IsLive
<1> QED BY <1>1, <1>2, <1>4, <1>5 DEF Inv

LEMMA DraftsInv ==
  ASSUME Inv, \/ \E c \in Calls : SaveFsboDraft(c)
              \/ \E u \in Users, h \in Homes : SaveAsAdmin(u, h)
  PROVE  Inv'
<1>1. ASSUME NEW c \in Calls, SaveFsboDraft(c) PROVE Inv'
  <2>1. calls[c] \in Waiting /\ calls' \in [Calls -> Waiting \cup {Idle}]
    BY <1>1, Resumed DEF SaveFsboDraft, Inv, Kinds, OwnerKinds
  <2>2. calls[c].home \in Homes /\ calls[c].user \in Users
    BY <2>1 DEF Waiting
  <2>3. CASE MaySave(calls[c].home)
    BY <1>1, <2>1, <2>2, <2>3, SaveInv DEF SaveFsboDraft, MaySave
  <2>4. CASE ~MaySave(calls[c].home)
    <3>1. fsbo' = fsbo
      BY <1>1, <2>4 DEF SaveFsboDraft, fsbo
    <3>2. TypeOK'
      BY <1>1, <2>1, <3>1 DEF SaveFsboDraft, Inv, TypeOK, fsbo, showings, offers, titleVars, transfers
    <3> QED BY <3>1, <3>2, SalesUntouched DEF Inv
  <2> QED BY <2>3, <2>4
<1>2. ASSUME NEW u \in Users, NEW h \in Homes, SaveAsAdmin(u, h) PROVE Inv'
  BY <1>2, SaveInv DEF SaveAsAdmin, MaySave, Inv, TypeOK
<1> QED BY <1>1, <1>2

(* What goes, goes as a whole: deactivation, a discarded setup, a transfer. *)
LEMMA TakeDownInv ==
  ASSUME Inv, NEW h \in Homes,
         DeactivateFsboListing(h) \/ DiscardFsboDraft(h) \/ PropertyTransferred(h)
  PROVE  Inv'
<1> USE DEF DeactivateFsboListing, DiscardFsboDraft, PropertyTransferred, TakeDown, ClearFsboState,
            titleVars, transfers
<1>1. TypeOK'
  <2>1. fsboDrafts' \in [Homes -> Users \cup {Nobody}] /\ scoreHidden' \subseteq Homes
    BY DEF Inv, TypeOK
  <2>2. fsboShowings' \in [Homes -> SUBSET Showings] /\ fsboOffers' \in [Homes -> SUBSET Offers]
    BY DEF Inv, TypeOK
  <2>3. fsboListings' \in [Homes -> Listing \cup {Nobody}] /\ telling' \in [Homes -> Nat]
    BY DEF Inv, TypeOK
  <2> QED BY <2>1, <2>2, <2>3 DEF Inv, TypeOK
<1>2. HiddenScoreIsNotShown'
  BY DEF Inv, TypeOK, HiddenScoreIsNotShown, IsLive
<1>3. NothingOutlivesTheSale'
  BY DEF Inv, TypeOK, NothingOutlivesTheSale, IsLive, Seller
<1>4. SaleHasOneSeller'
  BY DEF Inv, TypeOK, SaleHasOneSeller, IsLive
<1> QED BY <1>1, <1>2, <1>3, <1>4 DEF Inv

-----------------------------------------------------------------------------
LEMMA HideInv ==
  ASSUME Inv, NEW h \in Homes, HideScore(h)
  PROVE  Inv'
<1> USE DEF HideScore, titleVars, showings, offers, transfers
<1>1. fsboListings[h] \in Listing /\ [fsboListings[h] EXCEPT !.scored = FALSE] \in Listing
  BY DEF Inv, TypeOK, IsLive, Listing
<1>2. /\ \A x \in Homes \ {h} : fsboListings'[x] = fsboListings[x]
      /\ fsboListings'[h] \in Listing /\ ~fsboListings'[h].scored
      /\ fsboListings'[h].homeowner = fsboListings[h].homeowner
  BY <1>1 DEF Inv, TypeOK, Listing
<1>3. TypeOK'
  BY <1>1 DEF Inv, TypeOK
<1>4. HiddenScoreIsNotShown'
  BY <1>2 DEF Inv, HiddenScoreIsNotShown, IsLive
<1>5. \A x \in Homes : (IsLive(x)' <=> IsLive(x)) /\ Seller(x)' = Seller(x)
  <2>1. fsboListings'[h] # Nobody /\ fsboListings[h] # Nobody
    BY <1>1, <1>2, NobodyIsNoListing
  <2> QED BY <1>2, <2>1 DEF Seller, IsLive
<1>6. NothingOutlivesTheSale'
  BY <1>5 DEF Inv, NothingOutlivesTheSale
<1>7. SaleHasOneSeller'
  BY <1>2, <1>5 DEF Inv, SaleHasOneSeller
<1> QED BY <1>3, <1>4, <1>6, <1>7 DEF Inv

LEMMA ScoreInv ==
  ASSUME Inv, NEW c \in Calls, NEW scored \in BOOLEAN, ScoreIs(c, scored)
  PROVE  Inv'
<1> USE DEF ScoreIs, titleVars, showings, offers, transfers
<1> DEFINE h == calls[c].home
<1>1. calls[c] \in Waiting /\ calls' \in [Calls -> Waiting \cup {Idle}]
  BY Resumed DEF Inv, Kinds
<1>2. h \in Homes
  BY <1>1 DEF Waiting
<1>3. CASE ~(IsLive(h) /\ MayShowScore(h))
  <2>1. UNCHANGED fsbo
    BY <1>3 DEF fsbo
  <2>2. TypeOK'
    BY <1>1, <2>1 DEF Inv, TypeOK, fsbo
  <2> QED BY <2>1, <2>2, SalesUntouched DEF Inv
<1>4. CASE IsLive(h) /\ MayShowScore(h)
  <2> USE <1>4
  <2>1. fsboListings[h] \in Listing
    BY <1>2 DEF Inv, TypeOK, IsLive
  <2>2. /\ \A x \in Homes \ {h} : fsboListings'[x] = fsboListings[x]
        /\ fsboListings'[h] = [fsboListings[h] EXCEPT !.scored = scored]
    BY <1>2 DEF Inv, TypeOK
  <2>3. fsboListings'[h] \in Listing /\ fsboListings'[h].homeowner = fsboListings[h].homeowner
    BY <2>1, <2>2 DEF Listing
  <2>4. TypeOK'
    BY <1>1, <1>2, <2>1 DEF Inv, TypeOK, Listing
  <2>5. HiddenScoreIsNotShown'
    BY <2>2 DEF Inv, HiddenScoreIsNotShown, IsLive, MayShowScore
  <2>6. \A x \in Homes : (IsLive(x)' <=> IsLive(x)) /\ Seller(x)' = Seller(x)
    BY <2>2, <2>3, NobodyIsNoListing DEF Seller, IsLive
  <2>7. NothingOutlivesTheSale'
    BY <2>6 DEF Inv, NothingOutlivesTheSale
  <2>8. SaleHasOneSeller'
    BY <2>2, <2>3, <2>6 DEF Inv, SaleHasOneSeller
  <2> QED BY <2>4, <2>5, <2>7, <2>8 DEF Inv
<1> QED BY <1>3, <1>4

-----------------------------------------------------------------------------
LEMMA ShowingsInv ==
  ASSUME Inv, NEW c \in Calls, FileShowing(c)
  PROVE  Inv'
<1> USE LimitsAreNatural DEF FileShowing, titleVars, offers, transfers
<1> DEFINE h == calls[c].home
           new == [id |-> filed + 1, by |-> calls[c].user, status |-> "Pending"]
<1>1. calls[c] \in Waiting /\ calls' \in [Calls -> Waiting \cup {Idle}]
  BY Resumed DEF Inv, Kinds
<1>2. h \in Homes /\ calls[c].user \in Users
  BY <1>1 DEF Waiting
<1>3. CASE ~(MayFile(calls[c].user, h) /\ filed < MaxFiled)
  <2>1. UNCHANGED showings
    BY <1>3
  <2>2. TypeOK'
    BY <1>1, <2>1 DEF Inv, TypeOK, showings
  <2> QED BY <2>1, <2>2, SalesUntouched DEF Inv, fsbo
<1>4. CASE MayFile(calls[c].user, h) /\ filed < MaxFiled
  <2>1. IsLive(h) /\ new \in Showings /\ filed' \in 0..MaxFiled
    BY <1>2, <1>4 DEF Inv, TypeOK, MayFile, Showings
  <2>2. fsboShowings' = [fsboShowings EXCEPT ![h] = (IF IsFull(h) THEN @ \ OldestAnswered(h) ELSE @) \cup {new}]
    BY <1>4
  <2>3. fsboShowings' \in [Homes -> SUBSET Showings]
    <3>1. fsboShowings \in [Homes -> SUBSET Showings]
      BY DEF Inv, TypeOK
    <3> HIDE DEF new, h
    <3> QED BY ONLY <1>2, <2>1, <2>2, <3>1
  <2>4. TypeOK'
    BY <1>1, <2>1, <2>3 DEF Inv, TypeOK
  <2>5. HiddenScoreIsNotShown'
    BY DEF Inv, HiddenScoreIsNotShown, IsLive
  <2>6. \A x \in Homes \ {h} : fsboShowings'[x] = fsboShowings[x]
    BY <2>2 DEF Inv, TypeOK
  <2>7. NothingOutlivesTheSale'
    BY <2>1, <2>6, SellersStay DEF Inv, NothingOutlivesTheSale
  <2> QED BY <2>4, <2>5, <2>7, SellersStay DEF Inv
<1> QED BY <1>3, <1>4

(* Answers leave every request on its listing. *)
LEMMA RespondInv ==
  ASSUME Inv, NEW h \in Homes, NEW r \in fsboShowings[h], NEW status \in {"Answered", "Declined"},
         RespondToShowing(h, r, status)
  PROVE  Inv'
<1> USE DEF RespondToShowing, titleVars, offers, transfers
<1>1. TypeOK'
  <2>1. fsboShowings[h] \subseteq Showings /\ [r EXCEPT !.status = status] \in Showings
    BY DEF Inv, TypeOK, Showings
  <2>2. fsboShowings' \in [Homes -> SUBSET Showings]
    BY <2>1 DEF Inv, TypeOK
  <2> QED BY <2>2 DEF Inv, TypeOK
<1>2. HiddenScoreIsNotShown'
  BY DEF Inv, HiddenScoreIsNotShown, IsLive
<1>3. NothingOutlivesTheSale'
  BY DEF Inv, TypeOK, NothingOutlivesTheSale, IsLive, Seller
<1> QED BY <1>1, <1>2, <1>3, SellersStay DEF Inv

LEMMA StoreInv ==
  ASSUME Inv, NEW c \in Calls, StoreOffer(c)
  PROVE  Inv'
<1> USE NobodyIsNoUser, LimitsAreNatural DEF StoreOffer, titleVars, showings, transfers
<1> DEFINE new == [id |-> logged + 1, by |-> calls[c].user, status |-> "Active"]
<1>1. calls[c] \in Waiting /\ calls' \in [Calls -> Waiting \cup {Idle}]
  BY Resumed DEF Inv, Kinds
<1>2. calls[c].home \in Homes /\ calls[c].user \in Users
  BY <1>1 DEF Waiting
<1>3. logged < MaxOffers => new \in Offers
  BY <1>2 DEF Inv, TypeOK, Offers
<1>4. TypeOK'
  <2>1. fsboOffers' \in [Homes -> SUBSET Offers]
    <3>1. fsboOffers \in [Homes -> SUBSET Offers]
      BY DEF Inv, TypeOK
    <3>2. CASE logged < MaxOffers
      <4>1. \/ fsboOffers' = fsboOffers
            \/ fsboOffers' = [fsboOffers EXCEPT ![calls[c].home] = @ \cup {new}]
        BY <3>2 DEF offers
      <4>2. new \in Offers
        BY <1>3, <3>2
      <4> HIDE DEF new
      <4> QED BY ONLY <1>2, <3>1, <4>1, <4>2
    <3>3. CASE ~(logged < MaxOffers)
      BY <3>1, <3>3 DEF offers
    <3> QED BY <3>2, <3>3
  <2>2. logged' \in 0..MaxOffers
    BY DEF Inv, TypeOK, offers
  <2> QED BY <1>1, <2>1, <2>2 DEF Inv, TypeOK
<1>5. HiddenScoreIsNotShown'
  BY DEF Inv, HiddenScoreIsNotShown, IsLive
<1>6. NothingOutlivesTheSale'
  BY <1>2 DEF Inv, TypeOK, NothingOutlivesTheSale, IsLive, Seller, MayLog, offers
<1> QED BY <1>4, <1>5, <1>6, SellersStay DEF Inv

LEMMA DecideInv ==
  ASSUME Inv, NEW h \in Homes, NEW o \in fsboOffers[h], AcceptFsboOffer(h, o) \/ RejectFsboOffer(h, o)
  PROVE  Inv'
<1> USE DEF AcceptFsboOffer, RejectFsboOffer, titleVars, showings, transfers
<1>1. fsboOffers[h] \subseteq Offers
  BY DEF Inv, TypeOK
<1>2. \A x \in fsboOffers[h], s \in {"Active", "Accepted", "Rejected"} : [x EXCEPT !.status = s] \in Offers
  BY <1>1 DEF Offers
<1>3. TypeOK'
  <2>1. fsboOffers' \in [Homes -> SUBSET Offers]
    <3>1. CASE AcceptFsboOffer(h, o)
      <4>1. \A x \in fsboOffers[h] : x.status \in {"Active", "Accepted", "Rejected"}
        BY <1>1 DEF Offers
      <4>2. \A x \in fsboOffers[h] :
              [x EXCEPT !.status = IF x = o THEN "Accepted" ELSE IF @ = "Active" THEN "Rejected" ELSE @]
                \in Offers
        BY <1>2, <4>1
      <4> QED BY <3>1, <4>2 DEF Inv, TypeOK
    <3>2. CASE RejectFsboOffer(h, o)
      BY <1>1, <1>2, <3>2 DEF Inv, TypeOK
    <3> QED BY <3>1, <3>2
  <2> QED BY <2>1 DEF Inv, TypeOK
<1>4. HiddenScoreIsNotShown'
  BY DEF Inv, HiddenScoreIsNotShown, IsLive
<1>5. NothingOutlivesTheSale'
  BY DEF Inv, TypeOK, NothingOutlivesTheSale, IsLive, Seller
<1> QED BY <1>3, <1>4, <1>5, SellersStay DEF Inv

LEMMA DeleteInv ==
  ASSUME Inv, NEW u \in Users, DeleteMyData(u)
  PROVE  Inv'
<1> USE NobodyIsNoUser, LimitsAreNatural DEF DeleteMyData, titleVars, transfers
<1>1. TypeOK'
  BY DEF Inv, TypeOK
<1>2. HiddenScoreIsNotShown'
  BY DEF Inv, TypeOK, HiddenScoreIsNotShown, IsLive
<1>3. NothingOutlivesTheSale'
  <2> SUFFICES ASSUME NEW h \in Homes
               PROVE  /\ ~IsLive(h)' => fsboShowings'[h] = {}
                      /\ Seller(h)' = Nobody => fsboOffers'[h] = {}
    BY DEF NothingOutlivesTheSale
  <2>1. ~IsLive(h)' => fsboShowings'[h] = {}
    BY DEF Inv, NothingOutlivesTheSale, IsLive
  <2>2. Seller(h)' = Nobody => fsboOffers'[h] = {}
    BY DEF Inv, NothingOutlivesTheSale, Seller, IsLive
  <2> QED BY <2>1, <2>2
<1>4. SaleHasOneSeller'
  BY DEF Inv, TypeOK, SaleHasOneSeller, IsLive
<1> QED BY <1>1, <1>2, <1>3, <1>4 DEF Inv

-----------------------------------------------------------------------------
LEMMA NextInv == Inv /\ [Next]_vars => Inv'
<1> SUFFICES ASSUME Inv, [Next]_vars PROVE Inv'
  OBVIOUS
<1>1. CASE OwnerActs \/ \E u \in Users, h \in Homes : ChangesHands(u, h)
  BY <1>1, TitlesInv
<1>2. ASSUME NEW u \in Users, NEW h \in Homes, SaveAsAdmin(u, h) PROVE Inv'
  BY <1>2, DraftsInv
<1>3. ASSUME NEW c \in Calls, NEW u \in Users, NEW h \in Homes,
             RequestShowing(c, u, h) \/ \E k \in OwnerKinds : AskOwner(c, k, u, h)
      PROVE  Inv'
  <2>1. CASE RequestShowing(c, u, h)
    BY <2>1, BeginsInv DEF RequestShowing, Kinds, OwnerKinds, fsbo, showings, offers
  <2>2. ASSUME NEW k \in OwnerKinds, AskOwner(c, k, u, h) PROVE Inv'
    <3>1. k \in Kinds
      BY DEF Kinds
    <3> QED BY <2>2, <3>1, BeginsInv DEF AskOwner, fsbo, showings, offers, transfers
  <2> QED BY <1>3, <2>1, <2>2
<1>4. ASSUME NEW c \in Calls, NEW h \in Homes, AskScore(c, h) PROVE Inv'
  <2>1. fsboListings[h].homeowner \in Users
    BY <1>4 DEF AskScore, Inv, TypeOK, IsLive, Listing
  <2> QED BY <1>4, <2>1, BeginsInv DEF AskScore, Kinds, OwnerKinds
<1>5. ASSUME NEW c \in Calls, NEW h \in Homes, LogFsboOffer(c, h) PROVE Inv'
  <2>1. Seller(h) \in Users
    BY <1>5 DEF LogFsboOffer, Inv, TypeOK, Seller, IsLive, Listing
  <2> QED BY <1>5, <2>1, BeginsInv DEF LogFsboOffer, Kinds, OwnerKinds, fsbo, showings, offers
<1>6. ASSUME NEW c \in Calls,
             OwnerIs(c) \/ CallFails(c) \/ SaveFsboDraft(c) \/ FileShowing(c) \/ StoreOffer(c)
      PROVE  Inv'
  BY <1>6, AnswersInv, DraftsInv, ShowingsInv, StoreInv
<1>7. ASSUME NEW c \in Calls, NEW scored \in BOOLEAN, ActivateFsboListing(c, scored) \/ ScoreIs(c, scored)
      PROVE  Inv'
  BY <1>7, ActivateInv, ScoreInv
<1>8. ASSUME NEW h \in Homes,
             DeactivateFsboListing(h) \/ DiscardFsboDraft(h) \/ PropertyTransferred(h) \/ HideScore(h)
      PROVE  Inv'
  BY <1>8, TakeDownInv, HideInv
<1>9. ASSUME NEW h \in Homes, NEW o \in fsboOffers[h], AcceptFsboOffer(h, o) \/ RejectFsboOffer(h, o)
      PROVE  Inv'
  BY <1>9, DecideInv
<1>10. ASSUME NEW u \in Users, DeleteMyData(u) PROVE Inv'
  BY <1>10, DeleteInv
<1>11. ASSUME NEW h \in Homes, NEW r \in fsboShowings[h], NEW status \in {"Answered", "Declined"},
              RespondToShowing(h, r, status)
       PROVE  Inv'
  BY <1>11, RespondInv
<1>12. CASE UNCHANGED vars
  <2>1. TypeOK'
    BY <1>12 DEF vars, titleVars, sales, fsbo, showings, offers, transfers, Inv, TypeOK
  <2> QED BY <1>12, <2>1, SalesUntouched DEF Inv, vars, sales
<1> QED BY <1>1, <1>2, <1>3, <1>4, <1>5, <1>6, <1>7, <1>8, <1>9, <1>10, <1>11, <1>12 DEF Next

THEOREM SpecInv == Spec => []Inv
BY InitInv, NextInv, PTL DEF Spec

(* The types of listings, setups, showings, offers and waiting calls. *)
THEOREM TypeCorrect == Spec => []TypeOK
BY SpecInv, PTL DEF Inv

(* A score its seller hid is not shown, however many calls that would show *)
(* it (setFsboScoreVisible, activateFsboListing) are under way.            *)
THEOREM HiddenScoreStaysHidden == Spec => []HiddenScoreIsNotShown
BY SpecInv, PTL DEF Inv

(* No request for a showing and no offer is left of a sale that is over,   *)
(* whichever way it ended (clearFsboState) and whatever was still waiting. *)
THEOREM SalesLeaveNothing == Spec => []NothingOutlivesTheSale
BY SpecInv, PTL DEF Inv

(* Whatever setups are saved late or by administrators, a live listing and  *)
(* its setup have one seller (saveFsboDraft, activateFsboListing): what one  *)
(* user takes down or deletes is his own sale.                               *)
THEOREM OneSellerEach == Spec => []SaleHasOneSeller
BY SpecInv, PTL DEF Inv

(* What the listing canister does never touches a title: the homes of      *)
(* ForSale behave as Title says.                                           *)
THEOREM KeepsTitles == Spec => TitleSpec
<1>1. Init => TitleInit
  BY DEF Init
<1>2. [Next]_vars => [TitleNext]_titleVars
  <2> SUFFICES ASSUME [Next]_vars PROVE [TitleNext]_titleVars
    OBVIOUS
  <2>1. CASE OwnerActs
    BY <2>1 DEF OwnerActs, TitleNext
  <2>2. ASSUME NEW u \in Users, NEW h \in Homes, ChangesHands(u, h) PROVE TitleNext
    BY <2>2 DEF ChangesHands, TitleNext
  <2>3. CASE UNCHANGED titleVars
    BY <2>3
  <2> QED BY <2>1, <2>2, <2>3 DEF Next, vars, RespondToShowing, SaveAsAdmin, RequestShowing, AskOwner, AskScore,
       LogFsboOffer, OwnerIs, CallFails, SaveFsboDraft, FileShowing, StoreOffer, ActivateFsboListing,
       ScoreIs, DeactivateFsboListing, DiscardFsboDraft, PropertyTransferred, HideScore,
       AcceptFsboOffer, RejectFsboOffer, DeleteMyData
<1> QED BY <1>1, <1>2, PTL DEF Spec, TitleSpec

-----------------------------------------------------------------------------
(* Relay. *)
PassRecord ==
  [pc : {"idle", "next", "sent", "again", "events", "notify"},
   flush : SUBSET LeadAlerts, ready : SUBSET LeadAlerts, alert : LeadAlerts \cup {None},
   left : SUBSET Canisters, page : SUBSET UNION {EventsOf(c) : c \in Canisters},
   full : BOOLEAN, todo : SUBSET Notices]

Total ==
  /\ latest = [c \in Canisters |-> latest[c]] /\ outbox = [c \in Canisters |-> outbox[c]]
  /\ age = [c \in Canisters |-> age[c]] /\ cursor = [c \in Canisters |-> cursor[c]]
  /\ first = [c \in Canisters |-> first[c]] /\ unasked = [c \in Canisters |-> unasked[c]]

Types == RelayTypeOK /\ Total

(* One pass at most is under way; what it flushes is held, and it is at an *)
(* outbox whose cursor is known once it reads pages.                       *)
OnePass == \A p, q \in Passes : pass[p].pc # "idle" /\ pass[q].pc # "idle" => p = q

Flushing(p) ==
  /\ pass[p].flush \cup pass[p].ready \subseteq held /\ pass[p].flush \cap pass[p].ready = {}
  /\ pass[p].pc = "sent" =>
       /\ pass[p].alert \in held \ (pass[p].flush \cup pass[p].ready)
       /\ sent[pass[p].alert] > 0

Reading(p) ==
  /\ pass[p].pc = "idle" => pass[p] = Asleep
  /\ pass[p].pc # "idle" => pass[p].left # {} /\ pass[p].page \subseteq EventsOf(At(p))
  /\ pass[p].pc \notin {"events", "notify"} => pass[p].page = {}
  /\ pass[p].pc # "notify" => pass[p].todo = {}
  /\ pass[p].pc = "notify" => pass[p].page # {}
  /\ pass[p].pc \in {"again", "events", "notify"} =>
       pass[p].flush = {} /\ pass[p].ready = {} /\ cursor[At(p)] # None

Telling(p) ==
  pass[p].pc = "notify" =>
    /\ \A n, m \in pass[p].todo : n.to = m.to => n = m
    /\ \A n \in pass[p].todo : n.late => IsLead(Oldest(pass[p].page))

(* What the file keeps waits, or was sent when the file could not be written. *)
KeptOrSent == \A a \in saved : a \in held \/ sent[a] > 0

Shape == OnePass /\ KeptOrSent /\ \A p \in Passes : Flushing(p) /\ Reading(p) /\ Telling(p)

(* An event is left to the next pass; what counts as a crash. *)
Leaves(p) == LookUpFails(p) \/ NotSaved(p)
Faulty == Crash \/ \E p \in Passes : NotSaved(p) \/ DropNotSaved(p)

-----------------------------------------------------------------------------
(* The oldest event of a page is one of it. *)
LEMMA OldestOfPage ==
  ASSUME NEW page, page # {}, \A e \in page : e.seq \in Nat
  PROVE  Oldest(page) \in page /\ \A e \in page : Oldest(page).seq <= e.seq
<1> DEFINE S == {e.seq : e \in page}
           R == {nm \in Nat \X Nat : nm[1] < nm[2]}
<1>1. S # {} /\ S \subseteq Nat
  OBVIOUS
<1>2. IsWellFoundedOn(R, Nat)
  BY NatLessThanWellFounded, Zenon DEF OpToRel
<1>3. PICK n \in S : \A m \in S : ~(<<m, n>> \in R)
  <2> HIDE DEF R, S
  <2> QED BY <1>1, <1>2, WFMin
<1>4. ASSUME NEW m \in S PROVE n <= m
  <2>1. m \in Nat /\ n \in Nat
    BY <1>1
  <2>2. m < n => <<m, n>> \in R
    BY <2>1
  <2> HIDE DEF R, S
  <2> QED BY <1>3, <2>1, <2>2
<1>5. PICK e \in page : e.seq = n
  BY <1>3
<1>6. \A x \in page : e.seq <= x.seq
  BY <1>4, <1>5
<1> QED BY <1>5, <1>6 DEF Oldest

(* A page holds the events of the outbox after the cursor, the oldest first. *)
LEMMA PageIsOldest ==
  ASSUME NEW c \in Canisters, NEW n \in Nat, IsFiniteSet(outbox[c]), \A e \in outbox[c] : e.seq \in Nat
  PROVE  /\ PageAfter(c, n) \subseteq outbox[c] /\ \A e \in PageAfter(c, n) : e.seq > n
         /\ \A e \in PageAfter(c, n), x \in outbox[c] : n < x.seq /\ x.seq <= e.seq => x \in PageAfter(c, n)
<1> DEFINE new == {e \in outbox[c] : e.seq > n}
           older(e) == {x \in new : x.seq < e.seq}
<1>1. PageAfter(c, n) = {e \in new : Cardinality(older(e)) < PageSize}
  BY DEF PageAfter
<1>2. \A e : IsFiniteSet(older(e)) /\ Cardinality(older(e)) \in Nat
  BY FS_Subset, FS_CardinalityType
<1>3. ASSUME NEW e \in PageAfter(c, n), NEW x \in outbox[c], n < x.seq, x.seq <= e.seq
      PROVE  x \in PageAfter(c, n)
  <2>1. x \in new /\ e \in new
    BY <1>1, <1>3
  <2>2. older(x) \subseteq older(e)
    BY <1>3, <2>1
  <2>3. Cardinality(older(x)) <= Cardinality(older(e))
    BY <1>2, <2>2, FS_Subset
  <2>4. Cardinality(older(e)) < PageSize
    BY <1>1
  <2> HIDE DEF older
  <2>5. Cardinality(older(x)) < PageSize
    BY <1>2, <2>3, <2>4, RelayLimits
  <2> QED BY <1>1, <2>1, <2>5
<1> QED BY <1>1, <1>3

LEMMA KindsOfThings ==
  ASSUME Types
  PROVE  /\ pass \in [Passes -> PassRecord] /\ sent \in [Alerts -> Nat] /\ stale \in [Canisters -> BOOLEAN]
         /\ held \subseteq LeadAlerts /\ saved \subseteq LeadAlerts /\ due \subseteq LeadAlerts
         /\ closed \subseteq Keys /\ crashes \in Nat /\ crashes \in 0..MaxFaults
         /\ \A c \in Canisters :
              /\ MaxSeq[c] \in Nat /\ MaxReinstalls[c] \in Nat
              /\ latest[c] \in Nat /\ age[c] \in Nat /\ first[c] \in Nat /\ cursor[c] \in Nat \cup {None}
              /\ outbox[c] \subseteq EventsOf(c) /\ unasked[c] \subseteq EventsOf(c)
              /\ \A e \in EventsOf(c) : /\ e.seq \in Nat /\ e.age \in Nat /\ e.seq > 0
                                         /\ e.to \in Told[c] /\ e.about \in Reviewed[c]
BY RelayLimits DEF Types, RelayTypeOK, PassRecord, EventsOf

LEMMA KindsOfAlerts ==
  /\ LeadAlerts \subseteq Alerts
  /\ \A a \in Alerts : /\ a.canister \in Canisters /\ a.seq \in Nat /\ a.age \in Nat /\ a.to \in Recipients
                       /\ a = [canister |-> a.canister, seq |-> a.seq, age |-> a.age, to |-> a.to]
  /\ \A c \in Canisters : \A e \in EventsOf(c) :
       /\ \A u \in Recipients : Alert(c, e, u) \in Alerts /\ (IsLead(e) => Alert(c, e, u) \in LeadAlerts)
       /\ IsLead(e) => <<c, e.seq, e.age>> \in Keys
<1> USE RelayLimits, EventsTellUsers DEF AlertsOf, EventsOf
<1>1. LeadAlerts \subseteq Alerts
  BY DEF LeadAlerts, Alerts, Leads
<1>2. \A a \in Alerts : /\ a.canister \in Canisters /\ a.seq \in Nat /\ a.age \in Nat /\ a.to \in Recipients
                        /\ a = [canister |-> a.canister, seq |-> a.seq, age |-> a.age, to |-> a.to]
  BY DEF Alerts
<1>3. ASSUME NEW c \in Canisters, NEW e \in EventsOf(c)
      PROVE  /\ \A u \in Recipients : Alert(c, e, u) \in AlertsOf(c)
             /\ IsLead(e) => c \in Leads /\ <<c, e.seq, e.age>> \in {c} \X (1..MaxSeq[c]) \X (0..MaxReinstalls[c])
  BY <1>3 DEF Alert, Leads, IsLead
<1> HIDE DEF AlertsOf, EventsOf
<1>4. \A c \in Canisters : \A e \in EventsOf(c) : \A u \in Recipients :
        Alert(c, e, u) \in Alerts /\ (IsLead(e) => Alert(c, e, u) \in LeadAlerts)
  <2> SUFFICES ASSUME NEW c \in Canisters, NEW e \in EventsOf(c), NEW u \in Recipients
               PROVE  Alert(c, e, u) \in Alerts /\ (IsLead(e) => Alert(c, e, u) \in LeadAlerts)
    OBVIOUS
  <2>1. Alert(c, e, u) \in AlertsOf(c) /\ (IsLead(e) => c \in Leads)
    BY <1>3
  <2> QED BY <2>1, Zenon DEF Alerts, LeadAlerts
<1>5. \A c \in Canisters : \A e \in EventsOf(c) : IsLead(e) => <<c, e.seq, e.age>> \in Keys
  BY <1>3 DEF Keys
<1> QED BY <1>1, <1>2, <1>4, <1>5

(* The pass that is under way is at an outbox; the others are asleep. *)
LEMMA UnderWay ==
  ASSUME Types, Shape, NEW p \in Passes, pass[p].pc # "idle"
  PROVE  /\ At(p) \in Canisters /\ At(p) \in pass[p].left
         /\ \A q \in Passes : q # p => pass[q] = Asleep
BY DEF Types, RelayTypeOK, Shape, OnePass, Reading, At

LEMMA OldestIsEvent ==
  ASSUME Types, Shape, NEW p \in Passes, pass[p].page # {}
  PROVE  /\ Oldest(pass[p].page) \in pass[p].page /\ Oldest(pass[p].page) \in EventsOf(At(p))
         /\ \A e \in pass[p].page : Oldest(pass[p].page).seq <= e.seq
<1>1. pass[p].pc # "idle" /\ pass[p].page \subseteq EventsOf(At(p))
  BY DEF Shape, Reading, Asleep
<1>2. At(p) \in Canisters
  BY <1>1, UnderWay
<1>3. \A e \in pass[p].page : e.seq \in Nat
  BY <1>1, <1>2, KindsOfThings
<1> QED BY <1>1, <1>3, OldestOfPage

(* A step of a pass leaves the others asleep. *)
LEMMA OthersSleep ==
  ASSUME Types, Shape, NEW p \in Passes, Flushes(p) \/ Reads(p) \/ Handles(p)
  PROVE  /\ pass[p].pc # "idle" /\ pass' = [q \in Passes |-> IF q = p THEN pass'[p] ELSE pass[q]]
         /\ \A q \in Passes : q # p => pass[q] = Asleep /\ pass'[q] = Asleep
<1>1. pass[p].pc # "idle"
  BY DEF Flushes, Reads, Handles, RequestAnswers, RequestFails, SendHeld, DropHeld, DropNotSaved, ReadOutbox, OutboxFails, Flushed,
         ReadPage, PageFails, WantsPage, OutboxDone, LookUp, Leaves, LookUpFails, NotSaved, Hold, Deliver, Handled
<1>2. pass \in [Passes -> PassRecord]
  BY KindsOfThings
<1>3. pass' = [q \in Passes |-> IF q = p THEN pass'[p] ELSE pass[q]]
  <2>1. CASE Flushes(p)
    BY <1>2, <2>1 DEF Flushes, RequestAnswers, RequestFails, SendHeld, DropHeld, DropNotSaved
  <2>2. CASE Reads(p)
    BY <1>2, <2>2 DEF Reads, ReadOutbox, OutboxFails, ReadPage, PageFails, OutboxDone
  <2>3. CASE Handles(p)
    BY <1>2, <2>3 DEF Handles, LookUp, Leaves, LookUpFails, NotSaved, Hold, Deliver, Handled
  <2> QED BY <2>1, <2>2, <2>3
<1> QED BY <1>1, <1>3, UnderWay

-----------------------------------------------------------------------------
(* Types. *)
BoxTypes ==
  /\ \A c \in Canisters : /\ latest[c] \in 0..MaxSeq[c] /\ outbox[c] \subseteq EventsOf(c)
                          /\ age[c] \in 0..MaxReinstalls[c]
  /\ latest = [c \in Canisters |-> latest[c]] /\ outbox = [c \in Canisters |-> outbox[c]]
  /\ age = [c \in Canisters |-> age[c]] /\ closed \subseteq Keys
ReadingTypes ==
  /\ \A c \in Canisters : cursor[c] \in (0..MaxSeq[c]) \cup {None} /\ first[c] \in 0..MaxSeq[c]
  /\ cursor = [c \in Canisters |-> cursor[c]] /\ first = [c \in Canisters |-> first[c]]
  /\ stale \in [Canisters -> BOOLEAN]
AlertTypes ==
  /\ held \subseteq LeadAlerts /\ saved \subseteq LeadAlerts /\ due \subseteq LeadAlerts
  /\ crashes \in 0..MaxFaults /\ sent \in [Alerts -> Nat]
  /\ \A c \in Canisters : unasked[c] \subseteq EventsOf(c)
  /\ unasked = [c \in Canisters |-> unasked[c]]

LEMMA TypesInParts ==
  Types <=> BoxTypes /\ ReadingTypes /\ AlertTypes /\ pass \in [Passes -> PassRecord]
BY DEF Types, RelayTypeOK, Total, BoxTypes, ReadingTypes, AlertTypes, PassRecord

LEMMA BoxesType ==
  ASSUME Types, [RelayNext]_relayVars PROVE BoxTypes'
<1> USE DEF relayVars, canister, memory, reading
<1>1. BoxTypes /\ Types
  BY TypesInParts
<1>2. ASSUME NEW c \in Canisters, NEW to, NEW about, Record(c, to, about) PROVE BoxTypes'
  <2> DEFINE e == [seq |-> latest[c] + 1, age |-> age[c], to |-> to, about |-> about]
  <2>1. latest[c] + 1 \in 1..MaxSeq[c] /\ latest[c] + 1 \in 0..MaxSeq[c]
    BY <1>1, <1>2, RelayLimits DEF Record, BoxTypes
  <2>2. e \in EventsOf(c)
    BY <1>1, <1>2, <2>1 DEF Record, BoxTypes, EventsOf
  <2>3. Newest(outbox[c] \cup {e}) \subseteq EventsOf(c)
    BY <1>1, <2>2 DEF Newest, BoxTypes
  <2>4. outbox' = [outbox EXCEPT ![c] = Newest(outbox[c] \cup {e})]
    BY <1>2 DEF Record
  <2> HIDE DEF e
  <2> QED BY <1>1, <1>2, <2>1, <2>3, <2>4 DEF Record, BoxTypes
<1>3. ASSUME NEW c \in Canisters, NEW e, CloseRequest(c, e) PROVE BoxTypes'
  <2>1. <<c, e.seq, e.age>> \in Keys
    BY <1>1, <1>3, KindsOfAlerts DEF CloseRequest, BoxTypes
  <2> QED BY <1>1, <1>3, <2>1 DEF CloseRequest, BoxTypes
<1>4. ASSUME NEW c \in Canisters, Reinstall(c) PROVE BoxTypes'
  <2>1. age[c] + 1 \in 0..MaxReinstalls[c] /\ 0 \in 0..MaxSeq[c]
    BY <1>1, <1>4, RelayLimits DEF Reinstall, BoxTypes
  <2> QED BY <1>1, <1>4, <2>1 DEF Reinstall, BoxTypes
<1>5. CASE UNCHANGED canister
  BY <1>1, <1>5 DEF BoxTypes
<1>6. \/ UNCHANGED canister
      \/ \E c \in Canisters : Reinstall(c) \/ (\E to, about : Record(c, to, about)) \/ \E e : CloseRequest(c, e)
  <2>1. ASSUME NEW p \in Passes, Flushes(p) \/ Reads(p) \/ Handles(p) PROVE UNCHANGED canister
    <3>1. CASE Flushes(p)
      BY <3>1 DEF Flushes, RequestAnswers, RequestFails, SendHeld, DropHeld, DropNotSaved
    <3>2. CASE Reads(p)
      BY <3>2 DEF Reads, ReadOutbox, OutboxFails, ReadPage, PageFails, OutboxDone
    <3>3. CASE Handles(p)
      BY <3>3 DEF Handles, LookUp, Leaves, LookUpFails, NotSaved, Hold, Deliver, Handled
    <3> QED BY <2>1, <3>1, <3>2, <3>3
  <2>2. CASE OtherSave \/ Crash \/ StartPass \/ \E a \in LeadAlerts : DelayEnds(a)
    BY <2>2 DEF DelayEnds, StartPass, OtherSave, Crash
  <2> QED BY <2>1, <2>2 DEF RelayNext
<1> QED BY <1>2, <1>3, <1>4, <1>5, <1>6

LEMMA ReadingType ==
  ASSUME Types, Shape, [RelayNext]_relayVars PROVE ReadingTypes'
<1> USE DEF relayVars, canister, memory, reading
<1>1. ReadingTypes /\ Types /\ BoxTypes
  BY TypesInParts
<1>2. ASSUME NEW c \in Canisters, Reinstall(c) PROVE ReadingTypes'
  BY <1>1, <1>2 DEF Reinstall, ReadingTypes
<1>3. ASSUME NEW p \in Passes, ReadOutbox(p) PROVE ReadingTypes'
  <2>1. At(p) \in Canisters /\ latest[At(p)] \in 0..MaxSeq[At(p)] /\ 0 \in 0..MaxSeq[At(p)]
    BY <1>1, <1>3, UnderWay, RelayLimits DEF ReadOutbox, Flushed, BoxTypes
  <2> QED BY <1>1, <1>3, <2>1 DEF ReadOutbox, ReadingTypes
<1>4. ASSUME NEW p \in Passes, Handled(p) PROVE ReadingTypes'
  <2>1. At(p) \in Canisters /\ pass[p].page # {}
    BY <1>4, UnderWay DEF Handled, Shape, Reading
  <2>2. Oldest(pass[p].page).seq \in 0..MaxSeq[At(p)]
    BY <2>1, OldestIsEvent, KindsOfThings DEF EventsOf
  <2> QED BY <1>1, <1>4, <2>1, <2>2 DEF Handled, ReadingTypes
<1>5. CASE UNCHANGED reading
  BY <1>1, <1>5 DEF ReadingTypes
<1>6. \/ UNCHANGED reading \/ (\E c \in Canisters : Reinstall(c))
      \/ \E p \in Passes : ReadOutbox(p) \/ Handled(p)
  <2>1. ASSUME NEW p \in Passes, Flushes(p) \/ Reads(p) \/ Handles(p)
        PROVE  UNCHANGED reading \/ ReadOutbox(p) \/ Handled(p)
    <3>1. CASE Flushes(p)
      BY <3>1 DEF Flushes, RequestAnswers, RequestFails, SendHeld, DropHeld, DropNotSaved
    <3>2. CASE Reads(p)
      BY <3>2 DEF Reads, OutboxFails, ReadPage, PageFails, OutboxDone
    <3>3. CASE Handles(p)
      BY <3>3 DEF Handles, LookUp, Leaves, LookUpFails, NotSaved, Hold, Deliver
    <3> QED BY <2>1, <3>1, <3>2, <3>3
  <2>2. CASE OtherSave \/ Crash \/ StartPass \/ \E a \in LeadAlerts : DelayEnds(a)
    BY <2>2 DEF DelayEnds, StartPass, OtherSave, Crash
  <2>3. ASSUME NEW c \in Canisters, \/ \E to, about : Record(c, to, about)
                                    \/ \E e : CloseRequest(c, e)
        PROVE  UNCHANGED reading
    BY <2>3 DEF Record, CloseRequest
  <2> QED BY <2>1, <2>2, <2>3 DEF RelayNext
<1> QED BY <1>2, <1>3, <1>4, <1>5, <1>6

LEMMA AlertsType ==
  ASSUME Types, Shape, [RelayNext]_relayVars PROVE AlertTypes'
<1> USE DEF relayVars, canister, memory, reading
<1>1. AlertTypes /\ Types /\ BoxTypes
  BY TypesInParts
<1>2. ASSUME NEW a \in LeadAlerts, DelayEnds(a) PROVE AlertTypes'
  BY <1>1, <1>2 DEF DelayEnds, AlertTypes
<1>3. CASE OtherSave
  BY <1>1, <1>3 DEF OtherSave, AlertTypes
<1>4. Faults < MaxFaults => crashes + 1 \in 0..MaxFaults
  <2> SUFFICES ASSUME Faults < MaxFaults PROVE crashes + 1 \in 0..MaxFaults
    OBVIOUS
  <2> DEFINE K == UNION {{c} \X (1..age[c]) : c \in Canisters}
  <2>1. IsFiniteSet(K)
    <3> DEFINE S == {{c} \X (1..age[c]) : c \in Canisters}
    <3>1. IsFiniteSet(S)
      <4> DEFINE f == [c \in Canisters |-> {c} \X (1..age[c])]
      <4>1. f \in Surjection(Canisters, S)
        BY DEF Surjection
      <4> QED BY <4>1, CanistersArePolled, FS_Surjection
    <3>2. \A T \in S : IsFiniteSet(T)
      <4> SUFFICES ASSUME NEW c \in Canisters PROVE IsFiniteSet({c} \X (1..age[c]))
        OBVIOUS
      <4>1. IsFiniteSet({c}) /\ IsFiniteSet(1..age[c])
        <5>1. age[c] \in Int /\ 1 \in Int
          BY <1>1, KindsOfThings
        <5> QED BY <5>1, FS_Interval, FS_Singleton
      <4> QED BY <4>1, FS_Product
    <3> QED BY <3>1, <3>2, FS_UNION
  <2>2. Cardinality(K) \in Nat
    BY <2>1, FS_CardinalityType
  <2>3. crashes + Cardinality(K) < MaxFaults
    BY DEF Faults
  <2> HIDE DEF K
  <2> QED BY <1>1, <2>2, <2>3, RelayLimits DEF AlertTypes
<1>5. CASE Faulty
  <2>1. crashes' \in 0..MaxFaults /\ UNCHANGED <<saved, due, sent, unasked>> /\ (held' \subseteq held \/ held' = saved)
    BY <1>4, <1>5 DEF Faulty, Crash, NotSaved, DropNotSaved
  <2> QED BY <1>1, <2>1 DEF AlertTypes
<1>6. ASSUME NEW p \in Passes, NEW n, Hold(p, n), n \in Notices PROVE AlertTypes'
  <2> DEFINE a == Alert(At(p), Oldest(pass[p].page), n.to)
  <2>1. pass[p].page # {} /\ IsLead(Oldest(pass[p].page)) /\ pass[p].pc # "idle"
    BY <1>6 DEF Hold, Shape, Reading, Telling
  <2>2. a \in LeadAlerts
    BY <1>6, <2>1, UnderWay, OldestIsEvent, KindsOfAlerts DEF Notices
  <2>3. (held' = held \/ held' = held \cup {a}) /\ (due' = due \/ due' = due \ {a})
    BY <1>6 DEF Hold
  <2> HIDE DEF a
  <2> QED BY <1>1, <1>6, <2>2, <2>3 DEF Hold, AlertTypes
<1>7. ASSUME NEW p \in Passes, Flushes(p) \/ Handled(p) \/ \E n : Deliver(p, n) PROVE AlertTypes'
  <2>1. CASE Flushes(p) /\ ~DropNotSaved(p)
    <3>1. /\ UNCHANGED <<crashes, due, unasked>>
          /\ sent' = sent \/ \E a : sent' = [sent EXCEPT ![a] = @ + 1]
          /\ held' \subseteq held
          /\ saved' = saved \/ saved' = held'
      BY <2>1 DEF Flushes, RequestAnswers, RequestFails, SendHeld, DropHeld
    <3>2. sent' \in [Alerts -> Nat]
      BY <1>1, <3>1 DEF AlertTypes
    <3>3. held' \subseteq LeadAlerts /\ saved' \subseteq LeadAlerts
      BY <1>1, <3>1 DEF AlertTypes
    <3> QED BY <1>1, <3>1, <3>2, <3>3 DEF AlertTypes
  <2>2. CASE Handled(p) \/ \E n : Deliver(p, n)
    BY <1>1, <2>2 DEF Handled, Deliver, AlertTypes
  <2> QED BY <1>5, <1>7, <2>1, <2>2 DEF Faulty
<1>8. ASSUME NEW p \in Passes, NEW pro, LookUp(p, pro) PROVE AlertTypes'
  <2> DEFINE e == Oldest(pass[p].page)
             S == {x \in {e} : PassedOver(x, pro)}
  <2>1. At(p) \in Canisters /\ e \in EventsOf(At(p))
    BY <1>8, UnderWay, OldestIsEvent DEF LookUp
  <2>2. unasked' = [unasked EXCEPT ![At(p)] = @ \cup S] /\ UNCHANGED <<held, saved, due, crashes, sent>>
    BY <1>8 DEF LookUp
  <2>3. S \subseteq EventsOf(At(p))
    BY <2>1
  <2> HIDE DEF S
  <2> QED BY <1>1, <2>1, <2>2, <2>3 DEF AlertTypes
<1>9. CASE UNCHANGED <<held, saved, due, crashes, unasked, sent>>
  BY <1>1, <1>9 DEF AlertTypes
<1>10. \/ UNCHANGED <<held, saved, due, crashes, unasked, sent>> \/ OtherSave \/ Faulty
       \/ \E a \in LeadAlerts : DelayEnds(a)
       \/ \E p \in Passes : \/ Flushes(p) \/ Handled(p)
                            \/ \E pro : LookUp(p, pro)
                            \/ \E n \in Notices : Hold(p, n) \/ Deliver(p, n)
  <2>1. ASSUME NEW p \in Passes, Reads(p) \/ LookUpFails(p) PROVE UNCHANGED <<held, saved, due, crashes, unasked, sent>>
    BY <2>1 DEF Reads, ReadOutbox, OutboxFails, ReadPage, PageFails, OutboxDone, LookUpFails
  <2>2. ASSUME NEW p \in Passes, Handles(p) PROVE <1>10!:
    BY <2>1, <2>2 DEF Handles, Faulty
  <2> QED BY <2>1, <2>2 DEF RelayNext, Record, CloseRequest, Reinstall, StartPass, Faulty
<1> QED BY <1>2, <1>3, <1>5, <1>6, <1>7, <1>8, <1>9, <1>10

LEMMA AsleepType == Asleep \in PassRecord
BY DEF Asleep, PassRecord

(* The next outbox, when there is one, is read from the start. *)
LEMMA NextOutboxType ==
  ASSUME Types, NEW p \in Passes
  PROVE  /\ NextOutbox(p) \in PassRecord
         /\ \/ NextOutbox(p) = Asleep
            \/ /\ NextOutbox(p).pc = "next" /\ NextOutbox(p).left # {}
               /\ NextOutbox(p).flush = {} /\ NextOutbox(p).ready = {} /\ NextOutbox(p).page = {}
               /\ NextOutbox(p).todo = {}
<1>1. pass[p].left \subseteq Canisters
  BY KindsOfThings DEF PassRecord
<1> QED BY <1>1 DEF NextOutbox, Asleep, PassRecord

(* An event is told to all it is for, each once, or its request is closed. *)
LEMMA NoticesType ==
  ASSUME NEW c \in Canisters, NEW e, e.to \in Told[c], e.about \in Reviewed[c], NEW pro
  PROVE  /\ NoticesOf(c, e, pro) \subseteq Notices /\ \A n \in NoticesOf(c, e, pro) : n.late => IsLead(e)
         /\ \A n, m \in NoticesOf(c, e, pro) : n.to = m.to => n = m
         /\ \/ \A u \in Audience(e) : \E n \in NoticesOf(c, e, pro) : n.to = u
            \/ IsLead(e) /\ (<<c, e.seq, e.age>> \in closed \/ e.age # age[c])
            \/ PassedOver(e, pro)
<1>0. CASE ~IsLead(e) /\ PassedOver(e, pro)
  BY <1>0 DEF NoticesOf
<1>1. CASE ~IsLead(e) /\ ~PassedOver(e, pro)
  <2>1. NoticesOf(c, e, pro) = {[to |-> e.to, late |-> FALSE]} /\ Audience(e) = {e.to}
    BY <1>1 DEF NoticesOf, Audience
  <2>2. e.to \in Recipients
    BY <1>1, EventsTellUsers DEF IsLead
  <2> QED BY <1>1, <2>1, <2>2 DEF Notices
<1>2. CASE IsLead(e) /\ NoticesOf(c, e, pro) = {}
  <2>1. \A u \in Recipients : {[to |-> v, late |-> v \notin pro] : v \in Recipients} # {}
    OBVIOUS
  <2> QED BY <1>2, <2>1 DEF NoticesOf, Audience
<1>3. CASE IsLead(e) /\ NoticesOf(c, e, pro) # {}
  <2> DEFINE told == {[to |-> u, late |-> u \notin pro] : u \in Recipients}
  <2>1. NoticesOf(c, e, pro) = told /\ Audience(e) = Recipients
    BY <1>3 DEF NoticesOf, Audience
  <2>2. told \subseteq Notices
    <3> SUFFICES ASSUME NEW u \in Recipients PROVE [to |-> u, late |-> u \notin pro] \in Notices
      OBVIOUS
    <3>1. (u \notin pro) \in BOOLEAN
      OBVIOUS
    <3> QED BY <3>1 DEF Notices
  <2>3. \A n, m \in told : n.to = m.to => n = m
    <3> SUFFICES ASSUME NEW n \in told, NEW m \in told, n.to = m.to PROVE n = m
      OBVIOUS
    <3>1. PICK u \in Recipients : n = [to |-> u, late |-> u \notin pro]
      OBVIOUS
    <3>2. PICK v \in Recipients : m = [to |-> v, late |-> v \notin pro]
      OBVIOUS
    <3>3. u = v
      BY <3>1, <3>2
    <3> QED BY <3>1, <3>2, <3>3
  <2>4. ASSUME NEW u \in Recipients PROVE \E n \in told : n.to = u
    <3>1. [to |-> u, late |-> u \notin pro] \in told /\ [to |-> u, late |-> u \notin pro].to = u
      OBVIOUS
    <3> QED BY <3>1
  <2> HIDE DEF told
  <2> QED BY <1>3, <2>1, <2>2, <2>3, <2>4
<1> QED BY <1>0, <1>1, <1>2, <1>3

LEMMA PassType ==
  ASSUME Types, Shape, [RelayNext]_relayVars PROVE pass' \in [Passes -> PassRecord]
<1> USE DEF relayVars, canister, memory, reading
<1>1. pass \in [Passes -> PassRecord] /\ \A c \in Canisters : outbox[c] \subseteq EventsOf(c)
  BY KindsOfThings
<1>2. ASSUME NEW p \in Passes, pass'[p] \in PassRecord, Flushes(p) \/ Reads(p) \/ Handles(p)
      PROVE  pass' \in [Passes -> PassRecord]
  BY <1>1, <1>2, OthersSleep
<1>3. ASSUME NEW p \in Passes, Flushes(p) PROVE pass'[p] \in PassRecord
  <2>1. pass[p] \in PassRecord
    BY <1>1
  <2>2. CASE \E k \in Keys : RequestAnswers(p, k) \/ RequestFails(p, k)
    BY <1>1, <2>1, <2>2 DEF RequestAnswers, RequestFails, Of, PassRecord
  <2>3. CASE DropHeld(p) \/ DropNotSaved(p)
    BY <1>1, <2>1, <2>3 DEF DropHeld, DropNotSaved, PassRecord
  <2>4. ASSUME NEW a \in LeadAlerts, SendHeld(p, a) PROVE pass'[p] \in PassRecord
    <3>1. pass'[p] = [pass[p] EXCEPT !.pc = "sent", !.alert = a, !.ready = @ \ {a}]
      BY <1>1, <2>4 DEF SendHeld
    <3>2. pass[p].ready \ {a} \subseteq LeadAlerts
      BY <2>1 DEF PassRecord
    <3> QED BY <2>1, <3>1, <3>2 DEF PassRecord
  <2> QED BY <1>3, <2>2, <2>3, <2>4 DEF Flushes
<1>4. ASSUME NEW p \in Passes, Reads(p) \/ Leaves(p) PROVE pass'[p] \in PassRecord
  <2>1. pass[p] \in PassRecord /\ NextOutbox(p) \in PassRecord
    BY <1>1, NextOutboxType
  <2>2. At(p) \in Canisters
    BY <1>4, UnderWay, OthersSleep DEF Handles, Leaves
  <2>3. Handling(p, PageAfter(At(p), cursor[At(p)])) \in PassRecord
    <3>1. PageAfter(At(p), cursor[At(p)]) \subseteq UNION {EventsOf(c) : c \in Canisters}
      BY <1>1, <2>2 DEF PageAfter
    <3> QED BY <2>1, <3>1 DEF Handling, PassRecord
  <2>4. pass'[p] \in {NextOutbox(p), Handling(p, PageAfter(At(p), cursor[At(p)])), [pass[p] EXCEPT !.pc = "again"]}
    BY <1>1, <1>4 DEF Reads, ReadOutbox, OutboxFails, ReadPage, PageFails, OutboxDone, Abandon, Leaves, LookUpFails, NotSaved
  <2>5. [pass[p] EXCEPT !.pc = "again"] \in PassRecord
    BY <2>1 DEF PassRecord
  <2> QED BY <2>1, <2>3, <2>4, <2>5
<1>5. ASSUME NEW p \in Passes, NEW pro, LookUp(p, pro) PROVE pass'[p] \in PassRecord
  <2>1. pass[p] \in PassRecord
    BY <1>1
  <2>2. pass[p].page # {} /\ pass[p].pc # "idle"
    BY <1>5 DEF LookUp
  <2>3. Oldest(pass[p].page).to \in Told[At(p)] /\ Oldest(pass[p].page).about \in Reviewed[At(p)] /\ At(p) \in Canisters
    BY <2>2, OldestIsEvent, UnderWay, KindsOfThings
  <2>4. NoticesOf(At(p), Oldest(pass[p].page), pro) \subseteq Notices
    BY <2>3, NoticesType
  <2> QED BY <1>1, <1>5, <2>1, <2>4 DEF LookUp, PassRecord
<1>6. ASSUME NEW p \in Passes, Handled(p) \/ \E n \in Notices : Hold(p, n) \/ Deliver(p, n)
      PROVE  pass'[p] \in PassRecord
  BY <1>1, <1>6 DEF Handled, Hold, Deliver, PassRecord
<1>7. CASE StartPass
  <2> DEFINE p == CHOOSE x \in Passes : pass[x].pc = "idle"
  <2>1. p \in Passes
    BY <1>7 DEF StartPass
  <2>2. pass' = [pass EXCEPT ![p].pc = "next", ![p].flush = held \cap due, ![p].left = Canisters]
    BY <1>7 DEF StartPass
  <2>3. held \cap due \subseteq LeadAlerts
    BY KindsOfThings
  <2> HIDE DEF p
  <2>4. pass[p] \in PassRecord /\ Canisters \in SUBSET Canisters
    BY <1>1, <2>1
  <2>5. [pass[p] EXCEPT !.pc = "next", !.flush = held \cap due, !.left = Canisters] \in PassRecord
    BY <2>3, <2>4 DEF PassRecord
  <2>6. pass' = [pass EXCEPT ![p] = [pass[p] EXCEPT !.pc = "next", !.flush = held \cap due, !.left = Canisters]]
    BY <1>1, <2>1, <2>2
  <2> QED BY <1>1, <2>5, <2>6
<1>8. CASE Crash
  BY <1>8, AsleepType DEF Crash
<1>9. CASE UNCHANGED pass
  BY <1>1, <1>9
<1>10. \/ UNCHANGED pass \/ Crash \/ StartPass
       \/ \E p \in Passes : Flushes(p) \/ Reads(p) \/ Handles(p)
  BY DEF RelayNext, Record, CloseRequest, Reinstall, DelayEnds, OtherSave
<1> QED BY <1>2, <1>3, <1>4, <1>5, <1>6, <1>7, <1>8, <1>9, <1>10 DEF Handles, Leaves

LEMMA TypesNext == ASSUME Types, Shape, [RelayNext]_relayVars PROVE Types'
<1>1. BoxTypes' /\ ReadingTypes' /\ AlertTypes' /\ pass' \in [Passes -> PassRecord]
  BY BoxesType, ReadingType, AlertsType, PassType
<1>2. (BoxTypes /\ ReadingTypes /\ AlertTypes /\ pass \in [Passes -> PassRecord] => Types)'
  BY TypesInParts, PTL
<1> QED BY <1>1, <1>2

-----------------------------------------------------------------------------
(* What the steps of a pass do to it. *)
LEMMA FlushMoves ==
  ASSUME Types, Shape, NEW p \in Passes, Flushes(p)
  PROVE  /\ UNCHANGED <<canister, reading>>
         /\ pass[p].page = {} /\ pass[p].todo = {} /\ pass[p].pc \in {"next", "sent"}
         /\ pass'[p].page = {} /\ pass'[p].todo = {} /\ pass'[p].pc \in {"next", "sent"}
         /\ pass'[p].left = pass[p].left /\ At(p)' = At(p)
<1> USE DEF canister, reading
<1>1. pass \in [Passes -> PassRecord]
  BY KindsOfThings
<1>2. pass[p].pc \in {"next", "sent"} /\ UNCHANGED <<canister, reading>>
  BY DEF Flushes, RequestAnswers, RequestFails, SendHeld, DropHeld, DropNotSaved
<1>3. pass[p].page = {} /\ pass[p].todo = {}
  BY <1>2 DEF Shape, Reading
<1>4. /\ pass'[p].page = pass[p].page /\ pass'[p].todo = pass[p].todo /\ pass'[p].pc \in {"next", "sent"}
      /\ pass'[p].left = pass[p].left
  <2>1. ASSUME NEW k, RequestAnswers(p, k) \/ RequestFails(p, k) PROVE <1>4!:
    BY <1>1, <2>1 DEF PassRecord, RequestAnswers, RequestFails
  <2>2. ASSUME NEW a, SendHeld(p, a) PROVE <1>4!:
    BY <1>1, <2>2 DEF PassRecord, SendHeld
  <2>3. CASE DropHeld(p) \/ DropNotSaved(p)
    BY <1>1, <2>3 DEF PassRecord, DropHeld, DropNotSaved
  <2> QED BY <2>1, <2>2, <2>3 DEF Flushes
<1> QED BY <1>2, <1>3, <1>4 DEF At

LEMMA ReadMoves ==
  ASSUME Types, Shape, NEW p \in Passes, Reads(p) \/ Leaves(p)
  PROVE  /\ UNCHANGED <<canister, held, saved, due, sent>>
         /\ NotSaved(p) \/ UNCHANGED crashes
         /\ pass[p].flush = {} /\ pass[p].ready = {} /\ pass[p].todo = {}
         /\ pass[p].pc \in {"next", "again", "events"} \/ NotSaved(p)
         /\ \/ pass'[p] = NextOutbox(p)
            \/ /\ pass'[p] = [pass[p] EXCEPT !.pc = "again"] /\ pass[p].page = {} /\ pass[p].todo = {}
               /\ cursor'[At(p)] = 0
            \/ /\ pass'[p] = Handling(p, PageAfter(At(p), cursor[At(p)])) /\ pass[p].todo = {}
               /\ UNCHANGED reading /\ cursor[At(p)] # None
<1> USE DEF canister, reading
<1>1. pass \in [Passes -> PassRecord]
  BY KindsOfThings
<1>2. /\ UNCHANGED <<canister, held, saved, due, sent>> /\ (NotSaved(p) \/ UNCHANGED crashes)
      /\ pass[p].pc \in {"next", "again", "events"} \/ NotSaved(p)
  BY DEF Reads, ReadOutbox, OutboxFails, ReadPage, PageFails, OutboxDone, Leaves, LookUpFails, NotSaved, Flushed, WantsPage
<1>3. pass[p].flush = {} /\ pass[p].ready = {} /\ pass[p].todo = {}
  <2>1. CASE Flushed(p)
    BY <2>1 DEF Flushed, Shape, Reading
  <2>2. CASE pass[p].pc \in {"again", "events"} \/ NotSaved(p)
    BY <2>2 DEF NotSaved, Shape, Reading
  <2> QED BY <2>1, <2>2 DEF Reads, ReadOutbox, OutboxFails, ReadPage, PageFails, OutboxDone, Leaves, LookUpFails, NotSaved, WantsPage
<1>4. CASE OutboxFails(p) \/ PageFails(p) \/ OutboxDone(p) \/ Leaves(p)
  BY <1>1, <1>2, <1>3, <1>4 DEF OutboxFails, PageFails, OutboxDone, Leaves, LookUpFails, NotSaved, Abandon
<1>5. CASE ReadPage(p)
  <2>1. pass[p].pc \in {"again", "events"}
    BY <1>5 DEF ReadPage, WantsPage
  <2>2. cursor[At(p)] # None
    BY <2>1 DEF Shape, Reading
  <2> QED BY <1>1, <1>2, <1>3, <1>5, <2>2 DEF ReadPage
<1>6. CASE ReadOutbox(p)
  <2>1. At(p) \in Canisters /\ pass[p].page = {} /\ pass[p].pc = "next"
    BY <1>6, UnderWay DEF ReadOutbox, Flushed, Shape, Reading
  <2>2. \A n : [cursor EXCEPT ![At(p)] = n][At(p)] = n
    BY <2>1 DEF Types, Total
  <2> QED BY <1>1, <1>2, <1>3, <1>6, <2>1, <2>2 DEF ReadOutbox
<1> QED BY <1>4, <1>5, <1>6 DEF Reads

LEMMA HandleMoves ==
  ASSUME Types, Shape, NEW p \in Passes
  PROVE  /\ \A pro : LookUp(p, pro) =>
              /\ pass[p].page # {} /\ pass[p].pc = "events"
              /\ pass'[p].pc = "notify" /\ pass'[p].page = pass[p].page
              /\ pass'[p].todo = NoticesOf(At(p), Oldest(pass[p].page), pro)
              /\ PassedOver(Oldest(pass[p].page), pro) => Oldest(pass[p].page) \in unasked'[At(p)]
              /\ UNCHANGED <<canister, reading, held, saved, due, crashes, sent>>
         /\ \A n : Hold(p, n) \/ Deliver(p, n) =>
              /\ pass[p].page # {} /\ pass[p].pc = "notify" /\ n \in pass[p].todo
              /\ pass'[p].pc = "notify" /\ pass'[p].page = pass[p].page /\ pass'[p].todo = pass[p].todo \ {n}
              /\ UNCHANGED <<canister, reading, saved, crashes>>
         /\ Handled(p) =>
              /\ pass[p].page # {} /\ pass[p].pc = "notify" /\ pass[p].todo = {}
              /\ pass'[p].pc = "events" /\ pass'[p].page = pass[p].page \ {Oldest(pass[p].page)}
              /\ pass'[p].todo = {}
              /\ UNCHANGED <<canister, first, held, due, crashes, sent>>
         /\ Handles(p) /\ ~Leaves(p) =>
              /\ pass[p].flush = {} /\ pass[p].ready = {} /\ pass'[p].flush = {} /\ pass'[p].ready = {}
              /\ pass'[p].left = pass[p].left /\ At(p)' = At(p)
<1> USE DEF canister, reading
<1>1. pass \in [Passes -> PassRecord]
  BY KindsOfThings
<1>2. ASSUME NEW pro, LookUp(p, pro)
      PROVE  /\ pass[p].page # {} /\ pass[p].pc = "events"
             /\ pass'[p].pc = "notify" /\ pass'[p].page = pass[p].page
             /\ pass'[p].todo = NoticesOf(At(p), Oldest(pass[p].page), pro)
             /\ PassedOver(Oldest(pass[p].page), pro) => Oldest(pass[p].page) \in unasked'[At(p)]
             /\ UNCHANGED <<canister, reading, held, saved, due, crashes, sent>>
             /\ pass'[p].flush = pass[p].flush /\ pass'[p].ready = pass[p].ready /\ pass'[p].left = pass[p].left
  <2>1. At(p) \in Canisters /\ unasked = [b \in Canisters |-> unasked[b]]
    BY <1>2, UnderWay DEF LookUp, Types, Total
  <2> QED BY <1>1, <1>2, <2>1 DEF LookUp, PassRecord
<1>3. ASSUME NEW n, Hold(p, n) \/ Deliver(p, n)
      PROVE  /\ pass[p].page # {} /\ pass[p].pc = "notify" /\ n \in pass[p].todo
             /\ pass'[p].pc = "notify" /\ pass'[p].page = pass[p].page /\ pass'[p].todo = pass[p].todo \ {n}
             /\ UNCHANGED <<canister, reading, saved, crashes>>
             /\ pass'[p].flush = pass[p].flush /\ pass'[p].ready = pass[p].ready /\ pass'[p].left = pass[p].left
  <2>1. /\ pass[p].pc = "notify" /\ n \in pass[p].todo /\ pass' = [pass EXCEPT ![p].todo = @ \ {n}]
        /\ UNCHANGED <<canister, reading, saved, crashes>>
    BY <1>3 DEF Hold, Deliver
  <2> QED BY <1>1, <2>1 DEF PassRecord, Shape, Reading
<1>4. ASSUME Handled(p)
      PROVE  /\ pass[p].page # {} /\ pass[p].pc = "notify" /\ pass[p].todo = {}
             /\ pass'[p].pc = "events" /\ pass'[p].page = pass[p].page \ {Oldest(pass[p].page)}
             /\ pass'[p].todo = {}
             /\ UNCHANGED <<canister, first, held, due, crashes, sent>>
             /\ pass'[p].flush = pass[p].flush /\ pass'[p].ready = pass[p].ready /\ pass'[p].left = pass[p].left
  <2>1. /\ pass[p].pc = "notify" /\ pass[p].todo = {}
        /\ pass' = [pass EXCEPT ![p].pc = "events", ![p].page = @ \ {Oldest(pass[p].page)}]
        /\ UNCHANGED <<canister, first, held, due, crashes, sent>>
    BY <1>4 DEF Handled
  <2> QED BY <1>1, <2>1 DEF PassRecord, Shape, Reading
<1>5. pass[p].pc \in {"events", "notify"} => pass[p].flush = {} /\ pass[p].ready = {}
  BY DEF Shape, Reading
<1>6. pass'[p].left = pass[p].left => At(p)' = At(p)
  BY DEF At
<1>7. Handles(p) /\ ~Leaves(p) =>
        /\ pass[p].flush = {} /\ pass[p].ready = {} /\ pass'[p].flush = {} /\ pass'[p].ready = {}
        /\ pass'[p].left = pass[p].left /\ At(p)' = At(p)
  BY <1>2, <1>3, <1>4, <1>5, <1>6 DEF Handles, Leaves
<1> QED BY <1>2, <1>3, <1>4, <1>7

-----------------------------------------------------------------------------
(* What a pass is like. *)
LEMMA AsleepIsFine ==
  ASSUME NEW p \in Passes, pass'[p] = Asleep
  PROVE  Flushing(p)' /\ Reading(p)' /\ Telling(p)'
BY DEF Asleep, Flushing, Reading, Telling

LEMMA OnePassMoves ==
  ASSUME Types, Shape, NEW p \in Passes, Flushes(p) \/ Reads(p) \/ Handles(p),
         KeptOrSent', Flushing(p)', Reading(p)', Telling(p)'
  PROVE  Shape'
<1>1. \A q \in Passes : q # p => pass'[q] = Asleep
  BY OthersSleep
<1>2. \A q \in Passes : Flushing(q)' /\ Reading(q)' /\ Telling(q)'
  BY <1>1, AsleepIsFine
<1>3. OnePass'
  BY <1>1 DEF OnePass, Asleep
<1> QED BY <1>2, <1>3 DEF Shape

LEMMA FlushShape ==
  ASSUME Types, Shape, NEW p \in Passes, Flushes(p) PROVE Shape'
<1>1. /\ pass \in [Passes -> PassRecord] /\ sent \in [Alerts -> Nat]
      /\ held \subseteq Alerts /\ pass[p].left # {}
  BY KindsOfThings, KindsOfAlerts, FlushMoves DEF Shape, Reading
<1>2. Telling(p)' /\ Reading(p)'
  BY <1>1, FlushMoves DEF Reading, Telling
<1>3. Flushing(p)
  BY DEF Shape
<1>4. saved \subseteq LeadAlerts /\ \A a \in saved : a \in held \/ sent[a] > 0
  BY KindsOfThings DEF Shape, KeptOrSent
<1>5. KeptOrSent' /\ Flushing(p)'
  <2>1. ASSUME NEW k, RequestAnswers(p, k) PROVE <1>5!:
    <3>1. CASE k \notin closed /\ k[3] = age[k[1]]
      <4>1. /\ pass'[p].ready = Of(p, k) /\ pass'[p].flush = pass[p].flush \ Of(p, k) /\ pass'[p].pc = "next"
            /\ UNCHANGED <<held, saved, sent>>
        BY <1>1, <2>1, <3>1 DEF RequestAnswers, PassRecord
      <4> QED BY <1>3, <1>4, <4>1 DEF Of, Flushing, KeptOrSent
    <3>2. CASE ~(k \notin closed /\ k[3] = age[k[1]])
      <4>1. /\ pass'[p].ready = {} /\ pass'[p].flush = pass[p].flush \ Of(p, k) /\ pass'[p].pc = "next"
            /\ held' = held \ Of(p, k) /\ saved' = held'
        BY <1>1, <2>1, <3>2 DEF RequestAnswers, PassRecord
      <4> QED BY <1>3, <4>1 DEF Of, Flushing, KeptOrSent
    <3> QED BY <3>1, <3>2
  <2>2. ASSUME NEW k, RequestFails(p, k) PROVE <1>5!:
    <3>1. /\ pass'[p].ready = {} /\ pass'[p].flush = pass[p].flush \ Of(p, k) /\ pass'[p].pc = "next"
          /\ UNCHANGED <<held, saved, sent>>
      BY <1>1, <2>2 DEF RequestFails, PassRecord
    <3> QED BY <1>3, <1>4, <3>1 DEF Of, Flushing, KeptOrSent
  <2>3. ASSUME NEW a \in LeadAlerts, SendHeld(p, a) PROVE <1>5!:
    <3>1. /\ pass'[p].ready = pass[p].ready \ {a} /\ pass'[p].flush = pass[p].flush /\ pass'[p].alert = a
          /\ UNCHANGED <<held, saved>> /\ a \in pass[p].ready
      BY <1>1, <2>3 DEF SendHeld, PassRecord
    <3>2. a \in Alerts /\ sent'[a] = sent[a] + 1 /\ sent[a] \in Nat
      BY <1>1, <1>3, <2>3, <3>1 DEF SendHeld, Flushing
    <3>3. \A b \in saved : b \in held' \/ sent'[b] > 0
      BY <1>1, <1>4, <2>3, <3>1, <3>2, KindsOfAlerts DEF SendHeld
    <3>4. Flushing(p)'
      BY <1>3, <3>1, <3>2 DEF Flushing
    <3> QED BY <3>1, <3>3, <3>4 DEF KeptOrSent
  <2>4. CASE DropHeld(p)
    <3>1. /\ pass'[p].ready = pass[p].ready /\ pass'[p].flush = pass[p].flush /\ pass'[p].pc = "next"
          /\ held' = held \ {pass[p].alert} /\ saved' = held' /\ pass[p].pc = "sent"
      BY <1>1, <2>4 DEF DropHeld, PassRecord
    <3> QED BY <1>3, <3>1 DEF Flushing, KeptOrSent
  <2>5. CASE DropNotSaved(p)
    <3>1. /\ pass'[p].ready = pass[p].ready /\ pass'[p].flush = pass[p].flush /\ pass'[p].pc = "next"
          /\ held' = held \ {pass[p].alert} /\ UNCHANGED <<saved, sent>> /\ pass[p].pc = "sent"
      BY <1>1, <2>5 DEF DropNotSaved, PassRecord
    <3> QED BY <1>3, <1>4, <3>1 DEF Flushing, KeptOrSent
  <2> QED BY <2>1, <2>2, <2>3, <2>4, <2>5 DEF Flushes
<1> QED BY <1>2, <1>5, OnePassMoves

LEMMA ReadShape ==
  ASSUME Types, Shape, NEW p \in Passes, Reads(p) \/ Leaves(p) PROVE Shape'
<1>0. pass[p].pc # "idle"
  BY OthersSleep DEF Handles, Leaves
<1>1. /\ pass \in [Passes -> PassRecord] /\ KeptOrSent /\ pass[p].left # {} /\ pass[p].pc # "idle"
      /\ pass[p].left = pass[p].left /\ At(p) \in Canisters
  BY <1>0, KindsOfThings, UnderWay DEF Shape, Reading
<1>2. UNCHANGED <<canister, held, saved, due, sent>> /\ pass[p].flush = {} /\ pass[p].ready = {}
  BY ReadMoves
<1>3. pass'[p] = [pass[p] EXCEPT !.pc = "again"] \/ pass'[p] = Handling(p, PageAfter(At(p), cursor[At(p)]))
        => /\ pass'[p].flush = {} /\ pass'[p].ready = {} /\ pass'[p].left = pass[p].left
           /\ pass'[p].todo = pass[p].todo /\ pass'[p].pc \in {"again", "events"}
           /\ At(p)' = At(p)
  BY <1>1, <1>2 DEF Handling, PassRecord, At
<1>4. Flushing(p)' /\ Telling(p)' /\ Reading(p)'
  <2>1. CASE pass'[p] = NextOutbox(p)
    <3>1. CASE pass'[p] = Asleep
      BY <3>1, AsleepIsFine
    <3>2. CASE pass'[p] # Asleep
      BY <2>1, <3>2, NextOutboxType DEF Flushing, Telling, Reading
    <3> QED BY <3>1, <3>2
  <2>2. CASE /\ pass'[p] = [pass[p] EXCEPT !.pc = "again"] /\ pass[p].page = {} /\ pass[p].todo = {}
             /\ cursor'[At(p)] = 0
    <3>1. pass'[p].page = {} /\ pass'[p].pc = "again"
      BY <1>1, <2>2 DEF PassRecord
    <3> QED BY <1>1, <1>3, <2>2, <3>1, NoneIsApart DEF Flushing, Telling, Reading
  <2>3. CASE /\ pass'[p] = Handling(p, PageAfter(At(p), cursor[At(p)])) /\ pass[p].todo = {}
             /\ UNCHANGED reading /\ cursor[At(p)] # None
    <3>1. pass'[p].page = PageAfter(At(p), cursor[At(p)]) /\ pass'[p].pc = "events"
      BY <1>1, <2>3 DEF Handling, PassRecord
    <3>2. PageAfter(At(p), cursor[At(p)]) \subseteq EventsOf(At(p))
      BY <1>1, KindsOfThings DEF PageAfter
    <3> QED BY <1>1, <1>3, <2>3, <3>1, <3>2 DEF Flushing, Telling, Reading, reading
  <2> QED BY <2>1, <2>2, <2>3, ReadMoves
<1>5. KeptOrSent'
  BY <1>1, <1>2 DEF KeptOrSent
<1> QED BY <1>4, <1>5, OnePassMoves DEF Handles, Leaves

LEMMA HandleShape ==
  ASSUME Types, Shape, NEW p \in Passes, Handles(p), ~Leaves(p) PROVE Shape'
<1>1. /\ KeptOrSent /\ sent \in [Alerts -> Nat] /\ saved \subseteq Alerts /\ Reading(p) /\ Telling(p) /\ pass'[p].flush = {} /\ pass'[p].ready = {}
      /\ pass'[p].left = pass[p].left /\ At(p)' = At(p)
  BY HandleMoves, KindsOfThings, KindsOfAlerts DEF Shape
<1>2. ASSUME NEW pro, LookUp(p, pro) PROVE KeptOrSent' /\ Flushing(p)' /\ Reading(p)' /\ Telling(p)'
  <2>1. /\ pass[p].page # {} /\ pass[p].pc = "events"
        /\ pass'[p].pc = "notify" /\ pass'[p].page = pass[p].page
        /\ pass'[p].todo = NoticesOf(At(p), Oldest(pass[p].page), pro)
        /\ UNCHANGED <<held, saved, sent, cursor>>
    BY <1>2, HandleMoves DEF reading
  <2>2. /\ Oldest(pass[p].page).to \in Told[At(p)] /\ Oldest(pass[p].page).about \in Reviewed[At(p)]
        /\ At(p) \in Canisters
    BY <2>1, OldestIsEvent, UnderWay, KindsOfThings
  <2>3. /\ \A n \in NoticesOf(At(p), Oldest(pass[p].page), pro) : n.late => IsLead(Oldest(pass[p].page))
        /\ \A n, m \in NoticesOf(At(p), Oldest(pass[p].page), pro) : n.to = m.to => n = m
    BY <2>2, NoticesType
  <2>4. Telling(p)'
    BY <2>1, <2>3 DEF Telling
  <2> QED BY <1>1, <2>1, <2>4 DEF Flushing, Reading, KeptOrSent
<1>3. ASSUME NEW n, Hold(p, n) \/ Deliver(p, n)
      PROVE  KeptOrSent' /\ Flushing(p)' /\ Reading(p)' /\ Telling(p)'
  <2>1. /\ pass[p].page # {} /\ pass[p].pc = "notify" /\ n \in pass[p].todo
        /\ pass'[p].pc = "notify" /\ pass'[p].page = pass[p].page /\ pass'[p].todo = pass[p].todo \ {n}
        /\ UNCHANGED <<saved, cursor>>
    BY <1>3, HandleMoves DEF reading
  <2>2. held \subseteq held' /\ (UNCHANGED sent \/ \E b : sent' = [sent EXCEPT ![b] = @ + 1])
    BY <1>3 DEF Hold, Deliver
  <2>4. KeptOrSent'
    BY <1>1, <2>1, <2>2 DEF KeptOrSent
  <2>3. Telling(p)'
    BY <1>1, <2>1 DEF Telling
  <2> QED BY <1>1, <2>1, <2>2, <2>3, <2>4 DEF Flushing, Reading
<1>4. ASSUME Handled(p) PROVE KeptOrSent' /\ Flushing(p)' /\ Reading(p)' /\ Telling(p)'
  <2>1. /\ pass[p].page # {} /\ pass[p].pc = "notify"
        /\ pass'[p].pc = "events" /\ pass'[p].page = pass[p].page \ {Oldest(pass[p].page)}
        /\ pass'[p].todo = {} /\ held' = held /\ saved' = held
    BY <1>4, HandleMoves DEF Handled
  <2>2. cursor'[At(p)] = Oldest(pass[p].page).seq /\ Oldest(pass[p].page).seq \in Nat
    BY <1>4, <2>1, OldestIsEvent, UnderWay, KindsOfThings DEF Handled, Types, Total
  <2> QED BY <1>1, <2>1, <2>2, NoneIsApart DEF Flushing, Reading, Telling, KeptOrSent
<1> QED BY <1>1, <1>2, <1>3, <1>4, OnePassMoves DEF Handles, Leaves

LEMMA ShapeNext == ASSUME Types, Shape, [RelayNext]_relayVars PROVE Shape'
<1> USE DEF relayVars, canister, memory, reading
<1>1. pass \in [Passes -> PassRecord]
  BY KindsOfThings
<1>2. ASSUME UNCHANGED <<pass, held, sent, cursor>>, KeptOrSent' PROVE Shape'
  BY <1>2 DEF Shape, OnePass, Flushing, Reading, Telling, At
<1>3. CASE StartPass
  <2>1. /\ \A q \in Passes : pass[q] = Asleep
        /\ \E p \in Passes : pass' = [pass EXCEPT ![p].pc = "next", ![p].flush = held \cap due, ![p].left = Canisters]
    BY <1>3 DEF StartPass, MayStart, Shape, Reading
  <2>2. PICK p \in Passes : pass' = [pass EXCEPT ![p].pc = "next", ![p].flush = held \cap due, ![p].left = Canisters]
    BY <2>1
  <2>3. /\ \A q \in Passes : q # p => pass'[q] = Asleep
        /\ pass'[p].pc = "next" /\ pass'[p].flush = held \cap due /\ pass'[p].left = Canisters
        /\ pass'[p].ready = {} /\ pass'[p].page = {} /\ pass'[p].todo = {}
    <3>1. \A q \in Passes : q # p => pass'[q] = Asleep
      BY <1>1, <2>1, <2>2
    <3>2. pass'[p] = [Asleep EXCEPT !.pc = "next", !.flush = held \cap due, !.left = Canisters]
      BY <1>1, <2>1, <2>2
    <3> QED BY <3>1, <3>2 DEF Asleep
  <2>4. UNCHANGED <<held, saved>> /\ KeptOrSent'
    BY <1>3 DEF StartPass, Shape, KeptOrSent
  <2>5. Flushing(p)' /\ Reading(p)' /\ Telling(p)'
    BY <2>3, <2>4, CanistersArePolled DEF Flushing, Reading, Telling
  <2>6. ASSUME NEW q \in Passes PROVE Flushing(q)' /\ Reading(q)' /\ Telling(q)'
    BY <2>3, <2>5, AsleepIsFine
  <2>7. OnePass'
    BY <2>3 DEF OnePass, Asleep
  <2> QED BY <2>4, <2>6, <2>7 DEF Shape
<1>4. CASE Crash
  <2>1. \A q \in Passes : pass'[q] = Asleep
    BY <1>4 DEF Crash
  <2>2. KeptOrSent' /\ OnePass'
    BY <1>4, <2>1 DEF Crash, OnePass, Asleep, KeptOrSent
  <2> QED BY <2>1, <2>2, AsleepIsFine DEF Shape
<1>5. ASSUME NEW p \in Passes, Flushes(p) \/ Reads(p) \/ Handles(p) PROVE Shape'
  BY <1>5, FlushShape, ReadShape, HandleShape
<1>6. \/ UNCHANGED <<pass, held, sent, cursor>> /\ KeptOrSent'
      \/ StartPass \/ Crash \/ \E p \in Passes : Flushes(p) \/ Reads(p) \/ Handles(p)
  BY DEF RelayNext, Record, CloseRequest, Reinstall, DelayEnds, OtherSave, Shape, KeptOrSent
<1> QED BY <1>2, <1>3, <1>4, <1>5, <1>6

-----------------------------------------------------------------------------
(* Outboxes hold events of now, each number once; the cursor is within what *)
(* was recorded unless it is known to be stale.                             *)
Boxes ==
  \A c \in Canisters :
    /\ IsFiniteSet(outbox[c])
    /\ \A e \in outbox[c] : e.age = age[c] /\ e.seq <= latest[c]
    /\ \A e, x \in outbox[c] : e.seq = x.seq => e = x
    /\ ~stale[c] /\ cursor[c] # None => cursor[c] <= latest[c]

(* A page is of one age and ahead of the cursor; while the canister is still *)
(* of that age, no event the outbox keeps is missing in it.                  *)
Page(c, page) ==
  /\ \A e \in page : e.age <= age[c] /\ e.seq > cursor[c]
  /\ \A e, x \in page : e.age = x.age /\ (e.seq = x.seq => e = x)
  /\ \A e \in page : e.age = age[c] =>
       /\ e.seq <= latest[c]
       /\ \A x \in outbox[c] : cursor[c] < x.seq /\ x.seq <= e.seq => x \in page

Pages == \A p \in Passes : pass[p].page # {} => Page(At(p), pass[p].page)

LEMMA RecordAdds ==
  ASSUME Types, Boxes, NEW c \in Canisters, NEW to, NEW about, Record(c, to, about)
  PROVE  /\ latest' = [latest EXCEPT ![c] = latest[c] + 1]
         /\ \A b \in Canisters : b # c => outbox'[b] = outbox[b] /\ latest'[b] = latest[b]
         /\ latest'[c] = latest[c] + 1
         /\ outbox'[c] \subseteq outbox[c] \cup {[seq |-> latest[c] + 1, age |-> age[c], to |-> to, about |-> about]}
         /\ IsFiniteSet(outbox'[c])
<1> DEFINE e == [seq |-> latest[c] + 1, age |-> age[c], to |-> to, about |-> about]
<1>1. outbox'[c] = Newest(outbox[c] \cup {e}) /\ \A b \in Canisters : b # c => outbox'[b] = outbox[b]
  BY DEF Record, Types, Total
<1>2. outbox'[c] \subseteq outbox[c] \cup {e}
  BY <1>1 DEF Newest
<1>3. IsFiniteSet(outbox[c] \cup {e})
  BY FS_AddElement DEF Boxes
<1>4. IsFiniteSet(outbox'[c])
  BY <1>2, <1>3, FS_Subset
<1>5. latest'[c] = latest[c] + 1 /\ \A b \in Canisters : b # c => latest'[b] = latest[b]
  BY DEF Record, Types, Total
<1> QED BY <1>1, <1>2, <1>4, <1>5 DEF Record

LEMMA ReinstallEmpties ==
  ASSUME Types, NEW c \in Canisters, Reinstall(c)
  PROVE  /\ outbox'[c] = {} /\ latest'[c] = 0 /\ age'[c] = age[c] + 1 
         /\ (stale'[c] <=> cursor[c] \notin {None, 0})
         /\ \A b \in Canisters : b # c => /\ outbox'[b] = outbox[b] /\ latest'[b] = latest[b]
                                          /\ age'[b] = age[b] /\ stale'[b] = stale[b]
BY DEF Reinstall, Types, Total, RelayTypeOK

(* What moves an outbox. *)
LEMMA CanisterMoves ==
  ASSUME Types, Shape, [RelayNext]_relayVars
  PROVE  \/ UNCHANGED <<latest, outbox, age>>
         \/ \E c \in Canisters : Reinstall(c) \/ \E to, about : Record(c, to, about)
<1> USE DEF relayVars, canister, memory, reading
<1>1. ASSUME NEW p \in Passes, Flushes(p) \/ Reads(p) \/ Handles(p) PROVE UNCHANGED canister
  BY <1>1, FlushMoves, ReadMoves, HandleMoves DEF Handles, Leaves
<1> QED BY <1>1 DEF RelayNext, CloseRequest, DelayEnds, StartPass, OtherSave, Crash

(* What moves a cursor. *)
LEMMA CursorMoves ==
  ASSUME Types, Shape, [RelayNext]_relayVars
  PROVE  \/ UNCHANGED <<cursor, first>> /\ (UNCHANGED stale \/ \E c \in Canisters : Reinstall(c))
         \/ \E p \in Passes :
              LET c == At(p) IN
              /\ ReadOutbox(p) \/ Handled(p)
              /\ c \in Canisters /\ UNCHANGED canister
              /\ \A b \in Canisters : b # c => /\ cursor'[b] = cursor[b] /\ stale'[b] = stale[b]
                                               /\ first'[b] = first[b]
              /\ \/ /\ ReadOutbox(p) /\ cursor[c] = None /\ cursor'[c] = latest[c] /\ first'[c] = latest[c]
                    /\ stale' = stale /\ pass'[p] = NextOutbox(p)
                 \/ /\ ReadOutbox(p) /\ cursor[c] # None /\ latest[c] < cursor[c]
                    /\ cursor'[c] = 0 /\ first'[c] = 0 /\ pass'[p].page = {}
                 \/ /\ Handled(p) /\ cursor[c] # None /\ cursor'[c] = Oldest(pass[p].page).seq /\ first' = first
                    /\ (~stale'[c] => ~stale[c] /\ Oldest(pass[p].page).age = age[c])
<1> USE DEF relayVars, canister, memory, reading
<1>1. CASE UNCHANGED reading
  BY <1>1
<1>2. ASSUME NEW c \in Canisters, Reinstall(c) PROVE UNCHANGED <<cursor, first>>
  BY <1>2 DEF Reinstall
<1>3. ASSUME NEW p \in Passes, ReadOutbox(p), ~UNCHANGED reading
      PROVE  LET c == At(p) IN
              /\ c \in Canisters /\ UNCHANGED canister
              /\ \A b \in Canisters : b # c => /\ cursor'[b] = cursor[b] /\ stale'[b] = stale[b]
                                               /\ first'[b] = first[b]
              /\ \/ /\ cursor[c] = None /\ cursor'[c] = latest[c] /\ first'[c] = latest[c]
                    /\ stale' = stale /\ pass'[p] = NextOutbox(p)
                 \/ /\ cursor[c] # None /\ latest[c] < cursor[c]
                    /\ cursor'[c] = 0 /\ first'[c] = 0 /\ pass'[p].page = {}
  <2>1. At(p) \in Canisters /\ pass \in [Passes -> PassRecord] /\ pass[p].page = {}
    BY <1>3, UnderWay, KindsOfThings DEF ReadOutbox, Flushed, Shape, Reading
  <2>2. /\ stale \in [Canisters -> BOOLEAN] /\ cursor = [b \in Canisters |-> cursor[b]]
        /\ first = [b \in Canisters |-> first[b]]
    BY KindsOfThings DEF Types, Total
  <2> QED BY <1>3, <2>1, <2>2 DEF ReadOutbox, PassRecord
<1>4. ASSUME NEW p \in Passes, Handled(p)
      PROVE  LET c == At(p) IN
              /\ c \in Canisters /\ UNCHANGED canister
              /\ \A b \in Canisters : b # c => /\ cursor'[b] = cursor[b] /\ stale'[b] = stale[b]
                                               /\ first'[b] = first[b]
              /\ cursor[c] # None /\ cursor'[c] = Oldest(pass[p].page).seq /\ first' = first
              /\ (~stale'[c] => ~stale[c] /\ Oldest(pass[p].page).age = age[c])
  <2>1. At(p) \in Canisters /\ cursor[At(p)] # None
    BY <1>4, UnderWay DEF Handled, Shape, Reading
  <2> QED BY <1>4, <2>1 DEF Handled, Types, Total, RelayTypeOK
<1>5. \/ UNCHANGED reading \/ (\E c \in Canisters : Reinstall(c))
      \/ \E p \in Passes : ReadOutbox(p) \/ Handled(p)
  <2>1. ASSUME NEW p \in Passes, Flushes(p) \/ Reads(p) \/ Handles(p)
        PROVE  UNCHANGED reading \/ ReadOutbox(p) \/ Handled(p)
    <3>1. CASE Flushes(p)
      BY <3>1, FlushMoves
    <3>2. CASE Reads(p)
      BY <3>2 DEF Reads, OutboxFails, ReadPage, PageFails, OutboxDone
    <3>3. CASE Handles(p)
      BY <3>3 DEF Handles, LookUp, Leaves, LookUpFails, NotSaved, Hold, Deliver
    <3> QED BY <2>1, <3>1, <3>2, <3>3
  <2> QED BY <2>1 DEF RelayNext, Record, CloseRequest, DelayEnds, StartPass, OtherSave, Crash
<1> QED BY <1>1, <1>2, <1>3, <1>4, <1>5

LEMMA BoxesNext ==
  ASSUME Types, Shape, Boxes, Pages, [RelayNext]_relayVars PROVE Boxes'
<1> USE DEF canister, reading
<1>1. Types'
  BY TypesNext
<1>2. /\ \A c \in Canisters : latest[c] \in Nat /\ age[c] \in Nat /\ cursor[c] \in Nat \cup {None}
      /\ None \notin Nat /\ \A c \in Canisters : \A e \in outbox[c] : e.seq \in Nat
      /\ \A c \in Canisters : \A e \in EventsOf(c) : e.seq \in Nat /\ e.age \in Nat
  BY KindsOfThings, NoneIsApart
<1>3. ASSUME NEW c \in Canisters, NEW to, NEW about, Record(c, to, about) PROVE Boxes'
  <2>1. UNCHANGED <<age, cursor, stale>>
    BY <1>3 DEF Record
  <2> QED BY <1>2, <1>3, <2>1, RecordAdds DEF Boxes
<1>4. ASSUME NEW c \in Canisters, Reinstall(c) PROVE Boxes'
  <2>1. cursor' = cursor /\ IsFiniteSet({})
    BY <1>4, FS_EmptySet DEF Reinstall
  <2>2. ASSUME NEW b \in Canisters, b # c
        PROVE  /\ IsFiniteSet(outbox'[b])
               /\ \A e \in outbox'[b] : e.age = age'[b] /\ e.seq <= latest'[b]
               /\ \A e, x \in outbox'[b] : e.seq = x.seq => e = x
               /\ ~stale'[b] /\ cursor'[b] # None => cursor'[b] <= latest'[b]
    BY <1>4, <2>1, <2>2, ReinstallEmpties DEF Boxes
  <2>3. /\ IsFiniteSet(outbox'[c])
        /\ ~stale'[c] /\ cursor'[c] # None => cursor'[c] <= latest'[c]
        /\ \A e \in outbox'[c] : e.age = age'[c] /\ e.seq <= latest'[c]
        /\ \A e, x \in outbox'[c] : e.seq = x.seq => e = x
    <3>1. outbox'[c] = {} /\ latest'[c] = 0
      BY <1>4, ReinstallEmpties
    <3>2. ~stale'[c] => cursor'[c] \in {None, 0}
      BY <1>4, <2>1, ReinstallEmpties
    <3> QED BY <2>1, <3>1, <3>2
  <2> QED BY <2>2, <2>3 DEF Boxes
<1>5. CASE UNCHANGED <<canister, reading>>
  BY <1>5 DEF Boxes
<1>6. ASSUME NEW p \in Passes, UNCHANGED canister, At(p) \in Canisters,
             \A b \in Canisters : b # At(p) => cursor'[b] = cursor[b] /\ stale'[b] = stale[b],
             ~stale'[At(p)] /\ cursor'[At(p)] # None => cursor'[At(p)] <= latest[At(p)]
      PROVE  Boxes'
  BY <1>6 DEF Boxes
<1>7. ASSUME NEW p \in Passes, ReadOutbox(p) PROVE Boxes'
  <2> SUFFICES ASSUME ~UNCHANGED reading PROVE Boxes'
    BY <1>5, <1>7 DEF ReadOutbox
  <2>1. cursor'[At(p)] \in {0, latest[At(p)]} /\ At(p) \in Canisters /\ UNCHANGED canister
    BY <1>7, UnderWay DEF ReadOutbox, Flushed, Types, Total
  <2>2. \A b \in Canisters : b # At(p) => cursor'[b] = cursor[b] /\ stale'[b] = stale[b]
    BY <1>7, <2>1 DEF ReadOutbox, Types, Total, RelayTypeOK
  <2> QED BY <1>2, <1>6, <2>1, <2>2
<1>8. ASSUME NEW p \in Passes, Handled(p) PROVE Boxes'
  <2> DEFINE e == Oldest(pass[p].page)
  <2>1. /\ pass[p].page # {} /\ e \in pass[p].page /\ At(p) \in Canisters
        /\ pass[p].page \subseteq EventsOf(At(p)) /\ UNCHANGED canister
    BY <1>8, HandleMoves, OldestIsEvent, UnderWay DEF Shape, Reading
  <2>2. cursor'[At(p)] = e.seq /\ stale'[At(p)] = (stale[At(p)] \/ e.age # age[At(p)])
    BY <1>8, <2>1 DEF Handled, Types, Total, RelayTypeOK
  <2>3. \A b \in Canisters : b # At(p) => cursor'[b] = cursor[b] /\ stale'[b] = stale[b]
    BY <1>8, <2>1 DEF Handled, Types, Total, RelayTypeOK
  <2>4. e.age = age[At(p)] => e.seq <= latest[At(p)]
    BY <2>1 DEF Pages, Page
  <2> HIDE DEF e
  <2> QED BY <1>6, <2>1, <2>2, <2>3, <2>4
<1>9. ASSUME UNCHANGED <<latest, outbox, age, reading>> PROVE Boxes'
  BY <1>9 DEF Boxes
<1>10. \/ UNCHANGED <<latest, outbox, age, reading>>
       \/ \E c \in Canisters : Reinstall(c) \/ \E to, about : Record(c, to, about)
       \/ \E p \in Passes : Handled(p) \/ ReadOutbox(p)
  BY CursorMoves, CanisterMoves
<1> QED BY <1>3, <1>4, <1>7, <1>8, <1>9, <1>10

LEMMA StartMoves ==
  ASSUME Types, Shape, StartPass
  PROVE  /\ \A q \in Passes : pass[q] = Asleep
         /\ \A q \in Passes : /\ pass'[q].pc \in {"idle", "next"} /\ pass'[q].page = {}
         /\ UNCHANGED <<canister, reading, held, saved, due, crashes, sent>>
<1>1. pass \in [Passes -> PassRecord]
  BY KindsOfThings
<1>2. \A q \in Passes : pass[q] = Asleep
  BY DEF StartPass, MayStart, Shape, Reading
<1>3. \E p \in Passes : pass' = [pass EXCEPT ![p].pc = "next", ![p].flush = held \cap due, ![p].left = Canisters]
  BY DEF StartPass
<1>4. PICK p \in Passes : pass' = [pass EXCEPT ![p].pc = "next", ![p].flush = held \cap due, ![p].left = Canisters]
  BY <1>3
<1>5. \A q \in Passes : q # p => pass'[q] = Asleep
  BY <1>1, <1>2, <1>4
<1>6. pass'[p] = [Asleep EXCEPT !.pc = "next", !.flush = held \cap due, !.left = Canisters]
  BY <1>1, <1>2, <1>4
<1>7. pass'[p].pc = "next" /\ pass'[p].page = {}
  BY <1>6 DEF Asleep
<1>8. UNCHANGED <<canister, reading, held, saved, due, crashes, sent>>
  BY DEF StartPass
<1>9. Asleep.pc = "idle" /\ Asleep.page = {}
  BY DEF Asleep
<1> QED BY <1>2, <1>5, <1>7, <1>8, <1>9

(* Where a page comes from. *)
LEMMA PageMoves ==
  ASSUME Types, Shape, [RelayNext]_relayVars, NEW p \in Passes, pass'[p].page # {}
  PROVE  /\ pass[p].pc # "idle" /\ At(p)' = At(p)
         /\ \/ pass'[p].page = pass[p].page /\ UNCHANGED cursor
            \/ /\ pass'[p].page = PageAfter(At(p), cursor[At(p)]) /\ UNCHANGED <<canister, reading, held, sent>>
               /\ cursor[At(p)] # None
            \/ Handled(p)
<1> USE DEF relayVars, canister, memory, reading
<1>1. pass \in [Passes -> PassRecord]
  BY KindsOfThings
<1>2. UNCHANGED pass => pass[p].pc # "idle" /\ At(p)' = At(p)
  BY DEF Shape, Reading, Asleep, At
<1>3. CASE StartPass \/ Crash
  BY <1>3, StartMoves DEF Crash, Asleep
<1>4. ASSUME NEW q \in Passes, Flushes(q) \/ Reads(q) \/ Handles(q) PROVE q = p
  BY <1>4, OthersSleep DEF Asleep
<1>5. CASE Flushes(p)
  BY <1>5, FlushMoves
<1>6. CASE Reads(p) \/ Leaves(p)
  <2>1. NextOutbox(p).page = {}
    BY NextOutboxType DEF Asleep
  <2>2. pass'[p] # [pass[p] EXCEPT !.pc = "again"] \/ pass[p].page # {}
    BY <1>1 DEF PassRecord
  <2>3. /\ pass'[p] = Handling(p, PageAfter(At(p), cursor[At(p)]))
        /\ UNCHANGED <<canister, reading, held, sent>> /\ cursor[At(p)] # None
    BY <1>6, <2>1, <2>2, ReadMoves
  <2>5. pass[p].pc # "idle"
    BY <1>6, OthersSleep DEF Handles, Leaves
  <2>4. pass'[p].left = pass[p].left /\ pass'[p].page = PageAfter(At(p), cursor[At(p)])
    BY <1>1, <2>3 DEF Handling, PassRecord
  <2> QED BY <2>3, <2>4, <2>5 DEF At
<1>7. CASE Handles(p) /\ ~Leaves(p)
  <2>1. At(p)' = At(p) /\ pass[p].pc # "idle"
    BY <1>7, HandleMoves, OthersSleep
  <2>2. Handled(p) \/ (pass'[p].page = pass[p].page /\ UNCHANGED cursor)
    BY <1>7, HandleMoves DEF Handles, Leaves
  <2> QED BY <2>1, <2>2
<1>8. CASE UNCHANGED <<pass, cursor>>
  BY <1>2, <1>8
<1>9. \/ UNCHANGED <<pass, cursor>> \/ StartPass \/ Crash
      \/ \E q \in Passes : Flushes(q) \/ Reads(q) \/ Handles(q)
  BY DEF RelayNext, Record, CloseRequest, Reinstall, DelayEnds, OtherSave
<1> QED BY <1>3, <1>4, <1>5, <1>6, <1>7, <1>8, <1>9

LEMMA PagesNext ==
  ASSUME Types, Shape, Boxes, Pages, [RelayNext]_relayVars PROVE Pages'
<1> SUFFICES ASSUME NEW p \in Passes, pass'[p].page # {} PROVE Page(At(p), pass[p].page)'
  BY DEF Pages
<1>0. At(p) \in Canisters
  BY PageMoves, UnderWay
<1> PICK c \in Canisters : c = At(p)
  BY <1>0
<1>1. c \in Canisters /\ At(p)' = c /\ pass[p].page \subseteq EventsOf(c)
  BY PageMoves DEF Shape, Reading
<1>2. /\ latest[c] \in Nat /\ age[c] \in Nat /\ cursor[c] \in Nat \cup {None} /\ None \notin Nat
      /\ outbox[c] \subseteq EventsOf(c)
      /\ \A e \in EventsOf(c) : e.seq \in Nat /\ e.age \in Nat
  BY <1>1, KindsOfThings, NoneIsApart
<1>3. SUFFICES /\ \A e \in pass'[p].page : e.age <= age'[c] /\ e.seq > cursor'[c]
               /\ \A e, x \in pass'[p].page : e.age = x.age /\ (e.seq = x.seq => e = x)
               /\ \A e \in pass'[p].page : e.age = age'[c] =>
                    /\ e.seq <= latest'[c]
                    /\ \A x \in outbox'[c] : cursor'[c] < x.seq /\ x.seq <= e.seq => x \in pass'[p].page
  <2>1. (Page(c, pass[p].page))' = Page(At(p), pass[p].page)'
    BY <1>1 DEF Page
  <2> QED BY <1>1, <1>3 DEF Page
<1>4. CASE pass'[p].page = pass[p].page /\ UNCHANGED cursor
  <2>1. Page(c, pass[p].page)
    BY <1>4 DEF Pages
  <2>2. CASE UNCHANGED <<latest, outbox, age>>
    BY <1>4, <2>1, <2>2 DEF Page
  <2>3. ASSUME NEW b \in Canisters, Reinstall(b) PROVE <1>3!1
    <3>1. b # c => outbox'[c] = outbox[c] /\ latest'[c] = latest[c] /\ age'[c] = age[c]
      BY <1>1, <2>3, ReinstallEmpties
    <3>2. b = c => age'[c] = age[c] + 1
      BY <1>1, <2>3, ReinstallEmpties
    <3>3. CASE b # c
      BY <1>4, <2>1, <3>1, <3>3 DEF Page
    <3>4. CASE b = c
      <4>1. \A e \in pass[p].page : e.age <= age[c] /\ e.age < age'[c]
        BY <1>1, <1>2, <2>1, <3>2, <3>4 DEF Page
      <4>2. \A e \in pass'[p].page : e.age # age'[c] /\ e.age <= age'[c]
        BY <1>1, <1>2, <1>4, <3>2, <3>4, <4>1
      <4> QED BY <1>4, <2>1, <4>2 DEF Page
    <3> QED BY <3>3, <3>4
  <2>4. ASSUME NEW b \in Canisters, NEW to, NEW about, Record(b, to, about) PROVE <1>3!1
    <3>1. age' = age
      BY <2>4 DEF Record
    <3>2. b # c => outbox'[c] = outbox[c] /\ latest'[c] = latest[c]
      BY <1>1, <2>4, RecordAdds
    <3>3. b = c => /\ latest'[c] = latest[c] + 1
                   /\ \A x \in outbox'[c] : x \in outbox[c] \/ x.seq = latest[c] + 1
      BY <1>1, <2>4, RecordAdds
    <3>4. CASE b # c
      BY <1>4, <2>1, <3>1, <3>2, <3>4 DEF Page
    <3>5. CASE b = c
      BY <1>1, <1>2, <1>4, <2>1, <3>1, <3>3, <3>5 DEF Page
    <3> QED BY <3>4, <3>5
  <2> QED BY <2>2, <2>3, <2>4, CanisterMoves
<1>5. CASE pass'[p].page = PageAfter(c, cursor[c]) /\ UNCHANGED <<canister, reading>> /\ cursor[c] # None
  <2>1. /\ PageAfter(c, cursor[c]) \subseteq outbox[c] /\ \A e \in PageAfter(c, cursor[c]) : e.seq > cursor[c]
        /\ \A e \in PageAfter(c, cursor[c]), x \in outbox[c] :
             cursor[c] < x.seq /\ x.seq <= e.seq => x \in PageAfter(c, cursor[c])
    BY <1>1, <1>2, <1>5, PageIsOldest DEF Boxes
  <2>2. /\ \A e \in outbox[c] : e.age = age[c] /\ e.seq <= latest[c]
        /\ \A e, x \in outbox[c] : e.seq = x.seq => e = x
    BY <1>1 DEF Boxes
  <2>3. outbox' = outbox /\ cursor' = cursor /\ latest' = latest /\ age' = age
    BY <1>5 DEF canister, reading
  <2> QED BY <1>2, <1>5, <2>1, <2>2, <2>3
<1>6. CASE Handled(p)
  <2> DEFINE o == Oldest(pass[p].page)
  <2>1. pass[p].page # {} /\ pass'[p].page = pass[p].page \ {o} /\ UNCHANGED <<latest, outbox, age>>
    BY <1>6, HandleMoves DEF canister
  <2>2. cursor'[c] = o.seq
    BY <1>1, <1>6 DEF Handled, Types, Total
  <2>3. o \in pass[p].page /\ \A e \in pass[p].page : o.seq <= e.seq
    BY <2>1, OldestIsEvent
  <2>4. Page(c, pass[p].page) /\ cursor[c] \in Nat
    BY <1>2, <1>6, <2>1 DEF Pages, Handled, Shape, Reading
  <2> HIDE DEF o
  <2>5. \A e \in pass'[p].page : e \in pass[p].page /\ e.seq > o.seq
    BY <1>1, <1>2, <2>1, <2>3, <2>4 DEF Page
  <2>6. o.seq \in Nat /\ cursor[c] < o.seq
    BY <1>1, <1>2, <2>3, <2>4 DEF Page
  <2>7. \A e \in pass'[p].page : e.age = age'[c] =>
          /\ e.seq <= latest'[c]
          /\ \A x \in outbox'[c] : cursor'[c] < x.seq /\ x.seq <= e.seq => x \in pass'[p].page
    <3> SUFFICES ASSUME NEW e \in pass[p].page, e.age = age[c], NEW x \in outbox[c], o.seq < x.seq, x.seq <= e.seq
                 PROVE  x \in pass[p].page \ {o}
      BY <2>1, <2>2, <2>4, <2>5 DEF Page
    <3>1. cursor[c] < x.seq /\ x # o
      BY <1>1, <1>2, <2>4, <2>6
    <3> QED BY <2>4, <3>1 DEF Page
  <2> QED BY <1>1, <1>2, <2>1, <2>2, <2>4, <2>5, <2>7 DEF Page
<1> QED BY <1>4, <1>5, <1>6, PageMoves

-----------------------------------------------------------------------------
(* An alert of an age a canister has yet to reach, or later than the page *)
(* under way, was neither sent nor held.                                  *)
Untouched(a) == sent[a] = 0 /\ a \notin held
Fresh ==
  /\ \A a \in Alerts : a.age > age[a.canister] => Untouched(a)
  /\ \A p \in Passes : \A e \in pass[p].page : \A a \in Alerts :
       a.canister = At(p) /\ a.age > e.age => Untouched(a)

(* What an alert is first touched by. *)
LEMMA AlertMoves ==
  ASSUME Types, Shape, [RelayNext]_relayVars, NEW a \in Alerts, Untouched(a), ~Untouched(a)'
  PROVE  \E p \in Passes : \E u \in Recipients :
           pass[p].pc = "notify" /\ pass[p].page # {} /\ a = Alert(At(p), Oldest(pass[p].page), u)
<1> USE DEF relayVars, canister, memory, reading
<1>1. sent \in [Alerts -> Nat] /\ a \notin held /\ a \notin saved
  BY KindsOfThings DEF Shape, KeptOrSent, Untouched
<1>2. ASSUME a \notin held', UNCHANGED sent PROVE FALSE
  BY <1>2 DEF Untouched
<1>3. ASSUME NEW p \in Passes, Flushes(p) PROVE FALSE
  <2>1. held' \subseteq held
    BY <1>3 DEF Flushes, RequestAnswers, RequestFails, SendHeld, DropHeld, DropNotSaved
  <2>2. \/ UNCHANGED sent
        \/ \E b \in pass[p].ready : sent' = [sent EXCEPT ![b] = @ + 1]
    BY <1>3 DEF Flushes, RequestAnswers, RequestFails, SendHeld, DropHeld, DropNotSaved
  <2>3. pass[p].ready \subseteq held
    BY DEF Shape, Flushing
  <2> QED BY <1>1, <1>2, <2>1, <2>2, <2>3 DEF Untouched
<1>4. ASSUME NEW p \in Passes, NEW n \in Notices, Hold(p, n) \/ Deliver(p, n),
             a # Alert(At(p), Oldest(pass[p].page), n.to)
      PROVE  FALSE
  <2> DEFINE b == Alert(At(p), Oldest(pass[p].page), n.to)
  <2>1. held' \subseteq held \cup {b} /\ sent' \in {sent, [sent EXCEPT ![b] = @ + 1]}
    BY <1>4 DEF Hold, Deliver
  <2> HIDE DEF b
  <2> QED BY <1>1, <1>4, <2>1 DEF Untouched, b
<1>5. \/ a \notin held' /\ UNCHANGED sent
      \/ \E p \in Passes : Flushes(p) \/ \E n \in Notices : Hold(p, n) \/ Deliver(p, n)
  BY <1>1 DEF RelayNext, Record, CloseRequest, Reinstall, DelayEnds, OtherSave, Crash, StartPass, Reads, Handles,
     ReadOutbox, OutboxFails, ReadPage, PageFails, OutboxDone, LookUp, Leaves, LookUpFails, NotSaved, Handled
<1>6. PICK p \in Passes, n \in Notices : Hold(p, n) \/ Deliver(p, n)
  BY <1>2, <1>3, <1>5
<1>7. n.to \in Recipients /\ pass[p].pc = "notify" /\ pass[p].page # {}
  BY <1>6, HandleMoves DEF Notices
<1> QED BY <1>4, <1>6, <1>7

LEMMA FreshNext ==
  ASSUME Types, Shape, Boxes, Pages, Fresh, [RelayNext]_relayVars PROVE Fresh'
<1>1. ASSUME NEW a \in Alerts, Untouched(a), ~Untouched(a)'
      PROVE  \E p \in Passes : \E e \in pass[p].page :
               /\ a.canister = At(p) /\ a.age = e.age /\ a.age <= age[At(p)] /\ pass[p].pc # "idle"
               /\ \A x \in pass[p].page : x.age = a.age
  <2>1. PICK p \in Passes, u \in Recipients :
          pass[p].pc = "notify" /\ pass[p].page # {} /\ a = Alert(At(p), Oldest(pass[p].page), u)
    BY <1>1, AlertMoves
  <2>2. Oldest(pass[p].page) \in pass[p].page
    BY <2>1, OldestIsEvent
  <2>3. a.canister = At(p) /\ a.age = Oldest(pass[p].page).age
    BY <2>1 DEF Alert
  <2> HIDE DEF Alert
  <2> QED BY <2>1, <2>2, <2>3 DEF Pages, Page
<1>2. \A c \in Canisters : age[c] \in Nat /\ age'[c] \in Nat /\ age[c] <= age'[c]
  <2>1. Types'
    BY TypesNext
  <2>2. \A c \in Canisters : age[c] \in Nat /\ age'[c] \in Nat
    BY <2>1, KindsOfThings DEF Types, RelayTypeOK
  <2>3. UNCHANGED age \/ \E c \in Canisters : Reinstall(c)
    BY CanisterMoves DEF Record
  <2> QED BY <2>2, <2>3, ReinstallEmpties
<1>3. \A a \in Alerts : a.canister \in Canisters /\ a.age \in Nat
  BY KindsOfAlerts
<1>4. ASSUME NEW a \in Alerts, a.age > age'[a.canister] PROVE Untouched(a)'
  <2>1. a.age > age[a.canister]
    BY <1>2, <1>3, <1>4
  <2>2. Untouched(a)
    BY <2>1 DEF Fresh
  <2> QED BY <1>1, <1>2, <1>3, <2>1, <2>2
<1>5. ASSUME NEW p \in Passes, NEW e \in pass'[p].page, NEW a \in Alerts, a.canister = At(p)', a.age > e.age
      PROVE  Untouched(a)'
  <2>1. pass[p].pc # "idle" /\ At(p)' = At(p) /\ At(p) \in Canisters
    BY <1>5, PageMoves, UnderWay
  <2>2. CASE e \in pass[p].page
    <3>1. Untouched(a)
      BY <1>5, <2>1, <2>2 DEF Fresh
    <3> SUFFICES ASSUME ~Untouched(a)' PROVE FALSE
      OBVIOUS
    <3>2. PICK q \in Passes : pass[q].pc # "idle" /\ \A x \in pass[q].page : x.age = a.age
      BY <1>1, <3>1
    <3>3. q = p
      BY <2>1, <3>2 DEF Shape, OnePass
    <3>4. e.age \in Nat /\ a.age \in Nat
      <4>1. e \in EventsOf(At(p))
        BY <2>1, <2>2 DEF Shape, Reading
      <4> QED BY <1>3, <2>1, <4>1, KindsOfThings
    <3> QED BY <1>5, <2>2, <3>2, <3>3, <3>4
  <2>3. CASE pass'[p].page = PageAfter(At(p), cursor[At(p)]) /\ UNCHANGED <<canister, reading, held, sent>>
    <3>1. e \in outbox[At(p)] /\ e.age = age[At(p)]
      BY <1>5, <2>1, <2>3 DEF PageAfter, Boxes
    <3>2. Untouched(a)
      BY <1>5, <2>1, <3>1 DEF Fresh
    <3> QED BY <2>3, <3>2 DEF Untouched
  <2>4. e \in pass[p].page \/ (pass'[p].page = PageAfter(At(p), cursor[At(p)]) /\ UNCHANGED <<canister, reading, held, sent>>)
    BY <1>5, PageMoves, HandleMoves
  <2> QED BY <2>2, <2>3, <2>4
<1> QED BY <1>4, <1>5 DEF Fresh

-----------------------------------------------------------------------------
(* An event behind the cursor was sent, or is a lead that waits in the file *)
(* or has nobody left to tell.                                              *)
Settled(c, e) ==
  \/ e \in unasked[c]
  \/ IF IsLead(e) THEN \/ <<c, e.seq, e.age>> \in closed
                       \/ \A u \in Recipients : sent[Alert(c, e, u)] > 0 \/ Alert(c, e, u) \in saved
     ELSE sent[Alert(c, e, e.to)] > 0

Behind(c, e) ==
  /\ cursor[c] # None /\ ~stale[c] /\ first[c] < e.seq /\ e.seq <= cursor[c]
  /\ IsLead(e) => e.age = 0

Skipped == \A c \in Canisters : \A e \in outbox[c] : Behind(c, e) => Settled(c, e)

(* Those the oldest event of the page is for were told, hold an alert, or are *)
(* still to be told.                                                          *)
BeingTold(c, e, todo) ==
  \/ e \in unasked[c]
  \/ IF IsLead(e) THEN \/ <<c, e.seq, e.age>> \in closed
                       \/ \A u \in Recipients : \/ sent[Alert(c, e, u)] > 0 \/ Alert(c, e, u) \in held
                                                \/ \E n \in todo : n.to = u
     ELSE sent[Alert(c, e, e.to)] > 0 \/ \E n \in todo : n.to = e.to

IsBeingTold(p) ==
  LET e == Oldest(pass[p].page)  c == At(p) IN
  pass[p].pc = "notify" /\ e.age = age[c] /\ (IsLead(e) => e.age = 0) => BeingTold(c, e, pass[p].todo)

(* What was sent, closed or passed over stays so. *)
LEMMA SentGrows ==
  ASSUME Types, Shape, [RelayNext]_relayVars
  PROVE  /\ \A a \in Alerts : sent[a] \in Nat /\ sent'[a] \in Nat /\ sent'[a] >= sent[a]
         /\ closed \subseteq closed'
         /\ \A c \in Canisters : unasked[c] \subseteq unasked'[c]
<1> USE DEF relayVars, canister, memory, reading
<1>1. sent \in [Alerts -> Nat] /\ sent' \in [Alerts -> Nat]
  BY TypesNext DEF Types, RelayTypeOK
<1>2. UNCHANGED sent \/ \E b : sent' = [sent EXCEPT ![b] = @ + 1]
  <2>1. ASSUME NEW p \in Passes, NEW n, Deliver(p, n) PROVE \E b : sent' = [sent EXCEPT ![b] = @ + 1]
    BY <2>1 DEF Deliver
  <2>2. ASSUME NEW p \in Passes, Flushes(p) PROVE <1>2!:
    BY <2>2 DEF Flushes, RequestAnswers, RequestFails, SendHeld, DropHeld, DropNotSaved
  <2>3. ASSUME NEW p \in Passes, Reads(p) \/ Handles(p) PROVE UNCHANGED sent \/ \E n : Deliver(p, n)
    BY <2>3 DEF Reads, Handles, ReadOutbox, OutboxFails, ReadPage, PageFails, OutboxDone, LookUp, Leaves, LookUpFails, NotSaved, Hold, Handled
  <2> QED BY <2>1, <2>2, <2>3 DEF RelayNext, Record, CloseRequest, Reinstall, DelayEnds, OtherSave, Crash, StartPass
<1>3. closed \subseteq closed' /\ (UNCHANGED unasked \/ \E p \in Passes : \E pro : LookUp(p, pro))
  <2>1. ASSUME NEW p \in Passes, Flushes(p) PROVE UNCHANGED <<closed, unasked>>
    BY <2>1 DEF Flushes, RequestAnswers, RequestFails, SendHeld, DropHeld, DropNotSaved
  <2>2. ASSUME NEW p \in Passes, Reads(p) PROVE UNCHANGED <<closed, unasked>>
    BY <2>2 DEF Reads, ReadOutbox, OutboxFails, ReadPage, PageFails, OutboxDone
  <2>3. ASSUME NEW p \in Passes, Handles(p) PROVE UNCHANGED closed /\ (UNCHANGED unasked \/ \E pro : LookUp(p, pro))
    <3>1. ASSUME NEW n, Hold(p, n) \/ Deliver(p, n) PROVE UNCHANGED <<closed, unasked>>
      BY <3>1 DEF Hold, Deliver
    <3>2. CASE Handled(p) \/ LookUpFails(p) \/ NotSaved(p)
      BY <3>2 DEF Handled, LookUpFails, NotSaved
    <3>3. ASSUME NEW pro, LookUp(p, pro) PROVE UNCHANGED closed
      BY <3>3 DEF LookUp
    <3> QED BY <2>3, <3>1, <3>2, <3>3 DEF Handles
  <2>4. CASE \E c \in Canisters : Reinstall(c) \/ (\E to, about : Record(c, to, about)) \/ \E e : CloseRequest(c, e)
    BY <2>4 DEF Reinstall, Record, CloseRequest
  <2>5. CASE OtherSave \/ Crash \/ StartPass \/ \E a \in LeadAlerts : DelayEnds(a)
    BY <2>5 DEF OtherSave, Crash, StartPass, DelayEnds
  <2> QED BY <2>1, <2>2, <2>3, <2>4, <2>5 DEF RelayNext
<1>4. ASSUME NEW c \in Canisters PROVE unasked[c] \subseteq unasked'[c]
  <2>2. ASSUME NEW p \in Passes, NEW pro, LookUp(p, pro) PROVE unasked[c] \subseteq unasked'[c]
    <3>1. \E S : unasked' = [unasked EXCEPT ![At(p)] = unasked[At(p)] \cup S]
      BY <2>2 DEF LookUp
    <3>2. unasked = [b \in Canisters |-> unasked[b]]
      BY DEF Types, Total
    <3> QED BY <3>1, <3>2
  <2> QED BY <1>3, <2>2
<1> QED BY <1>1, <1>2, <1>3, <1>4

(* An alert leaves the file when it was sent, or its request is closed or gone. *)
LEMMA HeldEnds ==
  ASSUME Types, Shape, [RelayNext]_relayVars, NEW a \in LeadAlerts
  PROVE  a \in saved /\ a \notin saved' => sent[a] > 0 \/ Key(a) \in closed \/ a.age # age[a.canister]
<1> USE DEF relayVars, canister, memory, reading
<1> SUFFICES ASSUME a \in saved, a \notin saved', ~(sent[a] > 0) PROVE Key(a) \in closed \/ a.age # age[a.canister]
  OBVIOUS
<1>1. a \in held
  BY DEF Shape, KeptOrSent
<1>3. ASSUME NEW p \in Passes, Flushes(p), a \in saved, a \notin saved'
      PROVE  sent[a] > 0 \/ Key(a) \in closed \/ a.age # age[a.canister]
  <2>1. ASSUME NEW k, RequestAnswers(p, k) PROVE Key(a) \in closed \/ a.age # age[a.canister]
    <3>1. ~(k \notin closed /\ k[3] = age[k[1]]) /\ Key(a) = k
      BY <1>1, <1>3, <2>1 DEF RequestAnswers, Of
    <3>2. k[3] = a.age /\ k[1] = a.canister
      BY <3>1 DEF Key
    <3> QED BY <3>1, <3>2
  <2>2. ASSUME DropHeld(p) PROVE sent[a] > 0
    <3>1. pass[p].alert = a
      BY <1>1, <1>3, <2>2 DEF DropHeld
    <3> QED BY <2>2, <3>1 DEF DropHeld, Shape, Flushing
  <2>3. (\E k : RequestAnswers(p, k)) \/ DropHeld(p)
    BY <1>3 DEF Flushes, RequestFails, SendHeld, DropNotSaved
  <2> QED BY <2>1, <2>2, <2>3
<1>4. a \in saved /\ a \notin saved' => \E p \in Passes : Flushes(p)
  <2>1. saved' = saved \/ (saved' = held /\ UNCHANGED held) \/ \E p \in Passes : Flushes(p)
    BY DEF RelayNext, Record, CloseRequest, Reinstall, DelayEnds, OtherSave, StartPass, Reads, Handles, Crash,
       ReadOutbox, OutboxFails, ReadPage, PageFails, OutboxDone, LookUp, Leaves, LookUpFails, NotSaved, Hold, Deliver, Handled
  <2> QED BY <1>1, <2>1
<1> QED BY <1>3, <1>4

LEMMA SettledStays ==
  ASSUME Types, Shape, [RelayNext]_relayVars, NEW c \in Canisters, NEW e \in EventsOf(c),
         e.age = age[c], Settled(c, e)
  PROVE  Settled(c, e)'
<1>1. /\ \A u \in Recipients : Alert(c, e, u) \in Alerts /\ (IsLead(e) => Alert(c, e, u) \in LeadAlerts)
      /\ ~IsLead(e) => e.to \in Recipients
  <2>1. e.to \in Told[c]
    BY KindsOfThings
  <2> QED BY <2>1, KindsOfAlerts, EventsTellUsers DEF IsLead
<1>0. CASE e \in unasked[c]
  BY <1>0, SentGrows DEF Settled
<1>2. CASE ~IsLead(e) /\ e \notin unasked[c]
  BY <1>1, <1>2, SentGrows DEF Settled
<1>3. CASE IsLead(e) /\ e \notin unasked[c]
  <2>1. CASE <<c, e.seq, e.age>> \in closed
    BY <1>3, <2>1, SentGrows DEF Settled
  <2>2. CASE <<c, e.seq, e.age>> \notin closed
    <3> SUFFICES ASSUME NEW u \in Recipients, sent[Alert(c, e, u)] > 0 \/ Alert(c, e, u) \in saved
                 PROVE  sent'[Alert(c, e, u)] > 0 \/ Alert(c, e, u) \in saved'
      BY <1>3, <2>2 DEF Settled
    <3> DEFINE a == Alert(c, e, u)
    <3>1. a \in LeadAlerts /\ a \in Alerts
      BY <1>1, <1>3
    <3>2. Key(a) = <<c, e.seq, e.age>> /\ a.age = e.age /\ a.canister = c
      BY DEF Key, Alert
    <3> HIDE DEF a
    <3>3. a \in saved => a \in saved' \/ sent[a] > 0
      BY <2>2, <3>1, <3>2, HeldEnds
    <3>4. sent[a] > 0 => sent'[a] > 0
      BY <3>1, SentGrows
    <3> QED BY <3>3, <3>4 DEF a
  <2> QED BY <2>1, <2>2
<1> QED BY <1>0, <1>2, <1>3

LEMMA SkippedNext ==
  ASSUME Types, Shape, Boxes, Pages, Skipped, \A p \in Passes : IsBeingTold(p), [RelayNext]_relayVars
  PROVE  Skipped'
<1> SUFFICES ASSUME NEW c \in Canisters, NEW e \in outbox'[c], Behind(c, e)' PROVE Settled(c, e)'
  BY DEF Skipped
<1>1. /\ latest[c] \in Nat /\ cursor[c] \in Nat \cup {None} /\ None \notin Nat
      /\ cursor'[c] \in Nat /\ first'[c] \in Nat
      /\ e \in EventsOf(c) /\ e.seq \in Nat /\ e.seq > 0
  <2>1. /\ outbox'[c] \subseteq EventsOf(c) /\ first'[c] \in Nat /\ cursor'[c] \in Nat \cup {None}
    BY TypesNext, RelayLimits DEF Types, RelayTypeOK
  <2> QED BY <2>1, KindsOfThings, NoneIsApart DEF Behind
<1>2. ASSUME e \in outbox[c], Behind(c, e) PROVE Settled(c, e)'
  <2>1. Settled(c, e) /\ e.age = age[c]
    BY <1>2 DEF Skipped, Boxes
  <2> QED BY <1>1, <2>1, SettledStays
<1>3. CASE UNCHANGED <<cursor, first>> /\ stale'[c] = stale[c]
  <2>1. Behind(c, e)
    BY <1>3 DEF Behind
  <2>2. e \in outbox[c]
    <3>1. ASSUME NEW b \in Canisters, NEW to, NEW about, Record(b, to, about) PROVE e \in outbox[c]
      <4>1. b # c => e \in outbox[c]
        BY <3>1, RecordAdds
      <4>2. b = c => e \in outbox[c] \/ e.seq = latest[c] + 1
        BY <3>1, RecordAdds
      <4>3. cursor[c] <= latest[c] /\ e.seq <= cursor[c] /\ cursor[c] \in Nat
        BY <1>1, <2>1 DEF Behind, Boxes
      <4> QED BY <1>1, <4>1, <4>2, <4>3
    <3>2. ASSUME NEW b \in Canisters, Reinstall(b) PROVE e \in outbox[c]
      BY <3>2, ReinstallEmpties
    <3> QED BY <3>1, <3>2, CanisterMoves
  <2> QED BY <1>2, <2>1, <2>2
<1>4. ASSUME NEW b \in Canisters, Reinstall(b), UNCHANGED <<cursor, first>> PROVE Settled(c, e)'
  BY <1>3, <1>4, ReinstallEmpties
<1>5. ASSUME NEW p \in Passes, At(p) # c, UNCHANGED canister,
             cursor'[c] = cursor[c] /\ stale'[c] = stale[c] /\ first'[c] = first[c]
      PROVE  Settled(c, e)'
  BY <1>2, <1>5 DEF Behind, canister
<1>6. ASSUME NEW p \in Passes, At(p) = c, Handled(p), UNCHANGED canister,
             cursor[c] # None, cursor'[c] = Oldest(pass[p].page).seq, first' = first,
             ~stale'[c] => ~stale[c] /\ Oldest(pass[p].page).age = age[c]
      PROVE  Settled(c, e)'
  <2> DEFINE o == Oldest(pass[p].page)
  <2>1. /\ pass[p].page # {} /\ pass[p].pc = "notify" /\ pass[p].todo = {} /\ saved' = held /\ UNCHANGED sent
        /\ o \in pass[p].page /\ \A x \in pass[p].page : o.seq <= x.seq
    BY <1>6, HandleMoves, OldestIsEvent DEF Handled
  <2>2. Page(c, pass[p].page) /\ o \in EventsOf(c)
    BY <1>6, <2>1, OldestIsEvent DEF Pages
  <2>3. ~stale[c] /\ o.age = age[c] /\ e.seq <= o.seq /\ e \in outbox[c] /\ first[c] < e.seq /\ (IsLead(e) => e.age = 0)
    BY <1>6 DEF Behind, canister
  <2> HIDE DEF o
  <2>4. CASE e.seq <= cursor[c]
    BY <1>2, <1>6, <2>3, <2>4 DEF Behind
  <2>5. CASE cursor[c] < e.seq
    <3>1. e \in pass[p].page
      BY <2>1, <2>2, <2>3, <2>5 DEF Page
    <3>2. o.seq \in Nat /\ o.seq <= e.seq
      BY <2>1, <2>2, <3>1, KindsOfThings
    <3>3. e = o
      BY <1>1, <2>1, <2>2, <2>3, <3>1, <3>2 DEF Page
    <3>4. BeingTold(c, o, {})
      BY <1>6, <2>1, <2>3, <3>3 DEF IsBeingTold, o
    <3>5. UNCHANGED closed /\ unasked[c] \subseteq unasked'[c]
      BY <1>6, SentGrows DEF canister
    <3> QED BY <2>1, <3>3, <3>4, <3>5 DEF BeingTold, Settled
  <2> QED BY <1>1, <1>6, <2>4, <2>5
<1>7. ASSUME NEW p \in Passes, At(p) = c,
             \/ cursor'[c] = latest[c] /\ first'[c] = latest[c]
             \/ cursor'[c] = 0 /\ first'[c] = 0
      PROVE  Settled(c, e)'
  BY <1>1, <1>7 DEF Behind
<1>8. CASE UNCHANGED <<cursor, first>> /\ (UNCHANGED stale \/ \E b \in Canisters : Reinstall(b))
  BY <1>3, <1>4, <1>8
<1>9. CASE ~(UNCHANGED <<cursor, first>> /\ (UNCHANGED stale \/ \E b \in Canisters : Reinstall(b)))
  <2>1. PICK p \in Passes :
          /\ UNCHANGED canister
          /\ \A b \in Canisters : b # At(p) => cursor'[b] = cursor[b] /\ stale'[b] = stale[b] /\ first'[b] = first[b]
          /\ \/ cursor'[At(p)] = latest[At(p)] /\ first'[At(p)] = latest[At(p)]
             \/ cursor'[At(p)] = 0 /\ first'[At(p)] = 0
             \/ /\ Handled(p) /\ cursor[At(p)] # None /\ cursor'[At(p)] = Oldest(pass[p].page).seq /\ first' = first
                /\ ~stale'[At(p)] => ~stale[At(p)] /\ Oldest(pass[p].page).age = age[At(p)]
    BY <1>9, CursorMoves
  <2> QED BY <1>5, <1>6, <1>7, <2>1
<1> QED BY <1>8, <1>9

LEMMA BeingToldNext ==
  ASSUME Types, Shape, Boxes, Pages, Fresh, [RelayNext]_relayVars, NEW p \in Passes, IsBeingTold(p)
  PROVE  IsBeingTold(p)'
<1> USE DEF canister, reading
<1> SUFFICES ASSUME pass'[p].pc = "notify" PROVE IsBeingTold(p)'
  BY DEF IsBeingTold
<1>1. pass \in [Passes -> PassRecord]
  BY KindsOfThings
<1>2. pass'[p].page # {}
  BY ShapeNext DEF Shape, Reading
<1>3. At(p)' = At(p) /\ At(p) \in Canisters /\ pass[p].pc # "idle"
  BY <1>2, PageMoves, UnderWay
<1> PICK c \in Canisters : c = At(p)
  BY <1>3
<1> DEFINE ToldThen(e) ==
             \/ e \in unasked'[c]
             \/ IF IsLead(e) THEN \/ <<c, e.seq, e.age>> \in closed'
                                  \/ \A u \in Recipients : \/ sent'[Alert(c, e, u)] > 0 \/ Alert(c, e, u) \in held'
                                                           \/ \E n \in pass'[p].todo : n.to = u
                ELSE sent'[Alert(c, e, e.to)] > 0 \/ \E n \in pass'[p].todo : n.to = e.to
<1>4. SUFFICES ASSUME NEW e, e = Oldest(pass'[p].page), e.age = age'[c], IsLead(e) => e.age = 0 PROVE ToldThen(e)
  BY <1>3 DEF IsBeingTold, BeingTold, Alert, IsLead, Oldest
<1>5. pass'[p].page = pass[p].page => /\ e = Oldest(pass[p].page) /\ e \in pass[p].page /\ e \in EventsOf(c)
                                      /\ e.age <= age[c] /\ e.age \in Nat /\ age[c] \in Nat
  <2> SUFFICES ASSUME pass'[p].page = pass[p].page PROVE <1>5!2
    OBVIOUS
  <2>1. e = Oldest(pass[p].page) /\ e \in pass[p].page /\ e \in EventsOf(c)
    BY <1>2, <1>4, OldestIsEvent
  <2>2. Page(c, pass[p].page)
    BY <1>2 DEF Pages
  <2> QED BY <2>1, <2>2, KindsOfThings DEF Page
<1>6. ASSUME e \in EventsOf(c)
      PROVE  /\ \A u \in Recipients : Alert(c, e, u) \in Alerts
             /\ ~IsLead(e) => e.to \in Recipients
             /\ \A u \in Recipients : sent[Alert(c, e, u)] > 0 => sent'[Alert(c, e, u)] > 0
  <2>1. e.to \in Told[c] /\ \A u \in Recipients : Alert(c, e, u) \in Alerts
    BY <1>6, KindsOfThings, KindsOfAlerts
  <2> QED BY <2>1, SentGrows, EventsTellUsers DEF IsLead
<1>7. pass'[p].page = pass[p].page /\ pass[p].pc = "notify" /\ age[c] = e.age => BeingTold(c, e, pass[p].todo)
  BY <1>4, <1>5 DEF IsBeingTold
<1>8. closed \subseteq closed' /\ unasked[c] \subseteq unasked'[c]
  BY <1>3, SentGrows
<1>9. CASE pass' = pass /\ held \subseteq held'
  <2>1. UNCHANGED age \/ \E b \in Canisters : Reinstall(b)
    BY CanisterMoves DEF Record
  <2>2. age'[c] = age[c]
    <3>1. ASSUME NEW b \in Canisters, Reinstall(b) PROVE age'[c] = age[c]
      BY <1>4, <1>5, <1>9, <3>1, ReinstallEmpties
    <3> QED BY <2>1, <3>1
  <2> QED BY <1>4, <1>5, <1>6, <1>7, <1>8, <1>9, <2>2 DEF BeingTold
<1>10. ASSUME NEW pro, LookUp(p, pro) PROVE ToldThen(e)
  <2>1. /\ pass'[p].page = pass[p].page /\ pass'[p].todo = NoticesOf(c, e, pro) /\ UNCHANGED <<age, closed>>
        /\ PassedOver(e, pro) => e \in unasked'[c]
    BY <1>4, <1>10, HandleMoves
  <2>2. e.to \in Told[c] /\ e.about \in Reviewed[c]
    BY <1>5, <2>1, KindsOfThings
  <2>3. \/ \A u \in Audience(e) : \E n \in NoticesOf(c, e, pro) : n.to = u
        \/ IsLead(e) /\ (<<c, e.seq, e.age>> \in closed \/ e.age # age[c])
        \/ PassedOver(e, pro)
    BY <2>2, NoticesType
  <2> QED BY <1>4, <2>1, <2>3 DEF Audience
<1>11. ASSUME NEW n \in Notices, Hold(p, n) PROVE ToldThen(e)
  <2>1. /\ pass'[p].page = pass[p].page /\ pass'[p].todo = pass[p].todo \ {n} /\ UNCHANGED <<age, closed>>
        /\ n \in pass[p].todo /\ pass[p].pc = "notify" /\ n.late
    BY <1>11, HandleMoves DEF Hold
  <2>2. IsLead(e) /\ BeingTold(c, e, pass[p].todo) /\ age[c] = 0 /\ UNCHANGED sent
    BY <1>4, <1>5, <1>7, <1>11, <2>1 DEF Shape, Telling, Hold
  <2>3. n.to \in Recipients /\ Alert(c, e, n.to) \in LeadAlerts
    BY <1>5, <2>1, <2>2, KindsOfAlerts DEF Notices
  <2>4. Alert(c, e, n.to) \in held'
    <3> DEFINE a == Alert(c, e, n.to)
    <3>1. a = Alert(At(p), Oldest(pass[p].page), n.to)
      BY <1>4, <2>1
    <3>2. CASE ~IsHeld(a)
      BY <1>11, <3>1, <3>2 DEF Hold
    <3>3. CASE IsHeld(a)
      <4>1. PICK x \in held : x.canister = a.canister /\ x.seq = a.seq /\ x.to = a.to
        BY <3>3 DEF IsHeld
      <4>2. x \in Alerts /\ a \in Alerts /\ a.canister = c /\ a.age = 0
        BY <2>2, <2>3, <1>4, <2>1, KindsOfThings, KindsOfAlerts DEF Alert
      <4>3. x.age = 0
        BY <2>2, <4>1, <4>2, KindsOfAlerts DEF Fresh, Untouched
      <4>4. x = a
        <5> HIDE DEF a
        <5>1. x = [canister |-> x.canister, seq |-> x.seq, age |-> x.age, to |-> x.to]
          BY <4>2, KindsOfAlerts
        <5>2. a = [canister |-> a.canister, seq |-> a.seq, age |-> a.age, to |-> a.to]
          BY <4>2, KindsOfAlerts
        <5> QED BY <4>1, <4>2, <4>3, <5>1, <5>2
      <4>5. UNCHANGED held
        BY <1>11, <3>1, <3>3 DEF Hold
      <4> QED BY <4>4, <4>5
    <3> QED BY <3>2, <3>3
  <2>5. held \subseteq held'
    BY <1>11 DEF Hold
  <2> QED BY <1>4, <1>8, <2>1, <2>2, <2>4, <2>5 DEF BeingTold
<1>12. ASSUME NEW n \in Notices, Deliver(p, n) PROVE ToldThen(e)
  <2>1. /\ pass'[p].page = pass[p].page /\ pass'[p].todo = pass[p].todo \ {n} /\ UNCHANGED <<age, closed, held>>
        /\ n \in pass[p].todo /\ pass[p].pc = "notify"
    BY <1>12, HandleMoves DEF Deliver
  <2>2. BeingTold(c, e, pass[p].todo) /\ e \in EventsOf(c)
    BY <1>4, <1>5, <1>7, <2>1
  <2>3. sent'[Alert(c, e, n.to)] > 0
    <3>1. Alert(c, e, n.to) \in Alerts /\ Alert(c, e, n.to) = Alert(At(p), Oldest(pass[p].page), n.to)
      BY <1>4, <1>6, <2>1, <2>2 DEF Notices
    <3> QED BY <1>12, <3>1, KindsOfThings DEF Deliver
  <2> QED BY <1>4, <1>6, <1>8, <2>1, <2>2, <2>3 DEF BeingTold
<1>13. CASE StartPass \/ Crash \/ Handled(p)
  BY <1>13, StartMoves, HandleMoves DEF Crash, Asleep
<1>14. CASE Reads(p) \/ Leaves(p)
  <2>1. NextOutbox(p).pc # "notify"
    BY NextOutboxType DEF Asleep
  <2>2. /\ [pass[p] EXCEPT !.pc = "again"].pc = "again"
        /\ Handling(p, PageAfter(At(p), cursor[At(p)])).pc = "events"
    BY <1>1 DEF Handling, PassRecord
  <2> QED BY <1>14, <2>1, <2>2, ReadMoves
<1>15. CASE Flushes(p)
  BY <1>15, FlushMoves
<1>16. ASSUME NEW q \in Passes, Flushes(q) \/ Reads(q) \/ Handles(q) PROVE q = p
  BY <1>3, <1>16, OthersSleep DEF Asleep
<1>17. \/ pass' = pass /\ held \subseteq held'
       \/ StartPass \/ Crash
       \/ \E q \in Passes : Flushes(q) \/ Reads(q) \/ Handles(q)
  BY DEF RelayNext, Record, CloseRequest, Reinstall, DelayEnds, OtherSave, relayVars, memory
<1> QED BY <1>9, <1>10, <1>11, <1>12, <1>13, <1>14, <1>15, <1>16, <1>17 DEF Handles, Leaves

-----------------------------------------------------------------------------
(* How often an alert may still be sent: it waits to be, or still does in the *)
(* file, and its event is yet to be handled.                                  *)
Matches(a, p, e) == a.canister = At(p) /\ a.seq = e.seq /\ a.age = e.age
Ahead(a) ==
  LET c == a.canister IN
  \/ cursor[c] = None \/ a.age > age[c]
  \/ a.age = age[c] /\ (latest[c] < cursor[c] \/ a.seq > cursor[c])
  \/ \E p \in Passes : \E e \in pass[p].page : Matches(a, p, e)
Done(a) ==
  \E p \in Passes : /\ pass[p].pc = "notify" /\ Matches(a, p, Oldest(pass[p].page))
                    /\ \A n \in pass[p].todo : n.to # a.to
IsToCome(a) == Ahead(a) /\ ~Done(a)
IsToSend(a) == \/ a \in held /\ \A p \in Passes : pass[p].pc = "sent" => pass[p].alert # a
               \/ a \in saved \ held
One(b) == IF b THEN 1 ELSE 0
InBudget(a) == sent[a] + One(IsToSend(a)) + One(IsToCome(a)) <= 1 + crashes
Budget == \A a \in Alerts : InBudget(a)

(* A step that sends nothing and makes no alert wait or come. *)
LEMMA OweNoMore ==
  ASSUME Types, Shape, Budget, [RelayNext]_relayVars, NEW a \in Alerts, sent'[a] = sent[a], crashes' = crashes,
         IsToSend(a)' => IsToSend(a), IsToCome(a)' => IsToCome(a)
  PROVE  InBudget(a)'
<1>1. sent[a] \in Nat /\ crashes \in Nat /\ sent[a] + One(IsToSend(a)) + One(IsToCome(a)) <= 1 + crashes
  BY KindsOfThings DEF Budget, InBudget
<1>2. PICK s \in BOOLEAN, t \in BOOLEAN, ss \in BOOLEAN, tt \in BOOLEAN :
        s = IsToSend(a) /\ t = IsToCome(a) /\ ss = IsToSend(a)' /\ tt = IsToCome(a)'
  BY DEF IsToSend, IsToCome
<1>3. sent[a] + One(s) + One(t) <= 1 + crashes /\ (ss => s) /\ (tt => t)
  BY <1>1, <1>2
<1>4. sent[a] + One(ss) + One(tt) <= 1 + crashes
  BY <1>1, <1>3 DEF One
<1> QED BY <1>2, <1>4 DEF InBudget

(* Until an event is handled, its alert comes only if it was to come. *)
LEMMA AheadMoves ==
  ASSUME Types, Shape, Boxes, Pages, [RelayNext]_relayVars, NEW a \in Alerts, Ahead(a)',
         \A p \in Passes : ~Handled(p)
  PROVE  Ahead(a)
<1> PICK c \in Canisters : c = a.canister
  BY KindsOfAlerts
<1>1. /\ latest[c] \in Nat /\ age[c] \in Nat /\ cursor[c] \in Nat \cup {None} /\ None \notin Nat
      /\ latest'[c] \in Nat /\ age'[c] \in Nat /\ a.age \in Nat /\ a.seq \in Nat
  <2>1. latest'[c] \in Nat /\ age'[c] \in Nat
    BY TypesNext, RelayLimits DEF Types, RelayTypeOK
  <2> QED BY <2>1, KindsOfThings, KindsOfAlerts, NoneIsApart
<1>2. ASSUME NEW p \in Passes, NEW e \in pass'[p].page, Matches(a, p, e)' PROVE Ahead(a)
  <2>1. At(p)' = At(p) /\ At(p) \in Canisters
    BY <1>2, PageMoves, UnderWay
  <2>2. a.canister = At(p) /\ a.seq = e.seq /\ a.age = e.age
    BY <1>2, <2>1 DEF Matches
  <2>3. CASE pass'[p].page = pass[p].page
    BY <1>2, <2>2, <2>3 DEF Ahead, Matches
  <2>4. CASE pass'[p].page = PageAfter(At(p), cursor[At(p)])
    BY <1>2, <2>1, <2>2, <2>4 DEF Ahead, PageAfter, Boxes
  <2> QED BY <1>2, <2>3, <2>4, PageMoves
<1>3. ASSUME \/ cursor'[c] = None \/ a.age > age'[c]
             \/ a.age = age'[c] /\ (latest'[c] < cursor'[c] \/ a.seq > cursor'[c])
      PROVE  Ahead(a)
  <2> DEFINE Beyond == \/ cursor[c] = None \/ a.age > age[c]
                       \/ a.age = age[c] /\ (latest[c] < cursor[c] \/ a.seq > cursor[c])
  <2> SUFFICES Beyond
    BY DEF Ahead
  <2>1. CASE cursor'[c] = cursor[c]
    <3>1. CASE UNCHANGED <<latest, outbox, age>>
      BY <1>3, <2>1, <3>1
    <3>2. ASSUME NEW b \in Canisters, NEW to, NEW about, Record(b, to, about) PROVE Beyond
      <4>1. age' = age /\ (latest'[c] = latest[c] \/ latest'[c] = latest[c] + 1)
        BY <3>2, RecordAdds DEF Record
      <4> QED BY <1>1, <1>3, <2>1, <4>1
    <3>3. ASSUME NEW b \in Canisters, Reinstall(b) PROVE Beyond
      <4>1. (age'[c] = age[c] /\ latest'[c] = latest[c]) \/ age'[c] = age[c] + 1
        BY <3>3, ReinstallEmpties
      <4> QED BY <1>1, <1>3, <2>1, <4>1
    <3> QED BY <3>1, <3>2, <3>3, CanisterMoves
  <2>2. CASE cursor'[c] # cursor[c]
    <3>1. /\ UNCHANGED canister
          /\ cursor[c] = None \/ latest[c] < cursor[c]
      BY <2>2, CursorMoves
    <3> QED BY <1>1, <1>3, <3>1, CursorMoves, NoneIsApart DEF canister
  <2> QED BY <2>1, <2>2
<1> QED BY <1>2, <1>3 DEF Ahead

LEMMA DoneStays ==
  ASSUME Types, Shape, [RelayNext]_relayVars, NEW a \in Alerts, Done(a), ~Faulty, \A p \in Passes : ~Handled(p)
  PROVE  Done(a)'
<1> PICK p \in Passes : /\ pass[p].pc = "notify" /\ Matches(a, p, Oldest(pass[p].page))
                        /\ \A n \in pass[p].todo : n.to # a.to
  BY DEF Done
<1>1. CASE UNCHANGED pass
  BY <1>1 DEF Done, Matches, At
<1>2. CASE StartPass
  BY <1>2, StartMoves DEF Asleep
<1>3. ASSUME NEW q \in Passes, Flushes(q) \/ Reads(q) \/ Handles(q) PROVE Done(a)'
  <2>1. q = p
    BY <1>3, OthersSleep DEF Asleep
  <2>2. Handles(p) /\ ~Leaves(p)
    BY <1>3, <2>1, FlushMoves, ReadMoves DEF Faulty
  <2>3. PICK n : Hold(p, n) \/ Deliver(p, n)
    BY <2>2, HandleMoves DEF Handles, Leaves
  <2>4. pass'[p].pc = "notify" /\ pass'[p].page = pass[p].page /\ pass'[p].todo \subseteq pass[p].todo /\ At(p)' = At(p)
    BY <2>2, <2>3, HandleMoves
  <2> QED BY <2>4 DEF Done, Matches, Oldest
<1>4. UNCHANGED pass \/ StartPass \/ \E q \in Passes : Flushes(q) \/ Reads(q) \/ Handles(q)
  BY DEF RelayNext, Record, CloseRequest, Reinstall, DelayEnds, OtherSave, relayVars, memory, Faulty
<1> QED BY <1>1, <1>2, <1>3, <1>4

(* Only Hold, and a fault, makes an alert wait to be sent. *)
LEMMA ToSendMoves ==
  ASSUME Types, Shape, [RelayNext]_relayVars, NEW a \in Alerts, IsToSend(a)', ~IsToSend(a), ~Faulty
  PROVE  \E p \in Passes, n \in Notices : Hold(p, n) /\ a = Alert(At(p), Oldest(pass[p].page), n.to)
<1> USE DEF relayVars, memory
<1>0. /\ ~Crash
      /\ \A p \in Passes : ~NotSaved(p) /\ ~DropNotSaved(p)
  BY DEF Faulty
<1>1. CASE a \notin held
  <2>1. held' \cup saved' \subseteq held \cup saved \/ \E p \in Passes, n \in Notices : Hold(p, n)
    <3>1. ASSUME NEW p \in Passes, Flushes(p) PROVE held' \cup saved' \subseteq held \cup saved
      BY <3>1 DEF Flushes, RequestAnswers, RequestFails, SendHeld, DropHeld, DropNotSaved
    <3>2. ASSUME NEW p \in Passes, Reads(p) \/ Leaves(p) PROVE held' \cup saved' \subseteq held \cup saved
      BY <3>2, ReadMoves
    <3>3. ASSUME NEW p \in Passes, Handles(p), ~Leaves(p)
          PROVE  held' \cup saved' \subseteq held \cup saved \/ \E n \in Notices : Hold(p, n)
      BY <3>3 DEF Handles, Leaves, LookUp, Deliver, Handled
    <3>4. CASE UNCHANGED held /\ saved' \subseteq held \cup saved
      BY <3>4
    <3>5. \/ UNCHANGED held /\ saved' \subseteq held \cup saved
          \/ \E p \in Passes : Flushes(p) \/ Reads(p) \/ Handles(p)
      BY <1>0 DEF RelayNext, Record, CloseRequest, Reinstall, DelayEnds, OtherSave, StartPass
    <3> QED BY <3>1, <3>2, <3>3, <3>4, <3>5
  <2>2. a \in held' \cup saved' /\ a \notin held \cup saved
    BY <1>1 DEF IsToSend
  <2>3. PICK p \in Passes, n \in Notices : Hold(p, n)
    BY <2>1, <2>2
  <2> QED BY <2>2, <2>3 DEF Hold
<1>2. CASE a \in held
  <2>1. PICK p \in Passes : pass[p].pc = "sent" /\ pass[p].alert = a
    BY <1>2 DEF IsToSend
  <2>2. ~UNCHANGED <<pass, held>> /\ ~StartPass
    BY <1>2, <2>1, StartMoves DEF IsToSend, Asleep
  <2>3. \E q \in Passes : Flushes(q) \/ Reads(q) \/ Handles(q)
    BY <1>0, <2>2 DEF RelayNext, Record, CloseRequest, Reinstall, DelayEnds, OtherSave
  <2>4. Flushes(p) \/ Reads(p) \/ Handles(p)
    BY <2>1, <2>3, OthersSleep DEF Asleep
  <2>5. DropHeld(p)
    <3>1. ~Reads(p) /\ ~Leaves(p)
      BY <1>0, <2>1, ReadMoves
    <3>2. ~Handles(p)
      BY <2>1, <3>1, HandleMoves DEF Handles, Leaves
    <3>3. \A k : ~RequestAnswers(p, k) /\ ~RequestFails(p, k)
      BY <2>1 DEF RequestAnswers, RequestFails
    <3>4. \A b : ~SendHeld(p, b)
      BY <2>1 DEF SendHeld
    <3> QED BY <1>0, <2>4, <3>1, <3>2, <3>3, <3>4 DEF Flushes
  <2> QED BY <2>1, <2>5 DEF DropHeld, IsToSend
<1> QED BY <1>1, <1>2

LEMMA HandledBudget ==
  ASSUME Types, Shape, Boxes, Pages, Fresh, Budget, [RelayNext]_relayVars, NEW p \in Passes, Handled(p),
         NEW a \in Alerts
  PROVE  InBudget(a)'
<1> DEFINE o == Oldest(pass[p].page)
<1>1. /\ pass[p].page # {} /\ pass[p].pc = "notify" /\ pass[p].todo = {} /\ pass'[p].pc = "events"
      /\ pass'[p].page = pass[p].page \ {o} /\ UNCHANGED <<canister, held, crashes, sent>>
      /\ o \in pass[p].page /\ At(p)' = At(p) /\ At(p) \in Canisters
      /\ \A q \in Passes : q # p => pass[q] = Asleep /\ pass'[q] = Asleep
      /\ saved' = held
  <2>1. crashes \in Nat /\ UNCHANGED crashes /\ pass[p].pc = "notify" /\ saved' = held
    BY KindsOfThings DEF Handled
  <2>2. ~Leaves(p) /\ Handles(p)
    BY <2>1 DEF Handles, Leaves, LookUpFails, NotSaved
  <2> QED BY <2>1, <2>2, HandleMoves, OldestIsEvent, OthersSleep, UnderWay
<1>2. Page(At(p), pass[p].page) /\ o \in EventsOf(At(p)) /\ pass[p].page \subseteq EventsOf(At(p))
  BY <1>1, OldestIsEvent DEF Pages, Shape, Reading
<1>3. cursor' = [cursor EXCEPT ![At(p)] = o.seq]
  BY DEF Handled
<1> HIDE DEF o
<1> PICK c \in Canisters : c = At(p)
  BY <1>1
<1>4. /\ latest[c] \in Nat /\ age[c] \in Nat /\ cursor[c] \in Nat /\ None \notin Nat /\ a.age \in Nat /\ a.seq \in Nat
      /\ o.seq \in Nat /\ o.age \in Nat /\ o.seq > cursor[c] /\ o.age <= age[c]
      /\ cursor'[c] = o.seq /\ \A b \in Canisters : b # c => cursor'[b] = cursor[b]
  BY <1>1, <1>2, <1>3, KindsOfThings, KindsOfAlerts, NoneIsApart DEF Page, Types, Total, Handled, Shape, Reading
<1>5. IsToSend(a)' => IsToSend(a)
  BY <1>1 DEF IsToSend, Asleep
<1>6. ASSUME IsToCome(a)', ~Untouched(a) PROVE IsToCome(a)
  <2>1. Ahead(a)'
    BY <1>6 DEF IsToCome
  <2>2. CASE a.canister # c
    <3>1. a.canister \in Canisters
      BY KindsOfAlerts
    <3>2. \A q \in Passes : \A e \in pass'[q].page : ~Matches(a, q, e)'
      BY <1>1, <2>2 DEF Matches, Asleep
    <3>3. Ahead(a)
      BY <1>1, <1>4, <2>1, <2>2, <3>1, <3>2 DEF Ahead, canister
    <3> QED BY <1>1, <2>2, <3>3 DEF IsToCome, Done, Matches, Asleep
  <2>3. CASE a.canister = c /\ \E e \in pass'[p].page : a.seq = e.seq /\ a.age = e.age
    <3>1. PICK e \in pass[p].page \ {o} : a.seq = e.seq /\ a.age = e.age
      BY <1>1, <2>3
    <3>2. a.seq # o.seq
      BY <1>1, <1>2, <3>1 DEF Page
    <3>3. Ahead(a)
      BY <2>3, <3>1 DEF Ahead, Matches
    <3> QED BY <1>1, <3>2, <3>3 DEF IsToCome, Done, Matches, Asleep, o
  <2>4. CASE a.canister = c /\ ~\E e \in pass'[p].page : a.seq = e.seq /\ a.age = e.age
    <3>1. \A q \in Passes : \A e \in pass'[q].page : ~Matches(a, q, e)'
      BY <1>1, <2>4 DEF Matches, Asleep
    <3>2. a.age > age[c] \/ (a.age = age[c] /\ (latest[c] < o.seq \/ a.seq > o.seq))
      BY <1>1, <1>4, <2>1, <2>4, <3>1 DEF Ahead, canister
    <3>3. a.age <= age[c] /\ a.age <= o.age
      BY <1>1, <1>4, <1>6, <2>4 DEF Fresh
    <3>4. a.seq > o.seq /\ a.age = age[c]
      BY <1>1, <1>2, <1>4, <3>2, <3>3 DEF Page
    <3>5. Ahead(a)
      BY <1>4, <2>4, <3>4 DEF Ahead
    <3> QED BY <1>1, <1>4, <3>4, <3>5 DEF IsToCome, Done, Matches, Asleep, o
  <2> QED BY <2>2, <2>3, <2>4
<1>7. sent'[a] = sent[a] /\ crashes' = crashes
  BY <1>1
<1>8. CASE Untouched(a)
  <2>1. sent'[a] = 0 /\ ~IsToSend(a)' /\ crashes' \in Nat
    BY <1>1, <1>8, KindsOfThings DEF Untouched, IsToSend
  <2>2. One(IsToSend(a)') = 0 /\ One(IsToCome(a)') \in 0..1
    BY <2>1 DEF One
  <2> QED BY <2>1, <2>2 DEF InBudget
<1>9. CASE ~Untouched(a)
  BY <1>5, <1>6, <1>7, <1>9, OweNoMore
<1> QED BY <1>8, <1>9

(* A fault lets an alert be sent once more. *)
LEMMA FaultBudget ==
  ASSUME Types, Shape, Boxes, Pages, Budget, [RelayNext]_relayVars, Faulty, NEW a \in Alerts
  PROVE  InBudget(a)'
<1>1. sent[a] \in Nat /\ crashes \in Nat /\ sent[a] + One(IsToSend(a)) + One(IsToCome(a)) <= 1 + crashes
  BY KindsOfThings DEF Budget, InBudget
<1>2. sent' = sent /\ crashes' = crashes + 1
  BY DEF Faulty, Crash, NotSaved, DropNotSaved
<1>3. \A p \in Passes : ~Handled(p)
  BY <1>1, <1>2 DEF Handled
<1>4. IsToSend(a)' /\ IsToCome(a)' => IsToSend(a) \/ IsToCome(a)
  <2> SUFFICES ASSUME IsToSend(a)', IsToCome(a)', ~IsToSend(a), ~IsToCome(a) PROVE FALSE
    OBVIOUS
  <2>1. Ahead(a) /\ Done(a)
    BY <1>3, AheadMoves DEF IsToCome
  <2>2. PICK q \in Passes : pass[q].pc = "notify"
    BY <2>1 DEF Done
  <2>3. \A p \in Passes : pass[p].pc # "sent"
    BY <2>2 DEF Shape, OnePass
  <2>4. a \notin held /\ a \notin saved
    BY <2>3 DEF IsToSend
  <2>5. held' \cup saved' \subseteq held \cup saved
    BY DEF Faulty, Crash, NotSaved, DropNotSaved
  <2> QED BY <2>4, <2>5 DEF IsToSend
<1>5. PICK s \in BOOLEAN, t \in BOOLEAN, ss \in BOOLEAN, tt \in BOOLEAN :
        s = IsToSend(a) /\ t = IsToCome(a) /\ ss = IsToSend(a)' /\ tt = IsToCome(a)'
  BY DEF IsToSend, IsToCome
<1>6. sent[a] + One(s) + One(t) <= 1 + crashes /\ (ss /\ tt => s \/ t)
  BY <1>1, <1>4, <1>5
<1>7. sent[a] + One(ss) + One(tt) <= 1 + (crashes + 1)
  BY <1>1, <1>6 DEF One
<1> QED BY <1>2, <1>5, <1>7 DEF InBudget

(* Until an event is handled, an alert comes only if it was to come. *)
LEMMA ToComeMoves ==
  ASSUME Types, Shape, Boxes, Pages, [RelayNext]_relayVars, NEW a \in Alerts, ~Faulty, \A p \in Passes : ~Handled(p)
  PROVE  IsToCome(a)' => IsToCome(a)
BY AheadMoves, DoneStays DEF IsToCome

(* A crash or a failed write is counted. *)
LEMMA FaultyCounts ==
  ASSUME Faulty
  PROVE  crashes' = crashes + 1
BY DEF Faulty, Crash, NotSaved, DropNotSaved

(* A held alert was to be sent, and no longer is when it is. *)
LEMMA SendBudget ==
  ASSUME Types, Shape, Boxes, Pages, Budget, [RelayNext]_relayVars, NEW p \in Passes, NEW b \in LeadAlerts,
         SendHeld(p, b), NEW a \in Alerts
  PROVE  InBudget(a)'
<1>1. /\ sent[a] \in Nat /\ crashes \in Nat /\ sent[a] + One(IsToSend(a)) + One(IsToCome(a)) <= 1 + crashes
      /\ sent \in [Alerts -> Nat] /\ pass \in [Passes -> PassRecord]
  BY KindsOfThings DEF Budget, InBudget
<1>2. /\ pass[p].pc = "next" /\ b \in pass[p].ready /\ sent' = [sent EXCEPT ![b] = @ + 1] /\ UNCHANGED <<held, crashes>>
      /\ pass' = [pass EXCEPT ![p].pc = "sent", ![p].alert = b, ![p].ready = @ \ {b}]
  BY DEF SendHeld
<1>3. pass'[p].pc = "sent" /\ pass'[p].alert = b /\ \A q \in Passes : q # p => pass[q] = Asleep
  BY <1>1, <1>2, OthersSleep DEF Flushes, PassRecord
<1>4. ~Faulty /\ \A q \in Passes : ~Handled(q) /\ \A n : ~Hold(q, n)
  <2>1. ~Faulty
    BY <1>1, <1>2, FaultyCounts
  <2>2. \A q \in Passes : pass[q].pc # "notify"
    BY <1>2, <1>3 DEF Asleep
  <2> QED BY <2>1, <2>2 DEF Handled, Hold
<1>5. IsToCome(a)' => IsToCome(a)
  BY <1>4, ToComeMoves
<1>6. CASE a # b
  <2>1. sent'[a] = sent[a] /\ crashes' = crashes
    BY <1>1, <1>2, <1>6
  <2>2. IsToSend(a)' => IsToSend(a)
    BY <1>4, ToSendMoves
  <2> QED BY <1>5, <2>1, <2>2, OweNoMore
<1>7. CASE a = b
  <2>0. a \in held
    BY <1>2, <1>7 DEF Shape, Flushing
  <2>1. sent'[a] = sent[a] + 1 /\ crashes' = crashes /\ ~IsToSend(a)'
    BY <1>1, <1>2, <1>3, <1>7, <2>0 DEF IsToSend
  <2>2. IsToSend(a)
    BY <1>2, <1>3, <1>7 DEF IsToSend, Asleep, Shape, Flushing
  <2>3. PICK t \in BOOLEAN, tt \in BOOLEAN : t = IsToCome(a) /\ tt = IsToCome(a)'
    BY DEF IsToCome
  <2>4. sent[a] + 1 + One(t) <= 1 + crashes
    BY <1>1, <2>2, <2>3 DEF One
  <2>5. (tt => t) /\ One(IsToSend(a)') = 0
    BY <1>5, <2>1, <2>3 DEF One
  <2>6. sent[a] + 1 + 0 + One(tt) <= 1 + crashes
    BY <1>1, <2>4, <2>5 DEF One
  <2> QED BY <2>1, <2>3, <2>5, <2>6 DEF InBudget
<1> QED BY <1>6, <1>7

(* Who is told, or waits, no longer is to come. *)
LEMMA NoticeBudget ==
  ASSUME Types, Shape, Boxes, Pages, Budget, [RelayNext]_relayVars, NEW p \in Passes, NEW n \in Notices,
         Hold(p, n) \/ Deliver(p, n), NEW a \in Alerts
  PROVE  InBudget(a)'
<1> DEFINE o == Oldest(pass[p].page)
           b == Alert(At(p), o, n.to)
<1>1. /\ sent[a] \in Nat /\ crashes \in Nat /\ sent[a] + One(IsToSend(a)) + One(IsToCome(a)) <= 1 + crashes
      /\ sent \in [Alerts -> Nat] /\ pass \in [Passes -> PassRecord]
  BY KindsOfThings DEF Budget, InBudget
<1>2. /\ pass[p].page # {} /\ pass[p].pc = "notify" /\ n \in pass[p].todo
      /\ pass'[p].pc = "notify" /\ pass'[p].page = pass[p].page /\ pass'[p].todo = pass[p].todo \ {n}
      /\ UNCHANGED crashes /\ At(p)' = At(p) /\ o \in pass[p].page
      /\ \A q \in Passes : q # p => pass[q] = Asleep
  BY HandleMoves, OldestIsEvent, OthersSleep DEF Handles, Leaves, LookUpFails, NotSaved
<1>3. ~Faulty /\ \A q \in Passes : ~Handled(q)
  <2>1. ~Faulty
    BY <1>1, <1>2, FaultyCounts
  <2> QED BY <1>1, <1>2, <2>1 DEF Handled, Asleep
<1>4. IsToCome(a)' => IsToCome(a)
  BY <1>3, ToComeMoves
<1>5. \/ UNCHANGED sent
      \/ sent' = [sent EXCEPT ![b] = @ + 1] /\ \A q \in Passes : \A m : ~Hold(q, m)
  <2>1. Deliver(p, n) => ~\E q \in Passes : \E m : Hold(q, m)
    <3> SUFFICES ASSUME Deliver(p, n), NEW q \in Passes, NEW m, Hold(q, m) PROVE FALSE
      OBVIOUS
    <3>1. UNCHANGED held /\ UNCHANGED sent /\ sent' = [sent EXCEPT ![b] = @ + 1]
      BY DEF Deliver, Hold
    <3>2. b \in Alerts
      BY <1>2, UnderWay, KindsOfAlerts, OldestIsEvent DEF Notices
    <3> HIDE DEF b
    <3> QED BY <1>1, <3>1, <3>2
  <2> QED BY <2>1 DEF Hold, Deliver
<1>6. CASE a # b
  <2>1. sent'[a] = sent[a]
    <3> HIDE DEF b
    <3> QED BY <1>1, <1>5, <1>6
  <2>2. IsToSend(a)' => IsToSend(a)
    <3> SUFFICES ASSUME IsToSend(a)', ~IsToSend(a) PROVE FALSE
      OBVIOUS
    <3>1. PICK q \in Passes, m \in Notices : Hold(q, m) /\ a = Alert(At(q), Oldest(pass[q].page), m.to)
      BY <1>3, ToSendMoves
    <3>2. q = p /\ pass'[p].todo = pass[p].todo \ {m} /\ m \in pass[p].todo
      BY <1>2, <3>1, HandleMoves DEF Asleep, Hold
    <3>3. m = n
      BY <1>2, <3>2
    <3> QED BY <1>6, <3>1, <3>2, <3>3
  <2> QED BY <1>2, <1>4, <2>1, <2>2, OweNoMore
<1>7. CASE a = b
  <2>1. a.canister = At(p) /\ a.seq = o.seq /\ a.age = o.age /\ a.to = n.to
    BY <1>7 DEF Alert
  <2>2. IsToCome(a)
    <3>1. Ahead(a)
      BY <1>2, <2>1 DEF Ahead, Matches
    <3>2. ~Done(a)
      BY <1>2, <2>1 DEF Done, Asleep
    <3> QED BY <3>1, <3>2 DEF IsToCome
  <2>3. ~IsToCome(a)'
    <3>1. \A m \in pass'[p].todo : m.to # a.to
      BY <1>2, <2>1 DEF Shape, Telling
    <3> QED BY <1>2, <2>1, <3>1 DEF IsToCome, Done, Matches
  <2>4. \/ sent'[a] = sent[a]
        \/ sent'[a] = sent[a] + 1 /\ (IsToSend(a)' => IsToSend(a))
    <3>1. sent' = [sent EXCEPT ![b] = @ + 1] => sent'[a] = sent[a] + 1
      <4> HIDE DEF b
      <4> QED BY <1>1, <1>7
    <3> QED BY <1>3, <1>5, <3>1, ToSendMoves
  <2>5. PICK s \in BOOLEAN, ss \in BOOLEAN : s = IsToSend(a) /\ ss = IsToSend(a)'
    BY DEF IsToSend
  <2>6. sent[a] + One(s) + 1 <= 1 + crashes
    BY <1>1, <2>2, <2>5 DEF One
  <2>7. One(IsToCome(a)') = 0
    BY <2>3 DEF One
  <2>8. sent'[a] + One(ss) + 0 <= 1 + crashes
    BY <1>1, <2>4, <2>5, <2>6 DEF One
  <2> QED BY <1>2, <2>5, <2>7, <2>8 DEF InBudget
<1> QED BY <1>6, <1>7

LEMMA BudgetNext ==
  ASSUME Types, Shape, Boxes, Pages, Fresh, Budget, [RelayNext]_relayVars PROVE Budget'
<1> SUFFICES ASSUME NEW a \in Alerts PROVE InBudget(a)'
  BY DEF Budget
<1>1. CASE Faulty
  BY <1>1, FaultBudget
<1>2. ASSUME NEW p \in Passes, Handled(p) PROVE InBudget(a)'
  BY <1>2, HandledBudget
<1>3. ASSUME NEW p \in Passes, NEW b \in LeadAlerts, SendHeld(p, b) PROVE InBudget(a)'
  BY <1>3, SendBudget
<1>4. ASSUME NEW p \in Passes, NEW n \in Notices, Hold(p, n) \/ Deliver(p, n) PROVE InBudget(a)'
  BY <1>4, NoticeBudget
<1>5. CASE /\ UNCHANGED <<sent, crashes>> /\ ~Faulty /\ \A p \in Passes : ~Handled(p)
           /\ ~\E p \in Passes, n \in Notices : Hold(p, n)
  BY <1>5, ToSendMoves, ToComeMoves, OweNoMore
<1>6. \/ UNCHANGED <<sent, crashes>> \/ Faulty
      \/ \E p \in Passes : \/ \E b \in LeadAlerts : SendHeld(p, b)
                           \/ \E n \in Notices : Hold(p, n) \/ Deliver(p, n)
  <2>1. ASSUME NEW p \in Passes, Flushes(p) \/ Reads(p) \/ Handles(p)
        PROVE  \/ UNCHANGED <<sent, crashes>> \/ Faulty
               \/ \E b \in LeadAlerts : SendHeld(p, b)
               \/ \E n \in Notices : Hold(p, n) \/ Deliver(p, n)
    <3>1. CASE Flushes(p)
      BY <3>1 DEF Flushes, RequestAnswers, RequestFails, DropHeld, Faulty
    <3>2. CASE Reads(p) \/ Handles(p)
      BY <3>2, ReadMoves, HandleMoves DEF Handles, Leaves, Faulty
    <3> QED BY <2>1, <3>1, <3>2
  <2> QED BY <2>1 DEF RelayNext, Record, CloseRequest, Reinstall, DelayEnds, OtherSave, StartPass, relayVars, Faulty
<1> QED BY <1>1, <1>2, <1>3, <1>4, <1>5, <1>6

-----------------------------------------------------------------------------
RelayInv ==
  /\ Types /\ Shape /\ Boxes /\ Pages /\ Fresh /\ Budget
  /\ Skipped /\ \A p \in Passes : IsBeingTold(p)

LEMMA RelayInvInit == RelayInit => RelayInv
<1> SUFFICES ASSUME RelayInit PROVE RelayInv
  OBVIOUS
<1> USE DEF RelayInit
<1>1. /\ latest = [c \in Canisters |-> 0] /\ outbox = [c \in Canisters |-> {}]
      /\ closed = {} /\ age = [c \in Canisters |-> 0]
      /\ cursor = [c \in Canisters |-> None]
      /\ first = [c \in Canisters |-> 0] /\ stale = [c \in Canisters |-> FALSE]
      /\ held = {} /\ saved = {} /\ due = {}
      /\ pass = [p \in Passes |-> Asleep]
      /\ crashes = 0 /\ unasked = [c \in Canisters |-> {}] /\ sent = [a \in Alerts |-> 0]
  OBVIOUS
<1>2. Types
  <2>1. BoxTypes /\ ReadingTypes /\ AlertTypes
    BY RelayLimits DEF BoxTypes, ReadingTypes, AlertTypes
  <2>2. pass \in [Passes -> PassRecord]
    BY AsleepType
  <2> QED BY <2>1, <2>2, TypesInParts
<1>3. \A p \in Passes : /\ pass[p] = Asleep /\ pass[p].pc = "idle" /\ pass[p].page = {} /\ pass[p].todo = {}
                        /\ pass[p].flush = {} /\ pass[p].ready = {}
  BY DEF Asleep
<1>4. Shape
  BY <1>3 DEF Shape, KeptOrSent, OnePass, Flushing, Reading, Telling
<1>5. Boxes /\ Pages
  <2>1. IsFiniteSet({})
    BY FS_EmptySet
  <2> QED BY <1>3, <2>1 DEF Boxes, Pages
<1>6. Fresh
  BY <1>3 DEF Fresh, Untouched
<1>7. Budget
  <2> SUFFICES ASSUME NEW a \in Alerts PROVE InBudget(a)
    BY DEF Budget
  <2>1. sent[a] = 0 /\ crashes = 0 /\ ~IsToSend(a)
    BY <1>1 DEF IsToSend
  <2>2. One(IsToSend(a)) = 0 /\ One(IsToCome(a)) \in 0..1
    BY <2>1 DEF One
  <2> QED BY <2>1, <2>2 DEF InBudget
<1>8. Skipped /\ \A p \in Passes : IsBeingTold(p)
  BY <1>3 DEF Skipped, IsBeingTold
<1> QED BY <1>2, <1>4, <1>5, <1>6, <1>7, <1>8 DEF RelayInv

LEMMA RelayInvNext == RelayInv /\ [RelayNext]_relayVars => RelayInv'
<1> SUFFICES ASSUME RelayInv, [RelayNext]_relayVars PROVE RelayInv'
  OBVIOUS
<1>1. /\ Types /\ Shape /\ Boxes /\ Pages /\ Fresh /\ Budget
      /\ Skipped /\ \A p \in Passes : IsBeingTold(p)
  BY DEF RelayInv
<1>2. Types' /\ Shape' /\ Boxes' /\ Pages'
  BY <1>1, TypesNext, ShapeNext, BoxesNext, PagesNext
<1>3. Fresh' /\ Budget'
  BY <1>1, FreshNext, BudgetNext
<1>4. Skipped' /\ \A p \in Passes : IsBeingTold(p)'
  BY <1>1, SkippedNext, BeingToldNext
<1> QED BY <1>2, <1>3, <1>4 DEF RelayInv

LEMMA RelayInvariant == RelaySpec => []RelayInv
BY RelayInvInit, RelayInvNext, PTL DEF RelaySpec

(* What is settled is told, in the words of the property. *)
LEMMA SettledIsTold ==
  RelayInv => NothingSkipped
<1> SUFFICES ASSUME RelayInv, NEW c \in Canisters, NEW e \in outbox[c],
                    cursor[c] # None /\ ~stale[c] /\ first[c] < e.seq /\ e.seq <= cursor[c],
                    IsLead(e) => e.age = 0
             PROVE  IsTold(c, e)
  BY DEF NothingSkipped
<1>1. Settled(c, e)
  BY DEF RelayInv, Skipped, Behind
<1> QED BY <1>1 DEF Settled, IsTold, Audience

LEMMA BudgetIsKept ==
  RelayInv => SentOnce
<1> SUFFICES ASSUME RelayInv, NEW a \in Alerts PROVE sent[a] <= 1 + crashes
  BY DEF SentOnce
<1>1. sent[a] \in Nat /\ crashes \in Nat /\ sent[a] + One(IsToSend(a)) + One(IsToCome(a)) <= 1 + crashes
  BY KindsOfThings DEF RelayInv, Budget, InBudget
<1>2. One(IsToSend(a)) \in 0..1 /\ One(IsToCome(a)) \in 0..1
  BY DEF One
<1> QED BY <1>1, <1>2

(* The relay's and the canisters' state keeps its types, so the number of a  *)
(* cursor is one of its canister's events, and only leads wait.              *)
THEOREM RelayTypesHold == RelaySpec => []RelayTypeOK
<1>1. RelayInv => RelayTypeOK
  BY DEF RelayInv, Types
<1> QED BY <1>1, RelayInvariant, PTL

(* For any number of canisters, events, crashes and reinstallations: no event *)
(* behind a cursor of the poller was skipped.  It was sent to those it is     *)
(* for, or waits for them in the file, or its request is closed; or it asks   *)
(* for a review, and no lookup showed its contractor to have ContractorPro.   *)
THEOREM RelaySkipsNothing == RelaySpec => []NothingSkipped
BY SettledIsTold, RelayInvariant, PTL

(* For any number of canisters, events, crashes and reinstallations: each     *)
(* alert is sent once, and once more at most for each crash of the relay and  *)
(* each failed write of its file.                                             *)
THEOREM RelaySendsOnce == RelaySpec => []SentOnce
BY BudgetIsKept, RelayInvariant, PTL
=============================================================================
