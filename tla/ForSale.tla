------------------------------- MODULE ForSale ------------------------------
(***************************************************************************)
(* Homes for sale by owner: the listing canister's live listings, drafts,  *)
(* showings and offers (backend/listing/main.mo), over the titles of the   *)
(* property canister, of which only what Title promises is used.  A call   *)
(* that waits for another canister or for randomness is cut there.  When a *)
(* home changes hands, the property canister calls propertyTransferred.    *)
(***************************************************************************)
EXTENDS Title, Naturals, FiniteSets

CONSTANTS
  Admins,      \* users whose setup needs no home of theirs
  Calls,       \* calls that may wait at once
  MaxOffers,   \* offers logged
  MaxFiled,    \* requests for a showing filed
  MaxShowings, \* requests a buyer may have open for a home (MAX_SHOWINGS_PER_BUYER)
  MaxKept,     \* requests kept for a home (MAX_SHOWINGS_PER_PROPERTY)
  MaxConveyed  \* homes that change hands

ASSUME AdminsAreUsers == Admins \subseteq Users
ASSUME LimitsAreNatural == {MaxOffers, MaxFiled, MaxShowings, MaxKept, MaxConveyed} \subseteq Nat

VARIABLES
  fsboListings, \* home: the live listing, [homeowner, scored], or Nobody
  fsboDrafts,   \* home: the owner of the seller's setup, or Nobody
  scoreHidden,  \* homes whose seller hid the score
  fsboShowings, \* home: the requests for a showing
  filed,        \* number of requests filed
  fsboOffers,   \* home: the offers logged
  logged,       \* number of offers logged
  calls,        \* call: what it is and how far it has come
  telling,      \* home: calls of propertyTransferred under way
  conveyed      \* how often a home has changed hands

showings == <<fsboShowings, filed>>
offers == <<fsboOffers, logged>>
fsbo == <<fsboListings, fsboDrafts, scoreHidden, showings, offers>>
transfers == <<telling, conveyed>>
sales == <<fsbo, calls, transfers>>
vars == <<titleVars, sales>>

Listing == [homeowner : Users, scored : BOOLEAN]
ASSUME NobodyIsNoListing == Nobody \notin Listing
Showings == [id : 1..MaxFiled, by : Users, status : {"Pending", "Answered", "Declined"}]
Offers == [id : 1..MaxOffers, by : Users, status : {"Active", "Accepted", "Rejected"}]
OwnerKinds == {"activate", "draft"}
Kinds == OwnerKinds \cup {"showing", "offer", "score"}
Idle == [kind |-> "idle"]
Waiting == [kind : Kinds, user : Users, home : Homes, answered : BOOLEAN]

IsLive(h) == fsboListings[h] # Nobody
Seller(h) == IF IsLive(h) THEN fsboListings[h].homeowner ELSE fsboDrafts[h]

Init ==
  /\ TitleInit
  /\ fsboListings = [h \in Homes |-> Nobody] /\ fsboDrafts = [h \in Homes |-> Nobody]
  /\ scoreHidden = {} /\ fsboShowings = [h \in Homes |-> {}] /\ filed = 0
  /\ fsboOffers = [h \in Homes |-> {}] /\ logged = 0
  /\ calls = [c \in Calls |-> Idle]
  /\ telling = [h \in Homes |-> 0] /\ conveyed = 0

-----------------------------------------------------------------------------
(* Titles: the property canister. *)
OwnerActs ==
  /\ \E h \in Homes : Offer(h) \/ Withdraw(h) \/ \E u \in Users : Acquire(u, h)
  /\ UNCHANGED sales

(* claimTransfer, which then calls propertyTransferred. *)
ChangesHands(u, h) ==
  /\ conveyed < MaxConveyed /\ Convey(u, h)
  /\ telling' = [telling EXCEPT ![h] = @ + 1]
  /\ conveyed' = conveyed + 1
  /\ UNCHANGED <<fsbo, calls>>

-----------------------------------------------------------------------------
(* Calls that wait. *)
Begins(c, kind, u, h, answered) ==
  /\ calls[c] = Idle
  /\ calls' = [calls EXCEPT ![c] = [kind |-> kind, user |-> u, home |-> h, answered |-> answered]]

Resumes(c, kind) ==
  /\ calls[c].kind = kind /\ calls[c].answered
  /\ calls' = [calls EXCEPT ![c] = Idle]

(* activateFsboListing asks who owns the home first, and so does           *)
(* saveFsboDraft unless an administrator calls it.                         *)
AskOwner(c, kind, u, h) ==
  /\ kind \in OwnerKinds /\ (kind = "draft" => u \notin Admins)
  /\ Begins(c, kind, u, h, FALSE)
  /\ UNCHANGED <<titleVars, fsbo, transfers>>

OwnerIs(c) ==
  /\ calls[c] # Idle /\ ~calls[c].answered
  /\ calls' = [calls EXCEPT ![c] = IF title[@.home] = @.user THEN [@ EXCEPT !.answered = TRUE] ELSE Idle]
  /\ UNCHANGED <<titleVars, fsbo, transfers>>

(* A canister that is asked does not answer. *)
CallFails(c) ==
  /\ calls[c] # Idle
  /\ calls' = [calls EXCEPT ![c] = Idle]
  /\ UNCHANGED <<titleVars, fsbo, transfers>>

-----------------------------------------------------------------------------
(* Listings and drafts. *)

(* mutant of MayShowScore: a score asked for is shown *)
ShowScore(h) == TRUE

(* The score may have been hidden while the market canister was asked. *)
MayShowScore(h) == h \notin scoreHidden

(* Job, report and market canisters have answered too. *)
ActivateFsboListing(c, scored) ==
  LET h == calls[c].home
      u == calls[c].user
  IN /\ Resumes(c, "activate") /\ (scored => MayShowScore(h))
     /\ fsboListings' = [fsboListings EXCEPT ![h] = [homeowner |-> u, scored |-> scored]]
     /\ fsboDrafts' = [fsboDrafts EXCEPT ![h] = u]
     /\ UNCHANGED <<titleVars, scoreHidden, showings, offers, transfers>>

(* mutant of MaySave: whether the listing is live was asked before the wait *)
SaveAnyway(h) == TRUE

(* Setups are of homes that are not for sale yet. *)
MaySave(h) == ~IsLive(h)

SaveFsboDraft(c) ==
  LET h == calls[c].home
  IN /\ Resumes(c, "draft")
     /\ fsboDrafts' = IF MaySave(h) THEN [fsboDrafts EXCEPT ![h] = calls[c].user] ELSE fsboDrafts
     /\ UNCHANGED <<titleVars, fsboListings, scoreHidden, showings, offers, transfers>>

(* An administrator's setup does not wait: nobody is asked who owns the home. *)
SaveAsAdmin(u, h) ==
  /\ u \in Admins /\ MaySave(h)
  /\ fsboDrafts' = [fsboDrafts EXCEPT ![h] = u]
  /\ UNCHANGED <<titleVars, fsboListings, scoreHidden, showings, offers, calls, transfers>>

ClearFsboState(hs) ==
  /\ fsboDrafts' = [h \in Homes |-> IF h \in hs THEN Nobody ELSE fsboDrafts[h]]
  /\ fsboShowings' = [h \in Homes |-> IF h \in hs THEN {} ELSE fsboShowings[h]]
  /\ fsboOffers' = [h \in Homes |-> IF h \in hs THEN {} ELSE fsboOffers[h]]
  /\ scoreHidden' = scoreHidden \ hs

TakeDown(h) ==
  /\ fsboListings' = [fsboListings EXCEPT ![h] = Nobody]
  /\ ClearFsboState({h})

DeactivateFsboListing(h) ==
  /\ IsLive(h) /\ TakeDown(h)
  /\ UNCHANGED <<titleVars, filed, logged, calls, transfers>>

DiscardFsboDraft(h) ==
  /\ ~IsLive(h) /\ fsboDrafts[h] # Nobody /\ ClearFsboState({h})
  /\ UNCHANGED <<titleVars, fsboListings, filed, logged, calls, transfers>>

PropertyTransferred(h) ==
  /\ telling[h] > 0 /\ TakeDown(h)
  /\ telling' = [telling EXCEPT ![h] = @ - 1]
  /\ UNCHANGED <<titleVars, filed, logged, calls, conveyed>>

-----------------------------------------------------------------------------
(* The score of a live listing. *)
HideScore(h) ==
  /\ IsLive(h)
  /\ scoreHidden' = scoreHidden \cup {h}
  /\ fsboListings' = [fsboListings EXCEPT ![h].scored = FALSE]
  /\ UNCHANGED <<titleVars, fsboDrafts, showings, offers, calls, transfers>>

AskScore(c, h) ==
  /\ IsLive(h) /\ Begins(c, "score", fsboListings[h].homeowner, h, TRUE)
  /\ scoreHidden' = scoreHidden \ {h}
  /\ UNCHANGED <<titleVars, fsboListings, fsboDrafts, showings, offers, transfers>>

ScoreIs(c, scored) ==
  LET h == calls[c].home
  IN /\ Resumes(c, "score")
     /\ fsboListings' = IF IsLive(h) /\ MayShowScore(h)
                        THEN [fsboListings EXCEPT ![h].scored = scored] ELSE fsboListings
     /\ UNCHANGED <<titleVars, fsboDrafts, scoreHidden, showings, offers, transfers>>

-----------------------------------------------------------------------------
(* Showings and offers, whose ids are random. *)
RequestShowing(c, u, h) ==
  /\ IsLive(h) /\ fsboListings[h].homeowner # u
  /\ Begins(c, "showing", u, h, TRUE)
  /\ UNCHANGED <<titleVars, fsbo, transfers>>

(* Accepted and AlternateProposed are alike: answered. *)
Open(u, h) == {r \in fsboShowings[h] : r.by = u /\ r.status # "Declined"}
OldestAnswered(h) ==
  {r \in fsboShowings[h] : r.status # "Pending" /\
     \A x \in fsboShowings[h] : x.status # "Pending" => r.id <= x.id}
IsFull(h) == Cardinality(fsboShowings[h]) >= MaxKept

(* mutant of MayFile: the listing is not looked up again *)
FileAnyway(u, h) == Cardinality(Open(u, h)) < MaxShowings

MayFile(u, h) ==
  /\ IsLive(h) /\ Cardinality(Open(u, h)) < MaxShowings
  /\ IsFull(h) => OldestAnswered(h) # {}

FileShowing(c) ==
  LET h == calls[c].home
      u == calls[c].user
  IN /\ Resumes(c, "showing")
     /\ IF MayFile(u, h) /\ filed < MaxFiled
        THEN /\ filed' = filed + 1
             /\ fsboShowings' = [fsboShowings EXCEPT ![h] =
                  (IF IsFull(h) THEN @ \ OldestAnswered(h) ELSE @)
                    \cup {[id |-> filed + 1, by |-> u, status |-> "Pending"]}]
        ELSE UNCHANGED showings
     /\ UNCHANGED <<titleVars, fsboListings, fsboDrafts, scoreHidden, offers, transfers>>

(* An answer may be given again, and be another: a request that was        *)
(* declined is open once more.                                             *)
RespondToShowing(h, r, status) ==
  /\ r \in fsboShowings[h] /\ status \in {"Answered", "Declined"}
  /\ fsboShowings' = [fsboShowings EXCEPT ![h] = (@ \ {r}) \cup {[r EXCEPT !.status = status]}]
  /\ UNCHANGED <<titleVars, fsboListings, fsboDrafts, scoreHidden, filed, offers, calls, transfers>>

LogFsboOffer(c, h) ==
  /\ Seller(h) # Nobody /\ Begins(c, "offer", Seller(h), h, TRUE)
  /\ UNCHANGED <<titleVars, fsbo, transfers>>

MayLog(u, h) == Seller(h) = u

StoreOffer(c) ==
  LET h == calls[c].home
      u == calls[c].user
  IN /\ Resumes(c, "offer")
     /\ IF MayLog(u, h) /\ logged < MaxOffers
        THEN /\ logged' = logged + 1
             /\ fsboOffers' = [fsboOffers EXCEPT ![h] =
                  @ \cup {[id |-> logged + 1, by |-> u, status |-> "Active"]}]
        ELSE UNCHANGED offers
     /\ UNCHANGED <<titleVars, fsboListings, fsboDrafts, scoreHidden, showings, transfers>>

(* Every other open offer is rejected. *)
AcceptFsboOffer(h, o) ==
  /\ o \in fsboOffers[h] /\ o.status = "Active"
  /\ fsboOffers' = [fsboOffers EXCEPT ![h] =
       {[x EXCEPT !.status = IF x = o THEN "Accepted" ELSE IF @ = "Active" THEN "Rejected" ELSE @] : x \in @}]
  /\ UNCHANGED <<titleVars, fsboListings, fsboDrafts, scoreHidden, showings, logged, calls, transfers>>

RejectFsboOffer(h, o) ==
  /\ o \in fsboOffers[h] /\ o.status = "Active"
  /\ fsboOffers' = [fsboOffers EXCEPT ![h] = (@ \ {o}) \cup {[o EXCEPT !.status = "Rejected"]}]
  /\ UNCHANGED <<titleVars, fsboListings, fsboDrafts, scoreHidden, showings, logged, calls, transfers>>

-----------------------------------------------------------------------------
(* deleteMyData of the listing canister, as far as it is about sales by    *)
(* owner; the home itself is deleted by the property canister.             *)
DeleteMyData(u) ==
  LET live == {h \in Homes : IsLive(h) /\ fsboListings[h].homeowner = u}
      gone == live \cup {h \in Homes : fsboDrafts[h] = u}
  IN /\ fsboListings' = [h \in Homes |-> IF h \in live THEN Nobody ELSE fsboListings[h]]
     /\ fsboDrafts' = [h \in Homes |-> IF h \in gone THEN Nobody ELSE fsboDrafts[h]]
     /\ fsboShowings' = [h \in Homes |-> IF h \in gone THEN {} ELSE {r \in fsboShowings[h] : r.by # u}]
     /\ fsboOffers' = [h \in Homes |-> IF h \in gone THEN {} ELSE fsboOffers[h]]
     /\ scoreHidden' = scoreHidden \ gone
     /\ UNCHANGED <<titleVars, filed, logged, calls, transfers>>

-----------------------------------------------------------------------------
Next ==
  \/ OwnerActs
  \/ \E u \in Users, h \in Homes : ChangesHands(u, h) \/ SaveAsAdmin(u, h)
  \/ \E c \in Calls, u \in Users, h \in Homes :
       RequestShowing(c, u, h) \/ \E k \in OwnerKinds : AskOwner(c, k, u, h)
  \/ \E c \in Calls, h \in Homes : AskScore(c, h) \/ LogFsboOffer(c, h)
  \/ \E c \in Calls : OwnerIs(c) \/ CallFails(c) \/ SaveFsboDraft(c) \/ FileShowing(c) \/ StoreOffer(c)
  \/ \E c \in Calls, scored \in BOOLEAN : ActivateFsboListing(c, scored) \/ ScoreIs(c, scored)
  \/ \E h \in Homes :
       \/ DeactivateFsboListing(h) \/ DiscardFsboDraft(h) \/ PropertyTransferred(h) \/ HideScore(h)
       \/ \E r \in fsboShowings[h], status \in {"Answered", "Declined"} : RespondToShowing(h, r, status)
       \/ \E o \in fsboOffers[h] : AcceptFsboOffer(h, o) \/ RejectFsboOffer(h, o)
  \/ \E u \in Users : DeleteMyData(u)

Spec == Init /\ [][Next]_vars

-----------------------------------------------------------------------------
TypeOK ==
  /\ title \in [Homes -> Users \cup {Nobody}] /\ offered \in [Homes -> Users \cup {Nobody}]
  /\ fsboListings \in [Homes -> Listing \cup {Nobody}]
  /\ fsboDrafts \in [Homes -> Users \cup {Nobody}]
  /\ scoreHidden \subseteq Homes
  /\ fsboShowings \in [Homes -> SUBSET Showings] /\ filed \in 0..MaxFiled
  /\ fsboOffers \in [Homes -> SUBSET Offers] /\ logged \in 0..MaxOffers
  /\ calls \in [Calls -> Waiting \cup {Idle}]
  /\ telling \in [Homes -> Nat] /\ conveyed \in 0..MaxConveyed

(* A score its seller hid is not on the listing, whatever calls that were   *)
(* to show it or to put the listing up were under way when it was hidden    *)
(* ("a 'hide' sent in the same round may have landed meanwhile: it wins").  *)
HiddenScoreIsNotShown ==
  \A h \in scoreHidden : IsLive(h) => ~fsboListings[h].scored

(* Nothing outlives the sale it belongs to, although a request that waits   *)
(* may land after the sale is over: the contact details of buyers go with   *)
(* the listing they asked about, offers with the setup they were logged in. *)
NothingOutlivesTheSale ==
  \A h \in Homes :
    /\ ~IsLive(h) => fsboShowings[h] = {}
    /\ Seller(h) = Nobody => fsboOffers[h] = {}

(* A live listing and the setup kept with it have one seller, although a    *)
(* setup may be saved by a call that asked for the owner before the home    *)
(* changed hands or went live, and by an administrator who owns no home:    *)
(* so a deletion of account, which clears what is kept for the homes its    *)
(* user has a setup of, never takes the showings and offers of another's    *)
(* live listing ("FSBO setups that never went live").                       *)
SaleHasOneSeller ==
  \A h \in Homes : IsLive(h) => fsboDrafts[h] = fsboListings[h].homeowner
=============================================================================
