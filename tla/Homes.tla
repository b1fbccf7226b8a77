------------------------------- MODULE Homes --------------------------------
(***************************************************************************)
(* The homes of the property canister (backend/property/main.mo): who may  *)
(* register an address, which claim on it is verified, transfer links,     *)
(* people a home is shared with, and account deletion.                     *)
(*                                                                         *)
(* A registration is cut at its two awaits, of the payment canister and of *)
(* the random id.  Other calls that await randomness read nothing before   *)
(* it and are one step each.  Time is counted in windows of seven days.    *)
(* The module implements Title.                                            *)
(***************************************************************************)
EXTENDS Naturals, FiniteSets

CONSTANTS
  Users, Admins,
  Homes,      \* home ids
  Calls,      \* registrations that may wait at once
  Addresses,  \* keys of addresses
  Roles,      \* of the people a home is shared with
  PlanLimit,  \* user: homes the user's plan allows, 0 for no limit
  Window,     \* how long an unverified claim keeps others out (7 days)
  LinkLife,   \* how long a transfer link or an invitation is good for (90 days)
  MaxTime,    \* the clock stops
  MaxTokens,  \* links and invitations given out
  None

ASSUME LimitsAreNatural ==
  /\ Window \in Nat /\ LinkLife \in Nat /\ MaxTime \in Nat /\ MaxTokens \in Nat
  /\ PlanLimit \in [Users -> Nat]
ASSUME AdminsAreUsers == Admins \subseteq Users
ASSUME NoneIsApart == None \notin Users \cup Homes \cup Addresses \cup Roles \cup Nat

VARIABLES
  properties,        \* home: its record
  addressIdx,        \* address: the home that holds it
  addressClaimSince, \* address: when its claims began
  registering,       \* call: the registration that waits for an answer
  inFlight,          \* users with a registration under way
  pendingTransfers,  \* home: its transfer link
  tokenIndex,        \* token: the home it transfers
  managers,          \* home: the role of each user it is shared with
  invites,           \* open invitations
  tokens,            \* tokens given out
  now,
  registrant,        \* ghost, home: who registered it and has owned it since
  erased             \* ghost: users who deleted their account and did not return

registry == <<properties, addressIdx, addressClaimSince, registrant>>
calls == <<registering, inFlight>>
links == <<pendingTransfers, tokenIndex>>
sharing == <<managers, invites>>
vars == <<registry, calls, links, sharing, tokens, now, erased>>

Levels == {"Unverified", "PendingReview", "Verified"}
Tokens == 1..MaxTokens
Property == [owner : Users, key : Addresses, level : Levels, createdAt : 0..MaxTime]
PendingTransfer == [from : Users, token : Tokens, expiresAt : Nat]
Invitation == [home : Homes, token : Tokens, role : Roles, expiresAt : Nat]
Registration == [caller : Users, key : Addresses, stage : {"tier", "id"}]
ASSUME NoneIsNoRecord ==
  None \notin Property /\ None \notin PendingTransfer /\ None \notin Registration

Live(h) == properties[h] # None
OwnedBy(u, h) == Live(h) /\ properties[h].owner = u
At(k, h) == Live(h) /\ properties[h].key = k
IsVerified(h) == Live(h) /\ properties[h].level = "Verified"
NoManagers == [u \in Users |-> None]

Init ==
  /\ properties = [h \in Homes |-> None]
  /\ addressIdx = [k \in Addresses |-> None]
  /\ addressClaimSince = [k \in Addresses |-> None]
  /\ registering = [c \in Calls |-> None] /\ inFlight = {}
  /\ pendingTransfers = [h \in Homes |-> None] /\ tokenIndex = [t \in Tokens |-> None]
  /\ managers = [h \in Homes |-> NoManagers] /\ invites = {}
  /\ tokens = 0 /\ now = 0
  /\ registrant = [h \in Homes |-> None] /\ erased = {}

Tick ==
  /\ now < MaxTime
  /\ now' = now + 1
  /\ UNCHANGED <<registry, calls, links, sharing, tokens, erased>>

-----------------------------------------------------------------------------
(* Registration. *)
Indexed(k) == addressIdx[k] # None /\ Live(addressIdx[k])

(* mutant of ClaimStart: every claim has a window of its own *)
ClaimStartsNow(k, otherwise) == otherwise

(* When the claims on k that are now under way began. *)
ClaimStart(k, otherwise) ==
  IF addressClaimSince[k] # None THEN addressClaimSince[k]
  ELSE IF Indexed(k) /\ ~IsVerified(addressIdx[k])
            /\ properties[addressIdx[k]].createdAt <= otherwise
       THEN properties[addressIdx[k]].createdAt
       ELSE otherwise

(* addressConflict answers nothing: u may register at k. *)
MayClaim(u, k) ==
  Indexed(k) =>
    LET h == addressIdx[k]
    IN \/ properties[h].owner = u
       \/ ~IsVerified(h) /\ now >= ClaimStart(k, properties[h].createdAt) + Window

(* mutant of MayRegister: calls of one user may run side by side *)
MayRegisterTwice(u) == TRUE

MayRegister(u) == u \notin inFlight

(* A second call of the same user is turned away. *)
RegisterProperty(c, u, k) ==
  /\ registering[c] = None
  /\ ~ \E h \in Homes : OwnedBy(u, h) /\ At(k, h)
  /\ MayClaim(u, k) /\ MayRegister(u)
  /\ inFlight' = inFlight \cup {u}
  /\ registering' = [registering EXCEPT ![c] = [caller |-> u, key |-> k, stage |-> "tier"]]
  /\ erased' = erased \ {u}
  /\ UNCHANGED <<registry, links, sharing, tokens, now>>

Waits(c, stage) == registering[c] # None /\ registering[c].stage = stage
Caller(c) == registering[c].caller
Done(c) ==
  /\ registering' = [registering EXCEPT ![c] = None]
  /\ inFlight' = inFlight \ {Caller(c)}

WithinLimit(u) ==
  PlanLimit[u] > 0 => Cardinality({h \in Homes : OwnedBy(u, h)}) < PlanLimit[u]

TierAnswers(c) ==
  /\ Waits(c, "tier")
  /\ IF WithinLimit(Caller(c))
     THEN registering' = [registering EXCEPT ![c].stage = "id"] /\ UNCHANGED inFlight
     ELSE Done(c)
  /\ UNCHANGED <<registry, links, sharing, tokens, now, erased>>

(* A call to another canister fails, or the plan has no homes. *)
RegistrationFails(c) ==
  /\ registering[c] # None /\ Done(c)
  /\ UNCHANGED <<registry, links, sharing, tokens, now, erased>>

Put(h, u, k) ==
  properties' = [properties EXCEPT ![h] =
    [owner |-> u, key |-> k, level |-> "Unverified", createdAt |-> now]]

(* mutant of Holder: the newest home takes the address *)
NewestHolds(k, h) == h

(* A verified home keeps the address. *)
Holder(k, h) == IF Indexed(k) /\ IsVerified(addressIdx[k]) THEN addressIdx[k] ELSE h

IdArrives(c, h) ==
  LET u == Caller(c)
      k == registering[c].key
  IN /\ Waits(c, "id") /\ ~Live(h) /\ MayClaim(u, k)
     /\ Put(h, u, k)
     /\ addressIdx' = [addressIdx EXCEPT ![k] = Holder(k, h)]
     /\ addressClaimSince' = [addressClaimSince EXCEPT ![k] = ClaimStart(k, now)]
     /\ registrant' = [registrant EXCEPT ![h] = u]
     /\ Done(c)
     /\ UNCHANGED <<links, sharing, tokens, now, erased>>

IdTooLate(c) ==
  /\ Waits(c, "id") /\ ~MayClaim(Caller(c), registering[c].key)
  /\ Done(c)
  /\ UNCHANGED <<registry, links, sharing, tokens, now, erased>>

(* One row of a builder's import. *)
BulkRegister(u, k, h) ==
  /\ u \in Admins /\ ~Indexed(k) /\ ~Live(h)
  /\ Put(h, u, k)
  /\ addressIdx' = [addressIdx EXCEPT ![k] = h]
  /\ erased' = erased \ {u}
  /\ UNCHANGED <<addressClaimSince, registrant, calls, links, sharing, tokens, now>>

-----------------------------------------------------------------------------
(* Verification. *)
SubmitVerification(h) ==
  /\ Live(h) /\ ~IsVerified(h)
  /\ properties' = [properties EXCEPT ![h].level = "PendingReview"]
  /\ UNCHANGED <<addressIdx, addressClaimSince, registrant, calls, links, sharing, tokens, now, erased>>

(* No other home holds the address as a verified one. *)
Unrivalled(h) ==
  LET other == addressIdx[properties[h].key] IN other \in {h, None} \/ ~IsVerified(other)

VerifyProperty(h, level) ==
  /\ Live(h) /\ (level = "Verified" => Unrivalled(h))
  /\ properties' = [properties EXCEPT ![h].level = level]
  /\ addressIdx' = IF level = "Verified" THEN [addressIdx EXCEPT ![properties[h].key] = h]
                   ELSE addressIdx
  /\ UNCHANGED <<addressClaimSince, registrant, calls, links, sharing, tokens, now, erased>>

-----------------------------------------------------------------------------
(* Transfer. *)
NextToken == tokens + 1
GiveToken == tokens < MaxTokens /\ tokens' = NextToken

(* A new link replaces the one before it. *)
InitiateTransfer(u, h) ==
  /\ OwnedBy(u, h) /\ GiveToken
  /\ pendingTransfers' = [pendingTransfers EXCEPT ![h] =
       [from |-> u, token |-> NextToken, expiresAt |-> now + LinkLife]]
  /\ tokenIndex' = [t \in Tokens |-> IF t = NextToken THEN h
       ELSE IF pendingTransfers[h] # None /\ pendingTransfers[h].token = t THEN None
       ELSE tokenIndex[t]]
  /\ UNCHANGED <<registry, calls, sharing, now, erased>>

DropLink(h) ==
  /\ pendingTransfers' = [pendingTransfers EXCEPT ![h] = None]
  /\ tokenIndex' = [tokenIndex EXCEPT ![pendingTransfers[h].token] = None]

(* The link of token t is the one its home has now. *)
LinkOf(t, h) == tokenIndex[t] = h /\ pendingTransfers[h] # None /\ pendingTransfers[h].token = t

(* mutant of ClearDelegatedAccess: invitations stay open *)
ClearManagersOnly(hs) ==
  /\ managers' = [h \in Homes |-> IF h \in hs THEN NoManagers ELSE managers[h]]
  /\ UNCHANGED invites

(* clearDelegatedAccess *)
ClearDelegatedAccess(hs) ==
  /\ managers' = [h \in Homes |-> IF h \in hs THEN NoManagers ELSE managers[h]]
  /\ invites' = {i \in invites : i.home \notin hs}

ClaimTransfer(u, t, h) ==
  /\ LinkOf(t, h) /\ now <= pendingTransfers[h].expiresAt
  /\ pendingTransfers[h].from # u /\ Live(h)
  /\ properties' = [properties EXCEPT ![h].owner = u]
  /\ registrant' = [registrant EXCEPT ![h] = None]
  /\ ClearDelegatedAccess({h})
  /\ DropLink(h)
  /\ erased' = erased \ {u}
  /\ UNCHANGED <<addressIdx, addressClaimSince, calls, tokens, now>>

ClaimTooLate(t, h) ==
  /\ LinkOf(t, h) /\ now > pendingTransfers[h].expiresAt
  /\ DropLink(h)
  /\ UNCHANGED <<registry, calls, sharing, tokens, now, erased>>

(* By the seller or an admin. *)
CancelTransfer(h) ==
  /\ pendingTransfers[h] # None
  /\ DropLink(h)
  /\ UNCHANGED <<registry, calls, sharing, tokens, now, erased>>

-----------------------------------------------------------------------------
(* Sharing. *)

(* An invitation replaces the one for the same role. *)
InviteManager(u, h, r) ==
  /\ OwnedBy(u, h) /\ GiveToken
  /\ invites' = {i \in invites : ~(i.home = h /\ i.role = r)} \cup
       {[home |-> h, token |-> NextToken, role |-> r, expiresAt |-> now + LinkLife]}
  /\ UNCHANGED <<registry, calls, links, managers, now, erased>>

(* Cancelled by the owner, or found to have expired when it is claimed. *)
DropInvite(i) ==
  /\ i \in invites /\ invites' = invites \ {i}
  /\ UNCHANGED <<registry, calls, links, managers, tokens, now, erased>>

ClaimManagerRole(u, i) ==
  /\ i \in invites /\ now <= i.expiresAt /\ Live(i.home) /\ ~OwnedBy(u, i.home)
  /\ managers' = [managers EXCEPT ![i.home][u] = i.role]
  /\ invites' = invites \ {i}
  /\ erased' = erased \ {u}
  /\ UNCHANGED <<registry, calls, links, tokens, now>>

UpdateManagerRole(h, m, r) ==
  /\ Live(h) /\ managers[h][m] # None
  /\ managers' = [managers EXCEPT ![h][m] = r]
  /\ UNCHANGED <<registry, calls, links, invites, tokens, now, erased>>

(* removeManager by the owner, resignAsManager by the manager. *)
RemoveManager(h, m) ==
  /\ managers[h][m] # None
  /\ managers' = [managers EXCEPT ![h][m] = None]
  /\ UNCHANGED <<registry, calls, links, invites, tokens, now, erased>>

-----------------------------------------------------------------------------
(* Account deletion. *)

(* The home that holds k when those in `gone` are deleted: a verified one, *)
(* or else the newest.                                                     *)
Better(a, b) ==
  \/ IsVerified(a) /\ ~IsVerified(b)
  \/ (IsVerified(a) <=> IsVerified(b)) /\ properties[a].createdAt > properties[b].createdAt
MayHold(k, gone, h) ==
  IF \A x \in Homes \ gone : ~At(k, x) THEN h = None
  ELSE h \in Homes \ gone /\ At(k, h) /\ \A x \in Homes \ gone : At(k, x) => ~Better(x, h)

(* mutant of DeleteAllowed: a registration under way does not matter *)
DeleteAnyTime(u) == TRUE

DeleteAllowed(u) == u \notin inFlight

Reindex(gone) ==
  \E idx \in [Addresses -> Homes \cup {None}] :
    /\ \A k \in Addresses :
         IF addressIdx[k] \in gone THEN MayHold(k, gone, idx[k]) ELSE idx[k] = addressIdx[k]
    /\ addressIdx' = idx
    /\ addressClaimSince' = [k \in Addresses |->
         IF addressIdx[k] \in gone /\ idx[k] = None THEN None ELSE addressClaimSince[k]]

DeleteMyData(u) ==
  LET gone == {h \in Homes : OwnedBy(u, h)}
  IN /\ DeleteAllowed(u)
     /\ properties' = [h \in Homes |-> IF h \in gone THEN None ELSE properties[h]]
     /\ registrant' = [h \in Homes |-> IF h \in gone THEN None ELSE registrant[h]]
     /\ Reindex(gone)
     /\ pendingTransfers' = [h \in Homes |-> IF h \in gone THEN None ELSE pendingTransfers[h]]
     /\ tokenIndex' = [t \in Tokens |->
          IF \E h \in gone : pendingTransfers[h] # None /\ pendingTransfers[h].token = t
          THEN None ELSE tokenIndex[t]]
     /\ managers' = [h \in Homes |-> IF h \in gone THEN NoManagers ELSE [managers[h] EXCEPT ![u] = None]]
     /\ invites' = {i \in invites : i.home \notin gone}
     /\ erased' = erased \cup {u}
     /\ UNCHANGED <<calls, tokens, now>>

-----------------------------------------------------------------------------
Next ==
  \/ Tick
  \/ \E u \in Users, k \in Addresses :
       \/ \E c \in Calls : RegisterProperty(c, u, k)
       \/ \E h \in Homes : BulkRegister(u, k, h)
  \/ \E c \in Calls :
       TierAnswers(c) \/ RegistrationFails(c) \/ IdTooLate(c) \/ \E h \in Homes : IdArrives(c, h)
  \/ \E h \in Homes :
       SubmitVerification(h) \/ CancelTransfer(h) \/ \E l \in Levels : VerifyProperty(h, l)
  \/ \E h \in Homes, t \in Tokens :
       ClaimTooLate(t, h) \/ \E u \in Users : ClaimTransfer(u, t, h)
  \/ \E u \in Users, h \in Homes :
       \/ InitiateTransfer(u, h) \/ RemoveManager(h, u)
       \/ \E r \in Roles : InviteManager(u, h, r) \/ UpdateManagerRole(h, u, r)
  \/ \E i \in invites : DropInvite(i) \/ \E u \in Users : ClaimManagerRole(u, i)
  \/ \E u \in Users : DeleteMyData(u)

Spec == Init /\ [][Next]_vars

-----------------------------------------------------------------------------
TypeOK ==
  /\ properties \in [Homes -> Property \cup {None}]
  /\ addressIdx \in [Addresses -> Homes \cup {None}]
  /\ addressClaimSince \in [Addresses -> 0..MaxTime \cup {None}]
  /\ registering \in [Calls -> Registration \cup {None}] /\ inFlight \subseteq Users
  /\ pendingTransfers \in [Homes -> PendingTransfer \cup {None}]
  /\ tokenIndex \in [Tokens -> Homes \cup {None}]
  /\ managers \in [Homes -> [Users -> Roles \cup {None}]]
  /\ invites \subseteq Invitation
  /\ tokens \in 0..MaxTokens /\ now \in 0..MaxTime
  /\ registrant \in [Homes -> Users \cup {None}] /\ erased \subseteq Users

(* An address has at most one verified home, and its index leads to that *)
(* home, whatever registrations, transfers and deletions come between    *)
(* ("only one verified owner per address").                              *)
VerifiedHomeHoldsItsAddress ==
  \A h \in Homes : IsVerified(h) => addressIdx[properties[h].key] = h

(* The window in which others are kept out of an unverified address is not *)
(* renewed by later claims on it; it ends for good only when no claim is   *)
(* left ("so it can't be renewed forever by rotating principals").         *)
WindowIsNotRenewed ==
  [][\A k \in Addresses :
       addressClaimSince[k] # None /\ (\E h \in Homes : At(k, h)') =>
         addressClaimSince'[k] = addressClaimSince[k]]_vars

(* Registrations sent at once do not take a user over the plan's limit: of *)
(* the homes a user registered and has owned since, there are no more than *)
(* the plan allows.                                                        *)
RegistrationsStayInPlan ==
  \A u \in Users : PlanLimit[u] > 0 =>
    Cardinality({h \in Homes : registrant[h] = u}) <= PlanLimit[u]

(* Who deleted the account owns nothing, has no registration under way, no *)
(* link out and no access to a home, until they come back by a call of     *)
(* their own.                                                              *)
ErasedIsGone ==
  \A u \in erased :
    /\ \A h \in Homes : /\ ~OwnedBy(u, h) /\ managers[h][u] = None
                        /\ pendingTransfers[h] # None => pendingTransfers[h].from # u
    /\ \A c \in Calls : registering[c] # None => Caller(c) # u

(* Homes are owned, offered, passed on and shared as Title says.  The guard *)
(* of claimTransfer never asks whether the link's giver still owns the home. *)
Owner(h) == IF Live(h) THEN properties[h].owner ELSE None
Giver(h) == IF pendingTransfers[h] = None THEN None ELSE pendingTransfers[h].from
Shared(h) == {u \in Users : managers[h][u] # None}
Invited(h) == \E i \in invites : i.home = h
TitleOf == INSTANCE Title WITH
  Nobody <- None,
  title <- [h \in Homes |-> Owner(h)],
  offered <- [h \in Homes |-> Giver(h)],
  access <- [h \in Homes |-> Shared(h)],
  invited <- [h \in Homes |-> Invited(h)]
KeepsTitle == TitleOf!TitleSpec
=============================================================================
