---------------------------- MODULE HomesProofs -----------------------------
(***************************************************************************)
(* Proofs about Homes, for any number of users, homes, addresses, links    *)
(* and waiting registrations, and any plans.  That a registration under    *)
(* way is known by its caller (CallersAreKnown) is what account deletion   *)
(* and the plan's limit rest on; that a link is its owner's (LinksAreGiven)*)
(* is what lets claimTransfer ask for the link only.                       *)
(***************************************************************************)
EXTENDS Homes, FiniteSetTheorems, TLAPS

CallersAreKnown ==
  /\ \A c \in Calls : registering[c] # None => Caller(c) \in inFlight
  /\ \A c, d \in Calls :
       registering[c] # None /\ registering[d] # None /\ Caller(c) = Caller(d) => c = d

LinksAreGiven ==
  \A h \in Homes : pendingTransfers[h] # None => OwnedBy(pendingTransfers[h].from, h)

Inv ==
  /\ TypeOK /\ VerifiedHomeHoldsItsAddress /\ CallersAreKnown /\ LinksAreGiven /\ ErasedIsGone

LEMMA InitInv == Init => Inv
<1> SUFFICES ASSUME Init PROVE Inv
  OBVIOUS
<1> USE LimitsAreNatural DEF Init
<1>1. TypeOK
  BY DEF TypeOK, NoManagers
<1>2. VerifiedHomeHoldsItsAddress /\ CallersAreKnown /\ LinksAreGiven
  BY DEF VerifiedHomeHoldsItsAddress, CallersAreKnown, LinksAreGiven, IsVerified, Live
<1>3. ErasedIsGone
  BY DEF ErasedIsGone
<1> QED BY <1>1, <1>2, <1>3 DEF Inv

-----------------------------------------------------------------------------
(* Homes whose owner, address and level stay, and calls that only end. *)
LEMMA CallsEnd ==
  ASSUME TypeOK, CallersAreKnown, NEW c \in Calls, registering[c] # None, Done(c)
  PROVE  /\ CallersAreKnown'
         /\ registering' \in [Calls -> Registration \cup {None}] /\ inFlight' \subseteq Users
         /\ \A d \in Calls : registering'[d] # None => registering'[d] = registering[d]
BY DEF TypeOK, CallersAreKnown, Done, Caller

LEMMA CallsUntouched ==
  ASSUME CallersAreKnown, calls' = calls PROVE CallersAreKnown'
BY DEF CallersAreKnown, Caller, calls

LEMMA RegistryUntouched ==
  ASSUME VerifiedHomeHoldsItsAddress, properties' = properties, addressIdx' = addressIdx
  PROVE  VerifiedHomeHoldsItsAddress'
BY DEF VerifiedHomeHoldsItsAddress, IsVerified, Live

(* A call of the registration: nothing but the calls changes. *)
LEMMA CallInv ==
  ASSUME Inv, NEW c \in Calls,
         UNCHANGED <<registry, links, sharing, tokens, now>>,
         \/ TierAnswers(c) \/ RegistrationFails(c) \/ IdTooLate(c)
         \/ \E u \in Users, k \in Addresses : RegisterProperty(c, u, k)
  PROVE  Inv'
<1> USE NoneIsNoRecord DEF registry, links, sharing
<1>1. VerifiedHomeHoldsItsAddress'
  BY RegistryUntouched DEF Inv
<1>2. LinksAreGiven'
  BY DEF Inv, LinksAreGiven, OwnedBy, Live
<1>3. CASE registering[c] # None /\ Done(c) /\ UNCHANGED erased
  <2>1. /\ CallersAreKnown' /\ registering' \in [Calls -> Registration \cup {None}]
        /\ inFlight' \subseteq Users
        /\ \A d \in Calls : registering'[d] # None => registering'[d] = registering[d]
    BY <1>3, CallsEnd DEF Inv
  <2>2. TypeOK'
    BY <1>3, <2>1 DEF Inv, TypeOK
  <2>3. ErasedIsGone'
    BY <1>3, <2>1 DEF Inv, ErasedIsGone, OwnedBy, Live, Caller
  <2> QED BY <1>1, <1>2, <2>1, <2>2, <2>3 DEF Inv
<1>4. CASE Waits(c, "tier") /\ registering' = [registering EXCEPT ![c].stage = "id"]
             /\ UNCHANGED <<inFlight, erased>>
  <2>1. registering[c] \in Registration
    BY <1>4 DEF Waits, Inv, TypeOK
  <2>2. [registering[c] EXCEPT !.stage = "id"] \in Registration
    BY <2>1 DEF Registration
  <2>3. registering' \in [Calls -> Registration \cup {None}]
    BY <1>4, <2>2 DEF Inv, TypeOK
  <2>4. \A d \in Calls : /\ registering'[d] # None <=> registering[d] # None
                         /\ registering[d] # None => registering'[d].caller = registering[d].caller
    BY <1>4, <2>1, <2>2 DEF Inv, TypeOK, Registration
  <2>5. TypeOK'
    BY <1>4, <2>3 DEF Inv, TypeOK
  <2>6. CallersAreKnown'
    BY <1>4, <2>4 DEF Inv, CallersAreKnown, Caller
  <2>7. ErasedIsGone'
    BY <1>4, <2>4 DEF Inv, ErasedIsGone, OwnedBy, Live, Caller
  <2> QED BY <1>1, <1>2, <2>5, <2>6, <2>7 DEF Inv
<1>5. ASSUME NEW u \in Users, NEW k \in Addresses, RegisterProperty(c, u, k) PROVE Inv'
  <2> USE <1>5 DEF RegisterProperty, MayRegister
  <2>1. [caller |-> u, key |-> k, stage |-> "tier"] \in Registration
    BY DEF Registration
  <2>2. TypeOK'
    BY <2>1 DEF Inv, TypeOK
  <2>3. \A d \in Calls : IF d = c THEN registering'[d] # None /\ registering'[d].caller = u
                                  ELSE registering'[d] = registering[d]
    BY <2>1 DEF Inv, TypeOK
  <2>4. CallersAreKnown'
    BY <2>3 DEF Inv, CallersAreKnown, Caller
  <2>5. ErasedIsGone'
    BY <2>3 DEF Inv, ErasedIsGone, OwnedBy, Live, Caller
  <2> QED BY <1>1, <1>2, <2>2, <2>4, <2>5 DEF Inv
<1> QED BY <1>3, <1>4, <1>5 DEF TierAnswers, RegistrationFails, IdTooLate, Waits

-----------------------------------------------------------------------------
LEMMA ClaimStartType ==
  ASSUME TypeOK, NEW k \in Addresses, NEW t \in 0..MaxTime
  PROVE  ClaimStart(k, t) \in 0..MaxTime
BY DEF TypeOK, ClaimStart, Indexed, Live, Property

LEMMA PutProperty ==
  ASSUME TypeOK, NEW h \in Homes, NEW u \in Users, NEW k \in Addresses, Put(h, u, k)
  PROVE  /\ properties' \in [Homes -> Property \cup {None}]
         /\ properties'[h] = [owner |-> u, key |-> k, level |-> "Unverified", createdAt |-> now]
         /\ properties'[h] # None
         /\ \A x \in Homes \ {h} : properties'[x] = properties[x]
<1>1. [owner |-> u, key |-> k, level |-> "Unverified", createdAt |-> now] \in Property
  BY DEF Property, TypeOK, Levels
<1> QED BY <1>1, NoneIsNoRecord DEF TypeOK, Put

LEMMA IdInv ==
  ASSUME Inv, NEW c \in Calls, NEW h \in Homes, IdArrives(c, h)
  PROVE  Inv'
<1> USE NoneIsApart DEF IdArrives, links, sharing
<1> DEFINE u == Caller(c)
           k == registering[c].key
<1>1. registering[c] # None /\ u \in Users /\ k \in Addresses
  BY DEF Inv, TypeOK, Waits, Caller, Registration
<1>2. /\ properties' \in [Homes -> Property \cup {None}] /\ properties'[h] # None
      /\ properties'[h] = [owner |-> u, key |-> k, level |-> "Unverified", createdAt |-> now]
      /\ \A x \in Homes \ {h} : properties'[x] = properties[x]
  BY <1>1, PutProperty DEF Inv
<1>3. /\ CallersAreKnown' /\ registering' \in [Calls -> Registration \cup {None}]
      /\ inFlight' \subseteq Users
      /\ \A d \in Calls : registering'[d] # None => registering'[d] = registering[d]
  BY <1>1, CallsEnd DEF Inv
<1>4. TypeOK'
  <2>1. addressIdx[k] \in Homes \cup {None}
    BY <1>1 DEF Inv, TypeOK
  <2>3. Holder(k, h) \in Homes
    BY <2>1 DEF Holder, Indexed
  <2>2. ClaimStart(k, now) \in 0..MaxTime
    BY <1>1, ClaimStartType DEF Inv, TypeOK
  <2> QED BY <1>1, <1>2, <1>3, <2>2, <2>3 DEF Inv, TypeOK
<1>5. VerifiedHomeHoldsItsAddress'
  <2> SUFFICES ASSUME NEW x \in Homes, IsVerified(x)' PROVE addressIdx'[properties'[x].key] = x
    BY DEF VerifiedHomeHoldsItsAddress
  <2>1. x # h
    BY <1>2 DEF IsVerified
  <2>2. properties'[x] = properties[x] /\ IsVerified(x)
    BY <1>2, <2>1 DEF IsVerified, Live
  <2>3. addressIdx[properties[x].key] = x
    BY <2>2 DEF Inv, VerifiedHomeHoldsItsAddress
  <2>4. properties[x].key = k => Holder(k, h) = x
    BY <2>2, <2>3 DEF Holder, Indexed, IsVerified
  <2> QED BY <1>1, <2>2, <2>3, <2>4 DEF Inv, TypeOK
<1>6. LinksAreGiven'
  BY <1>2 DEF Inv, LinksAreGiven, OwnedBy, Live
<1>7. ErasedIsGone'
  BY <1>1, <1>2, <1>3 DEF Inv, ErasedIsGone, OwnedBy, Live, Caller
<1> QED BY <1>3, <1>4, <1>5, <1>6, <1>7 DEF Inv

LEMMA BulkInv ==
  ASSUME Inv, NEW u \in Users, NEW k \in Addresses, NEW h \in Homes, BulkRegister(u, k, h)
  PROVE  Inv'
<1> USE NoneIsApart DEF BulkRegister, links, sharing, calls
<1>1. /\ properties' \in [Homes -> Property \cup {None}] /\ properties'[h] # None
      /\ properties'[h] = [owner |-> u, key |-> k, level |-> "Unverified", createdAt |-> now]
      /\ \A x \in Homes \ {h} : properties'[x] = properties[x]
  BY PutProperty DEF Inv
<1>2. TypeOK'
  BY <1>1 DEF Inv, TypeOK
<1>3. VerifiedHomeHoldsItsAddress'
  <2> SUFFICES ASSUME NEW x \in Homes, IsVerified(x)' PROVE addressIdx'[properties'[x].key] = x
    BY DEF VerifiedHomeHoldsItsAddress
  <2>1. x # h
    BY <1>1 DEF IsVerified
  <2>2. properties'[x] = properties[x] /\ IsVerified(x)
    BY <1>1, <2>1 DEF IsVerified, Live
  <2>3. addressIdx[properties[x].key] = x
    BY <2>2 DEF Inv, VerifiedHomeHoldsItsAddress
  <2>4. properties[x].key # k
    BY <2>2, <2>3 DEF Indexed, IsVerified
  <2> QED BY <2>2, <2>3, <2>4 DEF Inv, TypeOK
<1>4. LinksAreGiven'
  BY <1>1 DEF Inv, LinksAreGiven, OwnedBy, Live
<1>5. ErasedIsGone'
  BY <1>1 DEF Inv, ErasedIsGone, OwnedBy, Live, Caller
<1>6. CallersAreKnown'
  BY CallsUntouched DEF Inv
<1> QED BY <1>2, <1>3, <1>4, <1>5, <1>6 DEF Inv

-----------------------------------------------------------------------------
LEMMA VerificationInv ==
  ASSUME Inv, NEW h \in Homes, SubmitVerification(h) \/ \E l \in Levels : VerifyProperty(h, l)
  PROVE  Inv'
<1> USE NoneIsNoRecord DEF SubmitVerification, VerifyProperty, calls, links, sharing
<1>1. PICK l \in Levels : /\ properties' = [properties EXCEPT ![h].level = l]
                          /\ l = "Verified" => VerifyProperty(h, l)
                          /\ l # "Verified" => addressIdx' = addressIdx
  BY DEF Levels
<1>2. properties[h] \in Property /\ Live(h)
  BY DEF Inv, TypeOK, Live
<1>3. [properties[h] EXCEPT !.level = l] \in Property
  BY <1>2 DEF Property
<1>4. /\ properties' \in [Homes -> Property \cup {None}] /\ properties'[h] # None
      /\ properties'[h].owner = properties[h].owner /\ properties'[h].key = properties[h].key
      /\ properties'[h].level = l
      /\ \A x \in Homes \ {h} : properties'[x] = properties[x]
  BY <1>1, <1>2, <1>3 DEF Inv, TypeOK, Property
<1>5. TypeOK'
  BY <1>2, <1>4 DEF Inv, TypeOK, Property
<1>6. VerifiedHomeHoldsItsAddress'
  <2> SUFFICES ASSUME NEW x \in Homes, IsVerified(x)' PROVE addressIdx'[properties'[x].key] = x
    BY DEF VerifiedHomeHoldsItsAddress
  <2>1. CASE l # "Verified"
    <3>1. x # h /\ addressIdx' = addressIdx
      BY <1>1, <1>4, <2>1 DEF IsVerified
    <3> QED BY <1>4, <3>1 DEF Inv, VerifiedHomeHoldsItsAddress, IsVerified, Live
  <2>2. CASE l = "Verified"
    <3>1. /\ Unrivalled(h) /\ properties[h].key \in Addresses
          /\ addressIdx' = [addressIdx EXCEPT ![properties[h].key] = h]
      BY <1>1, <1>2, <2>2 DEF Property
    <3>2. CASE x = h
      BY <1>4, <3>1, <3>2 DEF Inv, TypeOK
    <3>3. CASE x # h
      <4>1. properties'[x] = properties[x] /\ IsVerified(x)
        BY <1>4, <3>3 DEF IsVerified, Live
      <4>2. addressIdx[properties[x].key] = x
        BY <4>1 DEF Inv, VerifiedHomeHoldsItsAddress
      <4>3. properties[x].key # properties[h].key
        BY <3>1, <3>3, <4>1, <4>2, NoneIsApart DEF Unrivalled
      <4> QED BY <3>1, <4>1, <4>2, <4>3 DEF Inv, TypeOK
    <3> QED BY <3>2, <3>3
  <2> QED BY <2>1, <2>2
<1>7. LinksAreGiven'
  BY <1>2, <1>4 DEF Inv, LinksAreGiven, OwnedBy, Live
<1>8. ErasedIsGone'
  BY <1>2, <1>4 DEF Inv, ErasedIsGone, OwnedBy, Live, Caller
<1>9. CallersAreKnown'
  BY CallsUntouched DEF Inv
<1> QED BY <1>5, <1>6, <1>7, <1>8, <1>9 DEF Inv

-----------------------------------------------------------------------------
LEMMA TickInv == Inv /\ Tick => Inv'
<1> SUFFICES ASSUME Inv, Tick PROVE Inv'
  OBVIOUS
<1> USE DEF Tick, registry, calls, links, sharing
<1>1. TypeOK'
  BY LimitsAreNatural DEF Inv, TypeOK
<1>2. VerifiedHomeHoldsItsAddress' /\ CallersAreKnown'
  BY RegistryUntouched, CallsUntouched DEF Inv
<1>3. LinksAreGiven' /\ ErasedIsGone'
  BY DEF Inv, LinksAreGiven, ErasedIsGone, OwnedBy, Live, Caller
<1> QED BY <1>1, <1>2, <1>3 DEF Inv

-----------------------------------------------------------------------------
(* A step of a transfer or of sharing that leaves the homes where they are. *)
LEMMA StandsInv ==
  ASSUME Inv, UNCHANGED <<registry, calls, now>>, TypeOK', LinksAreGiven',
         erased' \subseteq erased,
         \A h \in Homes, u \in Users : u \in erased' =>
           managers'[h][u] = None \/ managers'[h][u] = managers[h][u]
  PROVE  Inv'
<1> USE DEF registry, calls
<1>1. VerifiedHomeHoldsItsAddress' /\ CallersAreKnown'
  BY RegistryUntouched, CallsUntouched DEF Inv
<1>2. ErasedIsGone'
  <2> SUFFICES ASSUME NEW u \in erased'
               PROVE  /\ \A h \in Homes : /\ ~OwnedBy(u, h)' /\ managers'[h][u] = None
                                          /\ pendingTransfers'[h] # None => pendingTransfers'[h].from # u
                      /\ \A c \in Calls : registering'[c] # None => Caller(c)' # u
    BY DEF ErasedIsGone
  <2>1. u \in Users
    BY DEF TypeOK
  <2>2. \A h \in Homes : ~OwnedBy(u, h)' /\ managers'[h][u] = None
    BY <2>1 DEF Inv, ErasedIsGone, OwnedBy, Live, TypeOK
  <2>3. \A c \in Calls : registering'[c] # None => Caller(c)' # u
    BY <2>1 DEF Inv, ErasedIsGone, Caller, TypeOK
  <2>4. \A h \in Homes : pendingTransfers'[h] # None => pendingTransfers'[h].from # u
    BY <2>2 DEF LinksAreGiven, OwnedBy, Live
  <2> QED BY <2>2, <2>3, <2>4
<1> QED BY <1>1, <1>2 DEF Inv

LEMMA InitiateInv ==
  ASSUME Inv, NEW u \in Users, NEW h \in Homes, InitiateTransfer(u, h)
  PROVE  Inv'
<1> USE LimitsAreNatural DEF InitiateTransfer, GiveToken, NextToken, registry, calls, sharing
<1>1. tokens' \in Tokens
  BY DEF Inv, TypeOK, Tokens
<1>2. [from |-> u, token |-> tokens + 1, expiresAt |-> now + LinkLife] \in PendingTransfer
  BY <1>1 DEF Inv, TypeOK, PendingTransfer
<1>3. TypeOK'
  BY <1>1, <1>2 DEF Inv, TypeOK, Tokens
<1>4. LinksAreGiven'
  BY <1>2 DEF Inv, LinksAreGiven, OwnedBy, Live, TypeOK
<1> QED BY <1>3, <1>4, StandsInv

LEMMA DropLinkInv ==
  ASSUME Inv, NEW h \in Homes, pendingTransfers[h] # None, DropLink(h),
         UNCHANGED <<registry, calls, sharing, tokens, now, erased>>
  PROVE  Inv'
<1> USE DEF DropLink, registry, calls, sharing
<1>1. TypeOK'
  BY DEF Inv, TypeOK
<1>2. LinksAreGiven'
  BY DEF Inv, LinksAreGiven, OwnedBy, Live, TypeOK
<1> QED BY <1>1, <1>2, StandsInv

LEMMA SharingInv ==
  ASSUME Inv, UNCHANGED <<registry, calls, links, now>>,
         tokens' \in 0..MaxTokens, invites' \subseteq Invitation, erased' \subseteq erased,
         managers' \in [Homes -> [Users -> Roles \cup {None}]],
         \A h \in Homes, u \in Users : u \in erased' =>
           managers'[h][u] = None \/ managers'[h][u] = managers[h][u]
  PROVE  Inv'
<1> USE DEF registry, calls, links
<1>1. TypeOK'
  BY DEF Inv, TypeOK
<1>2. LinksAreGiven'
  BY DEF Inv, LinksAreGiven, OwnedBy, Live
<1> QED BY <1>1, <1>2, StandsInv

LEMMA InvitesInv ==
  ASSUME Inv,
         \/ \E u \in Users, h \in Homes, r \in Roles : InviteManager(u, h, r)
         \/ \E i \in invites : DropInvite(i)
  PROVE  Inv'
<1>1. ASSUME NEW u \in Users, NEW h \in Homes, NEW r \in Roles, InviteManager(u, h, r) PROVE Inv'
  <2> USE <1>1, LimitsAreNatural DEF InviteManager, GiveToken, NextToken
  <2>1. tokens' \in 0..MaxTokens /\ tokens + 1 \in Tokens
    BY DEF Inv, TypeOK, Tokens
  <2>2. [home |-> h, token |-> tokens + 1, role |-> r, expiresAt |-> now + LinkLife] \in Invitation
    BY <2>1 DEF Invitation, Inv, TypeOK
  <2>3. invites' \subseteq Invitation
    BY <2>2 DEF Inv, TypeOK
  <2> QED BY <2>1, <2>3, SharingInv DEF Inv, TypeOK
<1>2. ASSUME NEW i \in invites, DropInvite(i) PROVE Inv'
  BY <1>2, SharingInv DEF DropInvite, Inv, TypeOK
<1> QED BY <1>1, <1>2

LEMMA ManagersInv ==
  ASSUME Inv,
         \/ \E i \in invites, u \in Users : ClaimManagerRole(u, i)
         \/ \E h \in Homes, u \in Users :
              RemoveManager(h, u) \/ \E r \in Roles : UpdateManagerRole(h, u, r)
  PROVE  Inv'
<1>1. ASSUME NEW i \in invites, NEW u \in Users, ClaimManagerRole(u, i) PROVE Inv'
  <2> USE <1>1 DEF ClaimManagerRole
  <2>1. i.home \in Homes /\ i.role \in Roles
    BY DEF Inv, TypeOK, Invitation
  <2>2. managers' \in [Homes -> [Users -> Roles \cup {None}]]
    BY <2>1 DEF Inv, TypeOK
  <2>3. \A h \in Homes, x \in Users : x \in erased' => managers'[h][x] = managers[h][x]
    BY <2>1 DEF Inv, TypeOK
  <2> QED BY <2>2, <2>3, SharingInv DEF Inv, TypeOK
<1>2. ASSUME NEW h \in Homes, NEW u \in Users, NEW r \in Roles \cup {None}, managers[h][u] # None,
             managers' = [managers EXCEPT ![h][u] = r],
             UNCHANGED <<registry, calls, links, invites, tokens, now, erased>>
      PROVE  Inv'
  <2>1. managers' \in [Homes -> [Users -> Roles \cup {None}]]
    BY <1>2 DEF Inv, TypeOK
  <2>2. u \notin erased
    BY <1>2 DEF Inv, ErasedIsGone
  <2>3. \A x \in Homes, v \in Users : v \in erased' => managers'[x][v] = managers[x][v]
    BY <1>2, <2>2 DEF Inv, TypeOK
  <2> QED BY <1>2, <2>1, <2>3, SharingInv DEF Inv, TypeOK
<1> QED BY <1>1, <1>2 DEF RemoveManager, UpdateManagerRole

LEMMA ClaimTransferInv ==
  ASSUME Inv, NEW u \in Users, NEW t \in Tokens, NEW h \in Homes, ClaimTransfer(u, t, h)
  PROVE  Inv'
<1> USE NoneIsNoRecord DEF ClaimTransfer, ClearDelegatedAccess, DropLink, LinkOf, calls
<1>1. properties[h] \in Property /\ [properties[h] EXCEPT !.owner = u] \in Property
  BY SMTT(30) DEF Inv, TypeOK, Live, Property
<1>2. /\ properties' \in [Homes -> Property \cup {None}] /\ properties'[h] # None
      /\ properties'[h].owner = u /\ properties'[h].key = properties[h].key
      /\ properties'[h].level = properties[h].level
      /\ \A x \in Homes \ {h} : properties'[x] = properties[x]
  BY <1>1 DEF Inv, TypeOK, Property
<1>3. TypeOK'
  <2>1. NoManagers \in [Users -> Roles \cup {None}]
    BY DEF NoManagers
  <2>2. managers' \in [Homes -> [Users -> Roles \cup {None}]]
    BY <2>1 DEF Inv, TypeOK
  <2>3. /\ pendingTransfers' \in [Homes -> PendingTransfer \cup {None}]
        /\ tokenIndex' \in [Tokens -> Homes \cup {None}]
    BY DEF Inv, TypeOK
  <2>4. registrant' \in [Homes -> Users \cup {None}]
    BY DEF Inv, TypeOK
  <2> QED BY <1>2, <2>2, <2>3, <2>4 DEF Inv, TypeOK
<1>4. VerifiedHomeHoldsItsAddress'
  BY <1>2 DEF Inv, VerifiedHomeHoldsItsAddress, IsVerified, Live
<1>5. LinksAreGiven'
  BY <1>2 DEF Inv, LinksAreGiven, OwnedBy, Live, TypeOK
<1>6. CallersAreKnown'
  BY CallsUntouched DEF Inv
<1>7. ErasedIsGone'
  <2> SUFFICES ASSUME NEW v \in erased'
               PROVE  /\ \A x \in Homes : /\ ~OwnedBy(v, x)' /\ managers'[x][v] = None
                                          /\ pendingTransfers'[x] # None => pendingTransfers'[x].from # v
                      /\ \A c \in Calls : registering'[c] # None => Caller(c)' # v
    BY DEF ErasedIsGone
  <2>1. v \in Users /\ v \in erased /\ v # u
    BY DEF Inv, TypeOK
  <2>2. \A x \in Homes : ~OwnedBy(v, x)'
    BY <1>2, <2>1 DEF Inv, ErasedIsGone, OwnedBy, Live
  <2>3. \A x \in Homes : managers'[x][v] = None
    BY <2>1 DEF Inv, ErasedIsGone, NoManagers
  <2>4. \A c \in Calls : registering'[c] # None => Caller(c)' # v
    BY <2>1 DEF Inv, ErasedIsGone, Caller
  <2> QED BY <2>2, <2>3, <2>4, <1>5 DEF LinksAreGiven, OwnedBy
<1> QED BY <1>3, <1>4, <1>5, <1>6, <1>7 DEF Inv

-----------------------------------------------------------------------------
(* What the index leads to after the homes `gone` are deleted. *)
LEMMA HolderStays ==
  ASSUME Inv, NEW gone \in SUBSET Homes, NEW k \in Addresses, NEW h \in Homes \ gone,
         IsVerified(h), At(k, h), addressIdx[k] \in gone, NEW x, MayHold(k, gone, x)
  PROVE  x = h
BY DEF Inv, VerifiedHomeHoldsItsAddress, IsVerified, At, MayHold

LEMMA DeleteInv ==
  ASSUME Inv, NEW u \in Users, DeleteMyData(u)
  PROVE  Inv'
<1> USE NoneIsNoRecord DEF DeleteMyData, calls
<1> DEFINE gone == {h \in Homes : OwnedBy(u, h)}
<1>1. PICK idx \in [Addresses -> Homes \cup {None}] :
        /\ \A k \in Addresses :
             IF addressIdx[k] \in gone THEN MayHold(k, gone, idx[k]) ELSE idx[k] = addressIdx[k]
        /\ addressIdx' = idx
        /\ addressClaimSince' = [k \in Addresses |->
             IF addressIdx[k] \in gone /\ idx[k] = None THEN None ELSE addressClaimSince[k]]
  BY DEF Reindex
<1>2. \A h \in Homes : properties'[h] = IF h \in gone THEN None ELSE properties[h]
  OBVIOUS
<1>3. TypeOK'
  <2>1. properties' \in [Homes -> Property \cup {None}]
    BY DEF Inv, TypeOK
  <2>2. /\ addressIdx' \in [Addresses -> Homes \cup {None}]
        /\ addressClaimSince' \in [Addresses -> 0..MaxTime \cup {None}]
    BY <1>1 DEF Inv, TypeOK
  <2>3. /\ pendingTransfers' \in [Homes -> PendingTransfer \cup {None}]
        /\ tokenIndex' \in [Tokens -> Homes \cup {None}]
    BY DEF Inv, TypeOK
  <2>4. \A h \in Homes : /\ NoManagers \in [Users -> Roles \cup {None}]
                         /\ [managers[h] EXCEPT ![u] = None] \in [Users -> Roles \cup {None}]
    BY DEF Inv, TypeOK, NoManagers
  <2>5. managers' \in [Homes -> [Users -> Roles \cup {None}]]
    BY <2>4
  <2>6. registrant' \in [Homes -> Users \cup {None}] /\ invites' \subseteq Invitation
    BY DEF Inv, TypeOK
  <2> QED BY <2>1, <2>2, <2>3, <2>5, <2>6 DEF Inv, TypeOK
<1>4. VerifiedHomeHoldsItsAddress'
  <2> SUFFICES ASSUME NEW h \in Homes, IsVerified(h)' PROVE addressIdx'[properties'[h].key] = h
    BY DEF VerifiedHomeHoldsItsAddress
  <2>1. h \notin gone /\ properties'[h] = properties[h] /\ IsVerified(h) /\ Live(h)
    BY <1>2 DEF IsVerified, Live
  <2>2. PICK k \in Addresses : properties[h].key = k
    BY <2>1 DEF Inv, TypeOK, Live, Property
  <2>3. addressIdx[k] = h
    BY <2>1, <2>2 DEF Inv, VerifiedHomeHoldsItsAddress
  <2> QED BY <1>1, <2>1, <2>2, <2>3
<1>5. LinksAreGiven'
  BY <1>2 DEF Inv, LinksAreGiven, OwnedBy, Live
<1>6. CallersAreKnown'
  BY CallsUntouched DEF Inv
<1>7. ErasedIsGone'
  <2> SUFFICES ASSUME NEW v \in erased'
               PROVE  /\ \A x \in Homes : /\ ~OwnedBy(v, x)' /\ managers'[x][v] = None
                                          /\ pendingTransfers'[x] # None => pendingTransfers'[x].from # v
                      /\ \A c \in Calls : registering'[c] # None => Caller(c)' # v
    BY DEF ErasedIsGone
  <2>1. v \in Users /\ (v = u \/ v \in erased)
    BY DEF Inv, TypeOK
  <2>2. \A x \in Homes : ~OwnedBy(v, x)'
    BY <1>2, <2>1 DEF Inv, ErasedIsGone, OwnedBy, Live
  <2>3. \A x \in Homes : managers'[x][v] = None
    <3> SUFFICES ASSUME NEW x \in Homes PROVE managers'[x][v] = None
      OBVIOUS
    <3>1. managers[x] \in [Users -> Roles \cup {None}] /\ (v # u => managers[x][v] = None)
      BY <2>1 DEF Inv, TypeOK, ErasedIsGone
    <3>2. NoManagers[v] = None
      BY <2>1 DEF NoManagers
    <3> QED BY <2>1, <3>1, <3>2
  <2>4. \A c \in Calls : registering'[c] # None => Caller(c)' # v
    BY <2>1 DEF Inv, ErasedIsGone, CallersAreKnown, Caller, DeleteAllowed
  <2>5. \A x \in Homes : pendingTransfers'[x] # None => pendingTransfers'[x].from # v
    BY <1>5, <2>2 DEF LinksAreGiven, OwnedBy, Live
  <2> QED BY <2>2, <2>3, <2>4, <2>5
<1> QED BY <1>3, <1>4, <1>5, <1>6, <1>7 DEF Inv

-----------------------------------------------------------------------------
LEMMA NextInv == Inv /\ [Next]_vars => Inv'
<1> SUFFICES ASSUME Inv, [Next]_vars PROVE Inv'
  OBVIOUS
<1>1. CASE Tick
  BY <1>1, TickInv
<1>2. ASSUME NEW c \in Calls,
             \/ TierAnswers(c) \/ RegistrationFails(c) \/ IdTooLate(c)
             \/ \E u \in Users, k \in Addresses : RegisterProperty(c, u, k)
      PROVE  Inv'
  BY <1>2, CallInv DEF TierAnswers, RegistrationFails, IdTooLate, RegisterProperty
<1>3. ASSUME NEW c \in Calls, NEW h \in Homes, IdArrives(c, h) PROVE Inv'
  BY <1>3, IdInv
<1>4. ASSUME NEW u \in Users, NEW k \in Addresses, NEW h \in Homes, BulkRegister(u, k, h) PROVE Inv'
  BY <1>4, BulkInv
<1>5. ASSUME NEW h \in Homes, SubmitVerification(h) \/ \E l \in Levels : VerifyProperty(h, l)
      PROVE  Inv'
  BY <1>5, VerificationInv
<1>6. ASSUME NEW u \in Users, NEW h \in Homes, InitiateTransfer(u, h) PROVE Inv'
  BY <1>6, InitiateInv
<1>7. ASSUME NEW h \in Homes, CancelTransfer(h) \/ \E t \in Tokens : ClaimTooLate(t, h) PROVE Inv'
  BY <1>7, DropLinkInv DEF CancelTransfer, ClaimTooLate, LinkOf
<1>8. ASSUME NEW u \in Users, NEW t \in Tokens, NEW h \in Homes, ClaimTransfer(u, t, h) PROVE Inv'
  BY <1>8, ClaimTransferInv
<1>9. CASE \/ \E u \in Users, h \in Homes, r \in Roles : InviteManager(u, h, r)
           \/ \E i \in invites : DropInvite(i)
  BY <1>9, InvitesInv
<1>10. CASE \/ \E i \in invites, u \in Users : ClaimManagerRole(u, i)
            \/ \E h \in Homes, u \in Users :
                 RemoveManager(h, u) \/ \E r \in Roles : UpdateManagerRole(h, u, r)
  BY <1>10, ManagersInv
<1>11. ASSUME NEW u \in Users, DeleteMyData(u) PROVE Inv'
  BY <1>11, DeleteInv
<1>12. CASE UNCHANGED vars
  <2>1. TypeOK' /\ LinksAreGiven'
    BY <1>12 DEF vars, registry, calls, links, sharing, Inv, TypeOK, LinksAreGiven, OwnedBy, Live
  <2> QED BY <1>12, <2>1, StandsInv DEF vars, registry, calls, links, sharing
<1> QED BY <1>1, <1>2, <1>3, <1>4, <1>5, <1>6, <1>7, <1>8, <1>9, <1>10, <1>11, <1>12 DEF Next

LEMMA SpecInv == Spec => []Inv
BY InitInv, NextInv, PTL DEF Spec

(* Every variable keeps its type. *)
THEOREM TypeCorrect == Spec => []TypeOK
<1>1. Inv => TypeOK
  BY DEF Inv
<1> QED BY <1>1, SpecInv, PTL

(* An address never has two verified homes, and its index leads to the one *)
(* it has, for any number of homes, claims and users.                      *)
THEOREM OneVerifiedHome == Spec => []VerifiedHomeHoldsItsAddress
<1>1. Inv => VerifiedHomeHoldsItsAddress
  BY DEF Inv
<1> QED BY <1>1, SpecInv, PTL

(* Nothing of an account is left after it is deleted. *)
THEOREM ErasureIsComplete == Spec => []ErasedIsGone
<1>1. Inv => ErasedIsGone
  BY DEF Inv
<1> QED BY <1>1, SpecInv, PTL

-----------------------------------------------------------------------------
(* The window in which an unverified claim keeps others out is never moved *)
(* while a claim on its address is left.                                   *)
THEOREM WindowHolds == Spec => WindowIsNotRenewed
<1>1. ASSUME Inv, [Next]_vars
      PROVE  [\A k \in Addresses :
                addressClaimSince[k] # None /\ (\E h \in Homes : At(k, h)') =>
                  addressClaimSince'[k] = addressClaimSince[k]]_vars
  <2> SUFFICES ASSUME NEW k \in Addresses, addressClaimSince[k] # None,
                      NEW h \in Homes, At(k, h)', Next
               PROVE  addressClaimSince'[k] = addressClaimSince[k]
    BY <1>1
  <2>1. ASSUME NEW c \in Calls, NEW x \in Homes, IdArrives(c, x)
        PROVE  addressClaimSince'[k] = addressClaimSince[k]
    BY <1>1, <2>1 DEF IdArrives, ClaimStart, Inv, TypeOK
  <2>2. ASSUME NEW u \in Users, DeleteMyData(u)
        PROVE  addressClaimSince'[k] = addressClaimSince[k]
    <3> DEFINE gone == {x \in Homes : OwnedBy(u, x)}
    <3>1. PICK idx \in [Addresses -> Homes \cup {None}] :
            /\ addressIdx[k] \in gone => MayHold(k, gone, idx[k])
            /\ addressClaimSince' = [a \in Addresses |->
                 IF addressIdx[a] \in gone /\ idx[a] = None THEN None ELSE addressClaimSince[a]]
      BY <2>2 DEF DeleteMyData, Reindex
    <3>2. h \in Homes \ gone /\ At(k, h)
      BY <2>2 DEF DeleteMyData, At, Live
    <3>3. addressIdx[k] \in gone => idx[k] # None
      BY <3>1, <3>2, NoneIsApart DEF MayHold
    <3> QED BY <3>1, <3>3
  <2>3. CASE UNCHANGED addressClaimSince
    BY <2>3
  <2> QED
    BY <2>1, <2>2, <2>3
    DEF Next, registry, Tick, RegisterProperty, BulkRegister, TierAnswers, RegistrationFails,
        IdTooLate, SubmitVerification, CancelTransfer, VerifyProperty, ClaimTooLate,
        ClaimTransfer, InitiateTransfer, RemoveManager, InviteManager, UpdateManagerRole,
        DropInvite, ClaimManagerRole
<1> QED BY <1>1, SpecInv, PTL DEF Spec, WindowIsNotRenewed

-----------------------------------------------------------------------------
(* Title: the steps that change nothing it speaks of stutter. *)
LEMMA TitleUnchanged ==
  ASSUME UNCHANGED <<pendingTransfers, managers, invites>>,
         \A h \in Homes : /\ properties'[h] # None <=> properties[h] # None
                          /\ properties[h] # None => properties'[h].owner = properties[h].owner
  PROVE  UNCHANGED TitleOf!titleVars
<1>1. \A h \in Homes : Owner(h)' = Owner(h)
  <2> SUFFICES ASSUME NEW h \in Homes PROVE Owner(h)' = Owner(h)
    OBVIOUS
  <2>1. CASE properties[h] = None
    BY <2>1 DEF Owner, Live
  <2>2. CASE properties[h] # None
    BY <2>2 DEF Owner, Live
  <2> QED BY <2>1, <2>2
<1>2. \A h \in Homes : Giver(h)' = Giver(h) /\ Shared(h)' = Shared(h)
  BY DEF Giver, Shared
<1>3. \A h \in Homes : Invited(h)' = Invited(h)
  BY DEF Invited
<1> QED BY <1>1, <1>2, <1>3 DEF TitleOf!titleVars

LEMMA LinksUnchanged ==
  ASSUME UNCHANGED links PROVE \A h \in Homes : Giver(h)' = Giver(h)
BY DEF links, Giver

LEMMA SharingUnchanged ==
  ASSUME UNCHANGED sharing
  PROVE  \A h \in Homes : Shared(h)' = Shared(h) /\ Invited(h)' = Invited(h)
BY DEF sharing, Shared, Invited

LEMMA OwnersUnchanged ==
  ASSUME UNCHANGED properties PROVE \A h \in Homes : Owner(h)' = Owner(h)
BY DEF Owner, Live

LEMMA TitleAcquired ==
  ASSUME Inv, NEW h \in Homes, NEW u \in Users, NEW k \in Addresses, ~Live(h), Put(h, u, k),
         UNCHANGED <<links, sharing>>
  PROVE  TitleOf!TitleNext
<1>1. /\ properties'[h] = [owner |-> u, key |-> k, level |-> "Unverified", createdAt |-> now]
      /\ properties'[h] # None
      /\ \A x \in Homes \ {h} : properties'[x] = properties[x]
  BY PutProperty DEF Inv
<1>2. \A x \in Homes : Owner(x)' = IF x = h THEN u ELSE Owner(x)
  BY <1>1 DEF Owner, Live
<1>3. Owner(h) = None
  BY DEF Owner
<1>4. TitleOf!Acquire(u, h)
  BY <1>2, <1>3, LinksUnchanged, SharingUnchanged DEF TitleOf!Acquire
<1> QED BY <1>4 DEF TitleOf!TitleNext

LEMMA TitleOffered ==
  ASSUME Inv, NEW h \in Homes, NEW u \in Users, InitiateTransfer(u, h)
  PROVE  TitleOf!TitleNext
<1>1. [from |-> u, token |-> NextToken, expiresAt |-> now + LinkLife] # None
  <2>1. [from |-> u, token |-> NextToken, expiresAt |-> now + LinkLife] \in PendingTransfer
    BY LimitsAreNatural DEF InitiateTransfer, GiveToken, NextToken, PendingTransfer, Tokens, Inv, TypeOK
  <2> QED BY <2>1, NoneIsNoRecord
<1>2. \A x \in Homes : Giver(x)' = IF x = h THEN u ELSE Giver(x)
  BY <1>1 DEF InitiateTransfer, Giver, Inv, TypeOK
<1>3. Owner(h) = u /\ u # None
  BY NoneIsApart DEF InitiateTransfer, OwnedBy, Owner
<1>4. UNCHANGED properties /\ UNCHANGED sharing
  BY DEF InitiateTransfer, registry
<1>5. TitleOf!Offer(h)
  BY <1>2, <1>3, <1>4, OwnersUnchanged, SharingUnchanged DEF TitleOf!Offer
<1> QED BY <1>5 DEF TitleOf!TitleNext

LEMMA TitleWithdrawn ==
  ASSUME Inv, NEW h \in Homes, DropLink(h), UNCHANGED <<registry, sharing>>
  PROVE  TitleOf!TitleNext
<1>1. \A x \in Homes : Giver(x)' = IF x = h THEN None ELSE Giver(x)
  BY DEF DropLink, Giver, Inv, TypeOK
<1>2. UNCHANGED properties
  BY DEF registry
<1>3. TitleOf!Withdraw(h)
  BY <1>1, <1>2, OwnersUnchanged, SharingUnchanged DEF TitleOf!Withdraw
<1> QED BY <1>3 DEF TitleOf!TitleNext

LEMMA TitleConveyed ==
  ASSUME Inv, NEW h \in Homes, NEW u \in Users, NEW t \in Tokens, ClaimTransfer(u, t, h)
  PROVE  TitleOf!TitleNext
<1> USE DEF ClaimTransfer, ClearDelegatedAccess, DropLink, LinkOf
<1>1. properties[h] \in Property /\ [properties[h] EXCEPT !.owner = u] \in Property
  BY SMTT(30) DEF Inv, TypeOK, Live, Property
<1>2. /\ properties'[h] # None /\ properties'[h].owner = u
      /\ \A x \in Homes \ {h} : properties'[x] = properties[x]
  BY <1>1, NoneIsNoRecord DEF Inv, TypeOK, Property
<1>3. \A x \in Homes : Owner(x)' = IF x = h THEN u ELSE Owner(x)
  BY <1>2 DEF Owner, Live
<1>4. Giver(h) = Owner(h) /\ Owner(h) # None /\ Owner(h) # u
  BY <1>1, NoneIsApart DEF Inv, LinksAreGiven, OwnedBy, Property, Owner, Giver
<1>5. \A x \in Homes : Giver(x)' = IF x = h THEN None ELSE Giver(x)
  BY DEF Giver, Inv, TypeOK
<1>6. \A x \in Homes : Shared(x)' = IF x = h THEN {} ELSE Shared(x)
  BY DEF Shared, NoManagers
<1>7. \A x \in Homes : Invited(x)' = IF x = h THEN FALSE ELSE Invited(x)
  BY DEF Invited
<1>8. TitleOf!Convey(u, h)
  BY <1>3, <1>4, <1>5, <1>6, <1>7 DEF TitleOf!Convey
<1> QED BY <1>8 DEF TitleOf!TitleNext

LEMMA TitleInvites ==
  ASSUME Inv, NEW h \in Homes, UNCHANGED <<registry, links, managers>>,
         \A x \in Homes \ {h} : Invited(x)' = Invited(x),
         Owner(h) # None \/ ~Invited(h)' \/ Invited(h)' = Invited(h)
  PROVE  TitleOf!TitleNext \/ UNCHANGED TitleOf!titleVars
<1>1. \A x \in Homes : Shared(x)' = Shared(x)
  BY DEF Shared
<1>2. UNCHANGED properties
  BY DEF registry
<1>3. Invited(h) \in BOOLEAN /\ Invited(h)' \in BOOLEAN
  BY DEF Invited
<1>4. CASE Owner(h) # None /\ Invited(h)' = TRUE
  <2>1. TitleOf!Invite(h)
    BY <1>1, <1>2, <1>4, OwnersUnchanged, LinksUnchanged DEF TitleOf!Invite
  <2> QED BY <2>1 DEF TitleOf!TitleNext
<1>5. CASE Invited(h)' = FALSE
  <2>1. TitleOf!Uninvite(h)
    BY <1>1, <1>2, <1>5, OwnersUnchanged, LinksUnchanged DEF TitleOf!Uninvite
  <2> QED BY <2>1 DEF TitleOf!TitleNext
<1>6. CASE Invited(h)' = Invited(h)
  BY <1>1, <1>2, <1>6, OwnersUnchanged, LinksUnchanged DEF TitleOf!titleVars
<1> QED BY <1>3, <1>4, <1>5, <1>6

LEMMA TitleJoined ==
  ASSUME Inv, NEW i \in invites, NEW u \in Users, ClaimManagerRole(u, i)
  PROVE  TitleOf!TitleNext
<1> USE DEF ClaimManagerRole
<1>1. i.home \in Homes /\ i.role \in Roles
  BY DEF Inv, TypeOK, Invitation
<1>2. PICK h \in Homes : h = i.home
  BY <1>1
<1>3. \A x \in Homes : Shared(x)' = IF x = h THEN Shared(x) \cup {u} ELSE Shared(x)
  BY <1>1, <1>2, NoneIsApart DEF Shared, Inv, TypeOK
<1>4. Invited(h) /\ u # Owner(h)
  BY <1>2 DEF Invited, Owner, OwnedBy
<1>5. \A x \in Homes : x # h => Invited(x)' = Invited(x)
  BY <1>2 DEF Invited
<1>6. Invited(h)' \in BOOLEAN
  BY DEF Invited
<1>7. UNCHANGED properties /\ UNCHANGED links
  BY DEF registry
<1>8. TitleOf!Join(u, h)
  BY <1>3, <1>4, <1>5, <1>6, <1>7, OwnersUnchanged, LinksUnchanged DEF TitleOf!Join
<1> QED BY <1>8 DEF TitleOf!TitleNext

LEMMA TitleLeft ==
  ASSUME Inv, NEW h \in Homes, NEW u \in Users, NEW r \in Roles \cup {None}, managers[h][u] # None,
         managers' = [managers EXCEPT ![h][u] = r], UNCHANGED <<registry, links, invites>>
  PROVE  TitleOf!TitleNext \/ UNCHANGED TitleOf!titleVars
<1>1. \A x \in Homes : Invited(x)' = Invited(x)
  BY DEF Invited
<1>2. UNCHANGED properties
  BY DEF registry
<1>3. CASE r = None
  <2>1. \A x \in Homes : Shared(x)' = IF x = h THEN Shared(x) \ {u} ELSE Shared(x)
    BY <1>3 DEF Shared, Inv, TypeOK
  <2>2. TitleOf!Leave(u, h)
    BY <1>1, <1>2, <2>1, OwnersUnchanged, LinksUnchanged DEF TitleOf!Leave
  <2> QED BY <2>2 DEF TitleOf!TitleNext
<1>4. CASE r # None
  <2>1. \A x \in Homes : Shared(x)' = Shared(x)
    BY <1>4 DEF Shared, Inv, TypeOK
  <2> QED BY <1>1, <1>2, <2>1, OwnersUnchanged, LinksUnchanged DEF TitleOf!titleVars
<1> QED BY <1>3, <1>4

LEMMA TitleErased ==
  ASSUME Inv, NEW u \in Users, DeleteMyData(u)
  PROVE  TitleOf!TitleNext
<1> USE DEF DeleteMyData
<1> DEFINE gone == {h \in Homes : OwnedBy(u, h)}
<1>1. \A h \in Homes : Owner(h) = u <=> h \in gone
  BY NoneIsApart DEF Owner, OwnedBy
<1>2. \A h \in Homes : Owner(h)' = IF h \in gone THEN None ELSE Owner(h)
  BY DEF Owner, Live
<1>3. \A h \in Homes : Giver(h)' = IF h \in gone THEN None ELSE Giver(h)
  BY DEF Giver
<1>4. \A h \in Homes : Shared(h)' = IF h \in gone THEN {} ELSE Shared(h) \ {u}
  <2> SUFFICES ASSUME NEW h \in Homes
               PROVE  Shared(h)' = IF h \in gone THEN {} ELSE Shared(h) \ {u}
    OBVIOUS
  <2>1. CASE h \in gone
    BY <2>1 DEF Shared, NoManagers
  <2>2. CASE h \notin gone
    <3>1. managers'[h] = [managers[h] EXCEPT ![u] = None] /\ managers[h] \in [Users -> Roles \cup {None}]
      BY <2>2 DEF Inv, TypeOK
    <3> QED BY <2>2, <3>1 DEF Shared
  <2> QED BY <2>1, <2>2
<1>5. \A h \in Homes : Invited(h)' = (Invited(h) /\ h \notin gone)
  BY DEF Invited
<1>6. TitleOf!Erase(u)
  BY <1>1, <1>2, <1>3, <1>4, <1>5 DEF TitleOf!Erase
<1> QED BY <1>6 DEF TitleOf!TitleNext

LEMMA TitleStep ==
  ASSUME Inv, [Next]_vars PROVE TitleOf!TitleNext \/ UNCHANGED TitleOf!titleVars
<1>1. CASE UNCHANGED <<properties, pendingTransfers, managers, invites>>
  BY <1>1, TitleUnchanged
<1>2. CASE \/ UNCHANGED vars \/ Tick
           \/ \E c \in Calls :
                \/ TierAnswers(c) \/ RegistrationFails(c) \/ IdTooLate(c)
                \/ \E u \in Users, k \in Addresses : RegisterProperty(c, u, k)
  BY <1>1, <1>2 DEF vars, Tick, TierAnswers, RegistrationFails, IdTooLate, RegisterProperty,
                    registry, links, sharing
<1>3. ASSUME NEW c \in Calls, NEW h \in Homes, IdArrives(c, h) PROVE TitleOf!TitleNext
  <2>1. Caller(c) \in Users /\ registering[c].key \in Addresses
    BY <1>3 DEF IdArrives, Waits, Caller, Inv, TypeOK, Registration
  <2> QED BY <1>3, <2>1, TitleAcquired DEF IdArrives
<1>4. ASSUME NEW u \in Users, NEW k \in Addresses, NEW h \in Homes, BulkRegister(u, k, h)
      PROVE  TitleOf!TitleNext
  BY <1>4, TitleAcquired DEF BulkRegister
<1>5. ASSUME NEW h \in Homes, SubmitVerification(h) \/ \E l \in Levels : VerifyProperty(h, l)
      PROVE  UNCHANGED TitleOf!titleVars
  <2>1. PICK l \in Levels : properties' = [properties EXCEPT ![h].level = l]
    BY <1>5 DEF SubmitVerification, VerifyProperty, Levels
  <2>2. properties[h] \in Property /\ [properties[h] EXCEPT !.level = l] \in Property
    BY <1>5, SMTT(30) DEF SubmitVerification, VerifyProperty, Live, Inv, TypeOK, Property
  <2>3. \A x \in Homes : /\ properties'[x] # None <=> properties[x] # None
                         /\ properties[x] # None => properties'[x].owner = properties[x].owner
    BY <2>1, <2>2, NoneIsNoRecord DEF Inv, TypeOK, Property
  <2> QED BY <1>5, <2>3, TitleUnchanged DEF SubmitVerification, VerifyProperty, links, sharing
<1>6. ASSUME NEW u \in Users, NEW h \in Homes, InitiateTransfer(u, h) PROVE TitleOf!TitleNext
  BY <1>6, TitleOffered
<1>7. ASSUME NEW h \in Homes, CancelTransfer(h) \/ \E t \in Tokens : ClaimTooLate(t, h)
      PROVE  TitleOf!TitleNext
  BY <1>7, TitleWithdrawn DEF CancelTransfer, ClaimTooLate
<1>8. ASSUME NEW u \in Users, NEW t \in Tokens, NEW h \in Homes, ClaimTransfer(u, t, h)
      PROVE  TitleOf!TitleNext
  BY <1>8, TitleConveyed
<1>9. ASSUME NEW u \in Users, NEW h \in Homes, NEW r \in Roles, InviteManager(u, h, r)
      PROVE  TitleOf!TitleNext \/ UNCHANGED TitleOf!titleVars
  <2>1. \A x \in Homes \ {h} : Invited(x)' = Invited(x)
    BY <1>9 DEF InviteManager, Invited
  <2>2. Owner(h) # None
    BY <1>9, NoneIsApart DEF InviteManager, OwnedBy, Owner
  <2> QED BY <1>9, <2>1, <2>2, TitleInvites DEF InviteManager
<1>10. ASSUME NEW i \in invites, DropInvite(i)
       PROVE  TitleOf!TitleNext \/ UNCHANGED TitleOf!titleVars
  <2>1. PICK h \in Homes : h = i.home
    BY DEF Inv, TypeOK, Invitation
  <2>2. \A x \in Homes \ {h} : Invited(x)' = Invited(x)
    BY <1>10, <2>1 DEF DropInvite, Invited
  <2>3. Invited(h)
    BY <2>1 DEF Invited
  <2>4. ~Invited(h)' \/ Invited(h)' = Invited(h)
    BY <2>3 DEF Invited
  <2> QED BY <1>10, <2>2, <2>4, TitleInvites DEF DropInvite
<1>11. ASSUME NEW i \in invites, NEW u \in Users, ClaimManagerRole(u, i) PROVE TitleOf!TitleNext
  BY <1>11, TitleJoined
<1>12. ASSUME NEW h \in Homes, NEW u \in Users,
              RemoveManager(h, u) \/ \E r \in Roles : UpdateManagerRole(h, u, r)
       PROVE  TitleOf!TitleNext \/ UNCHANGED TitleOf!titleVars
  <2>1. PICK r \in Roles \cup {None} : managers' = [managers EXCEPT ![h][u] = r]
    BY <1>12 DEF RemoveManager, UpdateManagerRole
  <2> QED BY <1>12, <2>1, TitleLeft DEF RemoveManager, UpdateManagerRole
<1>13. ASSUME NEW u \in Users, DeleteMyData(u) PROVE TitleOf!TitleNext
  BY <1>13, TitleErased
<1> QED
  BY <1>2, <1>3, <1>4, <1>5, <1>6, <1>7, <1>8, <1>9, <1>10, <1>11, <1>12, <1>13 DEF Next

(* The property canister keeps the titles of homes as Title promises, for *)
(* any number of users, homes, links and invitations.                     *)
THEOREM ImplementsTitle == Spec => KeepsTitle
<1>1. Init => TitleOf!TitleInit
  <2> SUFFICES ASSUME Init PROVE TitleOf!TitleInit
    OBVIOUS
  <2>1. \A h \in Homes : Owner(h) = None /\ Giver(h) = None /\ Shared(h) = {} /\ Invited(h) = FALSE
    BY DEF Init, Owner, Live, Giver, Shared, Invited, NoManagers
  <2> QED BY <2>1 DEF TitleOf!TitleInit
<1>2. Inv /\ [Next]_vars => [TitleOf!TitleNext]_TitleOf!titleVars
  BY TitleStep
<1> QED BY <1>1, <1>2, SpecInv, PTL DEF Spec, KeepsTitle, TitleOf!TitleSpec

-----------------------------------------------------------------------------
(* The plan's limit.  A registration that has passed the limit's check and *)
(* waits for its id keeps a place free, since its caller has no other.     *)
LiveHomes == {h \in Homes : Live(h)}
RegisteredBy(u) == {h \in Homes : registrant[h] = u}
HasPlace(c) == Waits(c, "id") /\ PlanLimit[Caller(c)] > 0

PlanInv ==
  /\ Inv /\ IsFiniteSet(LiveHomes)
  /\ \A h \in Homes : registrant[h] # None => OwnedBy(registrant[h], h)
  /\ RegistrationsStayInPlan
  /\ \A c \in Calls : HasPlace(c) => Cardinality(RegisteredBy(Caller(c))) < PlanLimit[Caller(c)]

LEMMA RegisteredFinite ==
  ASSUME PlanInv, NEW u \in Users
  PROVE  /\ IsFiniteSet(RegisteredBy(u)) /\ Cardinality(RegisteredBy(u)) \in Nat
         /\ IsFiniteSet({h \in Homes : OwnedBy(u, h)})
         /\ Cardinality({h \in Homes : OwnedBy(u, h)}) \in Nat
         /\ Cardinality(RegisteredBy(u)) <= Cardinality({h \in Homes : OwnedBy(u, h)})
<1>1. {h \in Homes : OwnedBy(u, h)} \subseteq LiveHomes
  BY DEF OwnedBy, LiveHomes
<1>2. RegisteredBy(u) \subseteq {h \in Homes : OwnedBy(u, h)}
  BY NoneIsApart DEF RegisteredBy, PlanInv
<1>3. IsFiniteSet({h \in Homes : OwnedBy(u, h)})
  BY <1>1, FS_Subset DEF PlanInv
<1> QED BY <1>2, <1>3, FS_Subset, FS_CardinalityType

LEMMA PlanInit == Init => PlanInv
<1> SUFFICES ASSUME Init PROVE PlanInv
  OBVIOUS
<1>1. LiveHomes = {} /\ \A u \in Users : {h \in Homes : registrant[h] = u} = {}
  BY NoneIsApart DEF Init, LiveHomes, Live
<1>2. RegistrationsStayInPlan
  <2>1. \A u \in Users : Cardinality({h \in Homes : registrant[h] = u}) = 0
    BY <1>1, FS_EmptySet
  <2> QED BY <2>1, LimitsAreNatural DEF RegistrationsStayInPlan
<1>3. \A c \in Calls : ~HasPlace(c)
  BY DEF Init, HasPlace, Waits
<1> QED BY <1>1, <1>2, <1>3, InitInv, FS_EmptySet DEF Init, PlanInv

(* No step but IdArrives adds to what a user has registered. *)
LEMMA PlanShrinks ==
  ASSUME PlanInv, Inv', IsFiniteSet(LiveHomes)',
         \A h \in Homes : registrant'[h] # None =>
           registrant'[h] = registrant[h] /\ OwnedBy(registrant[h], h)',
         \A c \in Calls : HasPlace(c)' =>
           Caller(c)' = Caller(c) /\ (HasPlace(c) \/ WithinLimit(Caller(c)))
  PROVE  PlanInv'
<1>1. \A u \in Users : Cardinality(RegisteredBy(u))' <= Cardinality(RegisteredBy(u))
  <2> SUFFICES ASSUME NEW u \in Users
               PROVE  Cardinality(RegisteredBy(u)') <= Cardinality(RegisteredBy(u))
    OBVIOUS
  <2>1. RegisteredBy(u)' \subseteq RegisteredBy(u)
    BY NoneIsApart DEF RegisteredBy
  <2> QED BY <2>1, RegisteredFinite, FS_Subset
<1>2. \A u \in Users : Cardinality(RegisteredBy(u))' \in Nat
  <2> SUFFICES ASSUME NEW u \in Users PROVE Cardinality(RegisteredBy(u)') \in Nat
    OBVIOUS
  <2>1. RegisteredBy(u)' \subseteq RegisteredBy(u)
    BY NoneIsApart DEF RegisteredBy
  <2> QED BY <2>1, RegisteredFinite, FS_Subset, FS_CardinalityType
<1>3. RegistrationsStayInPlan'
  <2> SUFFICES ASSUME NEW u \in Users, PlanLimit[u] > 0
               PROVE  Cardinality(RegisteredBy(u))' <= PlanLimit[u]
    BY DEF RegistrationsStayInPlan, RegisteredBy
  <2>1. Cardinality(RegisteredBy(u)) <= PlanLimit[u]
    BY DEF PlanInv, RegistrationsStayInPlan, RegisteredBy
  <2>2. Cardinality(RegisteredBy(u)) \in Nat
    BY RegisteredFinite
  <2>3. PlanLimit[u] \in Nat
    BY LimitsAreNatural
  <2>4. Cardinality(RegisteredBy(u))' \in Nat /\ Cardinality(RegisteredBy(u))' <= Cardinality(RegisteredBy(u))
    BY <1>1, <1>2
  <2> QED BY <2>1, <2>2, <2>3, <2>4
<1>4. ASSUME NEW c \in Calls, HasPlace(c)'
      PROVE  Cardinality(RegisteredBy(Caller(c)))' < PlanLimit[Caller(c)]'
  <2>1. PICK u \in Users : u = Caller(c)
    BY <1>4 DEF HasPlace, Waits, Caller, Inv, TypeOK, Registration
  <2>2. Caller(c)' = u /\ PlanLimit[u] > 0
    BY <1>4, <2>1 DEF HasPlace
  <2>3. Cardinality(RegisteredBy(u)) < PlanLimit[u]
    <3>1. CASE HasPlace(c)
      BY <2>1, <3>1 DEF PlanInv
    <3>2. CASE WithinLimit(u)
      <4>1. Cardinality({h \in Homes : OwnedBy(u, h)}) < PlanLimit[u]
        BY <2>2, <3>2 DEF WithinLimit
      <4> QED BY <4>1, RegisteredFinite, LimitsAreNatural
    <3> QED BY <1>4, <2>1, <3>1, <3>2
  <2>4. Cardinality(RegisteredBy(u))' < PlanLimit[u]
    <3>1. Cardinality(RegisteredBy(u)) \in Nat
      BY RegisteredFinite
    <3>2. PlanLimit[u] \in Nat
      BY LimitsAreNatural
    <3>3. Cardinality(RegisteredBy(u))' \in Nat /\ Cardinality(RegisteredBy(u))' <= Cardinality(RegisteredBy(u))
      BY <1>1, <1>2
    <3> QED BY <2>3, <3>1, <3>2, <3>3
  <2>5. \A v : v = u => Cardinality(RegisteredBy(v))' < PlanLimit[v]
    BY <2>4
  <2> QED BY <2>2, <2>5
<1> QED BY <1>3, <1>4 DEF PlanInv

LEMMA PlanId ==
  ASSUME PlanInv, Inv', NEW c \in Calls, NEW h \in Homes, IdArrives(c, h)
  PROVE  PlanInv'
<1>1. PICK u \in Users, k \in Addresses : u = Caller(c) /\ k = registering[c].key
  BY DEF IdArrives, Waits, Caller, PlanInv, Inv, TypeOK, Registration
<1>2. /\ properties'[h] # None /\ properties'[h].owner = u
      /\ \A x \in Homes \ {h} : properties'[x] = properties[x]
  <2>1. Put(h, u, k)
    BY <1>1 DEF IdArrives
  <2>2. properties'[h] = [owner |-> u, key |-> k, level |-> "Unverified", createdAt |-> now]
    BY <2>1, PutProperty DEF PlanInv, Inv
  <2>3. properties'[h] # None /\ \A x \in Homes \ {h} : properties'[x] = properties[x]
    BY <2>1, PutProperty DEF PlanInv, Inv
  <2> QED BY <2>2, <2>3
<1>3. IsFiniteSet(LiveHomes)'
  <2>1. LiveHomes' = LiveHomes \cup {h}
    BY <1>2 DEF LiveHomes, Live
  <2> QED BY <2>1, FS_AddElement DEF PlanInv
<1>4. \A x \in Homes : registrant'[x] = IF x = h THEN u ELSE registrant[x]
  BY <1>1 DEF IdArrives, PlanInv, Inv, TypeOK
<1>5. \A x \in Homes : registrant'[x] # None => OwnedBy(registrant[x], x)'
  BY <1>2, <1>4 DEF PlanInv, OwnedBy, Live
<1>6. \A v \in Users : RegisteredBy(v)' = IF v = u THEN RegisteredBy(v) \cup {h} ELSE RegisteredBy(v)
  <2>1. registrant[h] = None
    BY DEF PlanInv, OwnedBy, IdArrives
  <2> QED BY <1>4, <2>1, NoneIsApart DEF RegisteredBy
<1>7. \A v \in Users : Cardinality(RegisteredBy(v)') <=
                         IF v = u THEN Cardinality(RegisteredBy(v)) + 1 ELSE Cardinality(RegisteredBy(v))
  <2>1. \A v \in Users : IsFiniteSet(RegisteredBy(v)) /\ Cardinality(RegisteredBy(v)) \in Nat
    BY RegisteredFinite
  <2>2. IsFiniteSet(RegisteredBy(u)) /\ Cardinality(RegisteredBy(u)) \in Nat
    BY <2>1
  <2>3. \/ Cardinality(RegisteredBy(u) \cup {h}) = Cardinality(RegisteredBy(u))
        \/ Cardinality(RegisteredBy(u) \cup {h}) = Cardinality(RegisteredBy(u)) + 1
    BY <2>2, FS_AddElement
  <2>4. Cardinality(RegisteredBy(u) \cup {h}) <= Cardinality(RegisteredBy(u)) + 1
    BY <2>2, <2>3
  <2> QED BY <1>6, <2>1, <2>4
<1>8. \A v \in Users : Cardinality(RegisteredBy(v)') \in Nat
  <2> SUFFICES ASSUME NEW v \in Users PROVE IsFiniteSet(RegisteredBy(v)')
    BY FS_CardinalityType
  <2>1. IsFiniteSet(RegisteredBy(v)) /\ IsFiniteSet(RegisteredBy(v) \cup {h})
    BY RegisteredFinite, FS_AddElement
  <2> QED BY <1>6, <2>1
<1>9. PlanLimit[u] > 0 => Cardinality(RegisteredBy(u)) < PlanLimit[u]
  BY <1>1 DEF IdArrives, PlanInv, HasPlace
<1>10. RegistrationsStayInPlan'
  <2> SUFFICES ASSUME NEW v \in Users, PlanLimit[v] > 0
               PROVE  Cardinality(RegisteredBy(v)') <= PlanLimit[v]
    BY DEF RegistrationsStayInPlan, RegisteredBy
  <2>1. Cardinality(RegisteredBy(v)) <= PlanLimit[v]
    BY DEF PlanInv, RegistrationsStayInPlan, RegisteredBy
  <2>2. Cardinality(RegisteredBy(v)) \in Nat /\ PlanLimit[v] \in Nat
    BY RegisteredFinite, LimitsAreNatural
  <2>3. Cardinality(RegisteredBy(v)') \in Nat
    BY <1>8
  <2>4. CASE v = u
    BY <1>7, <1>9, <2>2, <2>3, <2>4
  <2>5. CASE v # u
    BY <1>7, <2>1, <2>2, <2>3, <2>5
  <2> QED BY <2>4, <2>5
<1>11. ASSUME NEW d \in Calls, HasPlace(d)'
       PROVE  Cardinality(RegisteredBy(Caller(d)))' < PlanLimit[Caller(d)]'
  <2>1. registering'[d] = registering[d] /\ d # c /\ HasPlace(d)
    BY <1>11, NoneIsNoRecord DEF HasPlace, Waits, Caller, IdArrives, Done, PlanInv, Inv, TypeOK
  <2>2. PICK v \in Users : v = Caller(d)
    BY <2>1 DEF HasPlace, Waits, Caller, PlanInv, Inv, TypeOK, Registration
  <2>3. v # u
    BY <1>1, <2>1, <2>2 DEF HasPlace, Waits, IdArrives, PlanInv, Inv, CallersAreKnown
  <2>4. Cardinality(RegisteredBy(v)') < PlanLimit[v]
    BY <1>6, <2>1, <2>2, <2>3 DEF PlanInv
  <2>5. Caller(d)' = v
    BY <2>1, <2>2 DEF Caller
  <2>6. \A w : w = v => Cardinality(RegisteredBy(w)') < PlanLimit[w]
    BY <2>4
  <2> QED BY <2>5, <2>6
<1> QED BY <1>3, <1>5, <1>10, <1>11 DEF PlanInv

LEMMA PlanNext == PlanInv /\ [Next]_vars => PlanInv'
<1> SUFFICES ASSUME PlanInv, [Next]_vars PROVE PlanInv'
  OBVIOUS
<1>1. Inv'
  BY NextInv DEF PlanInv
<1>2. ASSUME NEW c \in Calls, NEW h \in Homes, IdArrives(c, h) PROVE PlanInv'
  BY <1>1, <1>2, PlanId
<1>3. ASSUME UNCHANGED properties, UNCHANGED registrant,
             \A c \in Calls : HasPlace(c)' =>
               Caller(c)' = Caller(c) /\ (HasPlace(c) \/ WithinLimit(Caller(c)))
      PROVE  PlanInv'
  <2>1. IsFiniteSet(LiveHomes)'
    <3>1. LiveHomes' = LiveHomes
      BY <1>3 DEF LiveHomes, Live
    <3> QED BY <3>1 DEF PlanInv
  <2>2. \A h \in Homes : registrant'[h] # None =>
          registrant'[h] = registrant[h] /\ OwnedBy(registrant[h], h)'
    BY <1>3 DEF PlanInv, OwnedBy, Live
  <2> QED BY <1>1, <1>3, <2>1, <2>2, PlanShrinks
<1>4. ASSUME UNCHANGED calls,
             \A h \in Homes : registrant'[h] # None => registrant'[h] = registrant[h],
             \A h \in Homes : registrant'[h] # None => OwnedBy(registrant[h], h)',
             IsFiniteSet(LiveHomes)'
      PROVE  PlanInv'
  <2>1. \A c \in Calls : HasPlace(c)' => Caller(c)' = Caller(c) /\ HasPlace(c)
    BY <1>4 DEF calls, HasPlace, Waits, Caller
  <2> QED BY <1>1, <1>4, <2>1, PlanShrinks
<1>5. CASE UNCHANGED registry /\ UNCHANGED calls
  <2>1. \A c \in Calls : HasPlace(c)' => Caller(c)' = Caller(c) /\ HasPlace(c)
    BY <1>5 DEF calls, HasPlace, Waits, Caller
  <2> QED BY <1>3, <1>5, <2>1 DEF registry
<1>6. ASSUME NEW c \in Calls, NEW u \in Users, NEW k \in Addresses, RegisterProperty(c, u, k)
      PROVE  PlanInv'
  <2>1. [caller |-> u, key |-> k, stage |-> "tier"] \in Registration
    BY DEF Registration
  <2>2. registering'[c].stage = "tier" /\ \A d \in Calls : d # c => registering'[d] = registering[d]
    BY <1>6, <2>1 DEF RegisterProperty, PlanInv, Inv, TypeOK
  <2>3. \A d \in Calls : HasPlace(d)' => Caller(d)' = Caller(d) /\ HasPlace(d)
    BY <2>2 DEF HasPlace, Waits, Caller
  <2> QED BY <1>3, <1>6, <2>3 DEF RegisterProperty, registry
<1>7. ASSUME NEW c \in Calls, TierAnswers(c) PROVE PlanInv'
  <2>1. registering[c] \in Registration
    BY <1>7 DEF TierAnswers, Waits, PlanInv, Inv, TypeOK
  <2>2. CASE WithinLimit(Caller(c)) /\ registering' = [registering EXCEPT ![c].stage = "id"]
    <3>1. \A d \in Calls : d # c => registering'[d] = registering[d]
      BY <2>2 DEF PlanInv, Inv, TypeOK
    <3>2. registering'[c].caller = registering[c].caller
      BY <2>1, <2>2 DEF PlanInv, Inv, TypeOK, Registration
    <3>3. \A d \in Calls : HasPlace(d)' =>
            Caller(d)' = Caller(d) /\ (HasPlace(d) \/ WithinLimit(Caller(d)))
      BY <2>2, <3>1, <3>2 DEF HasPlace, Waits, Caller
    <3> QED BY <1>3, <1>7, <3>3 DEF TierAnswers, registry
  <2>3. CASE Done(c)
    <3>1. \A d \in Calls : HasPlace(d)' => Caller(d)' = Caller(d) /\ HasPlace(d)
      BY <1>7, <2>3, CallsEnd DEF HasPlace, Waits, Caller, TierAnswers, PlanInv, Inv
    <3> QED BY <1>3, <1>7, <3>1 DEF TierAnswers, registry
  <2> QED BY <1>7, <2>2, <2>3 DEF TierAnswers
<1>8. ASSUME NEW c \in Calls, RegistrationFails(c) \/ IdTooLate(c) PROVE PlanInv'
  <2>1. registering[c] # None /\ Done(c) /\ UNCHANGED registry
    BY <1>8 DEF RegistrationFails, IdTooLate, Waits
  <2>2. \A d \in Calls : HasPlace(d)' => Caller(d)' = Caller(d) /\ HasPlace(d)
    BY <2>1, CallsEnd DEF HasPlace, Waits, Caller, PlanInv, Inv
  <2> QED BY <1>3, <2>1, <2>2 DEF registry
<1>9. ASSUME NEW u \in Users, NEW k \in Addresses, NEW h \in Homes, BulkRegister(u, k, h)
      PROVE  PlanInv'
  <2>1. properties'[h] # None /\ \A x \in Homes \ {h} : properties'[x] = properties[x]
    BY <1>9, PutProperty DEF BulkRegister, PlanInv, Inv
  <2>2. LiveHomes' = LiveHomes \cup {h}
    BY <2>1 DEF LiveHomes, Live
  <2>3. IsFiniteSet(LiveHomes)'
    BY <2>2, FS_AddElement DEF PlanInv
  <2>4. \A x \in Homes : registrant'[x] # None => x # h /\ OwnedBy(registrant[x], x)
    BY <1>9 DEF BulkRegister, PlanInv, OwnedBy
  <2>5. \A x \in Homes : registrant'[x] # None => OwnedBy(registrant[x], x)'
    BY <1>9, <2>1, <2>4 DEF BulkRegister, OwnedBy, Live
  <2> QED BY <1>4, <1>9, <2>3, <2>5 DEF BulkRegister
<1>10. ASSUME NEW h \in Homes, SubmitVerification(h) \/ \E l \in Levels : VerifyProperty(h, l)
       PROVE  PlanInv'
  <2>1. PICK l \in Levels : properties' = [properties EXCEPT ![h].level = l]
    BY <1>10 DEF SubmitVerification, VerifyProperty, Levels
  <2>2. properties[h] \in Property /\ [properties[h] EXCEPT !.level = l] \in Property
    BY <1>10 DEF SubmitVerification, VerifyProperty, Live, PlanInv, Inv, TypeOK, Property
  <2>3. \A x \in Homes : /\ properties'[x] # None <=> properties[x] # None
                         /\ properties[x] # None => properties'[x].owner = properties[x].owner
    BY <2>1, <2>2, NoneIsNoRecord DEF PlanInv, Inv, TypeOK, Property
  <2>4. LiveHomes' = LiveHomes
    BY <2>3 DEF LiveHomes, Live
  <2>5. UNCHANGED registrant /\ UNCHANGED calls
    BY <1>10 DEF SubmitVerification, VerifyProperty
  <2>6. \A x \in Homes : registrant'[x] # None => OwnedBy(registrant[x], x)'
    BY <2>3, <2>5 DEF PlanInv, OwnedBy, Live
  <2> QED BY <1>4, <2>4, <2>5, <2>6 DEF PlanInv
<1>11. ASSUME NEW u \in Users, NEW t \in Tokens, NEW h \in Homes, ClaimTransfer(u, t, h)
       PROVE  PlanInv'
  <2>1. properties'[h] # None /\ \A x \in Homes \ {h} : properties'[x] = properties[x]
    <3>1. properties[h] \in Property /\ [properties[h] EXCEPT !.owner = u] \in Property
      BY <1>11 DEF ClaimTransfer, PlanInv, Inv, TypeOK, Live, Property
    <3> QED BY <1>11, <3>1, NoneIsNoRecord DEF ClaimTransfer, PlanInv, Inv, TypeOK
  <2>2. LiveHomes' = LiveHomes
    BY <1>11, <2>1 DEF ClaimTransfer, LiveHomes, Live
  <2>3. \A x \in Homes : registrant'[x] = IF x = h THEN None ELSE registrant[x]
    BY <1>11 DEF ClaimTransfer, PlanInv, Inv, TypeOK
  <2>4. \A x \in Homes : registrant'[x] # None => OwnedBy(registrant[x], x)'
    BY <2>1, <2>3 DEF PlanInv, OwnedBy, Live
  <2> QED BY <1>4, <1>11, <2>2, <2>3, <2>4 DEF ClaimTransfer, PlanInv
<1>12. ASSUME NEW u \in Users, DeleteMyData(u) PROVE PlanInv'
  <2> DEFINE gone == {h \in Homes : OwnedBy(u, h)}
  <2>1. \A h \in Homes : /\ properties'[h] = IF h \in gone THEN None ELSE properties[h]
                         /\ registrant'[h] = IF h \in gone THEN None ELSE registrant[h]
    BY <1>12 DEF DeleteMyData
  <2>2. LiveHomes' \subseteq LiveHomes
    BY <2>1 DEF LiveHomes, Live
  <2>3. IsFiniteSet(LiveHomes)'
    BY <2>2, FS_Subset DEF PlanInv
  <2>4. \A h \in Homes : registrant'[h] # None => OwnedBy(registrant[h], h)'
    BY <2>1 DEF PlanInv, OwnedBy, Live
  <2>5. UNCHANGED calls
    BY <1>12 DEF DeleteMyData
  <2> QED BY <1>4, <2>1, <2>3, <2>4, <2>5
<1> QED
  BY <1>2, <1>5, <1>6, <1>7, <1>8, <1>9, <1>10, <1>11, <1>12
  DEF Next, vars, Tick, CancelTransfer, ClaimTooLate, InitiateTransfer, RemoveManager,
      InviteManager, UpdateManagerRole, DropInvite, ClaimManagerRole, calls, registry

(* However many registrations of a user are on their way, with whatever *)
(* plan, the homes the user registered stay within the plan's number.   *)
THEOREM PlansHold == Spec => []RegistrationsStayInPlan
<1>1. PlanInv => RegistrationsStayInPlan
  BY DEF PlanInv
<1> QED BY <1>1, PlanInit, PlanNext, PTL DEF Spec
=============================================================================
