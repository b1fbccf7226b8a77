--------------------------------- MODULE Job ---------------------------------
(***************************************************************************)
(* The maintenance record of the job canister: how a job gets its two      *)
(* signatures and becomes verified.  A homeowner (or another principal     *)
(* with write access to the home) and a contractor sign by verifyJob, a    *)
(* contractor also by redeeming an invite link or by proposing the job.    *)
(* These calls ask the contractor canister whether the signer's profile is *)
(* verified, and other messages run while they wait; so does creating an   *)
(* invite.  The other handlers await too, but nothing they read before the *)
(* await is used after it except what never changes (home and homeowner),  *)
(* so each of them is one action, at the moment it resumes.                *)
(*                                                                         *)
(* There is one property.  Who has write access to it does not change.     *)
(* Contents of the record, pauses, rate limits and the outbox are left     *)
(* out.  "Pending" stands for every status no handler looks at: Pending,   *)
(* InProgress, Completed and RejectedByHomeowner.                          *)
(***************************************************************************)
EXTENDS Naturals, FiniteSets

CONSTANTS
  Jobs,         \* random ids; never reused
  Homes,        \* principals with write access to the property
  Owner,        \* the one the property canister names as owner
  Contractors,  \* principals with a contractor profile and no role on the property
  Tokens,       \* random ids of invite links; never reused
  Calls,        \* slots for calls in flight
  MaxProposals, \* MAX_PENDING_PROPOSALS_PER_CONTRACTOR
  Admin,        \* signs for the contractor of an imported record
  None

ASSUME RolesAreApart ==
  /\ Owner \in Homes
  /\ Homes \cap Contractors = {}
  /\ Admin \notin Homes \cup Contractors
  /\ None \notin Jobs \cup Homes \cup Contractors \cup Tokens \cup {Admin}

VARIABLES
  job,        \* jobs
  attest,     \* contractorAttest: was the signing contractor's profile verified?
  invite,     \* inviteTokens; one that is used or deleted is spent
  call,       \* the calls in flight
  profile,    \* contractor canister: isVerified
  refreshing, \* refreshContractorAttestation messages under way
  reported,   \* how often the job went to the fee and the contractor canister
  signedBy    \* history: who signed in the contractor's place; no code reads it

record == <<job, attest, signedBy>>
outside == <<profile, refreshing>>
vars == <<record, invite, call, outside, reported>>

Statuses == {"Pending", "Verified", "PendingHomeownerApproval"}
JobRecord == [status : Statuses \cup {"none", "deleted"}, home : Homes \cup {None},
              contractor : Contractors \cup {None}, diy : BOOLEAN, verified : BOOLEAN,
              homeSigned : BOOLEAN, contrSigned : BOOLEAN]
Operations == {"idle", "verify", "redeem", "propose", "invite"}
Answers == {"unasked", "null", "verified", "unverified"}

TypeOK ==
  /\ job \in [Jobs -> JobRecord]
  /\ attest \in [Jobs -> {"absent", "verified", "unverified"}]
  /\ invite \in [Tokens -> [state : {"none", "open", "expired", "spent"}, job : Jobs \cup {None},
                            contractor : Contractors \cup {None}]]
  /\ call \in [Calls -> [op : Operations, by : Homes \cup Contractors \cup {None},
                         job : Jobs \cup {None}, token : Tokens \cup {None},
                         contractor : Contractors \cup {None}, diy : BOOLEAN, answer : Answers]]
  /\ profile \in [Contractors -> BOOLEAN]
  /\ refreshing \in SUBSET Contractors
  /\ reported \in [Jobs -> Nat]
  /\ signedBy \in [Jobs -> Contractors \cup {Admin, None}]

NoJob == [status |-> "none", home |-> None, contractor |-> None, diy |-> FALSE,
          verified |-> FALSE, homeSigned |-> FALSE, contrSigned |-> FALSE]
NoInvite == [state |-> "none", job |-> None, contractor |-> None]
Spent == [NoInvite EXCEPT !.state = "spent"]
NoCall == [op |-> "idle", by |-> None, job |-> None, token |-> None, contractor |-> None,
           diy |-> FALSE, answer |-> "unasked"]

Init ==
  /\ job = [j \in Jobs |-> NoJob]
  /\ attest = [j \in Jobs |-> "absent"]
  /\ invite = [t \in Tokens |-> NoInvite]
  /\ call = [k \in Calls |-> NoCall]
  /\ profile = [c \in Contractors |-> FALSE]
  /\ refreshing = {}
  /\ reported = [j \in Jobs |-> 0]
  /\ signedBy = [j \in Jobs |-> None]

Live(j) == job[j].status \notin {"none", "deleted"}
Fresh(j) == job[j].status = "none"
Idle(k) == call[k].op = "idle"
Return(k) == call' = [call EXCEPT ![k] = NoCall]

-----------------------------------------------------------------------------
(* Handlers of one action. *)
CreateJob(h, j, diy) ==
  /\ Fresh(j)
  /\ job' = [job EXCEPT ![j] = [NoJob EXCEPT
       !.status = "Pending", !.home = h, !.diy = diy, !.contrSigned = diy]]
  /\ UNCHANGED <<attest, signedBy, invite, call, outside, reported>>

(* admin *)
BuilderImportJob(j) ==
  /\ Fresh(j)
  /\ job' = [job EXCEPT ![j] = [NoJob EXCEPT
       !.status = "Verified", !.home = Owner, !.verified = TRUE,
       !.homeSigned = TRUE, !.contrSigned = TRUE]]
  /\ signedBy' = [signedBy EXCEPT ![j] = Admin]
  /\ UNCHANGED <<attest, invite, call, outside, reported>>

(* mutant of Editable: only the homeowner's own signature counts *)
EditableByHome(j) == Live(j) /\ ~job[j].verified /\ ~job[j].homeSigned

(* Nobody has signed; the contractor slot of a DIY job is signed from the start. *)
Editable(j) ==
  /\ Live(j) /\ ~job[j].verified /\ ~job[j].homeSigned
  /\ ~job[j].contrSigned \/ job[j].diy
  /\ job[j].contractor = None

UpdateJob(j, diy) ==
  /\ Editable(j)
  /\ job' = [job EXCEPT ![j] = [@ EXCEPT !.diy = diy, !.contrSigned = diy]]
  /\ UNCHANGED <<attest, signedBy, invite, call, outside, reported>>

UpdateJobStatus(j, status) ==
  /\ Live(j) /\ ~job[j].verified
  /\ job' = [job EXCEPT ![j].status = status]
  /\ UNCHANGED <<attest, signedBy, invite, call, outside, reported>>

LinkContractor(j, c) ==
  /\ Live(j) /\ ~job[j].verified /\ ~job[j].diy
  /\ job' = [job EXCEPT ![j].contractor = c]
  /\ UNCHANGED <<attest, signedBy, invite, call, outside, reported>>

ApproveJobProposal(j) ==
  /\ job[j].status = "PendingHomeownerApproval"
  /\ job' = [job EXCEPT ![j] = [@ EXCEPT !.status = "Pending", !.verified = FALSE,
                                           !.homeSigned = TRUE, !.contrSigned = TRUE]]
  /\ UNCHANGED <<attest, signedBy, invite, call, outside, reported>>

Deleted == [NoJob EXCEPT !.status = "deleted"]

RejectJobProposal(j) ==
  /\ job[j].status = "PendingHomeownerApproval"
  /\ job' = [job EXCEPT ![j] = Deleted]
  /\ attest' = [attest EXCEPT ![j] = "absent"]
  /\ UNCHANGED <<signedBy, invite, call, outside, reported>>

DeleteMyData(h) ==
  /\ \E j \in Jobs : Live(j) /\ job[j].home = h
  /\ LET erased == {j \in Jobs : Live(j) /\ job[j].home = h} IN
     /\ job' = [j \in Jobs |-> IF j \in erased THEN Deleted ELSE job[j]]
     /\ attest' = [j \in Jobs |-> IF j \in erased THEN "absent" ELSE attest[j]]
     /\ invite' = [t \in Tokens |-> IF invite[t].job \in erased
                                    THEN Spent ELSE invite[t]]
  /\ UNCHANGED <<signedBy, call, outside, reported>>

-----------------------------------------------------------------------------
(* Calls that wait. *)
Begin(k, op, p, j, t) ==
  /\ Idle(k)
  /\ call' = [call EXCEPT ![k] = [NoCall EXCEPT
       !.op = op, !.by = p, !.job = j, !.token = t,
       !.contractor = IF j = None THEN None ELSE job[j].contractor,
       !.diy = j # None /\ job[j].diy]]
  /\ UNCHANGED <<record, invite, outside, reported>>

VerifyJob(k, p, j) ==
  /\ Live(j) /\ ~job[j].verified
  /\ p \in Homes \/ p = job[j].contractor
  /\ Begin(k, "verify", p, j, None)

(* getContractorStats: the answer is asked for only when it may be recorded; a
   failed call reads as not verified. *)
StatusNeeded(k) ==
  /\ ~call[k].diy /\ call[k].contractor # None
  /\ call[k].by = call[k].contractor \/ attest[call[k].job] = "absent"

ProfileAnswers(c) == IF profile[c] THEN {"verified", "unverified"} ELSE {"unverified"}

AskStatusToVerify(k) ==
  /\ call[k].op = "verify" /\ call[k].answer = "unasked"
  /\ \E a \in (IF StatusNeeded(k) THEN ProfileAnswers(call[k].contractor) ELSE {"null"}) :
       call' = [call EXCEPT ![k].answer = a]
  /\ UNCHANGED <<record, invite, outside, reported>>

(* mutant of StillToSign: a signature that arrives after verification counts again *)
StillToSignAgain(k) == Live(call[k].job) /\ job[call[k].job].contractor = call[k].contractor

(* Read again after the await. *)
StillToSign(k) ==
  /\ Live(call[k].job) /\ ~job[call[k].job].verified
  /\ job[call[k].job].contractor = call[k].contractor

(* mutant of RecordsAttest: the contractor's own signature is attested only when it is last *)
RecordsAttestAtLast(k, full) ==
  call[k].answer # "null" /\ full /\ attest[call[k].job] = "absent"

RecordsAttest(k, full) ==
  /\ call[k].answer # "null"
  /\ call[k].by = call[k].contractor \/ (full /\ attest[call[k].job] = "absent")

Signed(r, byHome, byContractor) ==
  LET s == [r EXCEPT !.homeSigned = @ \/ byHome, !.contrSigned = @ \/ byContractor] IN
  IF s.homeSigned /\ (s.diy \/ s.contrSigned) THEN [s EXCEPT !.verified = TRUE, !.status = "Verified"]
  ELSE s

(* A job that becomes verified goes to the fee and the contractor canister. *)
Report(j) ==
  reported' = [reported EXCEPT ![j] =
    @ + IF job'[j].verified /\ job'[j].contractor # None THEN 1 ELSE 0]

VerifyJobResume(k) ==
  /\ call[k].op = "verify" /\ call[k].answer # "unasked" /\ StillToSign(k)
  /\ LET j == call[k].job
         byContractor == call[k].by = call[k].contractor IN
     /\ job' = [job EXCEPT ![j] = Signed(@, ~byContractor, byContractor)]
     /\ attest' = IF RecordsAttest(k, job'[j].verified)
                  THEN [attest EXCEPT ![j] = call[k].answer] ELSE attest
     /\ signedBy' = IF byContractor THEN [signedBy EXCEPT ![j] = call[k].by] ELSE signedBy
     /\ Report(j)
  /\ Return(k)
  /\ UNCHANGED <<invite, outside>>

(* What is checked before and again after the calls to other canisters; that
   the link has not expired is checked before only. *)
MayRedeem(c, t) ==
  LET j == invite[t].job IN
  /\ invite[t].state \in {"open", "expired"} /\ invite[t].contractor \in {c, None}
  /\ Live(j) /\ ~job[j].contrSigned /\ job[j].contractor \in {c, None}

RedeemInviteToken(k, c, t) ==
  /\ invite[t].state = "open" /\ MayRedeem(c, t)
  /\ Begin(k, "redeem", c, invite[t].job, t)

(* A proposal has no job yet; an invite asks for the address only. *)
AskStatusToSign(k) ==
  /\ call[k].op \in {"redeem", "propose"} /\ call[k].answer = "unasked"
  /\ call' = [call EXCEPT ![k].answer = IF profile[call[k].by] THEN "verified" ELSE "unverified"]
  /\ UNCHANGED <<record, invite, outside, reported>>

RedeemInviteTokenResume(k) ==
  /\ call[k].op = "redeem" /\ call[k].answer # "unasked"
  /\ MayRedeem(call[k].by, call[k].token)
  /\ LET j == invite[call[k].token].job IN
     /\ ~job[j].verified
     /\ job' = [job EXCEPT ![j] = Signed([@ EXCEPT !.contractor = call[k].by], FALSE, TRUE)]
     /\ attest' = [attest EXCEPT ![j] = call[k].answer]
     /\ signedBy' = [signedBy EXCEPT ![j] = call[k].by]
     /\ Report(j)
  /\ invite' = [invite EXCEPT ![call[k].token] = Spent]
  /\ Return(k)
  /\ UNCHANGED outside

ProposalsOf(c) == {j \in Jobs : job[j].status = "PendingHomeownerApproval" /\ job[j].contractor = c}

MayPropose(c) == Cardinality(ProposalsOf(c)) < MaxProposals

CreateJobProposal(k, c) == MayPropose(c) /\ Begin(k, "propose", c, None, None)

CreateJobProposalResume(k) ==
  /\ call[k].op = "propose" /\ call[k].answer # "unasked" /\ MayPropose(call[k].by)
  /\ \E j \in Jobs :
       /\ Fresh(j)
       /\ job' = [job EXCEPT ![j] = [NoJob EXCEPT
            !.status = "PendingHomeownerApproval", !.home = Owner,
            !.contractor = call[k].by, !.contrSigned = TRUE]]
       /\ attest' = [attest EXCEPT ![j] = call[k].answer]
       /\ signedBy' = [signedBy EXCEPT ![j] = call[k].by]
  /\ Return(k)
  /\ UNCHANGED <<invite, outside, reported>>

CreateInviteToken(k, h, j) ==
  /\ Live(j) /\ ~job[j].diy /\ ~job[j].contrSigned
  /\ Begin(k, "invite", h, j, None)

(* Nothing is read again: the link is bound to the contractor of before. *)
CreateInviteTokenResume(k) ==
  /\ call[k].op = "invite"
  /\ \E t \in Tokens :
       /\ invite[t].state = "none"
       /\ invite' = [invite EXCEPT ![t] =
            [state |-> "open", job |-> call[k].job, contractor |-> call[k].contractor]]
  /\ Return(k)
  /\ UNCHANGED <<record, outside, reported>>

(* A callee does not answer, or what the call relied on has changed. *)
ReturnError(k) ==
  /\ ~Idle(k)
  /\ Return(k)
  /\ UNCHANGED <<record, invite, outside, reported>>

InviteExpires(t) ==
  /\ invite[t].state = "open"
  /\ invite' = [invite EXCEPT ![t].state = "expired"]
  /\ UNCHANGED <<record, call, outside, reported>>

-----------------------------------------------------------------------------
(* contractor canister: an admin verifies the profile and job is told. *)
VerifyContractor(c) ==
  /\ profile' = [profile EXCEPT ![c] = TRUE]
  /\ refreshing' = refreshing \cup {c}
  /\ UNCHANGED <<record, invite, call, reported>>

RefreshContractorAttestation(c) ==
  /\ c \in refreshing /\ refreshing' = refreshing \ {c}
  /\ attest' = [j \in Jobs |-> IF job[j].contractor = c /\ attest[j] # "absent"
                               THEN "verified" ELSE attest[j]]
  /\ UNCHANGED <<job, signedBy, invite, call, profile, reported>>

RefreshIsLost(c) ==
  /\ c \in refreshing /\ refreshing' = refreshing \ {c}
  /\ UNCHANGED <<record, invite, call, profile, reported>>

-----------------------------------------------------------------------------
HomeStep ==
  \/ \E h \in Homes, j \in Jobs, diy \in BOOLEAN : CreateJob(h, j, diy)
  \/ \E j \in Jobs : \/ BuilderImportJob(j) \/ ApproveJobProposal(j) \/ RejectJobProposal(j)
                     \/ \E diy \in BOOLEAN : UpdateJob(j, diy)
                     \/ \E status \in Statuses : UpdateJobStatus(j, status)
                     \/ \E c \in Contractors : LinkContractor(j, c)
  \/ \E h \in Homes : DeleteMyData(h)

BeginCall(k) ==
  \/ \E p \in Homes \cup Contractors, j \in Jobs : VerifyJob(k, p, j)
  \/ \E c \in Contractors : \/ CreateJobProposal(k, c)
                            \/ \E t \in Tokens : RedeemInviteToken(k, c, t)
  \/ \E h \in Homes, j \in Jobs : CreateInviteToken(k, h, j)

ResumeCall(k) ==
  \/ AskStatusToVerify(k) \/ AskStatusToSign(k)
  \/ VerifyJobResume(k) \/ RedeemInviteTokenResume(k)
  \/ CreateJobProposalResume(k) \/ CreateInviteTokenResume(k) \/ ReturnError(k)

Elsewhere ==
  \/ \E t \in Tokens : InviteExpires(t)
  \/ \E c \in Contractors : VerifyContractor(c) \/ RefreshContractorAttestation(c) \/ RefreshIsLost(c)

Next == HomeStep \/ Elsewhere \/ \E k \in Calls : BeginCall(k) \/ ResumeCall(k)

Spec == Init /\ [][Next]_vars

-----------------------------------------------------------------------------
(* "Once verified, a job is locked and can't be edited or unsigned": whatever
   calls were waiting, a signature is never lost and a verified job never
   changes, short of deletion with the account. *)
SignaturesAreKept ==
  [][\A j \in Jobs : Live(j) /\ job'[j].status # "deleted" =>
       /\ job[j].verified => job'[j] = job[j]
       /\ job[j].homeSigned => job'[j].homeSigned
       /\ job[j].contrSigned /\ ~job[j].diy => job'[j].contrSigned]_vars

(* Two signatures under way at once: the fee and the contractor canister hear
   of a job once at most, and only of a verified one. *)
ReportedOnce ==
  \A j \in Jobs : /\ reported[j] <= 1
                  /\ reported[j] = 1 => job[j].verified \/ job[j].status = "deleted"

(* A contractor's signature always has its attestation, so that the signature
   of an unverified profile does not count ("absent" counts). *)
SignedIsAttested ==
  \A j \in Jobs : Live(j) /\ signedBy[j] \in Contractors => attest[j] # "absent"
=============================================================================
