------------------------------ MODULE JobProofs ------------------------------
(***************************************************************************)
(* Proofs about Job, for any number of jobs, principals, invite links and  *)
(* calls in flight.  ReportedOnce and SignedIsAttested are not inductive:  *)
(* a resumed call relies on what its first step saw, so the invariant also *)
(* says what a waiting call knows (CallsKnow) and what a record is like    *)
(* before and after it is live (RecordsAreSound).                          *)
(***************************************************************************)
EXTENDS Job, TLAPS

(* A record, with its attestation, its signer and its reports. *)
Sound(j) ==
  /\ Fresh(j) => ~job[j].verified /\ signedBy[j] = None
  /\ job[j].verified /\ Live(j) => job[j].status = "Verified"
  /\ job[j].contractor # None => ~job[j].diy
  /\ job[j].diy => job[j].contrSigned
  /\ reported[j] <= 1
  /\ reported[j] = 1 => job[j].verified \/ job[j].status = "deleted"
  /\ Live(j) /\ signedBy[j] \in Contractors => attest[j] # "absent"

RecordsAreSound == \A j \in Jobs : Sound(j)

CallsKnow ==
  \A k \in Calls :
    /\ call[k].op = "verify" =>
         /\ call[k].job \in Jobs /\ call[k].by # None
         /\ call[k].contractor # None => ~call[k].diy
         /\ call[k].by = call[k].contractor => call[k].answer # "null"
    /\ call[k].op = "redeem" => call[k].token \in Tokens
    /\ call[k].op = "invite" => call[k].job \in Jobs
    /\ call[k].op \in {"redeem", "propose"} =>
         call[k].by \in Contractors /\ call[k].answer # "null"

InvitesNameJobs == \A t \in Tokens : invite[t].state \in {"open", "expired"} => invite[t].job \in Jobs

Inv == TypeOK /\ RecordsAreSound /\ CallsKnow /\ InvitesNameJobs

LEMMA InitInv == Init => Inv
<1> SUFFICES ASSUME Init PROVE Inv
  OBVIOUS
<1> USE RolesAreApart DEF Init
<1>1. TypeOK
  BY DEF TypeOK, NoJob, JobRecord, NoInvite, NoCall, Operations, Answers
<1>2. RecordsAreSound
  BY DEF RecordsAreSound, Sound, NoJob, Live, Fresh
<1>3. CallsKnow
  BY DEF CallsKnow, NoCall
<1>4. InvitesNameJobs
  BY DEF InvitesNameJobs, NoInvite
<1> QED BY <1>1, <1>2, <1>3, <1>4 DEF Inv

-----------------------------------------------------------------------------
(* A step that leaves the calls alone keeps what they know. *)
LEMMA CallsUntouched == CallsKnow /\ call' = call => CallsKnow'
  BY DEF CallsKnow

LEMMA InvitesUntouched == InvitesNameJobs /\ invite' = invite => InvitesNameJobs'
  BY DEF InvitesNameJobs

(* A call that ends knows nothing. *)
LEMMA CallEnds ==
  ASSUME TypeOK, CallsKnow, NEW k \in Calls, Return(k) PROVE CallsKnow'
<1>1. call'[k] = NoCall /\ \A i \in Calls \ {k} : call'[i] = call[i]
  BY DEF Return, TypeOK
<1> QED BY <1>1 DEF CallsKnow, NoCall

LEMMA BeginInv ==
  ASSUME Inv, NEW k \in Calls, NEW op \in {"verify", "redeem", "propose", "invite"},
         NEW p \in Homes \cup Contractors, NEW j \in Jobs \cup {None},
         NEW t \in Tokens \cup {None}, Begin(k, op, p, j, t),
         op # "propose" => j \in Jobs, op = "redeem" => t \in Tokens,
         op \in {"redeem", "propose"} => p \in Contractors
  PROVE  Inv'
<1> USE RolesAreApart
<1>1. UNCHANGED <<job, attest, signedBy, invite, profile, refreshing, reported>>
  BY DEF Begin, record, outside
<1> DEFINE new == [NoCall EXCEPT !.op = op, !.by = p, !.job = j, !.token = t,
                     !.contractor = IF j = None THEN None ELSE job[j].contractor,
                     !.diy = j # None /\ job[j].diy]
<1>2. call'[k] = new /\ \A i \in Calls \ {k} : call'[i] = call[i]
  BY DEF Begin, Inv, TypeOK
<1>3. j # None => j \in Jobs /\ job[j].contractor \in Contractors \cup {None} /\ job[j].diy \in BOOLEAN
  BY DEF Inv, TypeOK, JobRecord
<1>4. /\ new.op = op /\ new.by = p /\ new.job = j /\ new.token = t /\ new.answer = "unasked"
      /\ new.contractor = IF j = None THEN None ELSE job[j].contractor
      /\ new.diy = (j # None /\ job[j].diy)
  BY DEF NoCall
<1>5. new \in [op : Operations, by : Homes \cup Contractors \cup {None},
               job : Jobs \cup {None}, token : Tokens \cup {None},
               contractor : Contractors \cup {None}, diy : BOOLEAN, answer : Answers]
  BY <1>3 DEF NoCall, Operations, Answers
<1>6. TypeOK'
  BY <1>1, <1>5 DEF Begin, Inv, TypeOK
<1>7. CallsKnow'
  <2>1. new.contractor # None => ~new.diy
    BY <1>3, <1>4 DEF Inv, RecordsAreSound, Sound
  <2> HIDE DEF new
  <2> QED BY <1>2, <1>4, <2>1 DEF CallsKnow, Inv
<1>8. RecordsAreSound'
  BY <1>1 DEF Inv, RecordsAreSound, Sound, Live, Fresh
<1> QED BY <1>1, <1>6, <1>7, <1>8, InvitesUntouched DEF Inv

(* Only the record of j changes, and stays sound. *)
LEMMA OthersStaySound ==
  ASSUME RecordsAreSound, NEW j \in Jobs, Sound(j)',
         \A i \in Jobs \ {j} : /\ job'[i] = job[i] /\ attest'[i] = attest[i]
                               /\ signedBy'[i] = signedBy[i] /\ reported'[i] = reported[i]
  PROVE  RecordsAreSound'
  BY DEF RecordsAreSound, Sound, Live, Fresh

(* The handlers that change one record and nothing else. *)
LEMMA OneRecord ==
  ASSUME Inv, NEW j \in Jobs, job' \in [Jobs -> JobRecord], \A i \in Jobs \ {j} : job'[i] = job[i],
         UNCHANGED <<attest, signedBy, invite, call, profile, refreshing, reported>>,
         Sound(j)'
  PROVE  Inv'
<1>1. TypeOK'
  BY DEF Inv, TypeOK
<1>2. RecordsAreSound'
  BY OthersStaySound DEF Inv, TypeOK
<1>3. CallsKnow'
  BY CallsUntouched DEF Inv
<1> QED BY <1>1, <1>2, <1>3, InvitesUntouched DEF Inv

LEMMA HomeStepInv == ASSUME Inv, HomeStep PROVE Inv'
<1> USE RolesAreApart
<1>t. /\ job \in [Jobs -> JobRecord] /\ \A j \in Jobs : Sound(j)
      /\ reported \in [Jobs -> Nat] /\ signedBy \in [Jobs -> Contractors \cup {Admin, None}]
      /\ attest \in [Jobs -> {"absent", "verified", "unverified"}]
  BY DEF Inv, TypeOK, RecordsAreSound
<1>1. ASSUME NEW h \in Homes, NEW j \in Jobs, NEW diy \in BOOLEAN, CreateJob(h, j, diy) PROVE Inv'
  <2>1. job' \in [Jobs -> JobRecord] /\ \A i \in Jobs \ {j} : job'[i] = job[i]
    BY <1>t, <1>1 DEF CreateJob, NoJob, JobRecord, Statuses
  <2>2. Sound(j)'
    BY <1>t, <1>1 DEF CreateJob, Sound, Live, Fresh, NoJob
  <2> QED BY <1>1, <2>1, <2>2, OneRecord DEF CreateJob, outside
<1>2. ASSUME NEW j \in Jobs, BuilderImportJob(j) PROVE Inv'
  <2>1. TypeOK'
    BY <1>2 DEF BuilderImportJob, Inv, TypeOK, NoJob, JobRecord, Statuses, outside
  <2>2. Sound(j)'
    BY <1>t, <1>2 DEF BuilderImportJob, Sound, Live, Fresh, NoJob
  <2>3. RecordsAreSound'
    BY <1>2, <2>2, OthersStaySound DEF BuilderImportJob, Inv, TypeOK
  <2> QED BY <1>2, <2>1, <2>3, CallsUntouched, InvitesUntouched DEF BuilderImportJob, Inv
<1>3. ASSUME NEW j \in Jobs, ApproveJobProposal(j) PROVE Inv'
  <2> DEFINE r == [job[j] EXCEPT !.status = "Pending", !.verified = FALSE,
                                 !.homeSigned = TRUE, !.contrSigned = TRUE]
  <2>0. r \in JobRecord
    <3>1. job[j] \in JobRecord
      BY <1>t
    <3>2. \A x \in JobRecord :
            [x EXCEPT !.status = "Pending", !.verified = FALSE,
                      !.homeSigned = TRUE, !.contrSigned = TRUE] \in JobRecord
      BY DEF JobRecord, Statuses
    <3> QED BY <3>1, <3>2
  <2>1. job' = [job EXCEPT ![j] = r]
    BY <1>3, Zenon DEF ApproveJobProposal
  <2>3. job' \in [Jobs -> JobRecord] /\ \A i \in Jobs \ {j} : job'[i] = job[i]
    <3> HIDE DEF r
    <3> QED BY <1>t, <2>0, <2>1
  <2>2. Sound(j)'
    BY <1>t, <1>3 DEF ApproveJobProposal, Sound, Live, Fresh, JobRecord
  <2> QED BY <1>3, <2>2, <2>3, OneRecord DEF ApproveJobProposal, outside
<1>4. ASSUME NEW j \in Jobs, RejectJobProposal(j) PROVE Inv'
  <2>1. TypeOK'
    BY <1>4 DEF RejectJobProposal, Inv, TypeOK, Deleted, NoJob, JobRecord, outside
  <2>2. Sound(j)'
    BY <1>t, <1>4 DEF RejectJobProposal, Sound, Live, Fresh, Deleted, NoJob
  <2>3. RecordsAreSound'
    BY <1>4, <2>2, OthersStaySound DEF RejectJobProposal, Inv, TypeOK
  <2> QED BY <1>4, <2>1, <2>3, CallsUntouched, InvitesUntouched DEF RejectJobProposal, Inv
<1>5. ASSUME NEW j \in Jobs, NEW diy \in BOOLEAN, UpdateJob(j, diy) PROVE Inv'
  <2> DEFINE r == [job[j] EXCEPT !.diy = diy, !.contrSigned = diy]
  <2>0. r \in JobRecord
    <3>1. job[j] \in JobRecord
      BY <1>t
    <3>2. \A x \in JobRecord : [x EXCEPT !.diy = diy, !.contrSigned = diy] \in JobRecord
      BY DEF JobRecord
    <3> QED BY <3>1, <3>2
  <2>1. job' = [job EXCEPT ![j] = r]
    BY <1>5, Zenon DEF UpdateJob
  <2>3. job' \in [Jobs -> JobRecord] /\ \A i \in Jobs \ {j} : job'[i] = job[i]
    <3> HIDE DEF r
    <3> QED BY <1>t, <2>0, <2>1
  <2>2. Sound(j)'
    BY <1>t, <1>5 DEF UpdateJob, Editable, Sound, Live, Fresh, JobRecord
  <2> QED BY <1>5, <2>2, <2>3, OneRecord DEF UpdateJob, outside
<1>6. ASSUME NEW j \in Jobs, NEW status \in Statuses, UpdateJobStatus(j, status) PROVE Inv'
  <2> DEFINE r == [job[j] EXCEPT !.status = status]
  <2>0. r \in JobRecord
    BY <1>t DEF JobRecord, Statuses
  <2>1. job' = [job EXCEPT ![j] = r]
    BY <1>t, <1>6 DEF UpdateJobStatus
  <2>3. job' \in [Jobs -> JobRecord] /\ \A i \in Jobs \ {j} : job'[i] = job[i]
    <3> HIDE DEF r
    <3> QED BY <1>t, <2>0, <2>1
  <2>2. Sound(j)'
    BY <1>t, <1>6 DEF UpdateJobStatus, Sound, Live, Fresh, JobRecord, Statuses
  <2> QED BY <1>6, <2>2, <2>3, OneRecord DEF UpdateJobStatus, outside
<1>7. ASSUME NEW j \in Jobs, NEW c \in Contractors, LinkContractor(j, c) PROVE Inv'
  <2>1. job' \in [Jobs -> JobRecord] /\ \A i \in Jobs \ {j} : job'[i] = job[i]
    BY <1>t, <1>7 DEF LinkContractor, JobRecord
  <2>2. Sound(j)'
    BY <1>t, <1>7 DEF LinkContractor, Sound, Live, Fresh, JobRecord
  <2> QED BY <1>7, <2>1, <2>2, OneRecord DEF LinkContractor, outside
<1>8. ASSUME NEW h \in Homes, DeleteMyData(h) PROVE Inv'
  <2>1. TypeOK'
    BY <1>8 DEF DeleteMyData, Inv, TypeOK, Deleted, NoJob, JobRecord, Spent, NoInvite, outside
  <2>2. RecordsAreSound'
    BY <1>t, <1>8 DEF DeleteMyData, RecordsAreSound, Sound, Live, Fresh, Deleted, NoJob
  <2>3. InvitesNameJobs'
    BY <1>8 DEF DeleteMyData, Inv, TypeOK, InvitesNameJobs, Spent, NoInvite
  <2> QED BY <1>8, <2>1, <2>2, <2>3, CallsUntouched DEF DeleteMyData, Inv
<1> QED BY <1>1, <1>2, <1>3, <1>4, <1>5, <1>6, <1>7, <1>8 DEF HomeStep

-----------------------------------------------------------------------------
(* An answer: only the call changes, and it learns whether the profile counts. *)
LEMMA AnswerInv ==
  ASSUME Inv, NEW k \in Calls, NEW a \in Answers, call' = [call EXCEPT ![k].answer = a],
         UNCHANGED <<record, invite, outside, reported>>,
         call[k].op = "verify" /\ call[k].by = call[k].contractor => a # "null",
         call[k].op \in {"redeem", "propose"} => a # "null"
  PROVE  Inv'
<1>1. TypeOK'
  BY DEF Inv, TypeOK, record, outside
<1>2. RecordsAreSound'
  BY DEF Inv, RecordsAreSound, Sound, Live, Fresh, record
<1>3. CallsKnow'
  BY DEF Inv, TypeOK, CallsKnow
<1> QED BY <1>1, <1>2, <1>3, InvitesUntouched DEF Inv

(* What a call that returns leaves to show. *)
LEMMA ReturnInv ==
  ASSUME Inv, NEW k \in Calls, Return(k), NEW j \in Jobs, Sound(j)',
         job' \in [Jobs -> JobRecord],
         attest' \in [Jobs -> {"absent", "verified", "unverified"}],
         signedBy' \in [Jobs -> Contractors \cup {Admin, None}],
         reported' \in [Jobs -> Nat],
         \A i \in Jobs \ {j} : /\ job'[i] = job[i] /\ attest'[i] = attest[i]
                               /\ signedBy'[i] = signedBy[i] /\ reported'[i] = reported[i],
         UNCHANGED outside, UNCHANGED invite \/ \E t \in Tokens : invite' = [invite EXCEPT ![t] = Spent]
  PROVE  Inv'
<1> USE RolesAreApart
<1>1. NoCall \in [op : Operations, by : Homes \cup Contractors \cup {None},
                 job : Jobs \cup {None}, token : Tokens \cup {None},
                 contractor : Contractors \cup {None}, diy : BOOLEAN, answer : Answers]
  BY DEF NoCall, Operations, Answers
<1>2. TypeOK'
  BY <1>1, SMTT(30) DEF Inv, TypeOK, outside, Return, Spent, NoInvite
<1>3. RecordsAreSound'
  BY OthersStaySound DEF Inv
<1>4. CallsKnow'
  BY CallEnds DEF Inv
<1>5. InvitesNameJobs'
  BY DEF Inv, TypeOK, InvitesNameJobs, Spent, NoInvite
<1> QED BY <1>2, <1>3, <1>4, <1>5 DEF Inv

(* One signature, or two, on a record that has none to lose. *)
LEMMA SignedRecord ==
  ASSUME NEW r \in JobRecord, NEW h \in BOOLEAN, NEW c \in BOOLEAN
  PROVE  /\ Signed(r, h, c) \in JobRecord
         /\ Signed(r, h, c).contractor = r.contractor /\ (Signed(r, h, c).diy <=> r.diy)
         /\ (Signed(r, h, c).homeSigned <=> r.homeSigned \/ h)
         /\ (Signed(r, h, c).contrSigned <=> r.contrSigned \/ c)
         /\ \/ /\ Signed(r, h, c).status = "Verified" /\ Signed(r, h, c).verified
            \/ /\ Signed(r, h, c).status = r.status /\ (Signed(r, h, c).verified <=> r.verified)
<1> DEFINE s == [r EXCEPT !.homeSigned = r.homeSigned \/ h, !.contrSigned = r.contrSigned \/ c]
<1>1. /\ s \in JobRecord /\ s.contractor = r.contractor /\ (s.diy <=> r.diy)
      /\ (s.homeSigned <=> r.homeSigned \/ h) /\ (s.contrSigned <=> r.contrSigned \/ c)
      /\ s.status = r.status /\ (s.verified <=> r.verified)
  BY DEF JobRecord
<1>2. Signed(r, h, c) = IF s.homeSigned /\ (s.diy \/ s.contrSigned)
                        THEN [s EXCEPT !.verified = TRUE, !.status = "Verified"] ELSE s
  BY DEF Signed
<1> HIDE DEF s
<1>3. \A x \in JobRecord :
        LET v == [x EXCEPT !.verified = TRUE, !.status = "Verified"] IN
        /\ v \in JobRecord /\ v.contractor = x.contractor /\ (v.diy <=> x.diy)
        /\ (v.homeSigned <=> x.homeSigned) /\ (v.contrSigned <=> x.contrSigned)
        /\ v.status = "Verified" /\ v.verified
  BY DEF JobRecord, Statuses
<1> DEFINE v == [s EXCEPT !.verified = TRUE, !.status = "Verified"]
           both == s.homeSigned /\ (s.diy \/ s.contrSigned)
<1>4. /\ v \in JobRecord /\ v.contractor = s.contractor /\ (v.diy <=> s.diy)
      /\ (v.homeSigned <=> s.homeSigned) /\ (v.contrSigned <=> s.contrSigned)
      /\ v.status = "Verified" /\ v.verified
  BY <1>1, <1>3
<1>5. (both => Signed(r, h, c) = v) /\ (~both => Signed(r, h, c) = s)
  BY <1>2
<1> HIDE DEF v
<1>6. CASE both
  BY <1>1, <1>4, <1>5, <1>6
<1>7. CASE ~both
  BY <1>1, <1>5, <1>7
<1> QED BY <1>6, <1>7

LEMMA VerifyJobResumeInv == ASSUME Inv, NEW k \in Calls, VerifyJobResume(k) PROVE Inv'
<1> USE RolesAreApart
<1>0. PICK j \in Jobs : j = call[k].job
  BY DEF VerifyJobResume, Inv, CallsKnow
<1> DEFINE byContractor == call[k].by = call[k].contractor
           r == Signed(job[j], ~byContractor, byContractor)
<1>1. /\ j \in Jobs /\ job[j] \in JobRecord /\ Sound(j) /\ call[k].by # None
      /\ call[k].answer \in Answers \ {"unasked"} /\ (byContractor => call[k].answer # "null")
      /\ call[k].by \in Homes \cup Contractors \cup {None}
      /\ call[k].contractor \in Contractors \cup {None}
  BY <1>0 DEF VerifyJobResume, Inv, TypeOK, CallsKnow, RecordsAreSound
<1>2. /\ job' = [job EXCEPT ![j] = r]
      /\ attest' = IF RecordsAttest(k, job'[j].verified)
                   THEN [attest EXCEPT ![j] = call[k].answer] ELSE attest
      /\ signedBy' = IF byContractor THEN [signedBy EXCEPT ![j] = call[k].by] ELSE signedBy
      /\ Report(j) /\ Return(k) /\ UNCHANGED <<invite, outside>>
      /\ Live(j) /\ ~job[j].verified /\ job[j].contractor = call[k].contractor
  BY <1>0 DEF VerifyJobResume, StillToSign
<1>3. /\ r \in JobRecord /\ r.contractor = job[j].contractor /\ (r.diy <=> job[j].diy)
      /\ (r.contrSigned <=> job[j].contrSigned \/ byContractor)
      /\ (r.status = "Verified" /\ r.verified) \/ (r.status = job[j].status /\ ~r.verified)
  BY <1>1, <1>2, SignedRecord
<1> HIDE DEF r
<1>4. job' \in [Jobs -> JobRecord] /\ job'[j] = r /\ \A i \in Jobs \ {j} : job'[i] = job[i]
  BY <1>1, <1>2, <1>3 DEF Inv, TypeOK
<1>5. /\ attest' \in [Jobs -> {"absent", "verified", "unverified"}]
      /\ \A i \in Jobs \ {j} : attest'[i] = attest[i]
      /\ attest'[j] \in {attest[j], call[k].answer} /\ (attest'[j] = attest[j] \/ attest'[j] # "absent")
      /\ byContractor => attest'[j] # "absent"
  BY <1>1, <1>2 DEF Inv, TypeOK, RecordsAttest, Answers
<1>6. /\ signedBy' \in [Jobs -> Contractors \cup {Admin, None}]
      /\ \A i \in Jobs \ {j} : signedBy'[i] = signedBy[i]
      /\ ~byContractor => signedBy'[j] = signedBy[j]
  BY <1>1, <1>2 DEF Inv, TypeOK
<1>7. /\ reported' \in [Jobs -> Nat] /\ \A i \in Jobs \ {j} : reported'[i] = reported[i]
      /\ reported[j] = 0 /\ reported'[j] \in {0, 1} /\ (reported'[j] = 1 => job'[j].verified)
  <2>1. reported \in [Jobs -> Nat] /\ reported[j] = 0
    <3>1. reported \in [Jobs -> Nat]
      BY DEF Inv, TypeOK
    <3>2. reported[j] \in Nat /\ reported[j] <= 1 /\ reported[j] # 1
      BY <1>1, <1>2, <3>1 DEF Sound, Live
    <3> QED BY <3>1, <3>2
  <2> DEFINE d == IF job'[j].verified /\ job'[j].contractor # None THEN 1 ELSE 0
  <2>2. reported' = [reported EXCEPT ![j] = reported[j] + d]
    BY <1>2, Zenon DEF Report
  <2>3. d \in {0, 1} /\ (d = 1 => job'[j].verified)
    OBVIOUS
  <2> HIDE DEF d
  <2> QED BY <2>1, <2>2, <2>3
<1>8. Sound(j)'
  BY <1>1, <1>2, <1>3, <1>4, <1>5, <1>6, <1>7 DEF Sound, Live, Fresh
<1> QED BY <1>1, <1>2, <1>4, <1>5, <1>6, <1>7, <1>8, ReturnInv

LEMMA RedeemInviteTokenResumeInv == ASSUME Inv, NEW k \in Calls, RedeemInviteTokenResume(k) PROVE Inv'
<1> USE RolesAreApart
<1>0. PICK j \in Jobs : j = invite[call[k].token].job
  BY DEF RedeemInviteTokenResume, MayRedeem, Inv, CallsKnow, InvitesNameJobs
<1> DEFINE linked == [job[j] EXCEPT !.contractor = call[k].by]
           r == Signed(linked, FALSE, TRUE)
<1>1. /\ job[j] \in JobRecord /\ Sound(j) /\ call[k].by \in Contractors /\ call[k].token \in Tokens
      /\ call[k].answer \in {"verified", "unverified"}
  BY DEF RedeemInviteTokenResume, Inv, TypeOK, Answers, CallsKnow, RecordsAreSound
<1>2. /\ job' = [job EXCEPT ![j] = r]
      /\ attest' = [attest EXCEPT ![j] = call[k].answer]
      /\ signedBy' = [signedBy EXCEPT ![j] = call[k].by]
      /\ Report(j) /\ Return(k) /\ UNCHANGED outside
      /\ invite' = [invite EXCEPT ![call[k].token] = Spent]
      /\ Live(j) /\ ~job[j].contrSigned /\ ~job[j].verified
  BY <1>0 DEF RedeemInviteTokenResume, MayRedeem
<1>3. /\ linked \in JobRecord /\ linked.status = job[j].status /\ ~linked.verified /\ ~linked.diy
      /\ linked.contractor = call[k].by
  BY <1>1, <1>2 DEF JobRecord, Sound
<1> HIDE DEF linked
<1>4. /\ r \in JobRecord /\ r.contractor = call[k].by /\ ~r.diy /\ r.contrSigned
      /\ (r.status = "Verified" /\ r.verified) \/ (r.status = job[j].status /\ ~r.verified)
  BY <1>3, SignedRecord
<1> HIDE DEF r
<1>5. job' \in [Jobs -> JobRecord] /\ job'[j] = r /\ \A i \in Jobs \ {j} : job'[i] = job[i]
  BY <1>2, <1>4 DEF Inv, TypeOK
<1>6. /\ attest' \in [Jobs -> {"absent", "verified", "unverified"}]
      /\ signedBy' \in [Jobs -> Contractors \cup {Admin, None}]
      /\ \A i \in Jobs \ {j} : attest'[i] = attest[i] /\ signedBy'[i] = signedBy[i]
      /\ attest'[j] # "absent" /\ signedBy'[j] = call[k].by
  BY <1>1, <1>2 DEF Inv, TypeOK
<1>7. /\ reported' \in [Jobs -> Nat] /\ \A i \in Jobs \ {j} : reported'[i] = reported[i]
      /\ reported[j] = 0 /\ reported'[j] \in {0, 1} /\ (reported'[j] = 1 => job'[j].verified)
  <2>1. reported \in [Jobs -> Nat] /\ reported[j] = 0
    <3>1. reported \in [Jobs -> Nat]
      BY DEF Inv, TypeOK
    <3>2. reported[j] \in Nat /\ reported[j] <= 1 /\ reported[j] # 1
      BY <1>1, <1>2, <3>1 DEF Sound, Live
    <3> QED BY <3>1, <3>2
  <2> DEFINE d == IF job'[j].verified /\ job'[j].contractor # None THEN 1 ELSE 0
  <2>2. reported' = [reported EXCEPT ![j] = reported[j] + d]
    BY <1>2, Zenon DEF Report
  <2>3. d \in {0, 1} /\ (d = 1 => job'[j].verified)
    OBVIOUS
  <2> HIDE DEF d
  <2> QED BY <2>1, <2>2, <2>3
<1>8. Sound(j)'
  BY <1>1, <1>2, <1>4, <1>5, <1>6, <1>7 DEF Sound, Live, Fresh
<1> QED BY <1>1, <1>2, <1>5, <1>6, <1>7, <1>8, ReturnInv

LEMMA ResumeCallInv == ASSUME Inv, NEW k \in Calls, ResumeCall(k) PROVE Inv'
<1> USE RolesAreApart
<1>1. CASE AskStatusToVerify(k)
  <2>1. PICK a \in (IF StatusNeeded(k) THEN ProfileAnswers(call[k].contractor) ELSE {"null"}) :
               call' = [call EXCEPT ![k].answer = a]
    BY <1>1 DEF AskStatusToVerify
  <2>2. a \in Answers /\ (a = "null" => ~StatusNeeded(k))
    BY <2>1 DEF ProfileAnswers, Answers
  <2>3. call[k].op = "verify" /\ UNCHANGED <<record, invite, outside, reported>>
    BY <1>1 DEF AskStatusToVerify
  <2>4. call[k].by = call[k].contractor => a # "null"
    BY <2>2, <2>3 DEF StatusNeeded, Inv, CallsKnow
  <2> QED BY <2>1, <2>2, <2>3, <2>4, AnswerInv
<1>2. CASE AskStatusToSign(k)
  <2> DEFINE a == IF profile[call[k].by] THEN "verified" ELSE "unverified"
  <2>1. call' = [call EXCEPT ![k].answer = a] /\ call[k].op \in {"redeem", "propose"}
    BY <1>2 DEF AskStatusToSign
  <2>2. a \in Answers /\ a # "null"
    BY DEF Answers
  <2> HIDE DEF a
  <2> QED BY <1>2, <2>1, <2>2, AnswerInv DEF AskStatusToSign
<1>3. CASE VerifyJobResume(k)
  BY <1>3, VerifyJobResumeInv
<1>4. CASE RedeemInviteTokenResume(k)
  BY <1>4, RedeemInviteTokenResumeInv
<1>5. CASE CreateJobProposalResume(k)
  <2>1. PICK j \in Jobs :
          /\ Fresh(j)
          /\ job' = [job EXCEPT ![j] = [NoJob EXCEPT
               !.status = "PendingHomeownerApproval", !.home = Owner,
               !.contractor = call[k].by, !.contrSigned = TRUE]]
          /\ attest' = [attest EXCEPT ![j] = call[k].answer]
          /\ signedBy' = [signedBy EXCEPT ![j] = call[k].by]
    BY <1>5 DEF CreateJobProposalResume
  <2>2. call[k].by \in Contractors /\ call[k].answer \in {"verified", "unverified"}
    BY <1>5 DEF CreateJobProposalResume, Inv, TypeOK, Answers, CallsKnow
  <2>3. Return(k) /\ UNCHANGED <<invite, outside, reported>>
    BY <1>5 DEF CreateJobProposalResume
  <2>4. /\ job' \in [Jobs -> JobRecord] /\ reported' \in [Jobs -> Nat]
        /\ attest' \in [Jobs -> {"absent", "verified", "unverified"}]
        /\ signedBy' \in [Jobs -> Contractors \cup {Admin, None}]
    BY <2>1, <2>2, <2>3 DEF Inv, TypeOK, NoJob, JobRecord, Statuses
  <2>5. \A i \in Jobs \ {j} : /\ job'[i] = job[i] /\ attest'[i] = attest[i]
                              /\ signedBy'[i] = signedBy[i] /\ reported'[i] = reported[i]
    BY <2>1, <2>3 DEF Inv, TypeOK
  <2>6. Sound(j) /\ job \in [Jobs -> JobRecord] /\ attest \in [Jobs -> {"absent", "verified", "unverified"}]
    BY DEF Inv, TypeOK, RecordsAreSound
  <2>7. Sound(j)'
    BY <2>1, <2>2, <2>3, <2>6 DEF Sound, Live, Fresh, NoJob
  <2> QED BY <2>3, <2>4, <2>5, <2>7, ReturnInv
<1>6. CASE CreateInviteTokenResume(k)
  <2>1. PICK t \in Tokens : invite' = [invite EXCEPT ![t] =
               [state |-> "open", job |-> call[k].job, contractor |-> call[k].contractor]]
    BY <1>6 DEF CreateInviteTokenResume
  <2>2. Return(k) /\ UNCHANGED <<record, outside, reported>> /\ call[k].job \in Jobs
    BY <1>6 DEF CreateInviteTokenResume, Inv, CallsKnow
  <2>3. TypeOK'
    BY <2>1, <2>2 DEF Inv, TypeOK, record, outside, Return, NoCall, Operations, Answers
  <2>4. InvitesNameJobs'
    BY <2>1, <2>2 DEF Inv, TypeOK, InvitesNameJobs
  <2>5. RecordsAreSound'
    BY <2>2 DEF Inv, RecordsAreSound, Sound, Live, Fresh, record
  <2> QED BY <2>2, <2>3, <2>4, <2>5, CallEnds DEF Inv
<1>7. CASE ReturnError(k)
  <2>1. Return(k) /\ UNCHANGED <<record, invite, outside, reported>>
    BY <1>7 DEF ReturnError
  <2>2. TypeOK'
    BY <2>1 DEF Inv, TypeOK, record, outside, Return, NoCall, Operations, Answers
  <2>3. RecordsAreSound'
    BY <2>1 DEF Inv, RecordsAreSound, Sound, Live, Fresh, record
  <2> QED BY <2>1, <2>2, <2>3, CallEnds, InvitesUntouched DEF Inv
<1> QED BY <1>1, <1>2, <1>3, <1>4, <1>5, <1>6, <1>7 DEF ResumeCall

LEMMA BeginCallInv == ASSUME Inv, NEW k \in Calls, BeginCall(k) PROVE Inv'
<1>1. ASSUME NEW p \in Homes \cup Contractors, NEW j \in Jobs, VerifyJob(k, p, j) PROVE Inv'
  BY <1>1, BeginInv DEF VerifyJob
<1>2. ASSUME NEW c \in Contractors, CreateJobProposal(k, c) PROVE Inv'
  BY <1>2, BeginInv DEF CreateJobProposal
<1>3. ASSUME NEW c \in Contractors, NEW t \in Tokens, RedeemInviteToken(k, c, t) PROVE Inv'
  <2>1. invite[t].job \in Jobs
    BY <1>3 DEF RedeemInviteToken, Inv, InvitesNameJobs
  <2>2. Begin(k, "redeem", c, invite[t].job, t)
    BY <1>3 DEF RedeemInviteToken
  <2> QED BY <2>1, <2>2, BeginInv
<1>4. ASSUME NEW h \in Homes, NEW j \in Jobs, CreateInviteToken(k, h, j) PROVE Inv'
  BY <1>4, BeginInv DEF CreateInviteToken
<1> QED BY <1>1, <1>2, <1>3, <1>4 DEF BeginCall

LEMMA ElsewhereInv == ASSUME Inv, Elsewhere PROVE Inv'
<1>1. ASSUME NEW t \in Tokens, InviteExpires(t) PROVE Inv'
  <2>1. UNCHANGED <<job, attest, signedBy, call, profile, refreshing, reported>>
    BY <1>1 DEF InviteExpires, record, outside
  <2>2. invite' = [invite EXCEPT ![t].state = "expired"] /\ invite[t].state = "open"
    BY <1>1 DEF InviteExpires
  <2>3. TypeOK' /\ InvitesNameJobs'
    BY <2>1, <2>2 DEF Inv, TypeOK, InvitesNameJobs
  <2>4. RecordsAreSound'
    BY <2>1 DEF Inv, RecordsAreSound, Sound, Live, Fresh
  <2> QED BY <2>1, <2>3, <2>4, CallsUntouched DEF Inv
<1>2. ASSUME NEW c \in Contractors, VerifyContractor(c) PROVE Inv'
  <2>1. UNCHANGED <<job, attest, signedBy, call, invite, reported>>
    BY <1>2 DEF VerifyContractor, record
  <2>2. TypeOK'
    BY <1>2, <2>1 DEF VerifyContractor, Inv, TypeOK
  <2>3. RecordsAreSound'
    BY <2>1 DEF Inv, RecordsAreSound, Sound, Live, Fresh
  <2> QED BY <2>1, <2>2, <2>3, CallsUntouched, InvitesUntouched DEF Inv
<1>3. ASSUME NEW c \in Contractors, RefreshContractorAttestation(c) PROVE Inv'
  <2>1. UNCHANGED <<job, signedBy, call, invite, profile, reported>>
    BY <1>3 DEF RefreshContractorAttestation
  <2>2. TypeOK'
    BY <1>3 DEF RefreshContractorAttestation, Inv, TypeOK
  <2>3. \A j \in Jobs : attest[j] # "absent" => attest'[j] # "absent"
    BY <1>3 DEF RefreshContractorAttestation
  <2>4. RecordsAreSound'
    BY <2>1, <2>3 DEF Inv, RecordsAreSound, Sound, Live, Fresh
  <2> QED BY <2>1, <2>2, <2>4, CallsUntouched, InvitesUntouched DEF Inv
<1>4. ASSUME NEW c \in Contractors, RefreshIsLost(c) PROVE Inv'
  <2>1. UNCHANGED <<job, attest, signedBy, call, invite, profile, reported>>
    BY <1>4 DEF RefreshIsLost, record
  <2>2. TypeOK'
    BY <1>4, <2>1 DEF RefreshIsLost, Inv, TypeOK
  <2>3. RecordsAreSound'
    BY <2>1 DEF Inv, RecordsAreSound, Sound, Live, Fresh
  <2> QED BY <2>1, <2>2, <2>3, CallsUntouched, InvitesUntouched DEF Inv
<1> QED BY <1>1, <1>2, <1>3, <1>4 DEF Elsewhere

LEMMA NextInv == Inv /\ [Next]_vars => Inv'
<1> SUFFICES ASSUME Inv, [Next]_vars PROVE Inv'
  OBVIOUS
<1>1. CASE UNCHANGED vars
  <2>1. UNCHANGED <<job, attest, signedBy, call, invite, profile, refreshing, reported>>
    BY <1>1 DEF vars, record, outside
  <2>2. TypeOK'
    BY <2>1 DEF Inv, TypeOK
  <2>3. RecordsAreSound'
    BY <2>1 DEF Inv, RecordsAreSound, Sound, Live, Fresh
  <2> QED BY <2>1, <2>2, <2>3, CallsUntouched, InvitesUntouched DEF Inv
<1> QED BY <1>1, HomeStepInv, ElsewhereInv, BeginCallInv, ResumeCallInv DEF Next

LEMMA SpecInv == Spec => []Inv
  BY InitInv, NextInv, PTL DEF Spec

-----------------------------------------------------------------------------
(* Every state of the job canister is a state of its declared types. *)
THEOREM TypeCorrect == Spec => []TypeOK
<1>1. Inv => TypeOK
  BY DEF Inv
<1> QED BY <1>1, SpecInv, PTL

(* The fee and the contractor canister hear of a job once at most, and only of
   one that became verified, however many signatures are under way at once. *)
THEOREM ReportedOnceHolds == Spec => []ReportedOnce
<1>1. Inv => ReportedOnce
  BY DEF Inv, RecordsAreSound, Sound, ReportedOnce
<1> QED BY <1>1, SpecInv, PTL

(* A contractor's signature never stands without its attestation: the absent
   attestation, which counts, is never that of a signing contractor. *)
THEOREM SignedIsAttestedHolds == Spec => []SignedIsAttested
<1>1. Inv => SignedIsAttested
  BY DEF Inv, RecordsAreSound, Sound, SignedIsAttested
<1> QED BY <1>1, SpecInv, PTL

(* What SignaturesAreKept says of one record. *)
Kept(j) ==
  Live(j) /\ job'[j].status # "deleted" =>
    /\ job[j].verified => job'[j] = job[j]
    /\ job[j].homeSigned => job'[j].homeSigned
    /\ job[j].contrSigned /\ ~job[j].diy => job'[j].contrSigned

LEMMA HomeStepKeeps == ASSUME Inv, HomeStep, NEW i \in Jobs PROVE Kept(i)
<1>t. job \in [Jobs -> JobRecord] /\ job[i] \in JobRecord /\ Sound(i)
  BY DEF Inv, TypeOK, RecordsAreSound
<1>1. ASSUME NEW h \in Homes, NEW j \in Jobs, NEW diy \in BOOLEAN, CreateJob(h, j, diy) PROVE Kept(i)
  BY <1>t, <1>1 DEF CreateJob, Kept, Live, Fresh
<1>2. ASSUME NEW j \in Jobs, BuilderImportJob(j) PROVE Kept(i)
  BY <1>t, <1>2 DEF BuilderImportJob, Kept, Live, Fresh
<1>3. ASSUME NEW j \in Jobs, ApproveJobProposal(j) PROVE Kept(i)
  <2>1. /\ i # j => job'[i] = job[i]
        /\ job'[j].homeSigned /\ job'[j].contrSigned
    BY <1>t, <1>3 DEF ApproveJobProposal, JobRecord
  <2> QED BY <1>t, <1>3, <2>1 DEF ApproveJobProposal, Kept, Live, Sound
<1>4. ASSUME NEW j \in Jobs, RejectJobProposal(j) PROVE Kept(i)
  BY <1>t, <1>4 DEF RejectJobProposal, Kept, Deleted, NoJob
<1>5. ASSUME NEW j \in Jobs, NEW diy \in BOOLEAN, UpdateJob(j, diy) PROVE Kept(i)
  <2>1. i # j => job'[i] = job[i]
    BY <1>t, <1>5 DEF UpdateJob
  <2> QED BY <1>t, <1>5, <2>1 DEF UpdateJob, Editable, Kept
<1>6. ASSUME NEW j \in Jobs, NEW status \in Statuses, UpdateJobStatus(j, status) PROVE Kept(i)
  BY <1>t, <1>6 DEF UpdateJobStatus, Kept, JobRecord
<1>7. ASSUME NEW j \in Jobs, NEW c \in Contractors, LinkContractor(j, c) PROVE Kept(i)
  BY <1>t, <1>7 DEF LinkContractor, Kept, JobRecord
<1>8. ASSUME NEW h \in Homes, DeleteMyData(h) PROVE Kept(i)
  BY <1>t, <1>8 DEF DeleteMyData, Kept, Deleted, NoJob
<1> QED BY <1>1, <1>2, <1>3, <1>4, <1>5, <1>6, <1>7, <1>8 DEF HomeStep

LEMMA ResumeCallKeeps == ASSUME Inv, NEW k \in Calls, ResumeCall(k), NEW i \in Jobs PROVE Kept(i)
<1>t. job \in [Jobs -> JobRecord] /\ job[i] \in JobRecord
  BY DEF Inv, TypeOK
<1>1. ASSUME job' = job PROVE Kept(i)
  BY <1>1 DEF Kept
<1>2. CASE VerifyJobResume(k)
  <2> DEFINE byContractor == call[k].by = call[k].contractor
             r == Signed(job[call[k].job], ~byContractor, byContractor)
  <2>1. job' = [job EXCEPT ![call[k].job] = r] /\ ~job[call[k].job].verified
    BY <1>2 DEF VerifyJobResume, StillToSign
  <2>2. CASE i = call[k].job
    <3>1. /\ job[i].homeSigned => r.homeSigned
          /\ job[i].contrSigned => r.contrSigned
      BY <1>t, <2>2, SignedRecord
    <3> HIDE DEF r
    <3> QED BY <1>t, <2>1, <2>2, <3>1 DEF Kept
  <2>3. CASE i # call[k].job
    <3> HIDE DEF r
    <3> QED BY <1>t, <2>1, <2>3 DEF Kept
  <2> QED BY <2>2, <2>3
<1>3. CASE RedeemInviteTokenResume(k)
  <2> DEFINE j == invite[call[k].token].job
             linked == [job[j] EXCEPT !.contractor = call[k].by]
             r == Signed(linked, FALSE, TRUE)
  <2>1. job' = [job EXCEPT ![j] = r] /\ ~job[j].verified /\ call[k].by \in Contractors
    BY <1>3 DEF RedeemInviteTokenResume, Inv, CallsKnow
  <2>2. CASE i = j
    <3>1. linked \in JobRecord /\ (linked.homeSigned <=> job[i].homeSigned)
      BY <1>t, <2>1, <2>2 DEF JobRecord
    <3> HIDE DEF linked
    <3>2. r.contrSigned /\ (job[i].homeSigned => r.homeSigned)
      BY <3>1, SignedRecord
    <3> HIDE DEF r
    <3> QED BY <1>t, <2>1, <2>2, <3>2 DEF Kept
  <2>3. CASE i # j
    <3> HIDE DEF r, j
    <3> QED BY <1>t, <2>1, <2>3 DEF Kept
  <2> QED BY <2>2, <2>3
<1>4. CASE CreateJobProposalResume(k)
  <2>1. PICK j \in Jobs :
          /\ Fresh(j)
          /\ job' = [job EXCEPT ![j] = [NoJob EXCEPT
               !.status = "PendingHomeownerApproval", !.home = Owner,
               !.contractor = call[k].by, !.contrSigned = TRUE]]
    BY <1>4 DEF CreateJobProposalResume
  <2> QED BY <1>t, <2>1 DEF Kept, Live, Fresh
<1> QED BY <1>1, <1>2, <1>3, <1>4 DEF ResumeCall, AskStatusToVerify, AskStatusToSign,
           CreateInviteTokenResume, ReturnError, record

(* Whatever calls are waiting and in whatever order they resume, no signature
   is lost and a verified record does not change, unless it is deleted. *)
THEOREM SignaturesKept == Spec => SignaturesAreKept
<1>1. Inv /\ [Next]_vars => [\A j \in Jobs : Kept(j)]_vars
  <2> SUFFICES ASSUME Inv, Next, NEW j \in Jobs PROVE Kept(j)
    OBVIOUS
  <2>1. ASSUME job' = job PROVE Kept(j)
    BY <2>1 DEF Kept
  <2>2. CASE Elsewhere
    BY <2>1, <2>2 DEF Elsewhere, InviteExpires, VerifyContractor, RefreshContractorAttestation,
       RefreshIsLost, record
  <2>3. ASSUME NEW k \in Calls, BeginCall(k) PROVE Kept(j)
    BY <2>1, <2>3 DEF BeginCall, VerifyJob, CreateJobProposal, RedeemInviteToken, CreateInviteToken,
       Begin, record
  <2> QED BY <2>2, <2>3, HomeStepKeeps, ResumeCallKeeps DEF Next
<1>2. [\A j \in Jobs : Kept(j)]_vars =>
        [\A j \in Jobs : Live(j) /\ job'[j].status # "deleted" =>
           /\ job[j].verified => job'[j] = job[j]
           /\ job[j].homeSigned => job'[j].homeSigned
           /\ job[j].contrSigned /\ ~job[j].diy => job'[j].contrSigned]_vars
  BY DEF Kept
<1> QED BY <1>1, <1>2, SpecInv, PTL DEF Spec, SignaturesAreKept
=============================================================================
