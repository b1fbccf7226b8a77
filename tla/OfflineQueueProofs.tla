------------------------- MODULE OfflineQueueProofs -------------------------
(***************************************************************************)
(* Proofs about OfflineQueue, for any number of users, writes, handlers    *)
(* and flushes and any schedule of waits.  That a run sends pending items  *)
(* only is what keeps a failed attempt a pending or a failed item; Kept is *)
(* what makes a saved write last and a sent one leave.                     *)
(***************************************************************************)
EXTENDS OfflineQueue, TLAPS

Entries == Pending \cup {Failed, Gone}
TasksHaveItems == \A t \in Tasks : task[t].pc # "idle" => task[t].op \in Ops
RunsSendPending ==
  \A r \in Runs :
    /\ \A o \in run[r].todo : run[r].items[o].status = "pending"
    /\ run[r].pc = "reply" => run[r].op \in Ops /\ run[r].items[run[r].op].status = "pending"
    /\ run[r].taken => run[r].pc = "reply"

Inv == TypeOK /\ TasksHaveItems /\ RunsSendPending

-----------------------------------------------------------------------------
(* Entries of a list. *)
LEMMA EntryTypes ==
  /\ Fresh \in Pending /\ Failed \in Entries /\ Gone \in Entries /\ Pending \subseteq Entries
  /\ Lists = [Ops -> Entries] /\ Nothing \in Lists
  /\ \A e \in Entries : e.status = "pending" => e \in Pending
BY BackoffsAreMany DEF Fresh, Failed, Gone, Pending, Entries, Lists, Nothing

LEMMA Settled ==
  ASSUME NEW e \in Entries
  PROVE  TooOld(e) \in Entries /\ (e.status = "pending" => Failing(e) \in Entries)
<1>1. TooOld(e) \in Entries
  BY EntryTypes DEF TooOld
<1>2. ASSUME e \in Pending PROVE Failing(e) \in Entries
  <2>1. CASE e.tries >= Backoffs
    BY <2>1, EntryTypes DEF Failing
  <2>2. CASE ~(e.tries >= Backoffs)
    <3>1. e.tries + 1 \in 0..Backoffs
      BY <1>2, <2>2, BackoffsAreMany DEF Pending
    <3>2. [e EXCEPT !.tries = @ + 1, !.wait = TRUE] \in Pending
      BY <1>2, <3>1 DEF Pending
    <3> QED BY <2>2, <3>2, EntryTypes DEF Failing
  <2> QED BY <2>1, <2>2
<1> QED BY <1>1, <1>2, EntryTypes

LEMMA Retriable ==
  ASSUME NEW e \in Entries PROVE Again(e) \in Entries
<1>1. CASE e \in Pending
  <2>1. [e EXCEPT !.wait = FALSE] \in Pending
    BY <1>1 DEF Pending
  <2> QED BY <2>1, EntryTypes DEF Again
<1>2. CASE e = Failed
  BY <1>2, EntryTypes DEF Again, Failed
<1>3. CASE e = Gone
  BY <1>3, EntryTypes DEF Again, Gone
<1> QED BY <1>1, <1>2, <1>3 DEF Entries

LEMMA Timed ==
  ASSUME NEW e \in Entries
  PROVE  /\ [e EXCEPT !.wait = FALSE] \in Entries
         /\ [e EXCEPT !.old = (e.status = "pending")] \in Entries
         /\ [e EXCEPT !.wait = FALSE].status = e.status
         /\ [e EXCEPT !.old = (e.status = "pending")].status = e.status
<1>1. CASE e \in Pending
  <2>1. [e EXCEPT !.wait = FALSE] \in Pending /\ [e EXCEPT !.old = (e.status = "pending")] \in Pending
    BY <1>1 DEF Pending
  <2> QED BY <1>1, <2>1, EntryTypes DEF Pending
<1>2. CASE e = Failed \/ e = Gone
  <2>1. [e EXCEPT !.wait = FALSE] = e
    BY <1>2 DEF Failed, Gone
  <2>2. [e EXCEPT !.old = FALSE] = e
    BY <1>2 DEF Failed, Gone
  <2>3. e.status # "pending"
    BY <1>2 DEF Failed, Gone
  <2>4. (e.status = "pending") = FALSE
    BY <2>3
  <2> QED BY <2>1, <2>2, <2>4
<1> QED BY <1>1, <1>2 DEF Entries

-----------------------------------------------------------------------------
Task == [pc : {"idle", "enqueue", "discard", "retry"}, queue : Queues, op : Ops \cup {None}, items : Lists]
Run == [pc : {"idle", "ask", "send", "reply", "merge"}, queue : Queues,
        items : Lists, updated : Lists, latest : Lists, todo : SUBSET Ops,
        done : SUBSET Ops, op : Ops \cup {None}, taken : BOOLEAN]

LEMMA Rest == Idle \in Task /\ Asleep \in Run
BY EntryTypes DEF Idle, Asleep, Task, Run, Queues

LEMMA InitInv == Init => Inv
<1> SUFFICES ASSUME Init PROVE Inv
  OBVIOUS
<1>1. TypeOK
  BY Rest, EntryTypes, ZenonT(60) DEF Init, TypeOK, Task, Run, Queues
<1>2. TasksHaveItems /\ RunsSendPending
  BY DEF Init, TasksHaveItems, RunsSendPending, Idle, Asleep
<1> QED BY <1>1, <1>2 DEF Inv

LEMMA SaveType ==
  ASSUME TypeOK, NEW queue, NEW read, NEW list \in Lists, Save(queue, read, list)
  PROVE  stored' \in [Queues -> Lists] /\ clobbered' \in BOOLEAN
BY DEF TypeOK, Save

LEMMA LoadsType == ASSUME TypeOK PROVE Loads \subseteq Lists
BY EntryTypes DEF TypeOK, Loads

(* What a step does to the runs and to the tasks, one at a time. *)
LEMMA RunsInv ==
  ASSUME Inv, NEW r \in Runs, NEW x \in Run, run' = [run EXCEPT ![r] = x],
         \A o \in x.todo : x.items[o].status = "pending",
         x.pc = "reply" => x.op \in Ops /\ x.items[x.op].status = "pending",
         x.taken => x.pc = "reply"
  PROVE  run' \in [Runs -> Run] /\ RunsSendPending'
<1>1. run \in [Runs -> Run]
  BY DEF Inv, TypeOK, Run
<1>2. \A s \in Runs : run'[s] = IF s = r THEN x ELSE run[s]
  BY <1>1
<1> QED BY <1>1, <1>2 DEF Inv, RunsSendPending

LEMMA TasksInv ==
  ASSUME Inv, NEW t \in Tasks, NEW x \in Task, task' = [task EXCEPT ![t] = x],
         x.pc # "idle" => x.op \in Ops
  PROVE  task' \in [Tasks -> Task] /\ TasksHaveItems'
<1>1. task \in [Tasks -> Task]
  BY DEF Inv, TypeOK, Task
<1>2. \A s \in Tasks : task'[s] = IF s = t THEN x ELSE task[s]
  BY <1>1
<1> QED BY <1>1, <1>2 DEF Inv, TasksHaveItems

LEMMA FlushInv ==
  ASSUME Inv, NEW signedIn \in BOOLEAN, Flush(signedIn)
  PROVE  run' \in [Runs -> Run] /\ RunsSendPending'
<1>1. CASE UNCHANGED run
  BY <1>1 DEF Inv, TypeOK, Run, RunsSendPending
<1>2. CASE \E r \in Runs : run[r].pc = "idle" /\ run' = [run EXCEPT ![r].pc = "ask"]
  <2>1. PICK r \in Runs : run[r].pc = "idle" /\ run' = [run EXCEPT ![r] = [@ EXCEPT !.pc = "ask"]]
    BY <1>2
  <2> DEFINE x == [run[r] EXCEPT !.pc = "ask"]
  <2>2. run[r] \in Run
    BY DEF Inv, TypeOK, Run
  <2>3. /\ x \in Run /\ x.pc = "ask" /\ x.todo = run[r].todo /\ x.items = run[r].items
        /\ x.taken = run[r].taken
    BY <2>2 DEF Run
  <2>4. ~run[r].taken /\ \A o \in run[r].todo : run[r].items[o].status = "pending"
    BY <2>1 DEF Inv, RunsSendPending
  <2> HIDE DEF x
  <2>5. run' = [run EXCEPT ![r] = x]
    BY <2>1 DEF x
  <2> QED BY <2>3, <2>4, <2>5, RunsInv
<1>3. MayFlush /\ Runs # {} => \E r \in Runs : run[r].pc = "idle"
  BY DEF MayFlush
<1> QED
  <2>1. CASE Runs = {}
    <3>1. run \in [{} -> Run]
      BY <2>1 DEF Inv, TypeOK, Run
    <3> QED BY <2>1, <3>1, <1>1 DEF Flush
  <2>2. CASE Runs # {}
    BY <1>1, <1>2, <1>3, <2>2 DEF Flush, MayFlush
  <2> QED BY <2>1, <2>2

-----------------------------------------------------------------------------
(* Calls of enqueue, discard and retry. *)
LEMMA ReadInv ==
  ASSUME Inv, NEW t \in Tasks, NEW o \in Ops, NEW kind \in {"enqueue", "discard", "retry"},
         Read(t, kind, o)
  PROVE  task' \in [Tasks -> Task] /\ TasksHaveItems'
<1>1. PICK items \in Lists :
        task' = [task EXCEPT ![t] = [pc |-> kind, queue |-> scope, op |-> o, items |-> items]]
  BY LoadsType DEF Read, Inv
<1>2. [pc |-> kind, queue |-> scope, op |-> o, items |-> items] \in Task
  BY DEF Task, Inv, TypeOK
<1> QED BY <1>1, <1>2, TasksInv

LEMMA ReturnInv ==
  ASSUME Inv, NEW t \in Tasks, task' = [task EXCEPT ![t] = Idle]
  PROVE  task' \in [Tasks -> Task] /\ TasksHaveItems'
<1>1. Idle \in Task /\ Idle.pc = "idle"
  BY Rest DEF Idle
<1> QED BY <1>1, TasksInv

LEMMA TaskInv ==
  ASSUME Inv, NEW t \in Tasks,
         Returns(t) \/ \E o \in Ops : Enqueue(t, o) \/ Discard(t, o) \/ Retry(t, o)
  PROVE  Inv'
<1> USE DEF session, ghosts
<1>1. ASSUME NEW o \in Ops, Enqueue(t, o) PROVE Inv'
  <2>1. scope \in Users
    BY <1>1 DEF Enqueue, Inv, TypeOK, Queues
  <2>2. /\ author' \in [Ops -> Queues] /\ received' \in [Ops -> SUBSET Users]
        /\ doubtful' \subseteq Ops
    BY <1>1, <2>1 DEF Enqueue, Inv, TypeOK, Queues
  <2>3. task' \in [Tasks -> Task] /\ TasksHaveItems'
    BY <1>1, ReadInv DEF Enqueue
  <2> QED BY <1>1, <2>2, <2>3 DEF Enqueue, Inv, TypeOK, Task, RunsSendPending
<1>2. ASSUME NEW o \in Ops, Discard(t, o) \/ Retry(t, o) PROVE Inv'
  <2>1. task' \in [Tasks -> Task] /\ TasksHaveItems'
    BY <1>2, ReadInv DEF Discard, Retry
  <2> QED BY <1>2, <2>1 DEF Discard, Retry, Inv, TypeOK, Task, RunsSendPending
<1>3. ASSUME Enqueued(t) \/ Discarded(t) \/ Retried(t) PROVE Inv'
  <2>1. task[t] \in Task /\ task[t].op \in Ops
    BY <1>3 DEF Enqueued, Discarded, Retried, Inv, TypeOK, Task, TasksHaveItems
  <2>2. /\ task[t].items \in Lists /\ task[t].items[task[t].op] \in Entries
        /\ \A e \in Entries : [task[t].items EXCEPT ![task[t].op] = e] \in Lists
    BY <2>1, EntryTypes DEF Task
  <2>3. stored' \in [Queues -> Lists] /\ clobbered' \in BOOLEAN
    BY <1>3, <2>2, EntryTypes, Retriable, SaveType DEF Enqueued, Discarded, Retried, Inv
  <2>4. task' \in [Tasks -> Task] /\ TasksHaveItems'
    BY <1>3, ReturnInv DEF Enqueued, Discarded, Retried
  <2>5. run' \in [Runs -> Run] /\ RunsSendPending'
    <3>1. CASE Retried(t)
      BY <3>1, FlushInv DEF Retried
    <3>2. CASE UNCHANGED run
      BY <3>2 DEF Inv, TypeOK, Run, RunsSendPending
    <3> QED BY <1>3, <3>1, <3>2 DEF Enqueued, Discarded
  <2> QED BY <1>3, <2>1, <2>3, <2>4, <2>5
          DEF Enqueued, Discarded, Retried, Inv, TypeOK, Task, Run
<1>4. ASSUME NotSaved(t) PROVE Inv'
  <2>1. task' \in [Tasks -> Task] /\ TasksHaveItems'
    BY <1>4, ReturnInv DEF NotSaved
  <2> QED BY <1>4, <2>1 DEF NotSaved, Inv, TypeOK, Task, RunsSendPending
<1> QED BY <1>1, <1>2, <1>3, <1>4 DEF Returns

-----------------------------------------------------------------------------
(* Flushes. *)
LEMMA OnlineInv ==
  ASSUME Inv, NEW r \in Runs, Online(r) PROVE Inv'
<1> USE DEF session, ghosts, Online
<1>1. PICK items \in Lists : run' = [run EXCEPT ![r] =
        [@ EXCEPT !.pc = "send", !.queue = scope, !.items = items,
                  !.updated = [o \in Ops |-> TooOld(items[o])],
                  !.todo = {o \in Ops : IsDue(items[o])}]]
  BY LoadsType DEF Inv
<1> DEFINE x == [run[r] EXCEPT !.pc = "send", !.queue = scope, !.items = items,
                  !.updated = [o \in Ops |-> TooOld(items[o])],
                  !.todo = {o \in Ops : IsDue(items[o])}]
<1>2. run[r] \in Run /\ ~run[r].taken
  BY DEF Inv, TypeOK, Run, RunsSendPending
<1>3. [o \in Ops |-> TooOld(items[o])] \in Lists
  BY EntryTypes, Settled
<1>4. /\ x \in Run /\ x.pc = "send" /\ ~x.taken /\ x.items = items
      /\ x.todo = {o \in Ops : IsDue(items[o])}
  BY <1>2, <1>3 DEF Run, Inv, TypeOK
<1>5. \A o \in x.todo : x.items[o].status = "pending"
  BY <1>4 DEF IsDue
<1>6. run' = [run EXCEPT ![r] = x]
  BY <1>1
<1> HIDE DEF x
<1>7. run' \in [Runs -> Run] /\ RunsSendPending'
  BY <1>4, <1>5, <1>6, RunsInv
<1> QED BY <1>7 DEF Inv, TypeOK, Run, TasksHaveItems

LEMMA SendInv ==
  ASSUME Inv, NEW r \in Runs, NEW o \in Ops, Send(r, o) PROVE Inv'
<1> USE DEF session, Send
<1>1. PICK taken \in BOOLEAN :
        /\ run' = [run EXCEPT ![r] =
             [@ EXCEPT !.pc = "reply", !.op = o, !.todo = run[r].todo \ {o}, !.taken = taken]]
        /\ IF taken
           THEN /\ received' = [received EXCEPT ![o] = @ \cup {agent}]
                /\ repeated' = IF received[o] # {} THEN repeated \cup {o} ELSE repeated
           ELSE UNCHANGED <<received, repeated>>
  BY DEF Inv, TypeOK
<1> DEFINE x == [run[r] EXCEPT !.pc = "reply", !.op = o, !.todo = run[r].todo \ {o}, !.taken = taken]
<1>2. run[r] \in Run /\ run[r].items[o].status = "pending"
  BY DEF Inv, TypeOK, Run, RunsSendPending
<1>3. /\ x \in Run /\ x.pc = "reply" /\ x.op = o /\ x.items = run[r].items
      /\ x.todo \subseteq run[r].todo
  BY <1>2 DEF Run
<1>4. \A p \in x.todo : x.items[p].status = "pending"
  BY <1>3 DEF Inv, RunsSendPending
<1>5. run' = [run EXCEPT ![r] = x]
  BY <1>1
<1> HIDE DEF x
<1>6. x.op \in Ops /\ x.items[x.op].status = "pending"
  BY <1>2, <1>3
<1>7. run' \in [Runs -> Run] /\ RunsSendPending'
  BY <1>3, <1>4, <1>5, <1>6, RunsInv
<1>8. agent \in Users
  BY DEF Inv, TypeOK, Queues
<1>9. received' \in [Ops -> SUBSET Users] /\ repeated' \subseteq Ops
  BY <1>1, <1>8 DEF Inv, TypeOK
<1> QED BY <1>7, <1>9 DEF Inv, TypeOK, Run, TasksHaveItems

(* A run that goes on with the items it has read. *)
LEMMA SendingInv ==
  ASSUME Inv, NEW r \in Runs, NEW x \in Run, run' = [run EXCEPT ![r] = x], x.pc = "send",
         ~x.taken, x.items = run[r].items, x.todo \subseteq run[r].todo
  PROVE  run' \in [Runs -> Run] /\ RunsSendPending'
<1>1. \A p \in x.todo : x.items[p].status = "pending"
  BY DEF Inv, RunsSendPending
<1> QED BY <1>1, RunsInv

(* An attempt that failed, and an answer. *)
LEMMA AnswerInv ==
  ASSUME Inv, NEW r \in Runs,
         \/ \E o \in Ops : SendSignedOut(r, o)
         \/ Sent(r) \/ NotSent(r)
  PROVE  Inv'
<1>1. run[r] \in Run /\ run[r].updated \in Lists /\ run[r].items \in Lists
  BY DEF Inv, TypeOK, Run
<1>2. ASSUME NEW o \in Ops, SendSignedOut(r, o) PROVE Inv'
  <2> USE <1>2 DEF SendSignedOut, session, ghosts
  <2> DEFINE x == [run[r] EXCEPT !.todo = run[r].todo \ {o},
                                 !.updated = [run[r].updated EXCEPT ![o] = Failing(run[r].items[o])]]
  <2>1. run[r].items[o] \in Entries /\ run[r].items[o].status = "pending" /\ ~run[r].taken
    BY <1>1, EntryTypes DEF Inv, RunsSendPending
  <2>2. [run[r].updated EXCEPT ![o] = Failing(run[r].items[o])] \in Lists
    BY <1>1, <2>1, EntryTypes, Settled
  <2>3. /\ x \in Run /\ x.pc = "send" /\ ~x.taken /\ x.items = run[r].items
        /\ x.todo \subseteq run[r].todo
    BY <1>1, <2>1, <2>2 DEF Run
  <2>4. run' = [run EXCEPT ![r] = x]
    OBVIOUS
  <2> HIDE DEF x
  <2>5. run' \in [Runs -> Run] /\ RunsSendPending'
    BY <2>3, <2>4, SendingInv
  <2> QED BY <2>5 DEF Inv, TypeOK, Run, TasksHaveItems
<1>3. ASSUME Sent(r) \/ NotSent(r) PROVE Inv'
  <2>1. PICK o \in Ops : /\ o = run[r].op
                         /\ run[r].items[o] \in Entries /\ run[r].items[o].status = "pending"
    BY <1>1, <1>3, EntryTypes DEF Sent, NotSent, Inv, RunsSendPending
  <2>2. /\ [run[r].updated EXCEPT ![o] = Gone] \in Lists
        /\ [run[r].updated EXCEPT ![o] = Failing(run[r].items[o])] \in Lists
        /\ run[r].done \cup {o} \in SUBSET Ops
    BY <1>1, <2>1, EntryTypes, Settled DEF Run
  <2>3. run' \in [Runs -> Run] /\ RunsSendPending'
    <3>1. CASE Sent(r)
      <4> DEFINE x == [run[r] EXCEPT !.pc = "send", !.op = None, !.taken = FALSE,
                         !.updated = [run[r].updated EXCEPT ![o] = Gone],
                         !.done = run[r].done \cup {o}]
      <4>1. /\ x \in Run /\ x.pc = "send" /\ ~x.taken /\ x.items = run[r].items
            /\ x.todo = run[r].todo
        BY <1>1, <2>2 DEF Run
      <4>2. run' = [run EXCEPT ![r] = x]
        BY <2>1, <3>1 DEF Sent
      <4> HIDE DEF x
      <4> QED BY <4>1, <4>2, SendingInv
    <3>2. CASE NotSent(r)
      <4> DEFINE x == [run[r] EXCEPT !.pc = "send", !.op = None, !.taken = FALSE,
                         !.updated = [run[r].updated EXCEPT ![o] = Failing(run[r].items[o])]]
      <4>1. /\ x \in Run /\ x.pc = "send" /\ ~x.taken /\ x.items = run[r].items
            /\ x.todo = run[r].todo
        BY <1>1, <2>2 DEF Run
      <4>2. run' = [run EXCEPT ![r] = x]
        BY <2>1, <3>2 DEF NotSent
      <4> HIDE DEF x
      <4> QED BY <4>1, <4>2, SendingInv
    <3> QED BY <1>3, <3>1, <3>2
  <2>4. doubtful' \subseteq Ops
    BY <1>3, <2>1 DEF Sent, NotSent, ghosts, Inv, TypeOK
  <2> QED BY <1>3, <2>3, <2>4 DEF Sent, NotSent, session, ghosts, Inv, TypeOK, Run, TasksHaveItems
<1> QED BY <1>2, <1>3

(* The end of a run. *)
LEMMA AsleepInv ==
  ASSUME Inv, NEW r \in Runs, run' = [run EXCEPT ![r] = Asleep]
  PROVE  run' \in [Runs -> Run] /\ RunsSendPending'
<1>1. Asleep \in Run /\ Asleep.todo = {} /\ Asleep.pc = "idle" /\ ~Asleep.taken
  BY Rest DEF Asleep
<1> QED BY <1>1, RunsInv

LEMMA RunEndInv ==
  ASSUME Inv, NEW r \in Runs, Offline(r) \/ AllHandled(r) \/ Merge(r) \/ MergeFails(r) PROVE Inv'
<1>1. run[r] \in Run
  BY DEF Inv, TypeOK, Run
<1>2. CASE run' = [run EXCEPT ![r] = Asleep]
  <2>1. run' \in [Runs -> Run] /\ RunsSendPending'
    BY <1>2, AsleepInv
  <2>2. Merged(r) \in Lists
    BY <1>1, EntryTypes DEF Merged, Run
  <2>3. stored' \in [Queues -> Lists] /\ clobbered' \in BOOLEAN /\ doubtful' \subseteq Ops
    <3>1. CASE Merge(r)
      BY <2>2, <3>1, SaveType DEF Merge, Inv, TypeOK
    <3>2. CASE AllHandled(r) \/ MergeFails(r)
      BY <1>1, <3>2 DEF AllHandled, MergeFails, Inv, TypeOK, Run
    <3>3. CASE Offline(r)
      BY <3>3 DEF Offline, ghosts, Inv, TypeOK
    <3> QED BY <3>1, <3>2, <3>3
  <2> QED BY <2>1, <2>3 DEF Offline, AllHandled, Merge, MergeFails, session, ghosts, Inv, TypeOK, Run,
                        TasksHaveItems
<1>3. ASSUME NEW items \in Lists, AllHandled(r), UNCHANGED doubtful,
             run' = [run EXCEPT ![r] = [@ EXCEPT !.pc = "merge", !.latest = items]]
      PROVE  Inv'
  <2> DEFINE x == [run[r] EXCEPT !.pc = "merge", !.latest = items]
  <2>1. /\ x \in Run /\ x.pc = "merge" /\ x.taken = run[r].taken /\ x.todo = run[r].todo
    BY <1>1 DEF Run
  <2>2. run[r].todo = {} /\ ~run[r].taken
    BY <1>3 DEF AllHandled, Inv, RunsSendPending
  <2>3. run' = [run EXCEPT ![r] = x]
    BY <1>3
  <2> HIDE DEF x
  <2>4. run' \in [Runs -> Run] /\ RunsSendPending'
    BY <2>1, <2>2, <2>3, RunsInv
  <2> QED BY <1>3, <2>4 DEF AllHandled, session, Inv, TypeOK, Run, TasksHaveItems
<1> QED BY <1>2, <1>3, LoadsType DEF Offline, AllHandled, Merge, MergeFails, Inv

-----------------------------------------------------------------------------
(* The session, and the end of the app. *)
LEMMA SessionInv ==
  ASSUME Inv, Look \/ Wake \/ OpenQueue \/ SignOut \/ CloseQueue \/ \E u \in Users : SignIn(u)
  PROVE  Inv'
<1>1. run' \in [Runs -> Run] /\ RunsSendPending'
  <2>1. CASE Flush(TRUE)
    BY <2>1, FlushInv
  <2>2. CASE UNCHANGED run
    BY <2>2 DEF Inv, TypeOK, Run, RunsSendPending
  <2> QED BY <2>1, <2>2 DEF Look, Wake, OpenQueue, SignOut, CloseQueue, SignIn
<1> QED BY <1>1 DEF Look, Wake, OpenQueue, SignOut, CloseQueue, SignIn, session, ghosts,
                    Inv, TypeOK, Run, TasksHaveItems, Queues

LEMMA KillInv == ASSUME Inv, Kill PROVE Inv'
<1> USE DEF Kill
<1>1. task' \in [Tasks -> Task] /\ TasksHaveItems'
  BY Rest DEF Idle, TasksHaveItems
<1>2. run' \in [Runs -> Run] /\ RunsSendPending'
  BY Rest DEF Asleep, RunsSendPending
<1>3. doubtful' \subseteq Ops
  <2>1. \A r \in Runs : run[r].done \subseteq Ops /\ (run[r].taken => run[r].op \in Ops)
    BY DEF Inv, TypeOK, RunsSendPending
  <2> DEFINE sent == UNION {run[r].done : r \in Runs}
             cut == {run[r].op : r \in {x \in Runs : run[x].taken}}
  <2>2. sent \subseteq Ops
    BY <2>1
  <2>3. cut \subseteq Ops
    BY <2>1
  <2>4. doubtful' = doubtful \cup sent \cup cut
    BY Zenon DEF Kill
  <2>5. doubtful \subseteq Ops
    BY DEF Inv, TypeOK
  <2> HIDE DEF sent, cut
  <2> QED BY <2>2, <2>3, <2>4, <2>5
<1> QED BY <1>1, <1>2, <1>3 DEF Inv, TypeOK, Task, Run, Queues

(* Time: an entry keeps its status. *)
LEMMA LaterInv ==
  ASSUME Inv, NEW o \in Ops, NEW aged \in [Lists -> Lists],
         \A list \in Lists, p \in Ops : aged[list][p].status = list[p].status,
         stored' = [q \in Queues |-> aged[stored[q]]],
         task' = [t \in Tasks |-> [task[t] EXCEPT !.items = aged[task[t].items]]],
         run' = [r \in Runs |-> [run[r] EXCEPT !.items = aged[run[r].items],
                                               !.updated = aged[run[r].updated],
                                               !.latest = aged[run[r].latest]]],
         UNCHANGED <<session, screen, ghosts>>
  PROVE  Inv'
<1>1. stored' \in [Queues -> Lists]
  BY DEF Inv, TypeOK
<1>2. \A t \in Tasks : task'[t] \in Task /\ task'[t].pc = task[t].pc /\ task'[t].op = task[t].op
  <2> SUFFICES ASSUME NEW t \in Tasks
               PROVE  task'[t] \in Task /\ task'[t].pc = task[t].pc /\ task'[t].op = task[t].op
    OBVIOUS
  <2>1. task[t] \in Task /\ aged[task[t].items] \in Lists
    BY DEF Inv, TypeOK, Task
  <2>2. task'[t] = [task[t] EXCEPT !.items = aged[task[t].items]]
    OBVIOUS
  <2> QED BY <2>1, <2>2 DEF Task
<1>3. \A r \in Runs : run[r] \in Run
  BY DEF Inv, TypeOK, Run
<1>4. \A r \in Runs :
        /\ run'[r] \in Run /\ run'[r].pc = run[r].pc /\ run'[r].op = run[r].op
        /\ run'[r].todo = run[r].todo /\ run'[r].taken = run[r].taken
        /\ run'[r].items = aged[run[r].items]
  BY <1>3, ZenonT(60) DEF Run
<1>5. \A r \in Runs, p \in Ops : run'[r].items[p].status = run[r].items[p].status
  <2> SUFFICES ASSUME NEW r \in Runs, NEW p \in Ops
               PROVE  run'[r].items[p].status = run[r].items[p].status
    OBVIOUS
  <2>1. run[r].items \in Lists
    BY <1>3 DEF Run
  <2>2. aged[run[r].items][p].status = run[r].items[p].status
    BY <2>1
  <2> QED BY <1>4, <2>2
<1>6. run' \in [Runs -> Run] /\ RunsSendPending'
  <2>1. \A r \in Runs : run[r].todo \subseteq Ops /\ run'[r] \in Run
    BY <1>3, <1>4 DEF Run
  <2>2. RunsSendPending'
    <3> SUFFICES ASSUME NEW r \in Runs
                 PROVE  /\ \A p \in run'[r].todo : run'[r].items[p].status = "pending"
                        /\ run'[r].pc = "reply" =>
                             run'[r].op \in Ops /\ run'[r].items[run'[r].op].status = "pending"
                        /\ run'[r].taken => run'[r].pc = "reply"
      BY DEF RunsSendPending
    <3>1. /\ \A p \in run[r].todo : run[r].items[p].status = "pending"
          /\ run[r].pc = "reply" => run[r].op \in Ops /\ run[r].items[run[r].op].status = "pending"
          /\ run[r].taken => run[r].pc = "reply"
      BY DEF Inv, RunsSendPending
    <3>2. ASSUME NEW p \in run'[r].todo PROVE run'[r].items[p].status = "pending"
      <4>1. p \in run[r].todo /\ p \in Ops
        BY <1>4, <2>1
      <4>2. run'[r].items[p].status = run[r].items[p].status
        BY <1>5, <4>1
      <4>3. run[r].items[p].status = "pending"
        BY <3>1, <4>1
      <4> QED BY <4>2, <4>3
    <3>3. ASSUME run'[r].pc = "reply"
          PROVE  run'[r].op \in Ops /\ run'[r].items[run'[r].op].status = "pending"
      <4>1. PICK p \in Ops : p = run[r].op /\ run[r].items[p].status = "pending"
        BY <1>4, <3>1, <3>3
      <4>2. run'[r].op = p
        BY <1>4, <4>1
      <4>3. run'[r].items[p].status = run[r].items[p].status
        BY <1>5
      <4> QED BY <4>1, <4>2, <4>3
    <3>4. run'[r].taken => run'[r].pc = "reply"
      BY <1>4, <3>1
    <3> QED BY <3>2, <3>3, <3>4
  <2>3. run' \in [Runs -> Run]
    BY <2>1
  <2> QED BY <2>2, <2>3
<1>7. task' \in [Tasks -> Task] /\ TasksHaveItems'
  BY <1>2 DEF Inv, TasksHaveItems
<1> QED BY <1>1, <1>6, <1>7 DEF session, ghosts, Inv, TypeOK, Task, Run

LEMMA TimeInv ==
  ASSUME Inv, NEW o \in Ops, WaitEnds(o) \/ DayPasses(o)
  PROVE  Inv'
<1>1. CASE WaitEnds(o)
  <2> DEFINE aged == [list \in Lists |-> [list EXCEPT ![o] = [list[o] EXCEPT !.wait = FALSE]]]
  <2>1. aged \in [Lists -> Lists]
    BY EntryTypes, Timed
  <2>2. \A list \in Lists, p \in Ops : aged[list][p].status = list[p].status
    BY EntryTypes, Timed
  <2>3. \A list \in Lists : aged[list] = [list EXCEPT ![o] = [list[o] EXCEPT !.wait = FALSE]]
    OBVIOUS
  <2> HIDE DEF aged
  <2>4. stored' = [q \in Queues |-> aged[stored[q]]]
    BY <1>1, <2>3 DEF WaitEnds, Later, Inv, TypeOK
  <2>5. task' = [t \in Tasks |-> [task[t] EXCEPT !.items = aged[task[t].items]]]
    BY <1>1, <2>3 DEF WaitEnds, Later, Inv, TypeOK
  <2>6. run' = [r \in Runs |-> [run[r] EXCEPT !.items = aged[run[r].items],
                                              !.updated = aged[run[r].updated],
                                              !.latest = aged[run[r].latest]]]
    BY <1>1, <2>3 DEF WaitEnds, Later, Inv, TypeOK
  <2> QED BY <1>1, <2>1, <2>2, <2>4, <2>5, <2>6, LaterInv DEF WaitEnds, Later
<1>2. CASE DayPasses(o)
  <2> DEFINE aged == [list \in Lists |-> [list EXCEPT ![o] =
                       [list[o] EXCEPT !.old = (list[o].status = "pending")]]]
  <2>1. aged \in [Lists -> Lists]
    BY EntryTypes, Timed
  <2>2. \A list \in Lists, p \in Ops : aged[list][p].status = list[p].status
    BY EntryTypes, Timed
  <2>3. \A list \in Lists : aged[list] =
          [list EXCEPT ![o] = [list[o] EXCEPT !.old = (list[o].status = "pending")]]
    OBVIOUS
  <2> HIDE DEF aged
  <2>4. stored' = [q \in Queues |-> aged[stored[q]]]
    BY <1>2, <2>3 DEF DayPasses, Later, Inv, TypeOK
  <2>5. task' = [t \in Tasks |-> [task[t] EXCEPT !.items = aged[task[t].items]]]
    BY <1>2, <2>3 DEF DayPasses, Later, Inv, TypeOK
  <2>6. run' = [r \in Runs |-> [run[r] EXCEPT !.items = aged[run[r].items],
                                              !.updated = aged[run[r].updated],
                                              !.latest = aged[run[r].latest]]]
    BY <1>2, <2>3 DEF DayPasses, Later, Inv, TypeOK
  <2> QED BY <1>2, <2>1, <2>2, <2>4, <2>5, <2>6, LaterInv DEF DayPasses, Later
<1> QED BY <1>1, <1>2

-----------------------------------------------------------------------------
LEMMA NextInv == Inv /\ [Next]_vars => Inv'
<1> SUFFICES ASSUME Inv, [Next]_vars PROVE Inv'
  OBVIOUS
<1>1. ASSUME NEW t \in Tasks,
             Returns(t) \/ \E o \in Ops : Enqueue(t, o) \/ Discard(t, o) \/ Retry(t, o)
      PROVE  Inv'
  BY <1>1, TaskInv
<1>2. ASSUME NEW r \in Runs, Offline(r) \/ Answers(r) \/ Sends(r) PROVE Inv'
  BY <1>2, OnlineInv, SendInv, AnswerInv, RunEndInv DEF Answers, Sends
<1>3. CASE Look \/ Wake \/ OpenQueue \/ SignOut \/ CloseQueue \/ \E u \in Users : SignIn(u)
  BY <1>3, SessionInv
<1>4. CASE Kill
  BY <1>4, KillInv
<1>5. ASSUME NEW o \in Ops, WaitEnds(o) \/ DayPasses(o) PROVE Inv'
  BY <1>5, TimeInv
<1>6. CASE UNCHANGED vars
  BY <1>6 DEF vars, session, ghosts, Inv, TypeOK, TasksHaveItems, RunsSendPending
<1> QED BY <1>1, <1>2, <1>3, <1>4, <1>5, <1>6 DEF Next

(* Lists, handlers and flushes keep their types: above all, whatever wakes, *)
(* fails or ends while a run is on its way, a run only ever sends items     *)
(* that are pending, so that an attempt that fails leaves one that is       *)
(* pending or up to the user, and never more attempts than the schedule.    *)
THEOREM TypeCorrect == Spec => []TypeOK
<1>1. Inv => TypeOK
  BY DEF Inv
<1> QED BY <1>1, InitInv, NextInv, PTL DEF Spec

-----------------------------------------------------------------------------
(* What keeps a saved write, for as long as no list has been clobbered: one  *)
(* run is on its way at a time, and it holds the items of its own user only; *)
(* what it has sent it takes out, what it will send no one has carried out   *)
(* without the phone having lost the answer; a write that is being saved is  *)
(* nowhere yet; a list holds its owner's writes only; what the server has    *)
(* left the lists, or a run is about to take it out, or it is doubtful.      *)
OneRun == \A r, s \in Runs : run[r].pc # "idle" /\ run[s].pc # "idle" => r = s

RunsStartEmpty ==
  \A r \in Runs : run[r].pc \in {"idle", "ask"} =>
    run[r].done = {} /\ run[r].todo = {} /\ \A o \in Ops : run[r].items[o] = Gone

RunKnows(r) ==
  /\ \A o \in Ops : run[r].items[o] # Gone =>
       /\ author[o] = run[r].queue /\ author[o] # None
       /\ run[r].updated[o] = Gone => received[o] # {}
  /\ \A o \in run[r].done : run[r].items[o] # Gone /\ run[r].updated[o] = Gone /\ o \notin run[r].todo
  /\ \A o \in run[r].todo : received[o] # {} => o \in doubtful
  /\ run[r].pc = "reply" => run[r].op \notin run[r].done \cup run[r].todo
  /\ run[r].taken => received[run[r].op] # {}

Unsaved(o) ==
  /\ o \notin discarded /\ (received[o] # {} => o \in doubtful)
  /\ \A q \in Queues : stored[q][o] = Gone
  /\ \A r \in Runs : run[r].items[o] = Gone

TaskKnows(t) ==
  task[t].pc # "idle" =>
    /\ author[task[t].op] = task[t].queue /\ task[t].queue # None
    /\ task[t].pc = "enqueue" =>
         /\ Unsaved(task[t].op)
         /\ \A u \in Tasks : task[u].pc # "idle" /\ task[u].op = task[t].op => t = u

AuthorHolds(o) ==
  /\ \A q \in Queues : stored[q][o] # Gone => q = author[o] /\ q # None
  /\ received[o] # {} \/ o \in discarded => author[o] # None

InFlight(o) == \E r \in Runs : o \in run[r].done \/ (run[r].taken /\ run[r].op = o)
SentLeaves(o) ==
  received[o] # {} => o \in doubtful \/ InFlight(o) \/ \A q \in Queues : stored[q][o] = Gone

IsKept(o) ==
  /\ o \in kept => stored[author[o]][o] # Gone \/ received[o] # {} \/ o \in discarded
  /\ o \in discarded => \A q \in Queues : stored[q][o] = Gone
  /\ o \in repeated => o \in doubtful

Kept ==
  /\ OneRun /\ RunsStartEmpty /\ (\A r \in Runs : RunKnows(r)) /\ (\A t \in Tasks : TaskKnows(t))
  /\ \A o \in Ops : AuthorHolds(o) /\ SentLeaves(o) /\ IsKept(o)

(* What the screen shows is in the list of the user who looks at it: it is   *)
(* that user's, and no longer on its way into the list.                      *)
Shown ==
  \A o \in screen :
    /\ scope # None /\ author[o] = scope
    /\ \A t \in Tasks : task[t].pc = "enqueue" => task[t].op # o

LEMMA InitKept == Init => Kept
<1> SUFFICES ASSUME Init PROVE Kept
  OBVIOUS
<1>1. \A o \in Ops : Nothing[o] = Gone
  BY DEF Nothing
<1>2. OneRun /\ RunsStartEmpty
  BY <1>1 DEF Init, OneRun, RunsStartEmpty, Asleep
<1>3. \A r \in Runs : RunKnows(r)
  BY <1>1 DEF Init, RunKnows, Asleep
<1>4. \A t \in Tasks : TaskKnows(t)
  BY DEF Init, TaskKnows, Idle
<1>5. \A o \in Ops : AuthorHolds(o) /\ SentLeaves(o) /\ IsKept(o)
  BY <1>1 DEF Init, AuthorHolds, SentLeaves, IsKept
<1> QED BY <1>2, <1>3, <1>4, <1>5 DEF Kept

(* A step that changes no run but for beginning one, no list and no task. *)
LEMMA RunsAlike ==
  ASSUME Inv, Kept, Flush(TRUE) \/ UNCHANGED run
  PROVE  /\ OneRun' /\ RunsStartEmpty'
         /\ \A r \in Runs :
              /\ run'[r].pc = "reply" => run[r].pc = "reply"
              /\ run'[r].queue = run[r].queue /\ run'[r].items = run[r].items
              /\ run'[r].updated = run[r].updated /\ run'[r].todo = run[r].todo
              /\ run'[r].done = run[r].done /\ run'[r].op = run[r].op
              /\ run'[r].taken = run[r].taken
<1>1. CASE UNCHANGED run
  BY <1>1 DEF Kept, OneRun, RunsStartEmpty
<1>2. ASSUME NEW r \in Runs, MayFlush, run' = [run EXCEPT ![r].pc = "ask"]
      PROVE  /\ OneRun' /\ RunsStartEmpty'
             /\ \A s \in Runs :
                  /\ run'[s].pc = "reply" => run[s].pc = "reply"
                  /\ run'[s].queue = run[s].queue /\ run'[s].items = run[s].items
                  /\ run'[s].updated = run[s].updated /\ run'[s].todo = run[s].todo
                  /\ run'[s].done = run[s].done /\ run'[s].op = run[s].op
                  /\ run'[s].taken = run[s].taken
  <2>1. run \in [Runs -> Run]
    BY DEF Inv, TypeOK, Run
  <2>2. \A s \in Runs : run'[s] = IF s = r THEN [run[r] EXCEPT !.pc = "ask"] ELSE run[s]
    BY <1>2, <2>1
  <2>3. \A s \in Runs :
          /\ run'[s].pc = (IF s = r THEN "ask" ELSE "idle") /\ run[s].pc = "idle"
          /\ run'[s].queue = run[s].queue /\ run'[s].items = run[s].items
          /\ run'[s].updated = run[s].updated /\ run'[s].todo = run[s].todo
          /\ run'[s].done = run[s].done /\ run'[s].op = run[s].op
          /\ run'[s].taken = run[s].taken
    BY <1>2, <2>1, <2>2 DEF MayFlush, Run
  <2> QED BY <2>3 DEF Kept, OneRun, RunsStartEmpty
<1>3. CASE Runs = {}
  BY <1>3 DEF OneRun, RunsStartEmpty
<1>4. CASE Runs # {} /\ Flush(TRUE) /\ ~UNCHANGED run
  <2>1. MayFlush /\ \E r \in Runs : run' = [run EXCEPT ![r].pc = "ask"]
    BY <1>4 DEF Flush, MayFlush
  <2> QED BY <1>2, <2>1
<1> QED BY <1>1, <1>3, <1>4

LEMMA QuietKept ==
  ASSUME Inv, Kept, Flush(TRUE) \/ UNCHANGED run, UNCHANGED <<stored, task, ghosts>>
  PROVE  Kept'
<1> USE DEF ghosts
<1>1. /\ OneRun' /\ RunsStartEmpty'
      /\ \A r \in Runs :
              /\ run'[r].pc = "reply" => run[r].pc = "reply"
              /\ run'[r].queue = run[r].queue /\ run'[r].items = run[r].items
              /\ run'[r].updated = run[r].updated /\ run'[r].todo = run[r].todo
              /\ run'[r].done = run[r].done /\ run'[r].op = run[r].op
              /\ run'[r].taken = run[r].taken
  BY RunsAlike
<1>2. \A r \in Runs : RunKnows(r)'
  BY <1>1 DEF Kept, RunKnows
<1>3. \A t \in Tasks : TaskKnows(t)'
  BY <1>1 DEF Kept, TaskKnows, Unsaved
<1>4. \A o \in Ops : AuthorHolds(o)' /\ SentLeaves(o)' /\ IsKept(o)'
  BY <1>1 DEF Kept, AuthorHolds, SentLeaves, InFlight, IsKept
<1> QED BY <1>1, <1>2, <1>3, <1>4 DEF Kept

LEMMA SessionKept ==
  ASSUME Inv, Kept, Look \/ Wake \/ OpenQueue \/ SignOut \/ CloseQueue \/ \E u \in Users : SignIn(u)
  PROVE  Kept'
BY QuietKept DEF Look, Wake, OpenQueue, SignOut, CloseQueue, SignIn, session

LEMMA KillKept == ASSUME Inv, Kept, Kill PROVE Kept'
<1> USE DEF Kill
<1>1. \A o \in Ops : Nothing[o] = Gone
  BY DEF Nothing
<1>2. OneRun' /\ RunsStartEmpty' /\ \A r \in Runs : RunKnows(r)'
  BY <1>1 DEF OneRun, RunsStartEmpty, RunKnows, Asleep
<1>3. \A t \in Tasks : TaskKnows(t)'
  BY DEF TaskKnows, Idle
<1>4. \A o \in Ops : InFlight(o) => o \in doubtful'
  BY DEF InFlight
<1>5. doubtful \subseteq doubtful'
  OBVIOUS
<1>6. \A o \in Ops : AuthorHolds(o)' /\ SentLeaves(o)' /\ IsKept(o)'
  BY <1>4, <1>5 DEF Kept, AuthorHolds, SentLeaves, IsKept
<1> QED BY <1>2, <1>3, <1>6 DEF Kept

-----------------------------------------------------------------------------
(* A task reads its list. *)
LEMMA ReadKept ==
  ASSUME Inv, Kept, Shown, NEW t \in Tasks, NEW o \in Ops,
         Enqueue(t, o) \/ Discard(t, o) \/ Retry(t, o)
  PROVE  Kept'
<1>1. /\ task[t].pc = "idle" /\ scope # None /\ UNCHANGED <<stored, run, kept, discarded, repeated>>
      /\ \E kind \in {"enqueue", "discard", "retry"}, items \in Loads :
           /\ task' = [task EXCEPT ![t] = [pc |-> kind, queue |-> scope, op |-> o, items |-> items]]
           /\ kind = "enqueue" <=> Enqueue(t, o)
  BY DEF Enqueue, Discard, Retry, Read, ghosts
<1>2. /\ task'[t].queue = scope /\ task'[t].op = o
      /\ task'[t].pc = "enqueue" => Enqueue(t, o)
      /\ \A u \in Tasks : u # t => task'[u] = task[u]
  BY <1>1 DEF Inv, TypeOK
<1>3. \A u \in Tasks :
        task[u].pc = "enqueue" \/ (task[u].pc # "idle" /\ Enqueue(t, o)) => task[u].op # o
  <2>1. CASE Enqueue(t, o)
    BY <2>1 DEF Enqueue, Kept, TaskKnows
  <2>2. CASE Discard(t, o) \/ Retry(t, o)
    <3>1. o \in screen /\ author[o] # None
      BY <2>2 DEF Discard, Retry, Shown
    <3> QED BY <3>1 DEF Shown, Enqueue
  <2> QED BY <2>1, <2>2
<1>4. /\ author'[o] = scope /\ (author[o] # None => author[o] = scope)
      /\ \A p \in Ops : p # o => author'[p] = author[p]
  <2>1. CASE Enqueue(t, o)
    BY <2>1 DEF Enqueue, Inv, TypeOK
  <2>2. CASE Discard(t, o) \/ Retry(t, o)
    <3>1. o \in screen /\ author' = author
      BY <2>2 DEF Discard, Retry, ghosts
    <3> QED BY <3>1 DEF Shown
  <2> QED BY <2>1, <2>2
<1>5. /\ doubtful \subseteq doubtful'
      /\ \A p \in Ops : received'[p] # {} => received[p] # {} \/ (p = o /\ o \in doubtful')
      /\ \A p \in Ops : received[p] # {} => received'[p] # {}
  <2>1. CASE Enqueue(t, o)
    <3>1. received[o] = {}
      BY <2>1 DEF Enqueue, Kept, AuthorHolds
    <3> QED BY <2>1, <3>1 DEF Enqueue, Inv, TypeOK
  <2>2. CASE Discard(t, o) \/ Retry(t, o)
    BY <2>2 DEF Discard, Retry, ghosts
  <2> QED BY <2>1, <2>2
<1>6. OneRun' /\ RunsStartEmpty'
  BY <1>1 DEF Kept, OneRun, RunsStartEmpty
<1>7. \A r \in Runs : RunKnows(r)'
  <2> SUFFICES ASSUME NEW r \in Runs PROVE RunKnows(r)'
    OBVIOUS
  <2>1. RunKnows(r) /\ run' = run
    BY <1>1 DEF Kept
  <2>2. run[r].todo \subseteq Ops /\ (run[r].taken => run[r].op \in Ops)
    BY DEF Inv, TypeOK, RunsSendPending
  <2> QED BY <1>4, <1>5, <2>1, <2>2 DEF RunKnows
<1>8. \A u \in Tasks : TaskKnows(u)'
  <2> SUFFICES ASSUME NEW u \in Tasks PROVE TaskKnows(u)'
    OBVIOUS
  <2>1. CASE u = t
    <3>1. task'[t].pc = "enqueue" => Unsaved(o)'
      <4> SUFFICES ASSUME Enqueue(t, o) PROVE Unsaved(o)'
        BY <1>2
      <4>1. author[o] = None
        BY DEF Enqueue
      <4>2. o \notin discarded /\ received[o] = {} /\ \A q \in Queues : stored[q][o] = Gone
        BY <4>1 DEF Kept, AuthorHolds
      <4>3. \A r \in Runs : run[r].items[o] = Gone
        BY <4>1 DEF Kept, RunKnows
      <4> QED BY <1>1, <1>5, <4>2, <4>3 DEF Unsaved
    <3> QED BY <1>1, <1>2, <1>3, <1>4, <2>1, <3>1 DEF TaskKnows
  <2>2. CASE u # t /\ task[u].pc # "idle"
    <3>1. task'[u] = task[u] /\ task[u].op \in Ops /\ TaskKnows(u)
      BY <1>2, <2>2 DEF Kept, Inv, TasksHaveItems
    <3>2. author'[task[u].op] = author[task[u].op]
      BY <1>4, <2>2, <3>1 DEF TaskKnows
    <3>3. ASSUME task[u].pc = "enqueue"
          PROVE  /\ Unsaved(task[u].op)'
                 /\ \A v \in Tasks : task'[v].pc # "idle" /\ task'[v].op = task[u].op => u = v
      <4>1. task[u].op # o
        BY <1>3, <3>3
      <4>2. Unsaved(task[u].op)'
        BY <1>1, <1>5, <3>1, <3>3, <4>1 DEF TaskKnows, Unsaved
      <4> QED BY <1>2, <3>1, <3>3, <4>1, <4>2 DEF TaskKnows
    <3> QED BY <2>2, <3>1, <3>2, <3>3 DEF TaskKnows
  <2> QED BY <1>2, <2>1, <2>2 DEF TaskKnows
<1>9. \A p \in Ops : AuthorHolds(p)' /\ SentLeaves(p)' /\ IsKept(p)'
  <2> SUFFICES ASSUME NEW p \in Ops PROVE AuthorHolds(p)' /\ SentLeaves(p)' /\ IsKept(p)'
    OBVIOUS
  <2>1. AuthorHolds(p) /\ SentLeaves(p) /\ IsKept(p)
    BY DEF Kept
  <2>2. AuthorHolds(p)'
    BY <1>1, <1>4, <1>5, <2>1 DEF AuthorHolds
  <2>3. SentLeaves(p)'
    BY <1>1, <1>5, <2>1 DEF SentLeaves, InFlight
  <2>4. IsKept(p)'
    <3>1. CASE author'[p] = author[p]
      BY <1>1, <1>5, <2>1, <3>1 DEF IsKept
    <3>2. CASE p = o /\ author[p] = None
      <4>1. stored[author[o]][o] = Gone
        BY <3>2 DEF Kept, AuthorHolds, Queues
      <4> QED BY <1>1, <1>5, <2>1, <3>2, <4>1 DEF IsKept
    <3> QED BY <1>4, <3>1, <3>2
  <2> QED BY <2>2, <2>3, <2>4
<1> QED BY <1>6, <1>7, <1>8, <1>9 DEF Kept

(* A list is written as it was read but for one entry. *)
LEMMA SaveKeeps ==
  ASSUME Inv, NEW queue, NEW read, NEW list, Save(queue, read, list), ~clobbered'
  PROVE  /\ ~clobbered /\ scope = queue /\ stored[queue] = read
         /\ \A q \in Queues : stored'[q] = IF q = queue THEN list ELSE stored[q]
BY DEF Save, Inv, TypeOK

LEMMA ReturnKept ==
  ASSUME Inv, Kept, NEW t \in Tasks, ~clobbered', Enqueued(t) \/ Discarded(t) \/ Retried(t)
  PROVE  Kept'
<1> DEFINE o == task[t].op
           queue == task[t].queue
<1>1. task[t] \in Task /\ o \in Ops /\ task[t].pc # "idle"
  BY DEF Enqueued, Discarded, Retried, Inv, TypeOK, Task, TasksHaveItems
<1>2. PICK e : /\ Save(queue, task[t].items, [task[t].items EXCEPT ![o] = e])
               /\ \/ Enqueued(t) /\ e = Fresh
                  \/ Discarded(t) /\ e = Gone
                  \/ Retried(t) /\ e = Again(task[t].items[o])
  BY Zenon DEF Enqueued, Discarded, Retried
<1>3. /\ ~clobbered /\ scope = queue /\ stored[queue] = task[t].items /\ queue \in Queues
      /\ \A q \in Queues : stored'[q] = IF q = queue THEN [task[t].items EXCEPT ![o] = e] ELSE stored[q]
  BY <1>1, <1>2, SaveKeeps DEF Inv, TypeOK
<1>4. /\ \A q \in Queues, p \in Ops : p # o \/ q # queue => stored'[q][p] = stored[q][p]
      /\ stored'[queue][o] = e
  <2>1. stored[queue] \in Lists /\ task[t].items \in [Ops -> Entries]
    BY <1>1, <1>3, EntryTypes DEF Task
  <2> QED BY <1>1, <1>3, <2>1
<1>5. /\ task' = [task EXCEPT ![t] = Idle]
      /\ UNCHANGED <<author, received, doubtful, repeated>>
  BY <1>2 DEF Enqueued, Discarded, Retried
<1>6. task'[t].pc = "idle" /\ \A u \in Tasks : u # t => task'[u] = task[u]
  BY <1>5 DEF Inv, TypeOK, Idle
<1>7. TaskKnows(t) /\ author[o] = queue /\ queue # None
  BY <1>1 DEF Kept, TaskKnows
<1>8. /\ Enqueued(t) => Unsaved(o) /\ kept' = kept \cup {o} /\ discarded' = discarded
      /\ Discarded(t) => discarded' = discarded \cup {o} /\ kept' = kept
      /\ Retried(t) => discarded' = discarded /\ kept' = kept
  BY <1>1, <1>7 DEF Enqueued, Discarded, Retried, TaskKnows
<1>9. Retried(t) => (e = Gone <=> stored[queue][o] = Gone)
  <2>1. task[t].items[o] \in Entries
    BY <1>1, EntryTypes DEF Task
  <2>2. task[t].items[o] # Gone => Again(task[t].items[o]) # Gone
    <3> DEFINE x == task[t].items[o]
    <3>1. CASE x = Failed
      BY <3>1 DEF Again, Failed, Fresh, Gone
    <3>2. CASE x \in Pending
      <4>1. x.status = "pending" /\ Again(x) = [x EXCEPT !.wait = FALSE]
        BY <3>2 DEF Again, Pending
      <4>2. Again(x).status = "pending"
        BY <3>2, <4>1 DEF Pending
      <4> QED BY <4>2 DEF Gone
    <3> QED BY <2>1, <3>1, <3>2 DEF Entries
  <2>3. Again(Gone) = Gone
    BY DEF Again, Gone
  <2>4. Retried(t) => e = Again(task[t].items[o])
    BY <1>2 DEF Enqueued, Discarded, Retried
  <2> QED BY <1>3, <2>2, <2>3, <2>4
<1>10. \A q \in Queues, p \in Ops : stored'[q][p] # Gone =>
          stored[q][p] # Gone \/ (Enqueued(t) /\ q = queue /\ p = o)
  BY <1>2, <1>4, <1>9
<1>11. /\ OneRun' /\ RunsStartEmpty'
       /\ \A r \in Runs :
            /\ run'[r].pc = "reply" => run[r].pc = "reply"
            /\ run'[r].queue = run[r].queue /\ run'[r].items = run[r].items
            /\ run'[r].updated = run[r].updated /\ run'[r].todo = run[r].todo
            /\ run'[r].done = run[r].done /\ run'[r].op = run[r].op
            /\ run'[r].taken = run[r].taken
  <2>1. Flush(TRUE) \/ UNCHANGED run
    BY <1>2, <1>3, <1>7 DEF Enqueued, Discarded, Retried, Flush
  <2> QED BY <2>1, RunsAlike
<1>12. \A r \in Runs : RunKnows(r)'
  BY <1>5, <1>11 DEF Kept, RunKnows
<1>13. discarded \subseteq discarded' /\ discarded' \subseteq discarded \cup {o}
  BY <1>2, <1>8
<1>14. \A u \in Tasks : TaskKnows(u)'
  <2> SUFFICES ASSUME NEW u \in Tasks, u # t, task[u].pc # "idle" PROVE TaskKnows(u)'
    BY <1>6 DEF TaskKnows
  <2>1. /\ task'[u] = task[u] /\ task[u].op \in Ops /\ TaskKnows(u)
    BY <1>6 DEF Kept, Inv, TasksHaveItems
  <2>2. ASSUME task[u].pc = "enqueue"
        PROVE  /\ Unsaved(task[u].op)'
               /\ \A v \in Tasks : task'[v].pc # "idle" /\ task'[v].op = task[u].op => u = v
    <3>1. task[u].op # o
      BY <1>1, <2>1, <2>2 DEF TaskKnows
    <3>2. Unsaved(task[u].op)'
      BY <1>5, <1>10, <1>11, <1>13, <2>1, <2>2, <3>1 DEF TaskKnows, Unsaved
    <3> QED BY <1>6, <2>1, <2>2, <3>2 DEF TaskKnows
  <2> QED BY <1>5, <2>1, <2>2 DEF TaskKnows
<1>15. \A p \in Ops : AuthorHolds(p)' /\ SentLeaves(p)' /\ IsKept(p)'
  <2> SUFFICES ASSUME NEW p \in Ops PROVE AuthorHolds(p)' /\ SentLeaves(p)' /\ IsKept(p)'
    OBVIOUS
  <2>1. AuthorHolds(p) /\ SentLeaves(p) /\ IsKept(p) /\ author[p] \in Queues
    BY DEF Kept, Inv, TypeOK
  <2>2. AuthorHolds(p)'
    BY <1>5, <1>7, <1>10, <1>13, <2>1 DEF AuthorHolds
  <2>3. SentLeaves(p)'
    <3>1. InFlight(p)' <=> InFlight(p)
      BY <1>11 DEF InFlight
    <3>2. CASE p = o /\ Enqueued(t)
      BY <1>5, <1>8, <3>2 DEF Unsaved, SentLeaves
    <3>3. CASE ~(p = o /\ Enqueued(t))
      BY <1>5, <1>10, <2>1, <3>1, <3>3 DEF SentLeaves
    <3> QED BY <3>2, <3>3
  <2>4. p \in kept' => stored'[author'[p]][p] # Gone \/ received'[p] # {} \/ p \in discarded'
    <3>1. CASE p # o
      BY <1>2, <1>4, <1>5, <1>8, <2>1, <3>1 DEF IsKept
    <3>2. CASE p = o
      <4>1. Enqueued(t) => e # Gone
        BY <1>2, <1>8 DEF Enqueued, Discarded, Retried, Fresh, Gone
      <4> QED BY <1>2, <1>4, <1>5, <1>7, <1>8, <1>9, <2>1, <3>2, <4>1 DEF IsKept
    <3> QED BY <3>1, <3>2
  <2>5. p \in discarded' => \A q \in Queues : stored'[q][p] = Gone
    <3>1. CASE p # o
      BY <1>10, <1>13, <2>1, <3>1 DEF IsKept
    <3>2. CASE p = o /\ Discarded(t)
      <4>1. e = Gone
        BY <1>2, <3>2 DEF Enqueued, Discarded, Retried
      <4> QED BY <1>4, <1>7, <2>1, <3>2, <4>1 DEF AuthorHolds
    <3>3. CASE p = o /\ ~Discarded(t)
      BY <1>2, <1>8, <1>10, <2>1, <3>3 DEF IsKept, Unsaved
    <3> QED BY <3>1, <3>2, <3>3
  <2>6. p \in repeated' => p \in doubtful'
    BY <1>5, <2>1 DEF IsKept
  <2> QED BY <2>2, <2>3, <2>4, <2>5, <2>6 DEF IsKept
<1> QED BY <1>11, <1>12, <1>14, <1>15 DEF Kept

(* A save that was refused leaves everything as it was. *)
LEMMA NotSavedKept ==
  ASSUME Inv, Kept, NEW t \in Tasks, NotSaved(t)
  PROVE  Kept'
<1>1. task'[t].pc = "idle" /\ \A u \in Tasks : u # t => task'[u] = task[u]
  BY DEF NotSaved, Inv, TypeOK, Idle
<1>2. UNCHANGED <<stored, run, author, received, kept, discarded, doubtful, repeated>>
  BY DEF NotSaved, ghosts
<1>3. OneRun' /\ RunsStartEmpty' /\ (\A r \in Runs : RunKnows(r)')
  BY <1>2 DEF Kept, OneRun, RunsStartEmpty, RunKnows
<1>4. \A u \in Tasks : TaskKnows(u)'
  BY <1>1, <1>2 DEF Kept, TaskKnows, Unsaved
<1>5. \A o \in Ops : AuthorHolds(o)' /\ SentLeaves(o)' /\ IsKept(o)'
  BY <1>2 DEF Kept, AuthorHolds, SentLeaves, InFlight, IsKept
<1> QED BY <1>3, <1>4, <1>5 DEF Kept

-----------------------------------------------------------------------------
(* One run is on its way: what the others hold, and what its step changes. *)
LEMMA RunMoves ==
  ASSUME Inv, Kept, NEW r \in Runs, run[r].pc # "idle", NEW x \in Run,
         run' = [run EXCEPT ![r] = x], x.pc \in {"send", "reply", "merge"} \/ x = Asleep
  PROVE  /\ run'[r] = x /\ OneRun' /\ RunsStartEmpty'
         /\ \A s \in Runs : s # r => RunKnows(s)' /\ run'[s] = run[s]
         /\ \A o \in Ops : InFlight(o) <=> o \in run[r].done \/ (run[r].taken /\ run[r].op = o)
         /\ \A o \in Ops : InFlight(o)' <=> o \in x.done \/ (x.taken /\ x.op = o)
         /\ \A o \in Ops, s \in Runs : s # r => run[s].items[o] = Gone
<1>1. run \in [Runs -> Run]
  BY DEF Inv, TypeOK, Run
<1>2. \A s \in Runs : run'[s] = IF s = r THEN x ELSE run[s]
  BY <1>1
<1>3. \A s \in Runs : s # r => run[s].pc = "idle" /\ ~run[s].taken
  BY DEF Kept, OneRun, Inv, RunsSendPending
<1>4. \A s \in Runs : s # r =>
        run[s].done = {} /\ run[s].todo = {} /\ \A o \in Ops : run[s].items[o] = Gone
  BY <1>3 DEF Kept, RunsStartEmpty
<1>5. x = Asleep => /\ x.done = {} /\ x.todo = {} /\ x.pc = "idle"
                    /\ \A o \in Ops : x.items[o] = Gone
  BY DEF Asleep, Nothing
<1>6. OneRun' /\ RunsStartEmpty'
  BY <1>2, <1>3, <1>4, <1>5 DEF OneRun, RunsStartEmpty
<1>7. \A s \in Runs : s # r => RunKnows(s)'
  BY <1>2, <1>3, <1>4 DEF RunKnows
<1>8. \A o \in Ops : InFlight(o) <=> o \in run[r].done \/ (run[r].taken /\ run[r].op = o)
  BY <1>3, <1>4 DEF InFlight
<1>9. \A o \in Ops : InFlight(o)' <=> o \in x.done \/ (x.taken /\ x.op = o)
  BY <1>2, <1>3, <1>4 DEF InFlight
<1> QED BY <1>2, <1>4, <1>6, <1>7, <1>8, <1>9

(* A step of a run that leaves the lists and the tasks alone. *)
LEMMA RunKept ==
  ASSUME Inv, Kept, NEW r \in Runs, run[r].pc # "idle", NEW x \in Run,
         run' = [run EXCEPT ![r] = x], x.pc \in {"send", "reply", "merge"} \/ x = Asleep,
         UNCHANGED <<stored, task, author, kept, discarded>>, RunKnows(r)',
         doubtful \subseteq doubtful', \A p \in repeated' : p \in repeated \/ p \in doubtful',
         \A p \in Ops : received[p] # {} => received'[p] # {},
         \A p \in Ops : received'[p] = received[p] \/ run[r].items[p] # Gone,
         \A p \in Ops : x.items[p] # Gone =>
           run[r].items[p] # Gone \/ \E q \in Queues : stored[q][p] # Gone,
         \A p \in Ops :
           p \in run[r].done \/ (run[r].taken /\ run[r].op = p) \/ received'[p] # received[p] =>
             p \in doubtful' \/ p \in x.done \/ (x.taken /\ x.op = p)
  PROVE  Kept'
<1>1. /\ run'[r] = x /\ OneRun' /\ RunsStartEmpty'
      /\ \A s \in Runs : s # r => RunKnows(s)' /\ run'[s] = run[s]
      /\ \A o \in Ops : InFlight(o) <=> o \in run[r].done \/ (run[r].taken /\ run[r].op = o)
      /\ \A o \in Ops : InFlight(o)' <=> o \in x.done \/ (x.taken /\ x.op = o)
      /\ \A o \in Ops, s \in Runs : s # r => run[s].items[o] = Gone
  BY RunMoves
<1>2. \A p \in Ops : Unsaved(p) => Unsaved(p)'
  <2> SUFFICES ASSUME NEW p \in Ops, Unsaved(p) PROVE Unsaved(p)'
    OBVIOUS
  <2>1. received'[p] = received[p] /\ x.items[p] = Gone
    BY DEF Unsaved
  <2> QED BY <1>1, <2>1 DEF Unsaved
<1>3. \A t \in Tasks : TaskKnows(t)'
  <2> SUFFICES ASSUME NEW t \in Tasks, task[t].pc # "idle" PROVE TaskKnows(t)'
    BY DEF TaskKnows
  <2>1. task[t].op \in Ops /\ TaskKnows(t)
    BY DEF Kept, Inv, TasksHaveItems
  <2>2. task[t].pc = "enqueue" => Unsaved(task[t].op)'
    BY <1>2, <2>1 DEF TaskKnows
  <2> QED BY <2>1, <2>2 DEF TaskKnows
<1>4. \A p \in Ops : AuthorHolds(p)' /\ SentLeaves(p)' /\ IsKept(p)'
  <2> SUFFICES ASSUME NEW p \in Ops PROVE AuthorHolds(p)' /\ SentLeaves(p)' /\ IsKept(p)'
    OBVIOUS
  <2>1. AuthorHolds(p) /\ SentLeaves(p) /\ IsKept(p) /\ RunKnows(r)
    BY DEF Kept
  <2>2. AuthorHolds(p)'
    BY <2>1 DEF AuthorHolds, RunKnows
  <2>3. SentLeaves(p)'
    BY <1>1, <2>1 DEF SentLeaves
  <2>4. IsKept(p)'
    BY <2>1 DEF IsKept
  <2> QED BY <2>2, <2>3, <2>4
<1>5. \A s \in Runs : RunKnows(s)'
  BY <1>1
<1> QED BY <1>1, <1>3, <1>4, <1>5 DEF Kept

(* An entry that is pending or failed does not vanish with time or failures. *)
LEMMA Remains ==
  ASSUME NEW e \in Entries
  PROVE  /\ e.status = "gone" <=> e = Gone
         /\ TooOld(e) = Gone => e = Gone
         /\ e.status = "pending" => Failing(e) # Gone
<1>1. e.status = "gone" <=> e = Gone
  BY DEF Entries, Pending, Failed, Gone
<1>2. Failed # Gone
  BY DEF Failed, Gone
<1>3. TooOld(e) = Gone => e = Gone
  BY <1>2 DEF TooOld
<1>4. ASSUME e.status = "pending" PROVE Failing(e) # Gone
  <2>1. e \in Pending
    BY <1>4, EntryTypes
  <2>2. [e EXCEPT !.tries = @ + 1, !.wait = TRUE].status = "pending"
    BY <2>1 DEF Pending
  <2>3. [e EXCEPT !.tries = @ + 1, !.wait = TRUE] # Gone
    BY <2>2 DEF Gone
  <2> QED BY <1>2, <2>3 DEF Failing
<1> QED BY <1>1, <1>3, <1>4

LEMMA OnlineKept ==
  ASSUME Inv, Kept, NEW r \in Runs, Online(r) PROVE Kept'
<1> USE DEF ghosts
<1>1. PICK items \in Loads :
        run' = [run EXCEPT ![r] =
         [@ EXCEPT !.pc = "send", !.queue = scope, !.items = items,
                   !.updated = [o \in Ops |-> TooOld(items[o])],
                   !.todo = {o \in Ops : IsDue(items[o])}]]
  BY DEF Online
<1> DEFINE x == [run[r] EXCEPT !.pc = "send", !.queue = scope, !.items = items,
                               !.updated = [o \in Ops |-> TooOld(items[o])],
                               !.todo = {o \in Ops : IsDue(items[o])}]
<1>2. run[r] \in Run /\ items \in Lists /\ scope \in Queues
  BY LoadsType DEF Inv, TypeOK, Run
<1>3. \A o \in Ops : items[o] \in Entries
  BY <1>2, EntryTypes
<1>4. [o \in Ops |-> TooOld(items[o])] \in Lists
  BY <1>3, Settled, EntryTypes
<1>5. /\ run[r].pc = "ask" /\ run[r].done = {} /\ ~run[r].taken
      /\ UNCHANGED <<stored, task, ghosts>>
  BY DEF Online, Kept, RunsStartEmpty, Inv, RunsSendPending
<1>6. /\ x \in Run /\ x.pc = "send" /\ x.queue = scope /\ x.items = items /\ x.done = {} /\ ~x.taken
      /\ x.updated = [o \in Ops |-> TooOld(items[o])] /\ x.todo = {o \in Ops : IsDue(items[o])}
  BY <1>2, <1>4, <1>5 DEF Run
<1>7. run' = [run EXCEPT ![r] = x]
  BY <1>1
<1> HIDE DEF x
<1>8. /\ run'[r] = x
      /\ \A o \in Ops : InFlight(o) <=> o \in run[r].done \/ (run[r].taken /\ run[r].op = o)
  BY <1>5, <1>6, <1>7, RunMoves
<1>9. \A o \in Ops : items[o] # Gone => stored[scope][o] # Gone
  BY DEF Loads, Nothing
<1>10. RunKnows(r)'
  <2>1. \A o \in Ops : items[o] # Gone =>
          author[o] = scope /\ author[o] # None /\ TooOld(items[o]) # Gone
    BY <1>2, <1>3, <1>9, Remains DEF Kept, AuthorHolds
  <2>2. ASSUME NEW o \in Ops, IsDue(items[o]), received[o] # {} PROVE o \in doubtful
    <3>1. stored[scope][o] # Gone
      BY <1>9, <2>2 DEF IsDue, Gone
    <3>2. ~InFlight(o) /\ SentLeaves(o)
      BY <1>5, <1>8 DEF Kept
    <3> QED BY <1>2, <2>2, <3>1, <3>2 DEF SentLeaves
  <2> QED BY <1>5, <1>6, <1>8, <2>1, <2>2 DEF RunKnows
<1> QED BY <1>2, <1>5, <1>6, <1>7, <1>9, <1>10, RunKept

LEMMA SendKept ==
  ASSUME Inv, Kept, NEW r \in Runs, NEW o \in Ops, Send(r, o) PROVE Kept'
<1>1. PICK taken \in BOOLEAN :
       /\ run' = [run EXCEPT ![r] =
            [@ EXCEPT !.pc = "reply", !.op = o, !.todo = run[r].todo \ {o}, !.taken = taken]]
       /\ IF taken
          THEN /\ received' = [received EXCEPT ![o] = @ \cup {agent}]
               /\ repeated' = IF received[o] # {} THEN repeated \cup {o} ELSE repeated
          ELSE UNCHANGED <<received, repeated>>
  BY DEF Send
<1> DEFINE x == [run[r] EXCEPT !.pc = "reply", !.op = o, !.todo = run[r].todo \ {o}, !.taken = taken]
<1>2. run[r] \in Run /\ run[r].pc = "send" /\ o \in run[r].todo /\ ~run[r].taken
  BY DEF Send, Inv, TypeOK, Run, RunsSendPending
<1>3. /\ x \in Run /\ x.pc = "reply" /\ x.op = o /\ x.todo = run[r].todo \ {o} /\ x.taken = taken
      /\ x.queue = run[r].queue /\ x.items = run[r].items /\ x.updated = run[r].updated
      /\ x.done = run[r].done
  BY <1>2 DEF Run
<1>4. run' = [run EXCEPT ![r] = x]
  BY <1>1
<1> HIDE DEF x
<1>5. run'[r] = x
  BY <1>2, <1>3, <1>4, RunMoves
<1>6. UNCHANGED <<stored, task, author, kept, discarded, doubtful>>
  BY DEF Send, ghosts
<1>7. RunKnows(r) /\ run[r].items[o] # Gone
  BY <1>2 DEF Kept, Inv, RunsSendPending, Gone
<1>8. /\ \A p \in Ops : received[p] # {} => received'[p] # {}
      /\ \A p \in Ops : p # o \/ ~taken => received'[p] = received[p]
      /\ taken => received'[o] # {}
  <2>1. \A p \in Ops : received'[p] = IF p = o /\ taken THEN received[o] \cup {agent} ELSE received[p]
    BY <1>1 DEF Inv, TypeOK
  <2>2. received[o] \cup {agent} # {}
    OBVIOUS
  <2> QED BY <2>1, <2>2
<1>9. \A p \in repeated' : p \in repeated \/ p \in doubtful'
  BY <1>1, <1>2, <1>6, <1>7 DEF RunKnows
<1>10. RunKnows(r)'
  <2>1. run[r].todo \subseteq Ops /\ o \notin run[r].done
    BY <1>2, <1>7 DEF Run, RunKnows
  <2> QED BY <1>2, <1>3, <1>5, <1>6, <1>7, <1>8, <2>1 DEF RunKnows
<1>11. \A p \in Ops :
         p \in run[r].done \/ (run[r].taken /\ run[r].op = p) \/ received'[p] # received[p] =>
           p \in doubtful' \/ p \in x.done \/ (x.taken /\ x.op = p)
  BY <1>2, <1>3, <1>8
<1>12. \A p \in Ops : received'[p] = received[p] \/ run[r].items[p] # Gone
  BY <1>7, <1>8
<1> QED BY <1>2, <1>3, <1>4, <1>6, <1>8, <1>9, <1>10, <1>11, <1>12, RunKept

(* An attempt that failed, and an answer. *)
LEMMA AnswerKept ==
  ASSUME Inv, Kept, NEW r \in Runs, (\E o \in Ops : SendSignedOut(r, o)) \/ Sent(r) \/ NotSent(r)
  PROVE  Kept'
<1> USE DEF ghosts
<1>1. /\ run[r] \in Run /\ run[r].updated \in Lists /\ run[r].items \in Lists
      /\ UNCHANGED <<stored, task, author, kept, discarded, received, repeated>>
      /\ run[r].pc # "idle"
  BY DEF SendSignedOut, Sent, NotSent, Inv, TypeOK, Run
<1>2. RunKnows(r) /\ \A o \in Ops : run[r].items[o] \in Entries
  BY <1>1, EntryTypes DEF Kept
<1>3. ASSUME NEW o \in Ops, SendSignedOut(r, o) \/ (NotSent(r) /\ o = run[r].op) PROVE Kept'
  <2> DEFINE failing == Failing(run[r].items[o])
             x == [run[r] EXCEPT !.pc = "send", !.op = IF SendSignedOut(r, o) THEN @ ELSE None,
                                 !.taken = FALSE, !.todo = @ \ {o},
                                 !.updated = [run[r].updated EXCEPT ![o] = failing]]
  <2>1. run[r].items[o].status = "pending"
    BY <1>3 DEF SendSignedOut, NotSent, Inv, RunsSendPending
  <2>2. failing # Gone /\ failing \in Entries /\ run[r].items[o] # Gone
    BY <1>2, <2>1, Remains, Settled DEF Gone
  <2>3. [run[r].updated EXCEPT ![o] = failing] \in Lists
    BY <1>1, <2>2, EntryTypes
  <2>4. o \notin run[r].done
    BY <1>2, <1>3 DEF SendSignedOut, NotSent, RunKnows
  <2>5. NotSent(r) => run[r].todo \ {o} = run[r].todo
    BY <1>2, <1>3 DEF SendSignedOut, NotSent, RunKnows
  <2>6. SendSignedOut(r, o) => run[r].pc = "send" /\ run[r].taken = FALSE
    BY <1>1 DEF SendSignedOut, Inv, RunsSendPending, Run
  <2>7. /\ x \in Run /\ x.pc = "send" /\ x.todo = run[r].todo \ {o} /\ ~x.taken
        /\ x.queue = run[r].queue /\ x.items = run[r].items /\ x.done = run[r].done
        /\ x.updated = [run[r].updated EXCEPT ![o] = failing]
    BY <1>1, <2>3 DEF Run
  <2>8. run' = [run EXCEPT ![r] = x]
    <3>1. CASE SendSignedOut(r, o)
      <4>1. x = [run[r] EXCEPT !.todo = run[r].todo \ {o},
                               !.updated = [run[r].updated EXCEPT ![o] = failing]]
        BY <1>1, <2>6, <3>1 DEF Run
      <4> QED BY <3>1, <4>1 DEF SendSignedOut
    <3>2. CASE NotSent(r) /\ ~SendSignedOut(r, o)
      <4>1. x = [run[r] EXCEPT !.pc = "send", !.op = None, !.taken = FALSE,
                               !.updated = [run[r].updated EXCEPT ![o] = failing]]
        BY <1>1, <2>5, <3>2 DEF Run
      <4> QED BY <1>3, <3>2, <4>1 DEF NotSent
    <3> QED BY <1>3, <3>1, <3>2
  <2>9. x.updated[o] = failing /\ \A p \in Ops : p # o => x.updated[p] = run[r].updated[p]
    BY <1>1, <2>7, EntryTypes
  <2> HIDE DEF x
  <2>10. run'[r] = x
    BY <1>1, <2>7, <2>8, RunMoves
  <2>11. doubtful \subseteq doubtful'
    BY <1>3 DEF SendSignedOut, NotSent
  <2>12. run[r].taken => run[r].op \in doubtful'
    BY <1>3, <2>6 DEF NotSent
  <2>13. RunKnows(r)'
    <3>1. \A p \in Ops : x.updated[p] = Gone => run[r].updated[p] = Gone /\ p # o
      BY <2>2, <2>9
    <3>2. \A p \in run[r].done : x.updated[p] = Gone /\ p \in Ops
      BY <1>1, <1>2, <2>4, <2>9 DEF RunKnows, Run
    <3>3. \A p \in x.todo : p \in run[r].todo
      BY <2>7
    <3> QED BY <1>1, <1>2, <2>7, <2>10, <2>11, <3>1, <3>2, <3>3 DEF RunKnows
  <2> QED BY <1>1, <2>7, <2>8, <2>11, <2>12, <2>13, RunKept
<1>4. ASSUME Sent(r) PROVE Kept'
  <2> DEFINE o == run[r].op
             x == [run[r] EXCEPT !.pc = "send", !.op = None, !.taken = FALSE,
                                 !.updated = [run[r].updated EXCEPT ![o] = Gone],
                                 !.done = run[r].done \cup {o}]
  <2>1. /\ o \in Ops /\ run[r].items[o].status = "pending" /\ run[r].taken
        /\ o \notin run[r].todo /\ received[o] # {}
    BY <1>2, <1>4 DEF Sent, Inv, RunsSendPending, RunKnows
  <2>2. [run[r].updated EXCEPT ![o] = Gone] \in Lists /\ run[r].items[o] # Gone
    BY <1>1, <2>1, EntryTypes DEF Gone
  <2>3. /\ x \in Run /\ x.pc = "send" /\ x.todo = run[r].todo /\ ~x.taken
        /\ x.queue = run[r].queue /\ x.items = run[r].items /\ x.done = run[r].done \cup {o}
        /\ x.updated = [run[r].updated EXCEPT ![o] = Gone]
    BY <1>1, <2>1, <2>2 DEF Run
  <2>4. run' = [run EXCEPT ![r] = x] /\ UNCHANGED doubtful
    BY <1>4 DEF Sent
  <2>5. x.updated[o] = Gone /\ \A p \in Ops : p # o => x.updated[p] = run[r].updated[p]
    BY <1>1, <2>1, <2>3, EntryTypes
  <2> HIDE DEF x
  <2>6. run'[r] = x
    BY <1>1, <2>3, <2>4, RunMoves
  <2>7. RunKnows(r)'
    <3>1. \A p \in Ops : x.updated[p] = Gone => run[r].updated[p] = Gone \/ received[p] # {}
      BY <2>1, <2>5
    <3>2. \A p \in x.done : x.updated[p] = Gone /\ x.items[p] # Gone /\ p \notin x.todo
      BY <1>1, <1>2, <2>1, <2>2, <2>3, <2>5 DEF RunKnows, Run
    <3>3. \A p \in Ops : x.items[p] # Gone =>
            /\ author'[p] = x.queue /\ author'[p] # None
            /\ x.updated[p] = Gone => received'[p] # {}
      BY <1>1, <1>2, <2>3, <3>1 DEF RunKnows
    <3>4. \A p \in x.todo : received'[p] # {} => p \in doubtful'
      BY <1>1, <1>2, <2>3, <2>4 DEF RunKnows
    <3> QED BY <2>3, <2>6, <3>2, <3>3, <3>4 DEF RunKnows
  <2>8. \A p \in Ops : p \in run[r].done \/ (run[r].taken /\ run[r].op = p) => p \in x.done
    BY <2>3
  <2> QED BY <1>1, <2>3, <2>4, <2>7, <2>8, RunKept
<1> QED BY <1>3, <1>4, <1>1 DEF NotSent, Inv, RunsSendPending

(* The end of a run, by itself or after a sign-out, and its second reading. *)
LEMMA SleepKept ==
  ASSUME Inv, Kept, NEW r \in Runs, run[r].pc # "idle", run' = [run EXCEPT ![r] = Asleep],
         UNCHANGED <<stored, task, author, kept, discarded, received, repeated>>,
         doubtful' = doubtful \cup run[r].done, ~run[r].taken
  PROVE  Kept'
<1>1. Asleep \in Run /\ ~Asleep.taken /\ Asleep.done = {} /\ Asleep.todo = {}
      /\ Asleep.pc = "idle" /\ \A o \in Ops : Asleep.items[o] = Gone
  BY Rest DEF Asleep, Nothing
<1>2. run'[r] = Asleep
  BY <1>1, RunMoves
<1>3. RunKnows(r)'
  BY <1>1, <1>2 DEF RunKnows
<1> QED BY <1>1, <1>3, RunKept

LEMMA HandledKept ==
  ASSUME Inv, Kept, NEW r \in Runs, Offline(r) \/ AllHandled(r) \/ MergeFails(r) PROVE Kept'
<1> USE DEF ghosts
<1>1. /\ run[r] \in Run /\ run[r].pc # "idle" /\ ~run[r].taken
      /\ UNCHANGED <<stored, task, author, kept, discarded, received, repeated>>
  BY DEF Offline, AllHandled, MergeFails, Inv, TypeOK, Run, RunsSendPending
<1>2. CASE Offline(r)
  <2>1. run[r].done = {}
    BY <1>2 DEF Offline, Kept, RunsStartEmpty
  <2> QED BY <1>1, <1>2, <2>1, SleepKept DEF Offline
<1>3. CASE (AllHandled(r) /\ ~SameUser(r)) \/ MergeFails(r)
  BY <1>1, <1>3, SleepKept DEF AllHandled, MergeFails
<1>4. CASE AllHandled(r) /\ SameUser(r)
  <2>1. PICK items \in Lists : run' = [run EXCEPT ![r] = [@ EXCEPT !.pc = "merge", !.latest = items]]
    BY <1>4, LoadsType DEF AllHandled, Inv
  <2> DEFINE x == [run[r] EXCEPT !.pc = "merge", !.latest = items]
  <2>2. /\ x \in Run /\ x.pc = "merge" /\ x.todo = run[r].todo /\ ~x.taken /\ x.op = run[r].op
        /\ x.queue = run[r].queue /\ x.items = run[r].items /\ x.done = run[r].done
        /\ x.updated = run[r].updated
    BY <1>1 DEF Run
  <2>3. run' = [run EXCEPT ![r] = x] /\ UNCHANGED doubtful
    BY <1>4, <2>1 DEF AllHandled
  <2> HIDE DEF x
  <2>4. run'[r] = x
    BY <1>1, <2>2, <2>3, RunMoves
  <2>5. RunKnows(r)'
    BY <1>1, <2>2, <2>3, <2>4 DEF Kept, RunKnows
  <2> QED BY <1>1, <2>2, <2>3, <2>5, RunKept
<1> QED BY <1>2, <1>3, <1>4

(* The run writes its list: what it had sent leaves, and nothing else does. *)
LEMMA MergeKept ==
  ASSUME Inv, Kept, NEW r \in Runs, Merge(r), ~clobbered' PROVE Kept'
<1> USE DEF ghosts
<1> DEFINE queue == run[r].queue
<1>1. /\ run[r] \in Run /\ run[r].pc = "merge" /\ ~run[r].taken /\ queue \in Queues
      /\ run' = [run EXCEPT ![r] = Asleep]
      /\ UNCHANGED <<task, author, kept, discarded, received, repeated, doubtful>>
  BY DEF Merge, Inv, TypeOK, Run, RunsSendPending
<1>2. /\ stored[queue] = run[r].latest
      /\ \A q \in Queues : stored'[q] = IF q = queue THEN Merged(r) ELSE stored[q]
  BY SaveKeeps DEF Merge
<1>3. /\ RunKnows(r)
      /\ \A p \in Ops : Merged(r)[p] = IF stored[queue][p] = Gone THEN Gone
                         ELSE IF run[r].items[p] # Gone THEN run[r].updated[p] ELSE stored[queue][p]
  BY <1>2 DEF Kept, Merged
<1>4. \A q \in Queues, p \in Ops : stored'[q][p] # Gone => stored[q][p] # Gone
  BY <1>2, <1>3
<1>5. \A q \in Queues, p \in Ops : stored[q][p] # Gone /\ stored'[q][p] = Gone => received[p] # {}
  BY <1>2, <1>3 DEF RunKnows
<1>6. \A p \in run[r].done, q \in Queues : stored'[q][p] = Gone
  <2> SUFFICES ASSUME NEW p \in run[r].done, NEW q \in Queues PROVE stored'[q][p] = Gone
    OBVIOUS
  <2>1. p \in Ops /\ AuthorHolds(p)
    BY <1>1 DEF Run, Kept
  <2>2. run[r].items[p] # Gone /\ run[r].updated[p] = Gone /\ author[p] = queue
    BY <1>3, <2>1 DEF RunKnows
  <2>3. q # queue => stored[q][p] = Gone
    BY <2>1, <2>2 DEF AuthorHolds
  <2> QED BY <1>2, <1>3, <2>1, <2>2, <2>3
<1>7. Asleep \in Run /\ ~Asleep.taken /\ Asleep.done = {} /\ Asleep.todo = {}
      /\ Asleep.pc = "idle" /\ \A p \in Ops : Asleep.items[p] = Gone
  BY Rest DEF Asleep, Nothing
<1>8. /\ run'[r] = Asleep /\ OneRun' /\ RunsStartEmpty'
      /\ \A s \in Runs : s # r => RunKnows(s)' /\ run'[s] = run[s]
      /\ \A p \in Ops : InFlight(p) => p \in run[r].done
  BY <1>1, <1>7, RunMoves
<1>9. \A s \in Runs : RunKnows(s)'
  BY <1>7, <1>8 DEF RunKnows
<1>10. \A p \in Ops : Unsaved(p) => Unsaved(p)'
  BY <1>1, <1>4, <1>7, <1>8 DEF Unsaved
<1>11. \A t \in Tasks : TaskKnows(t)'
  BY <1>1, <1>10 DEF Kept, TaskKnows, Inv, TasksHaveItems
<1>12. \A p \in Ops : AuthorHolds(p)' /\ SentLeaves(p)' /\ IsKept(p)'
  <2> SUFFICES ASSUME NEW p \in Ops PROVE AuthorHolds(p)' /\ SentLeaves(p)' /\ IsKept(p)'
    OBVIOUS
  <2>1. AuthorHolds(p) /\ SentLeaves(p) /\ IsKept(p) /\ author[p] \in Queues
    BY DEF Kept, Inv, TypeOK
  <2>2. AuthorHolds(p)'
    BY <1>1, <1>4, <2>1 DEF AuthorHolds
  <2>3. SentLeaves(p)'
    BY <1>1, <1>4, <1>6, <1>8, <2>1 DEF SentLeaves
  <2>4. IsKept(p)'
    BY <1>1, <1>4, <1>5, <2>1 DEF IsKept
  <2> QED BY <2>2, <2>3, <2>4
<1> QED BY <1>8, <1>9, <1>11, <1>12 DEF Kept

(* Time: what is there stays, what is gone stays gone. *)
LEMMA AgedKept ==
  ASSUME Inv, Kept, UNCHANGED ghosts,
         \A q \in Queues, p \in Ops : stored'[q][p] = Gone <=> stored[q][p] = Gone,
         \A t \in Tasks : /\ task'[t].pc = task[t].pc /\ task'[t].op = task[t].op
                          /\ task'[t].queue = task[t].queue,
         \A r \in Runs :
           /\ run'[r].pc = run[r].pc /\ run'[r].op = run[r].op /\ run'[r].queue = run[r].queue
           /\ run'[r].todo = run[r].todo /\ run'[r].taken = run[r].taken
           /\ run'[r].done = run[r].done,
         \A r \in Runs, p \in Ops : (run'[r].items[p] = Gone <=> run[r].items[p] = Gone)
                                    /\ (run'[r].updated[p] = Gone <=> run[r].updated[p] = Gone)
  PROVE  Kept'
<1> USE DEF ghosts
<1>1. OneRun' /\ RunsStartEmpty'
  BY DEF Kept, OneRun, RunsStartEmpty
<1>2. \A r \in Runs : RunKnows(r)'
  <2> SUFFICES ASSUME NEW r \in Runs PROVE RunKnows(r)'
    OBVIOUS
  <2>1. RunKnows(r) /\ run[r].done \subseteq Ops
    BY DEF Kept, Inv, TypeOK
  <2> QED BY <2>1 DEF RunKnows
<1>3. \A p \in Ops : Unsaved(p) => Unsaved(p)'
  BY DEF Unsaved
<1>4. \A t \in Tasks : TaskKnows(t)'
  BY <1>3 DEF Kept, TaskKnows, Inv, TasksHaveItems
<1>5. \A p \in Ops : AuthorHolds(p)' /\ SentLeaves(p)' /\ IsKept(p)'
  <2> SUFFICES ASSUME NEW p \in Ops PROVE AuthorHolds(p)' /\ SentLeaves(p)' /\ IsKept(p)'
    OBVIOUS
  <2>1. AuthorHolds(p) /\ SentLeaves(p) /\ IsKept(p) /\ author[p] \in Queues
    BY DEF Kept, Inv, TypeOK
  <2>2. InFlight(p)' <=> InFlight(p)
    BY DEF InFlight
  <2> QED BY <2>1, <2>2 DEF AuthorHolds, SentLeaves, IsKept
<1> QED BY <1>1, <1>2, <1>4, <1>5 DEF Kept

LEMMA LaterKept ==
  ASSUME Inv, Kept, NEW aged \in [Lists -> Lists],
         \A list \in Lists, p \in Ops : aged[list][p].status = list[p].status,
         stored' = [q \in Queues |-> aged[stored[q]]],
         task' = [t \in Tasks |-> [task[t] EXCEPT !.items = aged[task[t].items]]],
         run' = [r \in Runs |-> [run[r] EXCEPT !.items = aged[run[r].items],
                                               !.updated = aged[run[r].updated],
                                               !.latest = aged[run[r].latest]]],
         UNCHANGED <<session, screen, ghosts>>
  PROVE  Kept'
<1>1. \A list \in Lists, p \in Ops : aged[list][p] = Gone <=> list[p] = Gone
  <2> SUFFICES ASSUME NEW list \in Lists, NEW p \in Ops PROVE aged[list][p] = Gone <=> list[p] = Gone
    OBVIOUS
  <2>1. list[p] \in Entries /\ aged[list][p] \in Entries
    BY EntryTypes
  <2>2. aged[list][p].status = list[p].status
    OBVIOUS
  <2> QED BY <2>1, <2>2, Remains
<1>2. \A q \in Queues, p \in Ops : stored'[q][p] = Gone <=> stored[q][p] = Gone
  BY <1>1 DEF Inv, TypeOK
<1>3. \A t \in Tasks : /\ task'[t].pc = task[t].pc /\ task'[t].op = task[t].op
                       /\ task'[t].queue = task[t].queue
  BY DEF Inv, TypeOK
<1>4. ASSUME NEW r \in Runs
      PROVE  /\ run'[r].pc = run[r].pc /\ run'[r].op = run[r].op /\ run'[r].queue = run[r].queue
             /\ run'[r].todo = run[r].todo /\ run'[r].taken = run[r].taken
             /\ run'[r].done = run[r].done
             /\ \A p \in Ops : (run'[r].items[p] = Gone <=> run[r].items[p] = Gone)
                               /\ (run'[r].updated[p] = Gone <=> run[r].updated[p] = Gone)
  <2>1. run[r] \in Run /\ run[r].items \in Lists /\ run[r].updated \in Lists
    BY DEF Inv, TypeOK, Run
  <2>2. run'[r] = [run[r] EXCEPT !.items = aged[run[r].items],
                                 !.updated = aged[run[r].updated],
                                 !.latest = aged[run[r].latest]]
    OBVIOUS
  <2>3. run'[r].items = aged[run[r].items] /\ run'[r].updated = aged[run[r].updated]
    BY <2>1, <2>2 DEF Run
  <2> QED BY <1>1, <2>1, <2>2, <2>3 DEF Run
<1> QED BY <1>2, <1>3, <1>4, AgedKept

LEMMA TimeKept ==
  ASSUME Inv, Kept, NEW o \in Ops, WaitEnds(o) \/ DayPasses(o)
  PROVE  Kept'
<1>1. CASE WaitEnds(o)
  <2> DEFINE aged == [list \in Lists |-> [list EXCEPT ![o] = [list[o] EXCEPT !.wait = FALSE]]]
  <2>1. aged \in [Lists -> Lists]
    BY EntryTypes, Timed
  <2>2. \A list \in Lists, p \in Ops : aged[list][p].status = list[p].status
    BY EntryTypes, Timed
  <2>3. \A list \in Lists : aged[list] = [list EXCEPT ![o] = [list[o] EXCEPT !.wait = FALSE]]
    OBVIOUS
  <2> HIDE DEF aged
  <2>4. stored' = [q \in Queues |-> aged[stored[q]]]
    BY <1>1, <2>3 DEF WaitEnds, Later, Inv, TypeOK
  <2>5. task' = [t \in Tasks |-> [task[t] EXCEPT !.items = aged[task[t].items]]]
    BY <1>1, <2>3 DEF WaitEnds, Later, Inv, TypeOK
  <2>6. run' = [r \in Runs |-> [run[r] EXCEPT !.items = aged[run[r].items],
                                              !.updated = aged[run[r].updated],
                                              !.latest = aged[run[r].latest]]]
    BY <1>1, <2>3 DEF WaitEnds, Later, Inv, TypeOK
  <2> QED BY <1>1, <2>1, <2>2, <2>4, <2>5, <2>6, LaterKept DEF WaitEnds, Later
<1>2. CASE DayPasses(o)
  <2> DEFINE aged == [list \in Lists |-> [list EXCEPT ![o] =
                       [list[o] EXCEPT !.old = (list[o].status = "pending")]]]
  <2>1. aged \in [Lists -> Lists]
    BY EntryTypes, Timed
  <2>2. \A list \in Lists, p \in Ops : aged[list][p].status = list[p].status
    BY EntryTypes, Timed
  <2>3. \A list \in Lists : aged[list] =
          [list EXCEPT ![o] = [list[o] EXCEPT !.old = (list[o].status = "pending")]]
    OBVIOUS
  <2> HIDE DEF aged
  <2>4. stored' = [q \in Queues |-> aged[stored[q]]]
    BY <1>2, <2>3 DEF DayPasses, Later, Inv, TypeOK
  <2>5. task' = [t \in Tasks |-> [task[t] EXCEPT !.items = aged[task[t].items]]]
    BY <1>2, <2>3 DEF DayPasses, Later, Inv, TypeOK
  <2>6. run' = [r \in Runs |-> [run[r] EXCEPT !.items = aged[run[r].items],
                                              !.updated = aged[run[r].updated],
                                              !.latest = aged[run[r].latest]]]
    BY <1>2, <2>3 DEF DayPasses, Later, Inv, TypeOK
  <2> QED BY <1>2, <2>1, <2>2, <2>4, <2>5, <2>6, LaterKept DEF DayPasses, Later
<1> QED BY <1>1, <1>2

-----------------------------------------------------------------------------
(* The screen shows what is in the list, and is cleared with the session. *)
LEMMA LookShown == ASSUME Inv, Kept, Look PROVE Shown'
<1>1. scope # None /\ scope \in Queues /\ UNCHANGED <<scope, author, task>> /\ screen' \subseteq Ops
  BY DEF Look, session, ghosts, Inv, TypeOK
<1>2. \A o \in screen' : stored[scope][o] # Gone
  BY DEF Look, Loads, Nothing, Gone
<1>3. \A o \in screen' : author[o] = scope
  BY <1>1, <1>2 DEF Kept, AuthorHolds
<1>4. \A o \in screen', t \in Tasks : task[t].pc = "enqueue" => task[t].op # o
  BY <1>1, <1>2 DEF Kept, TaskKnows, Unsaved
<1> QED BY <1>1, <1>3, <1>4 DEF Shown

LEMMA SameShown ==
  ASSUME Shown, UNCHANGED <<scope, screen, author>>,
         \A t \in Tasks : task'[t].pc = "enqueue" => task[t].pc = "enqueue" /\ task'[t].op = task[t].op
  PROVE  Shown'
BY DEF Shown

LEMMA TasksShown ==
  ASSUME Inv, Shown, NEW t \in Tasks,
         Returns(t) \/ \E o \in Ops : Enqueue(t, o) \/ Discard(t, o) \/ Retry(t, o)
  PROVE  Shown'
<1>1. ASSUME NEW o \in Ops, Enqueue(t, o) PROVE Shown'
  <2>1. /\ scope # None /\ author[o] = None /\ UNCHANGED <<scope, screen>>
        /\ \A p \in Ops : p # o => author'[p] = author[p]
    BY <1>1 DEF Enqueue, session, Inv, TypeOK
  <2>2. \A u \in Tasks : task'[u] = task[u] \/ task'[u].op = o
    BY <1>1 DEF Enqueue, Read, Inv, TypeOK
  <2>3. o \notin screen /\ screen \subseteq Ops
    BY <2>1 DEF Shown, Inv, TypeOK
  <2> QED BY <2>1, <2>2, <2>3 DEF Shown
<1>2. ASSUME NEW o \in Ops, Discard(t, o) \/ Retry(t, o) PROVE Shown'
  <2>1. \A u \in Tasks : task'[u] = task[u] \/ task'[u].pc # "enqueue"
    BY <1>2 DEF Discard, Retry, Read, Inv, TypeOK
  <2> QED BY <1>2, <2>1, SameShown DEF Discard, Retry, session, ghosts
<1>3. ASSUME Returns(t) PROVE Shown'
  <2>1. task' = [task EXCEPT ![t] = Idle] /\ UNCHANGED <<scope, screen, author>>
    BY <1>3 DEF Returns, Enqueued, Discarded, Retried, NotSaved, session, ghosts
  <2>2. \A u \in Tasks : task'[u] = task[u] \/ task'[u].pc # "enqueue"
    BY <2>1 DEF Idle, Inv, TypeOK
  <2> QED BY <2>1, <2>2, SameShown
<1> QED BY <1>1, <1>2, <1>3

LEMMA SessionShown ==
  ASSUME Shown, Wake \/ OpenQueue \/ SignOut \/ CloseQueue \/ Kill \/ \E u \in Users : SignIn(u)
  PROVE  Shown'
<1>1. CASE Wake \/ SignOut \/ \E u \in Users : SignIn(u)
  BY <1>1, SameShown DEF Wake, SignOut, SignIn, session, ghosts
<1>2. CASE OpenQueue
  BY <1>2 DEF OpenQueue, Shown
<1>3. CASE CloseQueue \/ Kill
  BY <1>3 DEF CloseQueue, Kill, Shown
<1> QED BY <1>1, <1>2, <1>3

LEMMA NextShown == ASSUME Inv, Kept, Shown, [Next]_vars PROVE Shown'
<1>1. ASSUME NEW r \in Runs, Offline(r) \/ Answers(r) \/ Sends(r) PROVE Shown'
  <2>1. UNCHANGED <<scope, screen, author, task>>
    BY <1>1 DEF Offline, Answers, Sends, Online, Sent, NotSent, AllHandled, Merge, MergeFails,
                Send, SendSignedOut, session, ghosts
  <2> QED BY <2>1, SameShown
<1>2. ASSUME NEW o \in Ops, WaitEnds(o) \/ DayPasses(o) PROVE Shown'
  <2>1. UNCHANGED <<scope, screen, author>>
    BY <1>2 DEF WaitEnds, DayPasses, Later, session, ghosts
  <2>2. ASSUME NEW t \in Tasks PROVE task'[t].pc = task[t].pc /\ task'[t].op = task[t].op
    <3>1. task[t] \in Task
      BY DEF Inv, TypeOK, Task
    <3>2. CASE WaitEnds(o)
      <4>1. task'[t] = [task[t] EXCEPT !.items = [task[t].items EXCEPT ![o] =
                         [task[t].items[o] EXCEPT !.wait = FALSE]]]
        BY <3>2 DEF WaitEnds, Later
      <4> QED BY <3>1, <4>1 DEF Task
    <3>3. CASE DayPasses(o)
      <4>1. task'[t] = [task[t] EXCEPT !.items = [task[t].items EXCEPT ![o] =
                         [task[t].items[o] EXCEPT !.old = (task[t].items[o].status = "pending")]]]
        BY <3>3 DEF DayPasses, Later
      <4> QED BY <3>1, <4>1 DEF Task
    <3> QED BY <1>2, <3>2, <3>3
  <2> QED BY <2>1, <2>2, SameShown
<1>3. CASE UNCHANGED vars
  BY <1>3, SameShown DEF vars, session, ghosts
<1> QED BY <1>1, <1>2, <1>3, LookShown, TasksShown, SessionShown DEF Next

LEMMA NextKept ==
  Inv /\ (~clobbered => Kept /\ Shown) /\ [Next]_vars => (~clobbered' => Kept')
<1> SUFFICES ASSUME Inv, ~clobbered => Kept /\ Shown, [Next]_vars, ~clobbered' PROVE Kept'
  OBVIOUS
<1>1. ASSUME NEW t \in Tasks, NEW o \in Ops, Enqueue(t, o) \/ Discard(t, o) \/ Retry(t, o)
      PROVE  Kept'
  <2>1. ~clobbered
    BY <1>1 DEF Enqueue, Discard, Retry, ghosts
  <2> QED BY <1>1, <2>1, ReadKept
<1>2. ASSUME NEW t \in Tasks, Returns(t) PROVE Kept'
  <2>1. ~clobbered
    BY <1>2 DEF Returns, Enqueued, Discarded, Retried, NotSaved, ghosts, Save
  <2> QED BY <1>2, <2>1, ReturnKept, NotSavedKept DEF Returns
<1>3. ASSUME NEW r \in Runs, Offline(r) \/ Answers(r) \/ Sends(r) PROVE Kept'
  <2>1. ~clobbered
    BY <1>3 DEF Offline, Answers, Sends, Online, Sent, NotSent, AllHandled, Merge, MergeFails, Save,
                Send, SendSignedOut, ghosts
  <2> QED BY <1>3, <2>1, OnlineKept, SendKept, AnswerKept, HandledKept, MergeKept
          DEF Answers, Sends
<1>4. CASE Look \/ Wake \/ OpenQueue \/ SignOut \/ CloseQueue \/ \E u \in Users : SignIn(u)
  <2>1. ~clobbered
    BY <1>4 DEF Look, Wake, OpenQueue, SignOut, CloseQueue, SignIn, ghosts
  <2> QED BY <1>4, <2>1, SessionKept
<1>5. CASE Kill
  BY <1>5, KillKept DEF Kill
<1>6. ASSUME NEW o \in Ops, WaitEnds(o) \/ DayPasses(o) PROVE Kept'
  <2>1. ~clobbered
    BY <1>6 DEF WaitEnds, DayPasses, Later, ghosts
  <2> QED BY <1>6, <2>1, TimeKept
<1>7. CASE UNCHANGED vars
  BY <1>7, QuietKept DEF vars, ghosts
<1> QED BY <1>1, <1>2, <1>3, <1>4, <1>5, <1>6, <1>7 DEF Next

LEMMA KeptAlways == Spec => [](Inv /\ (~clobbered => Kept /\ Shown))
<1>1. Init => Shown
  BY DEF Init, Shown
<1>2. Inv /\ (~clobbered => Kept /\ Shown) /\ [Next]_vars => (~clobbered' => Shown')
  <2> SUFFICES ASSUME Inv, ~clobbered => Kept /\ Shown, [Next]_vars, ~clobbered' PROVE Shown'
    OBVIOUS
  <2>1. clobbered => clobbered'
    BY DEF Next, vars, session, ghosts, Enqueue, Discard, Retry, Returns, Enqueued, Discarded, Retried,
           NotSaved, Offline, Answers, Sends, Online, Sent, NotSent, AllHandled, Merge, MergeFails,
           Send, SendSignedOut, Save, Look, Wake, OpenQueue, SignOut, CloseQueue, SignIn, Kill,
           WaitEnds, DayPasses, Later
  <2> QED BY <2>1, NextShown
<1> QED BY <1>1, <1>2, InitInv, NextInv, InitKept, NextKept, PTL DEF Spec

(* A write the app has said is saved on the phone is in the list of the     *)
(* user who saved it until the server has it or that user has discarded it, *)
(* and a discarded write is in no list again, whatever flush had read it    *)
(* before, whoever signs in meanwhile and whenever the app is ended, as     *)
(* long as no handler has written its list over a newer one.                *)
THEOREM SavedWritesAreKept == Spec => []SavedIsKept
<1>1. Inv /\ (~clobbered => Kept /\ Shown) => SavedIsKept
  <2> SUFFICES ASSUME Inv, Kept PROVE SavedIsKept
    BY DEF SavedIsKept
  <2>1. kept \subseteq Ops /\ discarded \subseteq Ops /\ \A o \in Ops : IsKept(o)
    BY DEF Kept, Inv, TypeOK
  <2> QED BY <2>1 DEF SavedIsKept, IsKept
<1> QED BY <1>1, KeptAlways, PTL

(* The server carries a queued write out a second time only after an answer *)
(* was lost, or the run that had sent the write was cut off or could not    *)
(* write the list back: one run at a time and lists that are the author's   *)
(* alone leave no other way, whatever stale list the screen acts on.        *)
THEOREM NothingIsSentTwice == Spec => []SentOnce
<1>1. Inv /\ (~clobbered => Kept /\ Shown) => SentOnce
  <2> SUFFICES ASSUME Inv, Kept PROVE SentOnce
    BY DEF SentOnce
  <2>1. repeated \subseteq Ops /\ \A o \in Ops : IsKept(o)
    BY DEF Kept, Inv, TypeOK
  <2> QED BY <2>1 DEF SentOnce, IsKept
<1> QED BY <1>1, KeptAlways, PTL
=============================================================================
