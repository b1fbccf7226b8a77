---------------------------- MODULE OfflineQueue ----------------------------
(***************************************************************************)
(* The offline write queue of the mobile app (services/offlineQueue.ts)    *)
(* with the session that drives it (auth/useAuth.ts, context/AppData.tsx). *)
(* One phone, several people who sign in on it one after another.  A job   *)
(* logged without a connection is kept in the queue of its author and sent *)
(* by a flush: on sign-in, on reconnecting, on return to the foreground    *)
(* and after a retry.  Every await is a point where other handlers run:    *)
(* a list is read in one step and written back in a later one, and each    *)
(* send is a step of its own that the server may have carried out although *)
(* the phone saw it fail.                                                  *)
(*                                                                         *)
(* The order inside a list, payloads and texts are left out.  Clocks are   *)
(* two flags of a pending entry: wait (its nextRetryAt is still to come)   *)
(* and old (saved a day ago); of a failed one nothing else is ever read.   *)
(***************************************************************************)
EXTENDS Naturals

CONSTANTS
  Users,   \* principals that sign in on this phone
  Ops,     \* ids of queued writes
  Tasks,   \* calls of enqueue, discard and retry that may be in flight
  Runs,    \* flushes that may be in flight
  Backoffs,\* BACKOFF_SCHEDULE_MS.length (4 in the code)
  None     \* nobody, nothing

ASSUME BackoffsAreMany == Backoffs \in Nat \ {0}
ASSUME NoneIsApart == None \notin Users \cup Ops

VARIABLES
  scope,    \* _scope: whose queue is open; the handler is registered with it
  agent,    \* _agent: the identity a call is signed with
  stored,   \* AsyncStorage: a list per user, and the one without a scope
  screen,   \* QueueStatusScreen: the failed writes it shows, as last read
  task,     \* calls between reading a list and writing it back
  run,      \* flushes
  author,   \* who saved a write
  received, \* under which identities the server has carried out a write
  kept,     \* writes whose enqueue has returned: "Saved on this phone"
  discarded,\* writes whose discard has returned
  doubtful, \* writes the server has carried out and the phone may not know of
  repeated, \* writes carried out more than once
  clobbered \* a list was written over one that had changed since it was read

session == <<scope, agent>>
ghosts == <<author, received, kept, discarded, doubtful, repeated, clobbered>>
vars == <<session, stored, screen, task, run, ghosts>>

Queues == Users \cup {None}
Pending == [status : {"pending"}, tries : 0..Backoffs, wait : BOOLEAN, old : BOOLEAN]
Failed == [status |-> "failed", tries |-> 0, wait |-> FALSE, old |-> FALSE]
Gone == [status |-> "gone", tries |-> 0, wait |-> FALSE, old |-> FALSE]
Fresh == [status |-> "pending", tries |-> 0, wait |-> FALSE, old |-> FALSE]
Lists == [Ops -> Pending \cup {Failed, Gone}]
Nothing == [o \in Ops |-> Gone]

Idle == [pc |-> "idle", queue |-> None, op |-> None, items |-> Nothing]
Asleep == [pc |-> "idle", queue |-> None, items |-> Nothing, updated |-> Nothing,
           latest |-> Nothing, todo |-> {}, done |-> {}, op |-> None, taken |-> FALSE]

Init ==
  /\ scope = None /\ agent = None
  /\ stored = [q \in Queues |-> Nothing]
  /\ screen = {} /\ task = [t \in Tasks |-> Idle]
  /\ run = [r \in Runs |-> Asleep]
  /\ author = [o \in Ops |-> None]
  /\ received = [o \in Ops |-> {}]
  /\ kept = {} /\ discarded = {} /\ doubtful = {} /\ repeated = {}
  /\ clobbered = FALSE

-----------------------------------------------------------------------------
(* save: the list is written under the key of this moment.  It clobbers when
   that list is not the one that was read, or has changed since. *)
Save(queue, read, list) ==
  /\ stored' = [stored EXCEPT ![scope] = list]
  /\ clobbered' = (clobbered \/ scope # queue \/ stored[queue] # read)

(* load: the list of this moment, or an empty one when the storage fails. *)
Loads == {stored[scope], Nothing}

Read(t, kind, o) ==
  /\ task[t].pc = "idle"
  /\ \E items \in Loads :
       task' = [task EXCEPT ![t] = [pc |-> kind, queue |-> scope, op |-> o, items |-> items]]

(* LogJobScreen without a connection, or after a call that failed in the
   network and that the server may still have carried out: enqueue is called. *)
Enqueue(t, o) ==
  /\ scope # None /\ author[o] = None
  /\ Read(t, "enqueue", o)
  /\ author' = [author EXCEPT ![o] = scope]
  /\ \/ UNCHANGED <<received, doubtful>>
     \/ /\ received' = [received EXCEPT ![o] = {scope}]
        /\ doubtful' = doubtful \cup {o}
  /\ UNCHANGED <<session, stored, screen, run, kept, discarded, repeated, clobbered>>

Enqueued(t) ==
  /\ task[t].pc = "enqueue"
  /\ Save(task[t].queue, task[t].items, [task[t].items EXCEPT ![task[t].op] = Fresh])
  /\ kept' = kept \cup {task[t].op}
  /\ task' = [task EXCEPT ![t] = Idle]
  /\ UNCHANGED <<session, screen, run, author, received, discarded, doubtful, repeated>>

(* useOfflineQueue: the screen reads the list, after a change it is told of or
   when it opens, and shows what it has read until it reads again. *)
Look ==
  /\ scope # None
  /\ \E items \in Loads : screen' = {o \in Ops : items[o].status = "failed"}
  /\ UNCHANGED <<session, stored, task, run, ghosts>>

(* QueueStatusScreen offers Discard and Retry on the items it shows as failed,
   which may be something else by now. *)
Discard(t, o) ==
  /\ scope # None /\ o \in screen
  /\ Read(t, "discard", o)
  /\ UNCHANGED <<session, stored, screen, run, ghosts>>

Discarded(t) ==
  /\ task[t].pc = "discard"
  /\ Save(task[t].queue, task[t].items, [task[t].items EXCEPT ![task[t].op] = Gone])
  /\ discarded' = discarded \cup {task[t].op}
  /\ task' = [task EXCEPT ![t] = Idle]
  /\ UNCHANGED <<session, screen, run, author, received, kept, doubtful, repeated>>

Retry(t, o) ==
  /\ scope # None /\ o \in screen
  /\ Read(t, "retry", o)
  /\ UNCHANGED <<session, stored, screen, run, ghosts>>

(* mutant of MayFlush: every call starts a run of its own *)
MayFlushAlways == \E r \in Runs : run[r].pc = "idle"

(* Concurrent calls share one run. *)
MayFlush == \A r \in Runs : run[r].pc = "idle"

(* flush, with the handler of this moment: there is one while someone is
   signed in.  The run waits for the network's answer. *)
Flush(signedIn) ==
  IF signedIn /\ MayFlush
  THEN LET r == CHOOSE x \in Runs : run[x].pc = "idle" IN run' = [run EXCEPT ![r].pc = "ask"]
  ELSE UNCHANGED run

(* The failed item gets a fresh day and a fresh set of attempts. *)
Again(e) == IF e.status = "failed" THEN Fresh ELSE [e EXCEPT !.wait = FALSE]

(* The item may be gone by now.  The screen flushes at once. *)
Retried(t) ==
  LET o == task[t].op  e == task[t].items[o] IN
  /\ task[t].pc = "retry"
  /\ Save(task[t].queue, task[t].items, [task[t].items EXCEPT ![o] = Again(e)])
  /\ task' = [task EXCEPT ![t] = Idle]
  /\ Flush(scope # None)
  /\ UNCHANGED <<session, screen, author, received, kept, discarded, doubtful, repeated>>

(* The storage refuses the write of an enqueue, a discard or a retry, which
   rejects: the list is as it was, "Could not save job" says LogJobScreen, and
   a retry does not flush. *)
NotSaved(t) ==
  /\ task[t].pc # "idle"
  /\ task' = [task EXCEPT ![t] = Idle]
  /\ UNCHANGED <<session, stored, screen, run, ghosts>>

-----------------------------------------------------------------------------
(* The app comes to the foreground or the phone reconnects. *)
Wake ==
  /\ scope # None /\ MayFlush
  /\ Flush(TRUE)
  /\ UNCHANGED <<session, stored, screen, task, ghosts>>

Offline(r) ==
  /\ run[r].pc = "ask"
  /\ run' = [run EXCEPT ![r] = Asleep]
  /\ UNCHANGED <<session, stored, screen, task, ghosts>>

(* An item too old to send unattended is parked for the user. *)
TooOld(e) == IF e.old THEN Failed ELSE e

IsDue(e) == e.status = "pending" /\ ~e.old /\ ~e.wait

(* The network is there: whose queue this is, and its items, are read. *)
Online(r) ==
  /\ run[r].pc = "ask"
  /\ \E items \in Loads :
       run' = [run EXCEPT ![r] =
         [@ EXCEPT !.pc = "send", !.queue = scope, !.items = items,
                   !.updated = [o \in Ops |-> TooOld(items[o])],
                   !.todo = {o \in Ops : IsDue(items[o])}]]
  /\ UNCHANGED <<session, stored, screen, task, ghosts>>

(* The handler calls createJob, which takes the agent of this moment.  The
   request may be carried out or be lost on its way. *)
Send(r, o) ==
  /\ run[r].pc = "send" /\ o \in run[r].todo /\ agent # None
  /\ \E taken \in BOOLEAN :
       /\ run' = [run EXCEPT ![r] =
            [@ EXCEPT !.pc = "reply", !.op = o, !.todo = run[r].todo \ {o}, !.taken = taken]]
       /\ IF taken
          THEN /\ received' = [received EXCEPT ![o] = @ \cup {agent}]
               /\ repeated' = IF received[o] # {} THEN repeated \cup {o} ELSE repeated
          ELSE UNCHANGED <<received, repeated>>
  /\ UNCHANGED <<session, stored, screen, task, author, kept, discarded, doubtful, clobbered>>

(* mutant of Failing: a fifth failure waits like the others *)
FailingForever(e) ==
  IF e.tries >= Backoffs THEN [e EXCEPT !.wait = TRUE]
  ELSE [e EXCEPT !.tries = @ + 1, !.wait = TRUE]

(* An attempt that failed: the next wait of the schedule, or up to the user. *)
Failing(e) ==
  IF e.tries >= Backoffs THEN Failed
  ELSE [e EXCEPT !.tries = @ + 1, !.wait = TRUE]

(* Signed out: getIcpAgent throws, which counts as an attempt. *)
SendSignedOut(r, o) ==
  /\ run[r].pc = "send" /\ o \in run[r].todo /\ agent = None
  /\ run' = [run EXCEPT ![r] =
       [@ EXCEPT !.todo = run[r].todo \ {o},
                 !.updated = [run[r].updated EXCEPT ![o] = Failing(run[r].items[o])]]]
  /\ UNCHANGED <<session, stored, screen, task, ghosts>>

(* The answer: success only when the server has carried the write out. *)
Sent(r) ==
  LET o == run[r].op IN
  /\ run[r].pc = "reply" /\ run[r].taken
  /\ run' = [run EXCEPT ![r] =
       [@ EXCEPT !.pc = "send", !.op = None, !.taken = FALSE,
                 !.updated = [run[r].updated EXCEPT ![o] = Gone],
                 !.done = run[r].done \cup {o}]]
  /\ UNCHANGED <<session, stored, screen, task, ghosts>>

NotSent(r) ==
  LET o == run[r].op IN
  /\ run[r].pc = "reply"
  /\ run' = [run EXCEPT ![r] =
       [@ EXCEPT !.pc = "send", !.op = None, !.taken = FALSE,
                 !.updated = [run[r].updated EXCEPT ![o] = Failing(run[r].items[o])]]]
  /\ doubtful' = IF run[r].taken THEN doubtful \cup {o} ELSE doubtful
  /\ UNCHANGED <<session, stored, screen, task, author, received, kept, discarded, repeated, clobbered>>

SameUser(r) == run[r].queue = scope

(* All items are handled.  After a sign-out the queue is left as it was; else
   the list is read again ... *)
AllHandled(r) ==
  /\ run[r].pc = "send" /\ run[r].todo = {}
  /\ IF SameUser(r)
     THEN /\ \E items \in Loads :
               run' = [run EXCEPT ![r] = [@ EXCEPT !.pc = "merge", !.latest = items]]
          /\ UNCHANGED doubtful
     ELSE /\ run' = [run EXCEPT ![r] = Asleep]
          /\ doubtful' = doubtful \cup run[r].done
  /\ UNCHANGED <<session, stored, screen, task, author, received, kept, discarded, repeated, clobbered>>

(* mutant of Merged: what was deleted meanwhile is written back *)
MergedAll(r) ==
  [o \in Ops |-> IF run[r].items[o] # Gone THEN run[r].updated[o] ELSE run[r].latest[o]]

(* ... and what this run has seen gets its new state, unless it is gone. *)
Merged(r) ==
  [o \in Ops |-> IF run[r].latest[o] = Gone THEN Gone
                 ELSE IF run[r].items[o] # Gone THEN run[r].updated[o] ELSE run[r].latest[o]]

Merge(r) ==
  /\ run[r].pc = "merge"
  /\ Save(run[r].queue, run[r].latest, Merged(r))
  /\ run' = [run EXCEPT ![r] = Asleep]
  /\ UNCHANGED <<session, screen, task, author, received, kept, discarded, doubtful, repeated>>

(* The storage refuses the write: the flush rejects, which its callers ignore,
   and what it has sent is still in the list. *)
MergeFails(r) ==
  /\ run[r].pc = "merge"
  /\ run' = [run EXCEPT ![r] = Asleep]
  /\ doubtful' = doubtful \cup run[r].done
  /\ UNCHANGED <<session, stored, screen, task, author, received, kept, discarded, repeated, clobbered>>

-----------------------------------------------------------------------------
(* finishSignIn sets the agent; the screens and their effect follow. *)
SignIn(u) ==
  /\ scope = None /\ agent = None
  /\ agent' = u
  /\ UNCHANGED <<scope, stored, screen, task, run, ghosts>>

(* The effect of AppData: the user's queue is opened and flushed. *)
OpenQueue ==
  /\ scope = None /\ agent # None
  /\ scope' = agent
  /\ Flush(TRUE)
  /\ UNCHANGED <<agent, stored, screen, task, ghosts>>

(* logout, expire: the agent is forgotten at once ... *)
SignOut ==
  /\ scope # None /\ agent # None
  /\ agent' = None
  /\ UNCHANGED <<scope, stored, screen, task, run, ghosts>>

(* ... the screens follow, and the clean-up of the effect runs. *)
CloseQueue ==
  /\ scope # None /\ agent = None
  /\ scope' = None /\ screen' = {}
  /\ UNCHANGED <<agent, stored, task, run, ghosts>>

(* The app is ended: what was in flight is lost, the lists stay. *)
Kill ==
  /\ scope' = None /\ agent' = None /\ screen' = {}
  /\ task' = [t \in Tasks |-> Idle]
  /\ run' = [r \in Runs |-> Asleep]
  /\ doubtful' = doubtful \cup (UNION {run[r].done : r \in Runs})
                          \cup {run[r].op : r \in {x \in Runs : run[x].taken}}
  /\ UNCHANGED <<stored, author, received, kept, discarded, repeated, clobbered>>

(* Time passes for every copy of an entry, stored or in a handler's hands. *)
Later(o, Becomes(_)) ==
  LET Aged(list) == [list EXCEPT ![o] = Becomes(list[o])] IN
  /\ stored' = [q \in Queues |-> Aged(stored[q])]
  /\ task' = [t \in Tasks |-> [task[t] EXCEPT !.items = Aged(task[t].items)]]
  /\ run' = [r \in Runs |-> [run[r] EXCEPT !.items = Aged(run[r].items),
                                           !.updated = Aged(run[r].updated),
                                           !.latest = Aged(run[r].latest)]]
  /\ UNCHANGED <<session, screen, ghosts>>

WaitEnds(o) ==
  /\ \E q \in Queues : stored[q][o].wait
  /\ LET Over(e) == [e EXCEPT !.wait = FALSE] IN Later(o, Over)

DayPasses(o) ==
  /\ \E q \in Queues : stored[q][o].status = "pending" /\ ~stored[q][o].old
  /\ LET Old(e) == [e EXCEPT !.old = (e.status = "pending")] IN Later(o, Old)

-----------------------------------------------------------------------------
Returns(t) == Enqueued(t) \/ Discarded(t) \/ Retried(t) \/ NotSaved(t)
Answers(r) == Online(r) \/ Sent(r) \/ NotSent(r) \/ AllHandled(r) \/ Merge(r) \/ MergeFails(r)
Sends(r) == \E o \in Ops : Send(r, o) \/ SendSignedOut(r, o)

Next ==
  \/ \E t \in Tasks, o \in Ops : Enqueue(t, o) \/ Discard(t, o) \/ Retry(t, o)
  \/ \E t \in Tasks : Returns(t)
  \/ \E r \in Runs : Offline(r) \/ Answers(r) \/ Sends(r)
  \/ \E u \in Users : SignIn(u)
  \/ Look \/ Wake \/ OpenQueue \/ SignOut \/ CloseQueue \/ Kill
  \/ \E o \in Ops : WaitEnds(o) \/ DayPasses(o)

(* Handlers that have started go on, waits end, someone who is signed in comes
   back to the app, and network and storage answer again and again, at times
   all through a flush: one that has read items also writes them.  Nobody has to sign in, log a job, retry or discard, and the server need not accept. *)
Fairness ==
  /\ \A t \in Tasks : WF_vars(Returns(t))
  /\ \A r \in Runs : WF_vars(Sends(r)) /\ WF_vars(Sent(r) \/ NotSent(r))
                     /\ WF_vars(AllHandled(r))
                     /\ WF_vars(Merge(r) \/ MergeFails(r))
                     /\ SF_vars(Merge(r) /\ run[r].items # Nothing)
                     /\ SF_vars(Online(r) /\ run'[r].items = stored[scope])
  /\ WF_vars(OpenQueue) /\ WF_vars(CloseQueue) /\ WF_vars(Wake)
  /\ \A o \in Ops : WF_vars(WaitEnds(o))

Spec == Init /\ [][Next]_vars /\ Fairness

-----------------------------------------------------------------------------
TypeOK ==
  /\ scope \in Queues /\ agent \in Queues
  /\ stored \in [Queues -> Lists] /\ screen \subseteq Ops
  /\ task \in [Tasks -> [pc : {"idle", "enqueue", "discard", "retry"}, queue : Queues,
                         op : Ops \cup {None}, items : Lists]]
  /\ run \in [Runs -> [pc : {"idle", "ask", "send", "reply", "merge"}, queue : Queues,
                       items : Lists, updated : Lists, latest : Lists, todo : SUBSET Ops,
                       done : SUBSET Ops, op : Ops \cup {None}, taken : BOOLEAN]]
  /\ author \in [Ops -> Queues] /\ received \in [Ops -> SUBSET Users]
  /\ kept \subseteq Ops /\ discarded \subseteq Ops /\ doubtful \subseteq Ops
  /\ repeated \subseteq Ops /\ clobbered \in BOOLEAN

(* "Nothing the user saved disappears": a write the app has said is saved is in
   its author's list until the server has it or the user has discarded it; and
   what was discarded does not come back with a run that had read it before. *)
SavedIsKept ==
  ~clobbered =>
    /\ \A o \in kept : stored[author[o]][o] # Gone \/ received[o] # {} \/ o \in discarded
    /\ \A o \in discarded, q \in Queues : stored[q][o] = Gone

(* "Nothing is sent twice": the server carries a write out once more only when
   the phone could not know or could not note that it had: an answer was lost,
   or the run that had sent it was cut off or could not write the list back.
   Two flushes, a retry of what is being sent and a discard never repeat one. *)
SentOnce == ~clobbered => repeated \subseteq doubtful

(* While a user stays signed in and leaves the queue alone, no write in it is
   pending for ever: it is sent, or it fails and is the user's to retry. *)
PendingResolves ==
  \A u \in Users, o \in Ops :
    <>[](scope = u /\ agent = u /\ ~clobbered /\ \A t \in Tasks : task[t].pc = "idle")
      => []<>(stored[u][o].status # "pending")
=============================================================================
