------------------------------- MODULE Relay -------------------------------
(***************************************************************************)
(* The notification relay: canister outboxes (backend/shared/Notify.mo)    *)
(* and the poller that reads them (agents/notifications/poller.ts,         *)
(* events.ts, persist.ts).  A pass sends the held alerts that are due and  *)
(* then reads every outbox after its cursor, event by event.  Every await  *)
(* is a point where canisters record events, time passes, a lookup fails   *)
(* or the process ends; the file keeps the cursors and the held alerts.    *)
(*                                                                         *)
(* An event tells one user something, asks one for a review of a           *)
(* contractor with ContractorPro, or is a lead: then every contractor      *)
(* (here, every user) is told, with ContractorPro at once, the others when *)
(* a delay has passed.  To send an alert is to hand it to every channel    *)
(* its recipient wants; a channel that fails is not tried again.           *)
(***************************************************************************)
EXTENDS Naturals, FiniteSets

CONSTANTS
  Canisters,     \* canisters with an outbox
  Recipients,    \* whom the relay tells
  Told,          \* whom the events of a canister are for; None: a lead
  Reviewed,      \* the contractors its events ask a review of; None: of nobody
  Passes,        \* passes of the poller that may be under way
  MaxSeq,        \* events each canister records
  MaxReinstalls, \* how often each canister is reinstalled
  MaxEvents,     \* events an outbox keeps (1000 in the code)
  PageSize,      \* events in a page (200 in the code)
  MaxFaults,     \* crashes of the relay, failed writes of its file and
                 \* reinstallations in all
  None

ASSUME RelayLimits ==
  /\ MaxSeq \in [Canisters -> Nat] /\ MaxReinstalls \in [Canisters -> Nat]
  /\ MaxFaults \in Nat /\ MaxEvents \in Nat \ {0} /\ PageSize \in Nat \ {0}
ASSUME CanistersArePolled == IsFiniteSet(Canisters) /\ Canisters # {}
ASSUME EventsTellUsers == Told \in [Canisters -> SUBSET (Recipients \cup {None})]
ASSUME LeadsAskNoReview ==
  /\ Reviewed \in [Canisters -> SUBSET (Recipients \cup {None})]
  /\ \A c \in Canisters : None \in Told[c] => Reviewed[c] = {None}
ASSUME NoneIsApart == None \notin Canisters \cup Recipients \cup Nat

VARIABLES
  latest,  \* canister: the last number given to an event
  outbox,  \* canister: the events kept
  closed,  \* canister: leads whose request is closed
  age,     \* canister: how often it was reinstalled
  cursor,  \* relay and its file: the last event handled
  held,    \* relay: alerts that wait
  saved,   \* file: alerts that wait
  due,     \* alerts whose delay is over
  pass,    \* relay: passes; `polling` is that one is not idle
  first,   \* ghost: the event after which the relay began to read
  stale,   \* ghost: the cursor is of a canister that was reinstalled since
  crashes, \* ghost: how often the relay has crashed or its file was not written
  unasked, \* ghost, canister: the review requests passed over, since the lookup
           \* did not show that their contractor has ContractorPro
  sent     \* ghost: how often an alert was sent

canister == <<latest, outbox, closed, age>>
memory == <<held, pass>>
reading == <<cursor, first, stale>>
relayVars == <<canister, reading, memory, saved, due, crashes, unasked, sent>>

EventsOf(c) ==
  [seq : 1..MaxSeq[c], age : 0..MaxReinstalls[c], to : Told[c], about : Reviewed[c]]
IsLead(e) == e.to = None
Leads == {c \in Canisters : None \in Told[c]}
AlertsOf(c) == [canister : {c}, seq : 1..MaxSeq[c], age : 0..MaxReinstalls[c], to : Recipients]
Alerts == UNION {AlertsOf(c) : c \in Canisters}
Alert(c, e, u) == [canister |-> c, seq |-> e.seq, age |-> e.age, to |-> u]
Key(a) == <<a.canister, a.seq, a.age>>

Asleep == [pc |-> "idle", flush |-> {}, ready |-> {}, alert |-> None, left |-> {},
           page |-> {}, full |-> FALSE, todo |-> {}]
(* The outboxes are read in a fixed order. *)
At(p) == CHOOSE c \in pass[p].left : TRUE

RelayInit ==
  /\ latest = [c \in Canisters |-> 0] /\ outbox = [c \in Canisters |-> {}]
  /\ closed = {} /\ age = [c \in Canisters |-> 0]
  /\ cursor = [c \in Canisters |-> None]
  /\ first = [c \in Canisters |-> 0] /\ stale = [c \in Canisters |-> FALSE]
  /\ held = {} /\ saved = {} /\ due = {}
  /\ pass = [p \in Passes |-> Asleep]
  /\ crashes = 0 /\ unasked = [c \in Canisters |-> {}] /\ sent = [a \in Alerts |-> 0]

-----------------------------------------------------------------------------
(* Canisters. *)
Newest(events) == {e \in events : Cardinality({x \in events : x.seq > e.seq}) < MaxEvents}

(* record: the outbox keeps the newest events. *)
Record(c, to, about) ==
  /\ latest[c] < MaxSeq[c] /\ to \in Told[c] /\ about \in Reviewed[c]
  /\ latest' = [latest EXCEPT ![c] = @ + 1]
  /\ outbox' = [outbox EXCEPT ![c] =
       Newest(@ \cup {[seq |-> latest[c] + 1, age |-> age[c], to |-> to, about |-> about]})]
  /\ UNCHANGED <<closed, age, reading, memory, saved, due, crashes, unasked, sent>>

(* The request of a lead is accepted, cancelled or closed. *)
CloseRequest(c, e) ==
  /\ e \in outbox[c] /\ IsLead(e)
  /\ closed' = closed \cup {<<c, e.seq, e.age>>}
  /\ UNCHANGED <<latest, outbox, age, reading, memory, saved, due, crashes, unasked, sent>>

Faults == crashes + Cardinality(UNION {{c} \X (1..age[c]) : c \in Canisters})

(* A reinstalled canister has lost its records and counts from 1 again. *)
Reinstall(c) ==
  /\ Faults < MaxFaults /\ age[c] < MaxReinstalls[c]
  /\ age' = [age EXCEPT ![c] = @ + 1]
  /\ latest' = [latest EXCEPT ![c] = 0] /\ outbox' = [outbox EXCEPT ![c] = {}]
  /\ stale' = [stale EXCEPT ![c] = cursor[c] \notin {None, 0}]
  /\ UNCHANGED <<closed, cursor, first, memory, saved, due, crashes, unasked, sent>>

-----------------------------------------------------------------------------
(* The relay: alerts that wait. *)
DelayEnds(a) ==
  /\ a \in held \ due
  /\ due' = due \cup {a}
  /\ UNCHANGED <<canister, reading, memory, saved, crashes, unasked, sent>>

(* mutant of MayStart: a pass begins while another is under way *)
MayStartAnyway == TRUE

(* The previous pass may still be running. *)
MayStart == \A p \in Passes : pass[p].pc = "idle"

(* pollOnce, by the timer; flushHeld takes the alerts that are due now. *)
StartPass ==
  /\ MayStart /\ \E p \in Passes : pass[p].pc = "idle"
  /\ LET p == CHOOSE x \in Passes : pass[x].pc = "idle"
     IN pass' = [pass EXCEPT ![p].pc = "next", ![p].flush = held \cap due, ![p].left = Canisters]
  /\ UNCHANGED <<canister, reading, held, saved, due, crashes, unasked, sent>>

Of(p, k) == {a \in pass[p].flush : Key(a) = k}

(* mutant of RequestAnswers: an alert whose request is closed is passed over *)
RequestAnswersOpen(p, k) ==
  /\ pass[p].pc = "next" /\ pass[p].ready = {} /\ Of(p, k) # {}
  /\ pass' = [pass EXCEPT ![p].flush = @ \ Of(p, k),
                          ![p].ready = IF k \notin closed /\ k[3] = age[k[1]] THEN Of(p, k) ELSE {}]
  /\ UNCHANGED <<canister, reading, held, saved, due, crashes, unasked, sent>>

(* The request of a lead is asked for once in a pass: its alerts are sent,
   or dropped when it is closed or gone. *)
RequestAnswers(p, k) ==
  /\ pass[p].pc = "next" /\ pass[p].ready = {} /\ Of(p, k) # {}
  /\ IF k \notin closed /\ k[3] = age[k[1]]
     THEN /\ pass' = [pass EXCEPT ![p].ready = Of(p, k), ![p].flush = @ \ Of(p, k)]
          /\ UNCHANGED <<held, saved>>
     ELSE /\ pass' = [pass EXCEPT ![p].flush = @ \ Of(p, k)]
          /\ held' = held \ Of(p, k) /\ saved' = held'
  /\ UNCHANGED <<canister, reading, due, crashes, unasked, sent>>

(* The alerts stay for the next pass. *)
RequestFails(p, k) ==
  /\ pass[p].pc = "next" /\ pass[p].ready = {} /\ Of(p, k) # {}
  /\ pass' = [pass EXCEPT ![p].flush = @ \ Of(p, k)]
  /\ UNCHANGED <<canister, reading, held, saved, due, crashes, unasked, sent>>

SendHeld(p, a) ==
  /\ pass[p].pc = "next" /\ a \in pass[p].ready
  /\ sent' = [sent EXCEPT ![a] = @ + 1]
  /\ pass' = [pass EXCEPT ![p].pc = "sent", ![p].alert = a, ![p].ready = @ \ {a}]
  /\ UNCHANGED <<canister, reading, held, saved, due, crashes, unasked>>

DropHeld(p) ==
  /\ pass[p].pc = "sent"
  /\ held' = held \ {pass[p].alert} /\ saved' = held'
  /\ pass' = [pass EXCEPT ![p].pc = "next", ![p].alert = None]
  /\ UNCHANGED <<canister, reading, due, crashes, unasked, sent>>

(* The file cannot be written: the alert is off the list, but still in it. *)
DropNotSaved(p) ==
  /\ pass[p].pc = "sent"
  /\ Faults < MaxFaults /\ crashes' = crashes + 1
  /\ held' = held \ {pass[p].alert}
  /\ pass' = [pass EXCEPT ![p].pc = "next", ![p].alert = None]
  /\ UNCHANGED <<canister, reading, saved, due, unasked, sent>>

-----------------------------------------------------------------------------
(* The relay: outboxes. *)
(* getNotificationEvents: the oldest events after the cursor. *)
PageAfter(c, seq) ==
  LET new == {e \in outbox[c] : e.seq > seq}
  IN {e \in new : Cardinality({x \in new : x.seq < e.seq}) < PageSize}

Handling(p, page) ==
  [pass[p] EXCEPT !.pc = "events", !.page = page,
                  !.full = (Cardinality(page) = PageSize)]

(* The next outbox, or the end of the pass. *)
NextOutbox(p) ==
  LET left == pass[p].left \ {At(p)}
  IN IF left = {} THEN Asleep ELSE [Asleep EXCEPT !.pc = "next", !.left = left]

(* mutant of Abandon: an outbox that fails ends the pass *)
AbandonAll(p) == Asleep

(* An outbox that fails leaves its events to the next pass. *)
Abandon(p) == NextOutbox(p)

Flushed(p) == pass[p].pc = "next" /\ pass[p].flush = {} /\ pass[p].ready = {}

(* The first reading begins at the end; a cursor the canister has not reached
   yet is one of before its reinstallation. *)
ReadOutbox(p) ==
  LET c == At(p) IN
  /\ Flushed(p)
  /\ \/ /\ cursor[c] = None
        /\ cursor' = [cursor EXCEPT ![c] = latest[c]] /\ first' = [first EXCEPT ![c] = latest[c]]
        /\ stale' = stale
        /\ pass' = [pass EXCEPT ![p] = NextOutbox(p)]
     \/ /\ cursor[c] # None /\ latest[c] < cursor[c]
        /\ cursor' = [cursor EXCEPT ![c] = 0] /\ first' = [first EXCEPT ![c] = 0]
        /\ stale' = [stale EXCEPT ![c] = FALSE]
        /\ pass' = [pass EXCEPT ![p].pc = "again"]
     \/ /\ cursor[c] # None /\ latest[c] >= cursor[c]
        /\ pass' = [pass EXCEPT ![p] = Handling(p, PageAfter(c, cursor[c]))]
        /\ UNCHANGED reading
  /\ UNCHANGED <<canister, held, saved, due, crashes, unasked, sent>>

OutboxFails(p) ==
  /\ Flushed(p)
  /\ pass' = [pass EXCEPT ![p] = Abandon(p)]
  /\ UNCHANGED <<canister, reading, held, saved, due, crashes, unasked, sent>>

(* After a restart from 0, or after a full page. *)
WantsPage(p) ==
  \/ pass[p].pc = "again"
  \/ pass[p].pc = "events" /\ pass[p].page = {} /\ pass[p].full

ReadPage(p) ==
  LET c == At(p) IN
  /\ WantsPage(p)
  /\ pass' = [pass EXCEPT ![p] = Handling(p, PageAfter(c, cursor[c]))]
  /\ UNCHANGED <<canister, reading, held, saved, due, crashes, unasked, sent>>

PageFails(p) ==
  /\ WantsPage(p)
  /\ pass' = [pass EXCEPT ![p] = Abandon(p)]
  /\ UNCHANGED <<canister, reading, held, saved, due, crashes, unasked, sent>>

Oldest(page) == CHOOSE e \in page : \A x \in page : e.seq <= x.seq

Notices == [to : Recipients, late : BOOLEAN]

PassedOver(e, pro) == e.about \notin pro \cup {None}

(* notificationsFor, where `pro` are the users a lookup has shown to have
   ContractorPro: a lookup that fails shows nothing.  A lead is told to them at
   once, to nobody when its request is closed; only their reviews are asked for. *)
NoticesOf(c, e, pro) ==
  IF ~IsLead(e) THEN IF PassedOver(e, pro) THEN {} ELSE {[to |-> e.to, late |-> FALSE]}
  ELSE IF <<c, e.seq, e.age>> \in closed \/ e.age # age[c] THEN {}
  ELSE {[to |-> u, late |-> u \notin pro] : u \in Recipients}

LookUp(p, pro) ==
  LET e == Oldest(pass[p].page)  c == At(p) IN
  /\ pass[p].pc = "events" /\ pass[p].page # {}
  /\ pass' = [pass EXCEPT ![p].pc = "notify", ![p].todo = NoticesOf(c, e, pro)]
  /\ unasked' = [unasked EXCEPT ![c] = @ \cup {x \in {e} : PassedOver(x, pro)}]
  /\ UNCHANGED <<canister, reading, held, saved, due, crashes, sent>>

(* A lead whose request or contractors cannot be fetched, and what comes after
   it, wait for the next pass. *)
LookUpFails(p) ==
  /\ pass[p].pc = "events" /\ pass[p].page # {} /\ IsLead(Oldest(pass[p].page))
  /\ pass' = [pass EXCEPT ![p] = Abandon(p)]
  /\ UNCHANGED <<canister, reading, held, saved, due, crashes, unasked, sent>>

(* An alert is told from another by `${canisterId}:${seq}` and its recipient. *)
IsHeld(a) == \E x \in held : x.canister = a.canister /\ x.seq = a.seq /\ x.to = a.to

Hold(p, n) ==
  LET a == Alert(At(p), Oldest(pass[p].page), n.to) IN
  /\ pass[p].pc = "notify" /\ n \in pass[p].todo /\ n.late
  /\ IF IsHeld(a) THEN UNCHANGED <<held, due>>
     ELSE held' = held \cup {a} /\ due' = due \ {a}
  /\ pass' = [pass EXCEPT ![p].todo = @ \ {n}]
  /\ UNCHANGED <<canister, reading, saved, crashes, unasked, sent>>

Deliver(p, n) ==
  LET a == Alert(At(p), Oldest(pass[p].page), n.to) IN
  /\ pass[p].pc = "notify" /\ n \in pass[p].todo /\ ~n.late
  /\ sent' = [sent EXCEPT ![a] = @ + 1]
  /\ pass' = [pass EXCEPT ![p].todo = @ \ {n}]
  /\ UNCHANGED <<canister, reading, held, saved, due, crashes, unasked>>

(* mutant of Handled: alerts that wait are kept in memory only *)
HandledUnsaved(p) ==
  LET e == Oldest(pass[p].page)  c == At(p) IN
  /\ pass[p].pc = "notify" /\ pass[p].todo = {}
  /\ cursor' = [cursor EXCEPT ![c] = e.seq]
  /\ stale' = [stale EXCEPT ![c] = @ \/ e.age # age[c]]
  /\ pass' = [pass EXCEPT ![p].pc = "events", ![p].page = @ \ {e}]
  /\ UNCHANGED <<canister, first, held, saved, due, crashes, unasked, sent>>

(* saveHeld, then setCursor: what a crash in between leaves is what
   OtherSave and a crash leave. *)
Handled(p) ==
  LET e == Oldest(pass[p].page)  c == At(p) IN
  /\ pass[p].pc = "notify" /\ pass[p].todo = {}
  /\ saved' = held
  /\ cursor' = [cursor EXCEPT ![c] = e.seq]
  /\ stale' = [stale EXCEPT ![c] = @ \/ e.age # age[c]]
  /\ pass' = [pass EXCEPT ![p].pc = "events", ![p].page = @ \ {e}]
  /\ UNCHANGED <<canister, first, held, due, crashes, unasked, sent>>

(* The file cannot be written: the event is left to the next pass. *)
NotSaved(p) ==
  /\ pass[p].pc = "notify" /\ pass[p].todo = {}
  /\ Faults < MaxFaults /\ crashes' = crashes + 1
  /\ pass' = [pass EXCEPT ![p] = Abandon(p)]
  /\ UNCHANGED <<canister, reading, held, saved, due, unasked, sent>>

OutboxDone(p) ==
  /\ pass[p].pc = "events" /\ pass[p].page = {} /\ ~pass[p].full
  /\ pass' = [pass EXCEPT ![p] = NextOutbox(p)]
  /\ UNCHANGED <<canister, reading, held, saved, due, crashes, unasked, sent>>

(* A registration writes the whole file, with the alerts held by now. *)
OtherSave ==
  /\ saved # held /\ saved' = held
  /\ UNCHANGED <<canister, reading, memory, due, crashes, unasked, sent>>

(* The relay ends and starts again from its file. *)
Crash ==
  /\ Faults < MaxFaults /\ crashes' = crashes + 1
  /\ held' = saved
  /\ pass' = [p \in Passes |-> Asleep]
  /\ UNCHANGED <<canister, reading, saved, due, unasked, sent>>

-----------------------------------------------------------------------------
LeadAlerts == UNION {AlertsOf(c) : c \in Leads}
Keys == UNION {{c} \X (1..MaxSeq[c]) \X (0..MaxReinstalls[c]) : c \in Leads}
Flushes(p) ==
  \/ \E k \in Keys : RequestAnswers(p, k) \/ RequestFails(p, k)
  \/ \E a \in LeadAlerts : SendHeld(p, a)
  \/ DropHeld(p) \/ DropNotSaved(p)

Reads(p) ==
  \/ ReadOutbox(p) \/ OutboxFails(p)
  \/ ReadPage(p) \/ PageFails(p)
  \/ OutboxDone(p)

Handles(p) ==
  \/ \E pro \in SUBSET Recipients : LookUp(p, pro)
  \/ LookUpFails(p)
  \/ \E n \in Notices : Hold(p, n) \/ Deliver(p, n)
  \/ Handled(p) \/ NotSaved(p)

RelayNext ==
  \/ \E c \in Canisters, to, about \in Recipients \cup {None} : Record(c, to, about)
  \/ \E c \in Canisters : Reinstall(c) \/ \E e \in EventsOf(c) : CloseRequest(c, e)
  \/ \E a \in LeadAlerts : DelayEnds(a)
  \/ StartPass
  \/ \E p \in Passes : Flushes(p) \/ Reads(p) \/ Handles(p)
  \/ OtherSave \/ Crash

(* The timer starts passes, a pass goes on (every call returns or fails),
   delays end, a request that is asked for again and again answers, and so
   does an outbox.  The lookups a lead needs may fail for ever. *)
Fairness ==
  /\ WF_relayVars(StartPass)
  /\ \A p \in Passes : WF_relayVars(Flushes(p) \/ Reads(p) \/ Handles(p))
  /\ \A a \in LeadAlerts : WF_relayVars(DelayEnds(a))
  /\ \A k \in Keys : SF_relayVars(\E p \in Passes : RequestAnswers(p, k))
  /\ \A c \in Canisters :
       SF_relayVars(\E p \in Passes : pass[p].left # {} /\ At(p) = c /\ (ReadOutbox(p) \/ ReadPage(p)))

RelaySpec == RelayInit /\ [][RelayNext]_relayVars /\ Fairness

-----------------------------------------------------------------------------
RelayTypeOK ==
  /\ \A c \in Canisters :
       /\ latest[c] \in 0..MaxSeq[c] /\ outbox[c] \subseteq EventsOf(c)
       /\ age[c] \in 0..MaxReinstalls[c]
       /\ cursor[c] \in (0..MaxSeq[c]) \cup {None} /\ first[c] \in 0..MaxSeq[c]
       /\ unasked[c] \subseteq EventsOf(c)
  /\ closed \subseteq Keys /\ stale \in [Canisters -> BOOLEAN]
  /\ held \subseteq LeadAlerts /\ saved \subseteq LeadAlerts /\ due \subseteq LeadAlerts
  /\ crashes \in 0..MaxFaults
  /\ pass \in [Passes ->
       [pc : {"idle", "next", "sent", "again", "events", "notify"},
        flush : SUBSET LeadAlerts, ready : SUBSET LeadAlerts, alert : LeadAlerts \cup {None},
        left : SUBSET Canisters, page : SUBSET UNION {EventsOf(c) : c \in Canisters},
        full : BOOLEAN, todo : SUBSET Notices]]
  /\ sent \in [Alerts -> Nat]

Audience(e) == IF IsLead(e) THEN Recipients ELSE {e.to}

(* Its recipients were sent an event, or it waits for them in the file, or
   there is nothing left to tell, or nothing to ask. *)
IsTold(c, e) ==
  \/ IsLead(e) /\ <<c, e.seq, e.age>> \in closed
  \/ e \in unasked[c]
  \/ \A u \in Audience(e) : sent[Alert(c, e, u)] > 0 \/ Alert(c, e, u) \in saved

(* "A crash or a failed lookup resumes at the first unsent event rather than
   skipping it": no event behind the cursor has been skipped, nor has an alert
   that waits been lost.  A review request is an exception to the text: it is
   skipped when the lookup does not show, or fails, that its contractor has
   ContractorPro.  Left out: what was recorded before the relay first
   read the outbox, a reinstallation that the cursor does not show, and
   leads of a reinstalled canister, which share their keys with old ones. *)
NothingSkipped ==
  \A c \in Canisters : \A e \in outbox[c] :
    /\ cursor[c] # None /\ ~stale[c] /\ first[c] < e.seq /\ e.seq <= cursor[c]
    /\ IsLead(e) => e.age = 0
    => IsTold(c, e)

(* "So each event is sent once": once more only for each crash or failed write. *)
SentOnce == \A a \in Alerts : sent[a] <= 1 + crashes

Unread(c, e) == e \in outbox[c] /\ cursor[c] # None /\ cursor[c] < e.seq

Notifies(c) == {e \in EventsOf(c) : ~IsLead(e)}

(* "A failing canister doesn't stop the others": an event for one user that the
   relay has yet to read is told in the end, unless it is pruned before, or a
   lead of the same canister that cannot be looked up holds it back. *)
EventsAreTold ==
  \A c \in Canisters : \A e \in Notifies(c) :
    Unread(c, e)
      ~> \/ IsTold(c, e) \/ e \notin outbox[c] \/ stale[c]
         \/ \E x \in outbox[c] : IsLead(x) /\ x.seq <= e.seq /\ Unread(c, x)

(* An alert that waits is sent or dropped in the end. *)
HeldAlertsEnd == \A a \in LeadAlerts : a \in held ~> a \notin held
=============================================================================
