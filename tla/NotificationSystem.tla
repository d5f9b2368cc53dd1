--------------------------- MODULE NotificationSystem ---------------------------
(***************************************************************************)
(* The processes over the one schema `notification`: workers (the whole of *)
(* EventConsumer), calls of the API (the whole of NotificationApi, with    *)
(* the real worker where that module has NotificationLedger) and the relay *)
(* as OutboxPromise describes it.  They meet in rows, outbox and template. *)
(* What is added here is what they do to one another: an INSERT that waits *)
(* for another's open transaction, a source_event_id already taken, a      *)
(* template deleted under a row that is about to refer to it.              *)
(***************************************************************************)
EXTENDS EventConsumer

CONSTANTS   \* see NotificationApi
  Requests, SourceOf, Invalid, UnstorableRequests, Templated,
  MaxTries, MaxFaults, MaxChanges

\* Ids are uuids: an attempt is not a call.
ASSUME IdsAssumption == Msgs \cap Requests = {}
ASSUME SourceOfAssumption == SourceOf \in [Requests -> Events \cup {NoEvent}]
ASSUME BoundsAssumption == MaxTries \in Nat /\ MaxFaults \in Nat /\ MaxChanges \in Nat

\* rows and outbox, which the processes share, and what is private to the worker
\* and its broker are those of EventConsumer.
VARIABLES
  \* private to the calls of the API, see NotificationApi:
  references, callPc, picked, answer, heard, got, faults, changes,
  \* private to the relay, see OutboxPromise:
  handed, relayed,
  \* the row of notification_template, shared as well:
  template,
  \* n.TemplateID of the notification a worker has in memory is set:
  workerPicked,
  \* rows of the workers whose template_id is that of the template:
  workerReferences

consumer == <<published, queue, unacked, acked, rejected, deliveries, pc, connected,
              stopping, inbox, hold, outcome, txRows, txEvts, mailed, failed,
              interruptions>>
api      == <<references, callPc, picked, answer, heard, got, faults, changes>>
relay    == <<handed, relayed>>
key      == <<workerPicked, workerReferences>>
systemVars == <<consumer, api, relay, rows, outbox, template, key>>

A == INSTANCE NotificationApi WITH
       Sources <- Events, NoSource <- NoEvent, Unstorable <- UnstorableRequests,
       WorkerIds <- BoundedAttempt, pc <- callPc
R == INSTANCE OutboxPromise WITH
       Events <- BoundedAttempt, staged <- outbox, published <- relayed

SystemTypeOK ==
  /\ WorkerTypeOK
  /\ A!TypeOK
  /\ relayed \subseteq outbox
  /\ workerPicked \in [Workers -> BOOLEAN]
  /\ \A w \in Workers : workerPicked[w] => InSave(w) \/ pc[w] = "send"
  /\ workerReferences \subseteq {r.id : r \in rows}

SystemInit ==
  /\ Init /\ A!Init /\ R!Init
  /\ workerPicked = [w \in Workers |-> FALSE]
  /\ workerReferences = {}
-----------------------------------------------------------------------------
(* The worker. *)

\* RabbitMQ, and what upstream services publish.
Broker ==
  /\ \/ \E m \in Msgs : Publish(m)
     \/ \E w \in Workers, m \in Msgs : Deliver(w, m)
  /\ UNCHANGED <<api, relay, template, key>>

\* The steps that neither look at the template nor end the handling.
WorkerGoesOn(w) ==
  /\ \/ Restart(w) \/ Shutdown(w) \/ ConnectionLost(w)
     \/ \E a \in inbox[w] : Receive(w, a)
     \/ SendStep(w) \/ Begin(w) \/ StageEvent(w)
  /\ UNCHANGED <<api, relay, template, key>>

\* The notification in memory, and with it its template id, is done with.
WorkerLetsGo(w) ==
  /\ \/ Crash(w) \/ RunReturns(w)
     \/ RejectEnvelope(w) \/ RejectEvent(w) \/ SaveFails(w) \/ Ack(w)
  /\ workerPicked' = [workerPicked EXCEPT ![w] = FALSE]
  /\ UNCHANGED <<api, relay, template, workerReferences>>

\* FindByCode for the code of the event; an error of the query is passed over
\* like a template that is missing or not active.
WorkerPrepares(w, found) ==
  /\ Prepare(w)
  /\ found => template = "active"
  /\ workerPicked' = [workerPicked EXCEPT ![w] = found]
  /\ UNCHANGED <<api, relay, template, workerReferences>>

\* Variant for comparison: no fk_sent_notification_template.
KeyAlwaysHolds(w) == TRUE

\* The foreign key is looked at only when a row is inserted.
KeyHolds(w) == Conflicts(w) \/ (workerPicked[w] => template # "deleted")

WorkerInserts(w) ==
  /\ InsertNotification(w)
  /\ KeyHolds(w)
  /\ UNCHANGED <<api, relay, template, key>>

WorkerCommits(w, returned) ==
  /\ Commit(w, returned)
  /\ workerReferences' = workerReferences \cup
       (IF workerPicked[w] THEN {r.id : r \in txRows[w]} ELSE {})
  /\ workerPicked' = [workerPicked EXCEPT ![w] = FALSE]
  /\ UNCHANGED <<api, relay, template>>

Worker(w) ==
  \/ WorkerGoesOn(w) \/ WorkerLetsGo(w)
  \/ \E found \in BOOLEAN : WorkerPrepares(w, found)
  \/ WorkerInserts(w)
  \/ \E returned \in BOOLEAN : WorkerCommits(w, returned)
-----------------------------------------------------------------------------
(* Calls of the API. *)

\* Variant for comparison: the INSERT sees committed rows only.
CallNeverWaits(c) == FALSE

\* A worker's open transaction has inserted a row for the same event: the
\* INSERT of Save waits for its end.
CallWaits(c) ==
  \E w \in Workers : \E r \in txRows[w] : Clash(A!RowOf(c), r)

CallSaves(c) ==
  /\ ~CallWaits(c)
  /\ A!SaveRefused(c) \/ \E returned \in BOOLEAN : A!Save(c, returned)
  /\ UNCHANGED <<consumer, relay, key>>

CallGoesOn(c) ==
  /\ \/ A!Post(c) \/ A!GiveUp(c)
     \/ A!Refuse(c) \/ A!Validate(c) \/ A!LookUp(c) \/ A!LookUpFails(c)
     \/ A!SaveFails(c) \/ A!Respond(c) \/ A!Get(c)
  /\ UNCHANGED <<consumer, relay, key>>

ApiCrashes == A!Crash /\ UNCHANGED <<consumer, relay, key>>

\* A row that refers to the template is locked against its deletion until the
\* transaction that inserted it ends; then template_id is set to NULL.
TemplateChanges ==
  /\ A!ChangeTemplate
  /\ template' = "deleted" =>
       \A w \in Workers : workerPicked[w] => txRows[w] = {}
  /\ workerReferences' = IF template' = "deleted" THEN {} ELSE workerReferences
  /\ UNCHANGED <<consumer, relay, workerPicked>>

Api == (\E c \in A!Call : CallSaves(c) \/ CallGoesOn(c)) \/ ApiCrashes
-----------------------------------------------------------------------------
(* The relay. *)

Relay ==
  /\ (\E a \in BoundedAttempt : R!Hand(a)) \/ \E b \in SUBSET outbox : R!MarkPublished(b)
  /\ UNCHANGED <<consumer, api, rows, template, key>>

SystemNext == Broker \/ (\E w \in Workers : Worker(w)) \/ Api \/ TemplateChanges \/ Relay

SystemSpec == SystemInit /\ [][SystemNext]_systemVars
-----------------------------------------------------------------------------
\* Postgres cannot but return an error: see MustFail of EventConsumer, and the
\* foreign key.
SystemMustFail(w) == MustFail(w) \/ (pc[w] = "insert" /\ ~KeyHolds(w))

WorkerProceeds(w) ==
  /\ Worker(w)
  /\ Step(w)
  /\ SaveFails(w) => SystemMustFail(w)

\* As in EventConsumer and NotificationApi: Postgres and the mail server answer
\* a worker, and the handler of a call goes on when nothing blocks it.
SystemFairness ==
  /\ \A w \in Workers : WF_systemVars(WorkerProceeds(w))
  /\ \A c \in A!Call : WF_systemVars((CallSaves(c) \/ CallGoesOn(c)) /\ A!Step(c))

SystemFairSpec == SystemSpec /\ SystemFairness
-----------------------------------------------------------------------------
(* Safety. *)

\* Of the workers' transactions, the API's inserts and the repetitions of both,
\* at most one leaves a row for an event: the INSERT of a call that looked at
\* committed rows only would add a second one next to an open transaction's.
OneRowPerSource == A!OneRowPerSource

\* A mail that was sent and is not announced has only two causes: an error in
\* the log, or a row that some other attempt had already stored for the event.
\* That row may be the API's: PENDING, though the mail is out.
UnannouncedOnlyIfTaken ==
  \A m \in acked :
    LET last == <<m, deliveries[m]>>
    IN  <<last, "ok">> \in mailed /\ last \notin failed \cup outbox =>
          \E r \in rows : r.id # last /\ r.source = EventOf[m] /\ r.source # NoEvent

\* What the broker is told is true, and told of one notification only for an
\* event, however often the event was mailed: notification.sent is handed over
\* for a committed row whose own mail was answered without an error.
AnnouncedIsTrue ==
  \A a \in handed :
    /\ \E r \in rows : r.id = a /\ r.status = "SENT"
    /\ <<a, "ok">> \in mailed
    /\ \A b \in handed : Clash([source |-> Source(a)], [source |-> Source(b)]) => a = b

\* No row refers to a template that is gone, whoever inserted it and whenever
\* the template was deleted.
ReferencesExist == references \cup workerReferences # {} => template # "deleted"

\* The same for the API: what holds up the INSERT of a call is one worker past
\* its own INSERT, and the event has no row yet.  A worker never waits for a
\* call, so no wait of the system chains.
CallHoldersNeverWait ==
  \A c \in A!Call : callPc[c] = "save" /\ CallWaits(c) =>
    /\ \A r \in rows : ~Clash(A!RowOf(c), r)
    /\ \E w \in Workers :
         HeldUpBy(A!RowOf(c)) = {w} /\ pc[w] \in {"stage", "commit"}

\* The API may rely on the ledger: what worker and relay do to the tables it
\* reads is a step of NotificationLedger, or none, also while the API writes.
ApiSpec == A!Spec

\* The abstract relay has its place here: on the outbox, the rest of the system
\* does no more than stage an event that was never staged, which is all that
\* OutboxPromise assumes.  (A theorem; the relay's own half holds by definition.)
RelaySpec == R!Spec
-----------------------------------------------------------------------------
(* Liveness. *)

\* Every POST is answered, or its client gives up: a transaction of a worker
\* holds up the INSERT for a while, never for good.
PostAnswered ==
  \A c \in A!Call : callPc[c] # "unsent" ~> heard[c] # "nothing"
=============================================================================
