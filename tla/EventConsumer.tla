----------------------------- MODULE EventConsumer -----------------------------
(***************************************************************************)
(* The consuming half of notification-worker: the queue                    *)
(* notification-service.events, amqp.Consumer (Run, handle), the use case  *)
(* ConsumeDomainEvent.Handle and PgNotificationRepository.SaveWithOutbox,  *)
(* one action for each call that another process can see or that can fail. *)
(* Several workers may run, and several messages may carry the same event. *)
(***************************************************************************)
EXTENDS Naturals

CONSTANTS
  Workers,           \* notification-worker processes
  Msgs,              \* messages published to the queue
  Events,            \* values of event_id
  NoEvent,           \* event_id "": stored as a NULL source_event_id
  EventOf,           \* the event_id each message carries
  Malformed,         \* messages DomainEventEnvelope.UnmarshalJSON refuses
  Unmapped,          \* messages recipientRefFor refuses
  Unstorable,        \* messages whose row Postgres refuses (a cast, a length)
  NoAttempt,         \* no delivery in hand
  MaxInterruptions   \* bound on crashes, connection losses and shutdowns

ASSUME EventsAssumption == NoEvent \notin Events
ASSUME EventOfAssumption == EventOf \in [Msgs -> Events \cup {NoEvent}]
ASSUME ClassesAssumption ==
  /\ Malformed \subseteq Msgs
  /\ Unmapped \subseteq Msgs
  /\ Unstorable \subseteq Msgs
ASSUME BoundAssumption == MaxInterruptions \in Nat

VARIABLES
  \* RabbitMQ:
  published,      \* messages the upstream services have published
  queue,          \* messages ready to be delivered
  unacked,        \* messages delivered to each worker and not settled
  acked,          \* messages settled by Ack
  rejected,       \* messages settled by Nack without requeue
  deliveries,     \* how often each message was delivered
  \* a worker process:
  pc,             \* the call each worker is about to make
  connected,      \* the AMQP connection of the consumer is open
  stopping,       \* ctx is done: the process got SIGTERM
  inbox,          \* the deliveries channel
  hold,           \* the delivery being handled
  outcome,        \* n.SendStatus of the notification in memory
  \* Postgres:
  txRows, txEvts, \* what each worker's open transaction has inserted
  rows,           \* committed rows of sent_notification
  outbox,         \* committed rows of outbox, by their notification_id
  \* what is observed:
  mailed,         \* the mails the server accepted, with what Send returned
  failed,         \* attempts whose use case returned an error (logged)
  interruptions   \* crashes, connection losses and shutdowns so far

broker   == <<published, queue, unacked, acked, rejected, deliveries>>
process  == <<connected, stopping, inbox>>
memory   == <<hold, outcome>>
database == <<txRows, txEvts, rows, outbox>>
observed == <<mailed, failed>>
vars == <<broker, process, pc, memory, database, observed, interruptions>>

-----------------------------------------------------------------------------
\* The n-th delivery of message m is the attempt <<m, n>>.  Handle draws a
\* fresh uuid for the notification of each attempt: the attempt stands for it.
Attempt == Msgs \X (Nat \ {0})
Status  == {"PENDING", "SENT", "FAILED"}
Row     == [id : Attempt, source : Events \cup {NoEvent}, status : {"SENT", "FAILED"}]

PCs == {"down", "select", "handle", "send", "begin", "insert", "stage", "commit", "ack"}

\* The worker runs handle; its transaction is open; a transaction may be begun.
Handling(w) == pc[w] \in PCs \ {"down", "select"}
InSave(w)   == pc[w] \in {"begin", "insert", "stage", "commit"}

Msg(a)    == a[1]
Source(a) == EventOf[Msg(a)]
RowOf(w)  == [id |-> hold[w], source |-> Source(hold[w]), status |-> outcome[w]]

\* Two rows that uq_sent_notification_source_event_id does not let coexist.
Clash(r, s) == r.source # NoEvent /\ r.source = s.source

\* Everything but the table of notifications, which others may write as well.
WorkerTypeOK ==
  /\ published \in SUBSET Msgs
  /\ queue \in SUBSET Msgs
  /\ unacked \in [Workers -> SUBSET Msgs]
  /\ acked \in SUBSET Msgs
  /\ rejected \in SUBSET Msgs
  /\ deliveries \in [Msgs -> Nat]
  /\ pc \in [Workers -> PCs]
  /\ connected \in [Workers -> BOOLEAN]
  /\ stopping \in [Workers -> BOOLEAN]
  /\ inbox \in [Workers -> SUBSET Attempt]
  /\ hold \in [Workers -> Attempt \cup {NoAttempt}]
  /\ \A w \in Workers : Handling(w) => hold[w] \in Attempt
  /\ outcome \in [Workers -> Status]
  /\ txRows \in [Workers -> SUBSET Row]
  /\ txEvts \in [Workers -> SUBSET Attempt]
  /\ outbox \in SUBSET Attempt
  /\ mailed \in SUBSET (Attempt \X {"ok", "error"})
  /\ failed \in SUBSET Attempt
  /\ interruptions \in Nat

TypeOK == WorkerTypeOK /\ rows \in SUBSET Row

Init ==
  /\ published = {}
  /\ queue = {}
  /\ unacked = [w \in Workers |-> {}]
  /\ acked = {}
  /\ rejected = {}
  /\ deliveries = [m \in Msgs |-> 0]
  /\ pc = [w \in Workers |-> "down"]
  /\ connected = [w \in Workers |-> FALSE]
  /\ stopping = [w \in Workers |-> FALSE]
  /\ inbox = [w \in Workers |-> {}]
  /\ hold = [w \in Workers |-> NoAttempt]
  /\ outcome = [w \in Workers |-> "PENDING"]
  /\ txRows = [w \in Workers |-> {}]
  /\ txEvts = [w \in Workers |-> {}]
  /\ rows = {}
  /\ outbox = {}
  /\ mailed = {}
  /\ failed = {}
  /\ interruptions = 0
-----------------------------------------------------------------------------
(* RabbitMQ and the services upstream. *)

Publish(m) ==
  /\ m \notin published
  /\ published' = published \cup {m}
  /\ queue' = queue \cup {m}
  /\ UNCHANGED <<unacked, acked, rejected, deliveries, process, pc, memory,
                 database, observed, interruptions>>

\* The broker pushes without limit (NewConsumer sets no Qos): what it pushed
\* waits in the deliveries channel.
Deliver(w, m) ==
  /\ pc[w] # "down" /\ connected[w]
  /\ m \in queue
  /\ queue' = queue \ {m}
  /\ unacked' = [unacked EXCEPT ![w] = @ \cup {m}]
  /\ deliveries' = [deliveries EXCEPT ![m] = @ + 1]
  /\ inbox' = [inbox EXCEPT ![w] = @ \cup {<<m, deliveries[m] + 1>>}]
  /\ UNCHANGED <<published, acked, rejected, connected, stopping, pc, memory,
                 database, observed, interruptions>>

\* The broker takes back what a lost connection held unsettled.
Requeue(w) ==
  /\ queue' = queue \cup unacked[w]
  /\ unacked' = [unacked EXCEPT ![w] = {}]
  /\ UNCHANGED <<published, acked, rejected, deliveries>>

\* Settling a delivery of a closed connection returns an error nobody reads.
Settles(w, settled) ==
  /\ unacked' = [unacked EXCEPT ![w] = @ \ settled]
  /\ UNCHANGED <<published, queue, deliveries>>

Settled(w) == IF connected[w] THEN {Msg(hold[w])} ELSE {}
-----------------------------------------------------------------------------
(* A worker process: start, Run and the ways it ends. *)

Restart(w) ==
  /\ pc[w] = "down"
  /\ pc' = [pc EXCEPT ![w] = "select"]
  /\ connected' = [connected EXCEPT ![w] = TRUE]
  /\ UNCHANGED <<broker, stopping, inbox, memory, database, observed, interruptions>>

\* SIGTERM: ctx is done; whatever the worker is doing goes on.
Shutdown(w) ==
  /\ interruptions < MaxInterruptions
  /\ pc[w] # "down" /\ ~stopping[w]
  /\ stopping' = [stopping EXCEPT ![w] = TRUE]
  /\ interruptions' = interruptions + 1
  /\ UNCHANGED <<broker, connected, inbox, pc, memory, database, observed>>

ConnectionLost(w) ==
  /\ interruptions < MaxInterruptions
  /\ pc[w] # "down" /\ connected[w]
  /\ connected' = [connected EXCEPT ![w] = FALSE]
  /\ interruptions' = interruptions + 1
  /\ Requeue(w)
  /\ UNCHANGED <<stopping, inbox, pc, memory, database, observed>>

\* What the end of the process does, however it ends: the server rolls back
\* the open transaction, the broker requeues, the memory is gone.
Exit(w) ==
  /\ pc' = [pc EXCEPT ![w] = "down"]
  /\ connected' = [connected EXCEPT ![w] = FALSE]
  /\ stopping' = [stopping EXCEPT ![w] = FALSE]
  /\ inbox' = [inbox EXCEPT ![w] = {}]
  /\ hold' = [hold EXCEPT ![w] = NoAttempt]
  /\ outcome' = [outcome EXCEPT ![w] = "PENDING"]
  /\ txRows' = [txRows EXCEPT ![w] = {}]
  /\ txEvts' = [txEvts EXCEPT ![w] = {}]
  /\ Requeue(w)
  /\ UNCHANGED <<rows, outbox, observed>>

Crash(w) ==
  /\ interruptions < MaxInterruptions
  /\ pc[w] # "down"
  /\ interruptions' = interruptions + 1
  /\ Exit(w)

\* Variant for comparison: Run looks at the deliveries channel only.
EndedByCloseOnly(w) == ~connected[w]

\* ctx is done, or the library closed the deliveries channel of a lost
\* connection (dropping what was still in it).
Ended(w) == stopping[w] \/ ~connected[w]

RunReturns(w) ==
  /\ pc[w] = "select"
  /\ Ended(w)
  /\ UNCHANGED interruptions
  /\ Exit(w)

\* select picks any ready case: a delivery may win against ctx.Done, and
\* against the closing of the channel.
Receive(w, a) ==
  /\ pc[w] = "select"
  /\ a \in inbox[w]
  /\ inbox' = [inbox EXCEPT ![w] = @ \ {a}]
  /\ hold' = [hold EXCEPT ![w] = a]
  /\ pc' = [pc EXCEPT ![w] = "handle"]
  /\ UNCHANGED <<broker, connected, stopping, outcome, database, observed, interruptions>>
-----------------------------------------------------------------------------
(* Consumer.handle and ConsumeDomainEvent.Handle. *)

Goto(w, label) == pc' = [pc EXCEPT ![w] = label]

\* handle returns to the select of Run; the notification in memory is gone.
Release(w) ==
  /\ Goto(w, "select")
  /\ hold' = [hold EXCEPT ![w] = NoAttempt]
  /\ outcome' = [outcome EXCEPT ![w] = "PENDING"]

\* Variant for comparison: Nack(false, true).
RejectWithRequeue(w) ==
  /\ pc[w] = "handle"
  /\ Msg(hold[w]) \in Malformed
  /\ queue' = queue \cup Settled(w)
  /\ unacked' = [unacked EXCEPT ![w] = @ \ Settled(w)]
  /\ Release(w)
  /\ UNCHANGED <<published, deliveries, acked, rejected, process, database,
                 observed, interruptions>>

\* Nack(false, false).
RejectEnvelope(w) ==
  /\ pc[w] = "handle"
  /\ Msg(hold[w]) \in Malformed
  /\ rejected' = rejected \cup Settled(w)
  /\ Settles(w, Settled(w))
  /\ Release(w)
  /\ UNCHANGED <<acked, process, database, observed, interruptions>>

\* Variant for comparison: the error is dropped on the way.
FailsUnlogged(w) == UNCHANGED failed /\ Goto(w, "ack")

\* Handle returns an error; handle logs it.
Fails(w) ==
  /\ failed' = failed \cup {hold[w]}
  /\ Goto(w, "ack")

RejectEvent(w) ==
  /\ pc[w] = "handle"
  /\ Msg(hold[w]) \in Unmapped \ Malformed
  /\ Fails(w)
  /\ UNCHANGED <<broker, process, memory, database, mailed, interruptions>>

\* Recipient and template are looked up (a missing template is no error) and
\* the notification is built.
Prepare(w) ==
  /\ pc[w] = "handle"
  /\ Msg(hold[w]) \notin Unmapped \cup Malformed
  /\ Goto(w, "send")
  /\ UNCHANGED <<broker, process, memory, database, observed, interruptions>>

\* Variants for comparison: any accepted mail counts as SENT, or an error
\* leaves the status as it was.
StatusOfAccepted(accepted, answer) == IF accepted THEN "SENT" ELSE "FAILED"
StatusOfSuccess(accepted, answer) == IF answer = "ok" THEN "SENT" ELSE "PENDING"

SendStatus(accepted, answer) == IF answer = "ok" THEN "SENT" ELSE "FAILED"

\* Send ignores ctx.  It may return an error for a mail the server accepted
\* (the answer, or that of QUIT, was lost).
Send(w, accepted, answer) ==
  /\ pc[w] = "send"
  /\ answer = "ok" => accepted
  /\ outcome' = [outcome EXCEPT ![w] = SendStatus(accepted, answer)]
  /\ mailed' = mailed \cup (IF accepted THEN {<<hold[w], answer>>} ELSE {})
  /\ Goto(w, "begin")
  /\ UNCHANGED <<broker, process, hold, database, failed, interruptions>>
-----------------------------------------------------------------------------
(* PgNotificationRepository.SaveWithOutbox. *)

Begin(w) ==
  /\ pc[w] = "begin"
  /\ ~stopping[w]
  /\ Goto(w, "insert")
  /\ UNCHANGED <<broker, process, memory, database, observed, interruptions>>

\* Variant for comparison: the check sees committed rows only.
NeverWaits(w) == FALSE

\* Another open transaction has inserted a row for the same event: the insert
\* waits for its end.
Waits(w) == \E v \in Workers \ {w} : \E s \in txRows[v] : Clash(RowOf(w), s)

Conflicts(w) == \E s \in rows : Clash(RowOf(w), s)

\* Variant for comparison: RowsAffected is not looked at.
AfterInsertAlways(w) == IF outcome[w] = "SENT" THEN "stage" ELSE "commit"

\* Nothing is staged when no row was affected, nor for a FAILED notification.
AfterInsert(w) ==
  IF outcome[w] = "SENT" /\ ~Conflicts(w) THEN "stage" ELSE "commit"

\* INSERT ... ON CONFLICT DO NOTHING.
InsertNotification(w) ==
  /\ pc[w] = "insert"
  /\ ~stopping[w] /\ ~Waits(w)
  /\ Msg(hold[w]) \notin Unstorable
  /\ txRows' = [txRows EXCEPT ![w] = IF Conflicts(w) THEN {} ELSE {RowOf(w)}]
  /\ Goto(w, AfterInsert(w))
  /\ UNCHANGED <<broker, process, memory, txEvts, rows, outbox, observed, interruptions>>

\* Variant for comparison: the event is inserted through the pool, not the tx.
StageOutsideTransaction(w) ==
  /\ pc[w] = "stage"
  /\ ~stopping[w]
  /\ outbox' = outbox \cup {hold[w]}
  /\ Goto(w, "commit")
  /\ UNCHANGED <<broker, process, memory, txRows, txEvts, rows, observed, interruptions>>

StageEvent(w) ==
  /\ pc[w] = "stage"
  /\ ~stopping[w]
  /\ txEvts' = [txEvts EXCEPT ![w] = {hold[w]}]
  /\ Goto(w, "commit")
  /\ UNCHANGED <<broker, process, memory, txRows, rows, outbox, observed, interruptions>>

EndTransaction(w) ==
  /\ txRows' = [txRows EXCEPT ![w] = {}]
  /\ txEvts' = [txEvts EXCEPT ![w] = {}]

\* The server commits; returned says whether the worker sees the answer.  A
\* lost answer is an error though all is stored.  ctx may be done by now: the
\* COMMIT was under way, for none is sent once it is.
Commit(w, returned) ==
  /\ pc[w] = "commit"
  /\ rows' = rows \cup txRows[w]
  /\ outbox' = outbox \cup txEvts[w]
  /\ EndTransaction(w)
  /\ IF returned THEN Goto(w, "ack") /\ UNCHANGED failed ELSE Fails(w)
  /\ UNCHANGED <<broker, process, memory, mailed, interruptions>>

\* Variant for comparison: no deferred Rollback.
SaveFailsUnended(w) ==
  /\ InSave(w)
  /\ Fails(w)
  /\ UNCHANGED <<broker, process, memory, database, mailed, interruptions>>

\* Any call to Postgres may return an error, and does once ctx is done; the
\* deferred Rollback discards the transaction.
SaveFails(w) ==
  /\ InSave(w)
  /\ EndTransaction(w)
  /\ Fails(w)
  /\ UNCHANGED <<broker, process, memory, rows, outbox, mailed, interruptions>>

\* Variant for comparison: a failed event is left unsettled.
AckedOnSuccess(w) == IF hold[w] \in failed THEN {} ELSE Settled(w)

\* handle acks whatever Handle returned.
Acked(w) == Settled(w)

Ack(w) ==
  /\ pc[w] = "ack"
  /\ acked' = acked \cup Acked(w)
  /\ Settles(w, Acked(w))
  /\ Release(w)
  /\ UNCHANGED <<rejected, process, database, observed, interruptions>>
-----------------------------------------------------------------------------
SendStep(w) ==
  \E accepted \in BOOLEAN, answer \in {"ok", "error"} : Send(w, accepted, answer)

SaveWithOutbox(w) ==
  \/ Begin(w) \/ InsertNotification(w) \/ StageEvent(w)
  \/ \E returned \in BOOLEAN : Commit(w, returned)
  \/ SaveFails(w)

\* What the worker does of itself once it runs.
Step(w) ==
  \/ \E a \in inbox[w] : Receive(w, a)
  \/ RunReturns(w)
  \/ RejectEnvelope(w) \/ RejectEvent(w) \/ Prepare(w)
  \/ SendStep(w) \/ SaveWithOutbox(w) \/ Ack(w)

Next ==
  \/ \E m \in Msgs : Publish(m)
  \/ \E w \in Workers, m \in Msgs : Deliver(w, m)
  \/ \E w \in Workers : Restart(w) \/ Shutdown(w) \/ ConnectionLost(w) \/ Crash(w)
  \/ \E w \in Workers : Step(w)

Spec == Init /\ [][Next]_vars

\* Postgres cannot but return an error.
MustFail(w) ==
  \/ stopping[w]
  \/ pc[w] = "insert" /\ Msg(hold[w]) \in Unstorable

\* A step that is not an error Postgres might as well not have returned: no
\* wait is ended by chance.
Proceeds(w) == Step(w) /\ (SaveFails(w) => MustFail(w))

\* The broker delivers what is ready while some consumer is connected, and a
\* running worker goes on: the mail server and Postgres answer every call,
\* with or without an error.  Nothing is assumed of Restart.
Fairness ==
  /\ \A m \in Msgs : WF_vars(\E w \in Workers : Deliver(w, m))
  /\ \A w \in Workers : WF_vars(Proceeds(w))

FairSpec == Spec /\ Fairness
-----------------------------------------------------------------------------
(* Safety. *)

\* However many workers handle however many deliveries of an event, it has at
\* most one row: what uq_sent_notification_source_event_id, the wait it
\* imposes on concurrent transactions and ON CONFLICT DO NOTHING are for.
OneRowPerEvent == \A r, s \in rows : Clash(r, s) => r = s

\* notification.notification.sent is staged for the notifications recorded as
\* SENT and for no other: row and event are committed together or not at all,
\* also when the process dies in between or the event was already processed.
OutboxMatchesRows == outbox = {r.id : r \in {s \in rows : s.status = "SENT"}}

\* The recorded status is what the mail server answered for this very attempt,
\* never for another delivery of the same event.
RowTellsOutcome ==
  \A r \in rows : r.status = "SENT" <=> <<r.id, "ok">> \in mailed

\* An event Run has acked has a row, its own or of an earlier delivery, unless
\* the use case reported an error for the delivery that was acked: nothing is
\* taken off the queue without a trace.
AckedIsRecordedOrLogged ==
  \A m \in acked :
    \/ <<m, deliveries[m]>> \in failed
    \/ \E r \in rows : r.id = <<m, deliveries[m]>>
    \/ \E r \in rows : EventOf[m] # NoEvent /\ r.source = EventOf[m]

\* The worker never asks for a redelivery: a message comes back only after a
\* crash, a lost connection or a shutdown.
RedeliveredOnlyAfterInterruption == \A m \in Msgs : deliveries[m] =< interruptions + 1

\* Workers whose open transaction keeps the index entry a row is to get.
HeldUpBy(row) == {w \in Workers : \E s \in txRows[w] : Clash(row, s)}

\* Waits do not chain and are not in vain: an INSERT that is held up is held up
\* by one transaction, which is past its own INSERT and on its way to COMMIT or
\* Rollback, and no row committed before has decided the matter already.
HoldersNeverWait ==
  \A w \in Workers : pc[w] = "insert" /\ Waits(w) =>
    /\ ~Conflicts(w)
    /\ \E v \in Workers \ {w} :
         HeldUpBy(RowOf(w)) = {v} /\ pc[v] \in {"stage", "commit"}

\* The deliveries of a message that the bound on interruptions leaves room for.
BoundedAttempt == Msgs \X (1..(MaxInterruptions + 1))

\* An attempt stands for the uuid of a notification.
Ledger == INSTANCE NotificationLedger WITH
  Ids <- BoundedAttempt, Sources <- Events, NoSource <- NoEvent

\* Whatever the interleaving and whatever is interrupted, the two tables change
\* by whole, fresh, unrepeated notifications: see NotificationLedger.
LedgerSpec == Ledger!Spec
-----------------------------------------------------------------------------
(* Liveness. *)

\* A consumer that stays up, connected and is not asked to stop.
Stable(w) == pc[w] # "down" /\ connected[w] /\ ~stopping[w]

\* While some consumer stays up every message is settled in the end: handling
\* never retries, inserts that wait for one another do not deadlock, and the
\* messages of a worker that stops or loses its connection come back.
SettledEventually ==
  (\E w \in Workers : <>[]Stable(w)) =>
    \A m \in Msgs : m \in published ~> m \in acked \cup rejected

\* A worker that got SIGTERM ends, whatever is left in its deliveries channel.
ShutdownCompletes == \A w \in Workers : stopping[w] ~> pc[w] = "down"
-----------------------------------------------------------------------------
(* What README.md and the comments of the code claim, and the code breaks.  *)

\* README.md on idempotency: "no double delivery for a redelivered event_id".
NoDoubleDelivery ==
  \A x, y \in mailed : Source(x[1]) # NoEvent /\ Source(x[1]) = Source(y[1]) => x = y

\* The comment of ConsumeDomainEvent: a delivery that succeeded stages
\* notification.sent.  Stated for messages acked without any error, whose last
\* delivery was mailed successfully.
SuccessIsStaged ==
  \A m \in acked :
    <<m, deliveries[m]>> \notin failed /\ <<<<m, deliveries[m]>>, "ok">> \in mailed =>
      \E r \in rows : r.source = EventOf[m] /\ r.id \in outbox
=============================================================================
