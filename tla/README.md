# A verification of microservicio-notificaciones in TLA+

This directory holds TLA+ modules for the notification microservice, the TLC
runs that check them on small instances, and theorems about them that TLAPS
proves for every value of the constants. `SVC` below is
`src/design-software-notification-service-develop`, `DB` is
`src/design-software-notification-db`.

    tlc -workers 2 -config EventConsumerSafety.cfg MCEventConsumer.tla    # one run
    tlapm EventConsumerProofs.tla                                         # the proofs

## 1. The system

Two Go processes share one Postgres database. Several of each may run.

    upstream services --events--> queue notification-service.events
                                            |
                                  notification-worker ----mail----> SMTP server
                                   consumer |   | relay --events--> exchange --> audit
                                            v   v
                      notification.sent_notification, notification.outbox,
                                 notification.notification_template
                                            ^
    clients ------POST, GET------> notification-api

| Component | Where | State | Operations |
|---|---|---|---|
| Event consumer | `SVC/internal/adapter/in/amqp/consumer.go` | deliveries channel, delivery in hand, connection, ctx | `Run` (select of ctx and deliveries), `handle` (decode, use case, Ack or Nack) |
| Use case ConsumeDomainEvent | `SVC/internal/application/usecase/consume_domain_event.go` | the notification in memory | `Handle`: recipient, template, `Send`, `SaveWithOutbox` |
| Notification repository | `SVC/internal/adapter/out/persistence/pg_repository.go` | `sent_notification`, `outbox` | `Save`, `SaveWithOutbox`, `FindByID` |
| Outbox relay | `SVC/internal/adapter/out/messaging/outbox_relay.go` | an open transaction with locked rows, an AMQP channel | `Run` (ticker), `PollAndPublish`, `publishOne` |
| Worker process | `SVC/cmd/notification-worker/main.go` | two AMQP connections, health server | start, SIGTERM, end of `Run` |
| Notifier | `SVC/internal/adapter/out/notifier/` | none | `Send` by channel: SMTP for EMAIL, a log line for IN_APP |
| Recipient resolver | `SVC/internal/adapter/out/client/` | none (a stub) | resolve |
| Notification API | `SVC/internal/adapter/in/http/handler.go`, `usecase/send_notification.go`, `usecase/get_notification.go` | one goroutine for each call | `POST /notifications`, `GET /notifications/{id}`, health, readiness |
| Templates | `pg_template_repository.go`, `domain/service/template_renderer.go` | `notification_template` | `FindByCode`, `Render` |
| Envelope and DTOs | `SVC/api/*.gen.go` | none | decoding |
| Schema | `DB/01_ddl`, `DB/03_dcl` | tables, partial unique index, foreign keys | |
| Observability | `SVC/internal/platform/` | none that decides anything | |

### What is hard in it

- **A message is at least once, a mail is not undone.** The worker mails first
  and writes the row afterwards; a crash, a lost connection, a lost answer to
  COMMIT or a SIGTERM may fall in between, and the broker delivers again.
- **Everything is acked.** `handle` acks whatever the use case returned; only an
  envelope that cannot be decoded is nacked. What failed is only in the log.
- **Concurrent inserts for one event.** Two workers, or a worker and the API,
  insert a row for one `source_event_id`. The partial unique index makes the
  second wait for the first transaction, then conflict or not.
- **One transaction, two rows.** The notification and its staged event must be
  committed together, and only when the notification was sent and its row is new.
- **Relays in competition.** Relays poll one table with
  `FOR UPDATE SKIP LOCKED`; a batch may fail in the middle, after some of its
  messages have gone out.
- **No publisher confirms, no reconnection.** A frame written to the socket
  counts as published; a closed channel is never reopened.
- **A template that changes under a call.** It is looked up in one statement and
  referred to in a later one.
- **Clients that repeat a POST** whose answer was 503, or was lost.
- **Two writers of one row.** A POST and an event may name the same
  `source_event_id`; whoever comes second waits, and then finds the row taken.
- **Ends of the worker.** Three goroutines share a pool and two connections that
  `main` closes in deferred calls while the relay still runs and `/ready` may hold
  a connection of the pool; the mail server is called, and the close of channels
  waited for, without a deadline; a channel that is closed is noticed by `Run` only.
- **What an envelope may contain.** Fields that are absent, null or of another
  type, ids that are no uuids, values that are placeholders; some of it is
  noticed only after the mail was sent.

PROJECT.json lists each of these at its line ("hazards"), with the properties
that cover it.

### What makes each component correct

| Component | Properties |
|---|---|
| consumer, use case, repository | `OneRowPerEvent`, `OutboxMatchesRows`, `RowTellsOutcome`, `AckedIsRecordedOrLogged`, `RedeliveredOnlyAfterInterruption`, `HoldersNeverWait`, `LedgerSpec`, `SettledEventually`, `ShutdownCompletes` |
| relay | `BatchesDisjoint`, `RepublishedOnlyAfterFailure`, `LostOnlyByInterruption`, `PromiseSpec`, `PublishedEventually` |
| API | `AcceptedReadsPending`, `AnswersAreTrue`, `RefusalsHaveCause` |
| both processes over one schema | `OneRowPerSource`, `ReferencesExist`, `UnannouncedOnlyIfTaken`, `AnnouncedIsTrue`, `CallHoldersNeverWait`, `ApiSpec`, `PostAnswered` |
| envelope, templates, resolver | `RenderedOnce`, `NoPlaceholderIsMailed`, `UnfitIsNotMailed`, `FateFollowsClass` |
| worker process | `CleanExitLosesNothing`, `EndsAfterSigterm`, `EndsWhenDeaf` |

## 2. The modules

| Module | What it is |
|---|---|
| `NotificationLedger` | what the two tables promise to a reader; no processes, no failures |
| `EventConsumer` | the queue, the workers, their transactions; implements `NotificationLedger` |
| `OutboxPromise` | the Outbox pattern seen from the table |
| `OutboxRelay` | relays over one table, and their channels; implements `OutboxPromise` |
| `NotificationApi` | POST and GET, concurrent and repeated, on the table the worker writes as well; the worker is an instance of `NotificationLedger` |
| `NotificationSystem` | workers (`EventConsumer`), calls (`NotificationApi`) and the relay (`OutboxPromise`) over one schema |
| `EventIntake` | one delivery from its bytes to its row: decoding, mapping, rendering, mailing, casts |
| `WorkerLifecycle` | one worker process from `main` to its exit, with its goroutines and deferred calls |
| `MC...` | the small instances: which event a message carries, creation times, envelopes and templates, symmetry |
| `...Proofs`, `EventConsumerRedelivery`, `NotificationApiRefusals` | the theorems |

The definitions called "variant for comparison" are not part of a
specification: each is what a plausible slip would make of the definition below
it (a dropped guard, an error not looked at), and shows that a property notices.

### EventConsumer

One action for each call another process can see, or that can fail.

| Action | Code |
|---|---|
| `Publish`, `Deliver` | upstream services, RabbitMQ. No Qos is set: the broker pushes without limit, what was pushed waits in the deliveries channel (`inbox`) |
| `Receive`, `RunReturns` | the `select` of `Consumer.Run`. Either case may win when both are ready; `Ended` is ctx done or the channel closed |
| `RejectEnvelope` | `Nack(false, false)` after `UnmarshalJSON` failed |
| `RejectEvent` | an error before `Send` (`recipientRefFor`) |
| `Prepare` | recipient and template, the notification is built |
| `Send` | `Notifier.Send`; the mail server may have accepted a mail for which an error is returned |
| `Begin`, `InsertNotification`, `StageEvent`, `Commit` | the statements of `SaveWithOutbox` |
| `SaveFails` | an error of any of them, and the deferred `Rollback` |
| `Ack` | `Ack(false)`, whatever `Handle` returned |
| `Restart`, `Shutdown`, `ConnectionLost`, `Crash` | the process and its connection |

An attempt `<<m, n>>` is the n-th delivery of message m; it stands for the uuid
`Handle` draws for the notification of that delivery. Three sets say what is
wrong with a message: `Malformed` (refused by the decoder), `Unmapped` (refused
by `recipientRefFor`) and `Unstorable` (refused by Postgres, say for an
`event_id` that is no uuid, which the insert casts). An empty `event_id` is
`NoEvent`: it becomes NULL, which the partial index leaves out.

Postgres is modelled by what the code relies on. A transaction's rows are
invisible to others until COMMIT, but an insert whose `source_event_id` is in
another open transaction waits for its end (`Waits`). A lost connection, a
crash or an error rolls back. COMMIT may succeed and its answer be lost
(`Commit(w, FALSE)`). Once ctx is done (`stopping`) no new statement is sent.

### OutboxRelay

`Poll` is the SELECT of `PollAndPublish` with its locks, order and limit. It is
one step; that Postgres locks row by row shows in what it may return: beside
other relays any few rows that are free (`HasGaps`), the oldest ones otherwise.
`PublishOne` and `Mark` are the two calls of its loop; `Commit`, `PublishFails`
and `SqlFails` its three ends. A message is first in the channel's `wire`,
then `accepted` by the exchange; `ChannelClosed` and `Crash` lose what is on
the wire. `Start` is `main`, which opens the channel once. `copies` counts how
often each event was written to a channel; no guard reads it, and the events
with a count are what `OutboxPromise` calls `handed`.

### NotificationApi

A call `<<q, n>>` is the n-th try of request q, and stands for the uuid it
draws. `Validate`/`Refuse`, `LookUp`/`LookUpFails`,
`Save`/`SaveRefused`/`SaveFails` and `Respond` follow `Handler.send` and
`SendNotification.Handle`. `GiveUp` is a client that goes away: the handler goes
on, with a context that is done. `Save` is an INSERT without ON CONFLICT; the
unique index and the foreign key of the template are in `Storable`.
`Get` is a GET for an id that was answered 202: what the row says, 404 without a
row, 503 when the query fails. (Such an id is a uuid; the 400 for others is left
out.) `ChangeTemplate` is whoever manages templates in SQL (the foreign key is ON
DELETE SET NULL). `WorkerRecords` is the worker.

### NotificationSystem

It extends `EventConsumer`, whose definitions and proofs it uses as they are
(names of its own begin with `System`), and has `NotificationApi` and
`OutboxPromise` as the instances `A` and `R`. Its next-state relation has every
action of `EventConsumer` and of `NotificationApi` (but `WorkerRecords`,
which the real worker replaces), and those of `OutboxPromise`, with `rows`,
`outbox` and `template` shared. An action here is one of the parts and what it
does to, or needs from, the other:

| Action | What is added to the part |
|---|---|
| `WorkerPrepares` | `FindByCode`: the template is found or not, its id kept in memory (`workerPicked`) |
| `WorkerInserts` | the foreign key: refused when the picked template is gone, unless the row is a conflict (`KeyHolds`) |
| `WorkerCommits` | the row now refers to the template (`workerReferences`) |
| `WorkerLetsGo` | the notification in memory is dropped |
| `CallSaves` | the INSERT of `Save` waits while a worker's open transaction has a row of the same event (`CallWaits`) |
| `TemplateChanges` | a delete waits for transactions that refer to the template; then template ids become NULL, the workers' rows included |

`A!Spec` (`ApiSpec`) is also a property of the system: whatever the workers do,
the API sees a `NotificationLedger`. That the outbox as a whole keeps to
`OutboxPromise` (`RelaySpec`) is a theorem only: the relay's half holds by
definition, and what is left is that workers stage by their commits. Ids of rows are attempts `<<m, n>>` and calls
`<<q, n>>`; `IdsAssumption` keeps messages and requests apart, as uuids are.

The relay is the abstract one: that the detailed relay does what `OutboxPromise`
says is a theorem of `OutboxRelayProofs`.

### EventIntake

`EventConsumer` takes `Malformed`, `Unmapped` and `Unstorable` as constants;
here they follow from the envelope. An envelope is a record (is it an object,
which required fields are absent or of the wrong type, the type, the ids, the
payload). A text is a sequence of words. A word is a fixed piece of a template,
a placeholder, or a string of the event: one word however long (`WordLength`),
which may itself be a placeholder. `strings.ReplaceAll` is then a replacement
word by word (`Replaced`), the length of a text the sum of those of its words
(`TooLong`). A value that contains a placeholder among other text, and two
values that make one side by side, are left out.

| Action | Code |
|---|---|
| `Reject`, `Decode` | `UnmarshalJSON`: required fields, types, the pattern of `event_type`. A JSON `null` passes the first two checks and fails the third, for its `event_type` is empty |
| `Refuse`, `Map` | `recipientRefFor`; a field that is no string reads as empty |
| `PassTemplate`, `TakeTemplate` | `FindByCode`, with its fallback to the fixed subject |
| `RenderSubject`, `RenderBody` | one round of the loop of `Render`, in any order of the keys |
| `Send` | the mail has the subject twice, and no body |
| `Save`, `SaveRefused` | the casts to uuid and the lengths of the columns |

### WorkerLifecycle

`main` is the call the main goroutine is in: set-up, the two dials, `Run` with
its `ConsumeWithContext`, its `select` and the calls of `handle`, then the
deferred calls last first (relay channel and connection, consumer, pool,
telemetry). `relay` is where the relay goroutine is in `PollAndPublish`, `health`
the health server, `probe` a GET `/ready` in its Ping. `Fatal` is `log.Fatal`,
which skips the deferred calls. One row of the outbox is followed: its frame, and
whether it is marked published.

| Action | Code |
|---|---|
| `Dial`, `DialRelay` | `NewConsumer`; the relay's connection and channel, then both goroutines start |
| `RunStarts`, `Consumes`, `RunRefused` | `ConsumeWithContext`: ctx is looked at once, then the broker is waited for; an error is fatal unless ctx is done |
| `RunReturns` | `select`: ctx is done, or the deliveries channel was closed. In the second case `deaf` is set: the deferred calls run with ctx not done, and the exit code is 0 |
| `LookUp`, `Send`, `Save`, `Settle` | the calls of `handle` that wait: for Postgres unless ctx is done, for the mail server in any case, for the socket |
| `SendClose`, `CloseRelay` | `relayCh.Close` sends `channel.close` and waits for the answer; in between (`relayConn = "closing"`) the relay may `Publish` without an error, and the broker drops it |
| `CloseConsumer`, `ClosePool`, `FlushTraces` | the other deferred calls; the pool waits for the relay's transaction and for a Ping |
| `Tick` to `Commit`, `RelayStops` | `OutboxRelay.Run`; with ctx done every statement returns, with an error (`StatementReturns`) |
| `PingStarts`, `PingReturns`, `ProberLeaves`, `HealthStops` | `/ready` under the context of its request, which SIGTERM does not cancel |
| `ConsumerCut` | the broker closes the channel or cancels the consumer on an open connection, or the connection is lost |
| `OutsideChanges` | mail server, Postgres or broker stop answering, or answer again |

## 3. The runs

| Run | Question | Instance |
|---|---|---|
| `consumer_safety` | one row, its event, the right status; nothing leaves the queue without a trace, nothing comes back for no reason; no wait for one that waits; refinement of `NotificationLedger` | 2 workers; a good, a malformed and an unstorable message; 1 interruption |
| `consumer_liveness` | every message is settled, SIGTERM ends the worker | 2 workers, 2 messages (one unmapped), 1 interruption, fairness |
| `relay` | batches, published_at and messages agree; a message is repeated only for a failure; refinement of `OutboxPromise`; every row is published while one relay keeps its channel | 2 relays, 3 rows (2 of one instant), LIMIT 2, 1 failure (crash, lost channel or error), fairness |
| `api` | rows and answers agree; refusals have a cause of their own | 3 requests (one for an event, one without, 1 invalid), 3 tries, 1 fault, 1 template change, 1 worker notification |
| `system` | what worker and API do to one another; refinement of `NotificationApi` | 1 worker, 1 event; 1 request for the same event; the template; 1 interruption, 1 fault, 1 change, fairness |
| `intake` | the order of rendering, placeholders, who is not mailed, the fate of each kind of envelope | 220 envelopes and 4 templates or none; a column of 4, values of length 0, 1 and 3 |
| `lifecycle` | what a stop by signal leaves behind; the end of the process | 1 process, 2 deliveries; connections, channels, mail server, Postgres and broker come and go without bound; fairness |

**Why the bounds are enough.** Two workers (relays) with work of one event are
where the index and the row locks decide; a third would only wait likewise.
`MaxInterruptions = 1` puts one crash, lost connection or SIGTERM between any
two actions; a lost connection leaves both workers with one event, each on its
way to the INSERT, and errors of Postgres roll either back at any moment. A
LIMIT below the number of rows, and two rows of one instant, make batches
overlap in every way; one failure leaves a relay down, deaf or with a batch
undone, while the other goes on. `MaxTries = 3` exceeds `MaxFaults +
MaxChanges`: after a call that a fault spoiled and one the template was taken
from there is a third, which `RefusalsHaveCause` says succeeds. In `system` one
worker and one call of the same event already meet in every order, the worker's
redelivery included; two calls, or two workers, of one event are in `api` and
`consumer_safety`. In `intake` an event type has two variables, all its subsets
and both orders occur; `MaxSubject = 4` is passed by some rendered subjects and
not by others. In `lifecycle` a second delivery is one taken after SIGTERM or a
closed channel. The safety properties do not hang on these bounds at all: each
invariant and each refinement that a passing run checks is a theorem of section 5,
for every value of the constants. The bounds are what the liveness properties rest
on.

The bounds by name: `MaxInterruptions` (crashes, lost connections, shutdowns of
workers), `MaxFailures` (crashes, lost channels and errors of Postgres of the
relays), `MaxFaults` (errors, lost answers and crashes of the API), `MaxChanges`
(of the template), `MaxTries` (of a request), `MaxDeliveries` (taken by one
process of `WorkerLifecycle`). Errors of Postgres in `EventConsumer` are not
bounded.

`CHECK_DEADLOCK FALSE` throughout: with all messages settled, rows published or
calls made, the process ended, and the bounded interruptions spent, nothing is
left to do. That nothing stops earlier is what the liveness properties show.

### Findings

Five more runs each state what a document, comment or message of the repository
says and what the code does not do; TLC shows a shortest behaviour.

| Run | Claim | What happens |
|---|---|---|
| `consumer_double_delivery` | `SVC/README.md:53`, "no double delivery for a redelivered `event_id`" | the mail precedes the check: one interruption after `Send`, and the event is mailed twice; only its row is not repeated |
| `consumer_unstaged` | comment of `ConsumeDomainEvent`: notification.sent is staged on success | a FAILED row of an earlier delivery turns the insert of the successful one into a no-op; the message is acked without an error, the row still says FAILED, nothing is staged |
| `relay_loss` | `domain/model/outbox.go`, "at-least-once publishing" | without confirms, a message lost with its connection is already marked published |
| `relay_dead_channel` | `outbox_relay.go`, "get it to the broker eventually", "a broker/DB blip should not kill the worker process" | the relay's channel is never reopened: the worker stays up and publishes nothing. `/ready` watches the consumer's connection only |
| `api_unavailable` | "no se pudo persistir la notificacion"; `source_event_id` is "útil para idempotencia" | a request that was stored, but whose answer did not reach the client (it gave up, or Postgres' answer was lost), runs into its own row on every repetition and is answered 503 for ever |

## 4. Fairness

- **Consumer.** The broker delivers a ready message while some consumer is
  connected (`WF` of `Deliver`, for each message). A running worker proceeds
  (`WF` of `Proceeds`): its loop calls one thing after another. That
  the mail server and Postgres answer each call, with or without an error, is an
  assumption, not something the code ensures: `smtp.SendMail` has no deadline
  and ignores ctx. `Proceeds` leaves out the errors Postgres need not return, so
  no wait for another transaction is ended by luck; errors it cannot avoid (ctx
  done, an unstorable row) are counted on. Nothing is assumed of `Restart`:
  `SettledEventually` speaks of behaviours in which one worker stays up.
- **Relay.** `SF` of `Poll`: the ticker fires for ever, also in moments in which
  no other relay holds the rows. `WF` of `Finish`: a poll runs to its end.
  Nothing is assumed of `Start`.
- **System.** `WF` of a worker's steps as above, and of the steps of each call's
  handler (not of the client's, nor of crashes and lost answers). An error of
  Postgres is counted on only where it is unavoidable, the foreign key included.
- **Process.** `WF` of `main` and of the relay goroutine, each of which goes on
  when the call it is in returns, and of a Ping that Postgres answers. Nothing is
  assumed of signals, deliveries, requests, connections, the mail server, Postgres
  and the broker; where a property needs that they answer in the end, its
  statement says so (`<>[](mailAnswers /\ brokerAnswers)`). Without any one of
  the latter TLC finds the property violated.

`NotificationApi` and `EventIntake` state no fairness: their properties are
safety.

## 5. The proofs

From the named assumptions on the constants only: the event of a message is an
event or `NoEvent`, `NoEvent` is none (`EventsAssumption`, `EventOfAssumption`,
`ClassesAssumption`); creation times and `Limit` are numbers
(`CreatedAtAssumption`, `LimitAssumption`); sources and ids do not collide
(`SourcesAssumption`, `SourceOfAssumption`, `IdsAssumption`); the strings of an
envelope and the texts of a template are made of the words that have a length
(`WordsAssumption`, `DeliveriesAssumption`, `TemplatesAssumption`); bounds are
numbers. Each ASSUME is evaluated by the runs of its module.

**EventConsumerProofs.** `TypeCorrect`, `OneRowPerEventAlways`,
`OutboxMatchesRowsAlways`, `RowTellsOutcomeAlways`,
`AckedIsRecordedOrLoggedAlways`, `HoldersNeverWaitAlways`. None of the
properties is inductive alone; four invariants are proved one on top of the
other:

1. `Typed`: types, and that inside `SaveWithOutbox` the outcome is decided.
2. `Transactions`: an open transaction holds at most the row of the attempt in
   hand, and its event only after it; and, the point, no two open transactions
   and no open transaction and the table clash on a `source_event_id`. Without
   this last part a COMMIT could add a second row. It also says that whoever holds
   up an INSERT is one transaction (`HolderIsAlone`) that has its row already: it
   waits for nobody, so waits neither chain nor close a circle
   (`HoldersNeverWait`).
3. `Attempts`: an attempt is in one place only (one inbox or one worker's
   hands), was drawn before, and nothing is recorded or mailed under its name
   before its turn. `RowTellsOutcome` needs it: the mail that was answered "ok"
   must belong to this very attempt.
4. `Accounting`: a message is with the broker, or unacked at one worker, or
   settled; an attempt a connected worker has in hand is the last of its
   message; a worker about to ack has a row or a logged error. That the acked
   delivery is the *last* one is what makes `AckedIsRecordedOrLogged` inductive.

**EventConsumerRedelivery.** `RedeliveredOnlyAfterInterruptionAlways`,
`ImplementsLedger`. The first is from a balance (`Paid`): deliveries of a
message beyond the first are at most the interruptions spent. Deliver alone
raises the left side and needs the message in the queue; it gets back there only
when a connection ends, and each end of one was paid for: a crash or a lost
connection at once, a return of `Run` by the SIGTERM that asked for it, which is
why a worker that got SIGTERM is counted as one interruption owed until it is
down (`Departing`, a cardinality). `ImplementsLedger` maps COMMIT with a row to
`Record` and all else to a stutter; `Record`'s guards are parts 2 and 3 above,
and that the id is one of the ledger's is the bound on deliveries
(`HeldWithinBound`).

**OutboxRelayProofs.** `TypeCorrect`, `BatchesDisjointAlways`,
`PublishedWasHandedAlways`, `LostOnlyByInterruptionAlways`,
`RepublishedOnlyAfterFailureAlways`, `ImplementsPromise`. The invariant
`Relaying`: marked is handed over, handed over is locked, locked is unpublished
(`BatchShape`); locks are disjoint; and without an interruption what was handed
over is accepted or on the wire (`Arriving`). `RepublishedOnlyAfterFailure`
counts, and is not inductive: nothing in it keeps an event that has used up its
copies from a further poll. `Counted` does: a message has had one copy more than
there were failures only while it is published, or in the batch of a relay whose
channel is open. A failure pays for one more copy of every message at once
(`FailureCounts`), so what it undoes may go out again; COMMIT publishes all it
lets go (`Marked`); `PublishFails` lets go a batch whose channel an earlier
failure closed, and paid for; all other steps undo nothing (`NothingUndone`).

**NotificationApiProofs.** `TypeCorrect`, `AcceptedReadsPendingAlways`,
`ReferencesExistAlways`, `AnswersAreTrueAlways`.
(`ReferencesExist` is run in `system` only, where the worker refers to the
template as well.) The invariant `Serving`: a row under a call's id is what that
call's `Save` inserted, and is there only once the call is past it
(`RowsOfCalls`); the answer a handler holds, and the one a client heard, is true
of the table (`AnswersKnown`).

**WorkerLifecycleProofs.** `TypeCorrect`, `CleanExitLosesNothingAlways`. The
invariant has three parts on top of the types. `Channel`: what was written to the
relay's connection is lost with it, or read before it is closed, and a row that
is marked or about to be had its frame written. `LeavesForCause`: `main` is past
`Run` on a signal, or deaf. `WrittenBeforeClose` is the point: after a signal ctx
is done before `relayCh.Close` begins, so a relay that publishes during the close
gets an error from its next statement, and what is marked, or whose COMMIT is
sent, was written before. With a `deaf` process it does not hold.

**NotificationApiRefusals.** `RefusalsHaveCauseAlways`: a client that repeats a
POST fails at most once for each thing that went wrong. The failures a client
has heard of are not inductive: a cause comes first, the 503 later. So a try is
charged to its cause at once, when it is doomed (`Doomed`: the client has heard,
or 503 is about to be written, or the template it picked is gone), and the
invariant is that the charged tries of a request are no more than the budget,
faults and the one deletion (`Pays`). A step of one call charges that call
(`StepCharges`), and for nothing if it was doomed before (`QueryFaultPaid`). A
crash and the deletion doom every call that is under way; that this is one try
of a request at most is `Sequential`: the next is sent when the last has failed.

**NotificationSystemProofs.** `SystemTypeCorrect`, `OneRowPerSourceAlways`,
`UnannouncedOnlyIfTakenAlways`, `AnnouncedIsTrueAlways`,
`ReferencesExistAlways`, `CallHoldersNeverWaitAlways`, `ApiImplemented`,
`RelayImplemented`, for any number of workers, messages and requests. The
argument is one of composition:

1. `SystemStep`: on the worker's variables, a step of the system is a step of
   `EventConsumer`, or the row of a call and nothing else (`CallInserts`), whose
   id is no attempt and whose event no open transaction and no row has. The
   last is what `CallWaits` and the unique index are for.
2. `Consuming`: the invariants of the worker (`Typed`, `Transactions`,
   `Attempts`, `Accounting`, the balance of deliveries) hold in the system: the
   worker keeps them by the lemmas of `EventConsumerProofs` and
   `EventConsumerRedelivery`, and the row of a call does not disturb them
   (`CallConsumes`). `OneRowPerSource` and `UnannouncedOnlyIfTaken` follow, and
   that the INSERT of a call waits for one worker that waits for nobody
   (`CallHoldersNeverWait`).
3. `Announced`: what was handed over has a committed SENT row. With one row for
   each event it cannot be announced twice.
4. `Key`: a worker's open row that refers to the template keeps it from being
   deleted; with the foreign key at the INSERT (`KeyHolds`) this is
   `ReferencesExist`.
5. `ApiImplemented`: COMMIT with a row is a `Record` of `NotificationLedger`
   (`CommitRecords`: its id is new and its event free, by `Consuming`), the
   API's own steps are themselves, all else stutters. `HeldWithinBound` again
   says that the ids are the ledger's.
6. `RelayImplemented`: only COMMIT stages, and only what was not staged. The
   relay's own steps are those of `OutboxPromise` by definition.

Without the wait of `CallWaits`, or without `KeyHolds`, the proofs fail, like
the run.

**EventIntakeProofs.** `TypeCorrect`, `UnfitIsNotMailedAlways`,
`RenderedOnceAlways`, `NoPlaceholderIsMailedAlways`, `FateFollowsClassAlways`,
for any envelopes, templates, lengths of words and width of the column.
`DecodableIsFit` is the lemma that the decoder's tests, one after the other,
amount to `Malformed`; `Screened` says which stages only a fit delivery reaches.
What is rendered is the invariant `Rendering`: in the middle of the loop the
text is the template with exactly the visited keys filled in (`Filled`),
whatever the order of the map. One round keeps it (`ReplacedFills`) because the
placeholders of two keys differ (`HolesDiffer`) and, in a `Plain` delivery, no
value is one. After the last round no placeholder of the template is left
(`NoHoleLeft`), and the length Postgres sees is that of `Substituted`
(`SavedSubject`), which is how the fate of a delivery comes to be a function of
its envelope. No induction over the text is needed: a text is a function of its
positions, and the sum of lengths is only ever compared with itself.

**Only model-checked:**

- the liveness properties (`SettledEventually`, `ShutdownCompletes`,
  `PublishedEventually`, `PostAnswered`, `EndsAfterSigterm`, `EndsWhenDeaf`),
  which are outside of what the prover handles;
- the refuted claims, for which a counterexample is all there is.

## 6. What is not modelled, and why

- Metrics, spans, logging, `/health`, and `/ready` of the API: they decide
  nothing in what is modelled. Of the worker's `/ready` the connection it takes
  from the pool is modelled, its answer is not: `Consumer.Ping` looks at
  `conn.IsClosed()` only, so that it is 200 also while `main` is in its deferred
  calls, and while the consuming channel is closed on an open connection. No
  property about readiness would hold.
- The choice by channel in `CompositeNotifier`: the worker sets EMAIL whatever
  the channel of the template is, also for the seeded `ALERT_TRIGGERED`, whose
  channel is `IN_APP`; the API stores a channel and sends nothing.
- The variables of a POST (`TemplateVars`): free text of the client, rendered by
  the same `Render` as the worker's.
- The rendering of the envelope the relay publishes, and the trace context in
  it: they do not decide whether it is published.
- The DTOs of the HTTP API are generated types; a request is valid or it is not.
- Migrations, roles, grants, Docker files: deployment.
- The topology (exchanges, bindings) is taken as declared by `NewConsumer`;
  there is no dead-letter queue.
- The detailed relay in `NotificationSystem`: rows of the outbox are all it
  shares with the others, and `ImplementsPromise` covers those.
- Servers that never answer. `EndsAfterSigterm` and `EndsWhenDeaf` name what they
  assume: a mail server keeps `main` in `Send`, a broker in the close of a channel
  (until missed heartbeats make it a lost connection, which the model has as
  `RelayConnLost` and `ConsumerCut` without a timer), Postgres in `pool.Close` as
  long as a client of `/ready` waits for its Ping.
- Errors of Postgres other than casts and lengths in `EventIntake`: `EventConsumer`
  has them (`SaveFails`, and `Unstorable` for those that come with the event).
- Payloads the relay cannot unmarshal: the worker stages none.

Values that are placeholders themselves are modelled, and are outside of
`RenderedOnce` and `FateFollowsClass` (`Plain`): for them the order of a Go map
does show, in the text and, by its length, in whether the row can be stored.

A worker whose deliveries were cut off ends with exit code 0 when it was in
`select` (`Run` returns nil): a supervisor that restarts on failure only would
not start it again. `EndsWhenDeaf` shows that the process ends, not that it is
started anew. Its exit is also not as clean as one after SIGTERM: ctx is not
done, so the relay may publish while `relayCh.Close` is under way, and mark and
commit what the broker drops. `CleanExitLosesNothing` is about the other exits.

## 7. Plan

Done, in this order: `EventConsumer` with `NotificationLedger` and its proofs,
the heart of the service; `OutboxRelay` with `OutboxPromise` and its proofs;
`NotificationApi` and its proofs; `NotificationSystem`, `EventIntake` and
`WorkerLifecycle`; the proofs of redelivery and of the process; the proofs of
the system and of the refusals of the API; the proofs of rendering, of the
waits, of the number of copies, and of the ledger with its bounded ids; the
handshakes at the end of a worker.

To come:

1. `system` with two workers or two messages of one event, once its state is
   small enough for a run; the theorems cover them meanwhile.
2. The detailed relay in the place of `OutboxPromise` inside the system, as a
   theorem: `ImplementsPromise` and `RelayImplemented` side by side.
3. Texts at the level of characters, where a value may end inside a
   placeholder; a matter for TLC, since a concatenation is an induction over data.
