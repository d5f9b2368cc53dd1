---------------------------- MODULE WorkerLifecycle ----------------------------
(***************************************************************************)
(* One notification-worker process from main to exit: the start-up steps   *)
(* that may end in log.Fatal, the goroutines of the consumer (main itself),*)
(* of the relay and of the health server, SIGTERM, lost connections, and   *)
(* the deferred calls that close what they share.  Calls that have no      *)
(* deadline wait for the broker, the mail server or Postgres, each of      *)
(* which may stop answering.  What the calls do to rows and messages is in *)
(* EventConsumer and OutboxRelay; of the outbox one row is followed here.  *)
(***************************************************************************)
EXTENDS Naturals

CONSTANT MaxDeliveries   \* bound on the deliveries this process handles

ASSUME BoundAssumption == MaxDeliveries \in Nat

VARIABLES
  main,          \* the call the main goroutine is in
  ctxDone,       \* the context of signal.NotifyContext is cancelled
  handled,       \* deliveries taken so far
  deaf,          \* Run returned though ctx was not done
  consumerConn,  \* "none", "open", "lost", or "closed" by main
  cut,           \* the consumer's channel is closed, or its consumer cancelled
  relayConn,     \* as consumerConn; "closing" while main waits in relayCh.Close
  relay,         \* the call the relay goroutine is in
  frame,         \* where the message of the row is
  marked,        \* the row is published_at for everybody
  health,        \* the health server
  probe,         \* whether a GET /ready is in the Ping of the pool
  mailAnswers,   \* the mail server answers calls
  dbAnswers,     \* Postgres answers calls
  brokerAnswers  \* RabbitMQ reads frames, and answers calls

run      == <<handled, deaf>>
consumer == <<consumerConn, cut>>
row      == <<frame, marked>>
server   == <<health, probe>>
outside  == <<mailAnswers, dbAnswers, brokerAnswers>>
vars == <<main, ctxDone, run, consumer, relayConn, relay, row, server, outside>>

Ended   == {"exit 0", "exit 1"}
Startup == {"setup", "dial", "dial relay"}
Loop    == {"run", "consume", "select", "look up", "send", "save", "settle"}
Closing == {"close relay", "close consumer", "close pool", "flush traces"}
InTx    == {"query", "publish", "mark", "commit"}

TypeOK ==
  /\ main \in Startup \cup Loop \cup Closing \cup Ended
  /\ {ctxDone, deaf, cut, marked, mailAnswers, dbAnswers, brokerAnswers} \subseteq BOOLEAN
  /\ handled \in 0..MaxDeliveries
  /\ consumerConn \in {"none", "open", "lost", "closed"}
  /\ relayConn \in {"none", "open", "closing", "lost", "closed"}
  /\ relay \in {"none", "tick", "stopped"} \cup InTx
  /\ frame \in {"unsent", "written", "received", "lost"}
  /\ health \in {"none", "serving", "stopped"}
  /\ probe \in {"none", "pinging"}
  /\ main \in Startup \cup Ended => relay = "none" /\ health = "none" /\ probe = "none"

Init ==
  /\ main = "setup"
  /\ ctxDone = FALSE
  /\ handled = 0 /\ deaf = FALSE
  /\ consumerConn = "none" /\ cut = FALSE
  /\ relayConn = "none"
  /\ relay = "none"
  /\ frame = "unsent" /\ marked = FALSE
  /\ health = "none" /\ probe = "none"
  /\ mailAnswers = TRUE /\ dbAnswers \in BOOLEAN /\ brokerAnswers = TRUE
-----------------------------------------------------------------------------
(* The process ends. *)

\* Connections the process had open are cut, and with them what the broker has
\* not read; the other goroutines are gone.
End(code) ==
  /\ main' = code
  /\ relay' = "none"
  /\ health' = "none"
  /\ probe' = "none"
  /\ consumerConn' = IF consumerConn = "open" THEN "lost" ELSE consumerConn
  /\ relayConn' = IF relayConn = "open" THEN "lost" ELSE relayConn
  /\ frame' = IF relayConn = "open" /\ frame = "written" THEN "lost" ELSE frame

\* log.Fatal: no deferred call is made.
Fatal == End("exit 1")
-----------------------------------------------------------------------------
(* main, up to Run. *)

\* Environment variables, telemetry, pool: nothing of it talks to Postgres yet.
SetUp ==
  /\ main = "setup"
  /\ main' = "dial"
  /\ UNCHANGED <<ctxDone, run, consumer, relayConn, relay, row, server, outside>>

\* Variant for comparison: the health server is started before the relay.
DialHealthFirst ==
  /\ main = "dial"
  /\ brokerAnswers
  /\ main' = "dial relay"
  /\ consumerConn' = "open"
  /\ health' = "serving"
  /\ UNCHANGED <<ctxDone, run, cut, relayConn, relay, row, probe, outside>>

\* NewConsumer.
Dial ==
  /\ main = "dial"
  /\ brokerAnswers
  /\ main' = "dial relay"
  /\ consumerConn' = "open"
  /\ UNCHANGED <<ctxDone, run, cut, relayConn, relay, row, server, outside>>

\* The relay's connection, channel and exchange; then both goroutines start.
DialRelay ==
  /\ main = "dial relay"
  /\ brokerAnswers
  /\ main' = "run"
  /\ relayConn' = "open"
  /\ relay' = "tick"
  /\ health' = "serving"
  /\ UNCHANGED <<ctxDone, run, consumer, row, probe, outside>>

StartupFails ==
  /\ main \in Startup
  /\ Fatal
  /\ UNCHANGED <<ctxDone, run, cut, marked, outside>>
-----------------------------------------------------------------------------
(* Consumer.Run. *)

\* ConsumeWithContext looks at ctx once, then waits for the broker.
RunStarts ==
  /\ main = "run" /\ ~ctxDone
  /\ main' = "consume"
  /\ UNCHANGED <<ctxDone, run, consumer, relayConn, relay, row, server, outside>>

Consumes ==
  /\ main = "consume"
  /\ brokerAnswers /\ ~cut
  /\ main' = "select"
  /\ UNCHANGED <<ctxDone, run, consumer, relayConn, relay, row, server, outside>>

\* On a closed channel it returns an error, which is fatal unless ctx is done.
RunRefused ==
  /\ main = "consume"
  /\ cut /\ ~ctxDone
  /\ Fatal
  /\ UNCHANGED <<ctxDone, run, cut, marked, outside>>

\* Variant for comparison: the closed deliveries channel is not noticed.
RunReturnsAskedOnly ==
  /\ \/ main \in {"run", "select"} /\ ctxDone
     \/ main = "consume" /\ cut /\ ctxDone
  /\ main' = "close relay"
  /\ deaf' = ~ctxDone
  /\ UNCHANGED <<ctxDone, handled, consumer, relayConn, relay, row, server, outside>>

\* ctx is done, or the deliveries channel was closed: main goes on to its
\* deferred calls, and the exit code is 0 either way.
RunReturns ==
  /\ \/ main \in {"run", "select"} /\ ctxDone
     \/ main = "consume" /\ cut /\ ctxDone
     \/ main = "select" /\ cut
  /\ main' = "close relay"
  /\ deaf' = ~ctxDone
  /\ UNCHANGED <<ctxDone, handled, consumer, relayConn, relay, row, server, outside>>

\* A delivery, perhaps from the buffer of a closed channel; one that cannot be
\* decoded or mapped is settled at once.
Receive ==
  /\ main = "select"
  /\ handled < MaxDeliveries
  /\ handled' = handled + 1
  /\ main' \in {"look up", "settle"}
  /\ UNCHANGED <<ctxDone, deaf, consumer, relayConn, relay, row, server, outside>>

\* FindByCode; every error of it is ignored.  A done ctx ends the wait.
LookUp ==
  /\ main = "look up"
  /\ dbAnswers \/ ctxDone
  /\ main' = "send"
  /\ UNCHANGED <<ctxDone, run, consumer, relayConn, relay, row, server, outside>>

\* smtp.SendMail has no deadline and takes no ctx.
Send ==
  /\ main = "send"
  /\ mailAnswers
  /\ main' = "save"
  /\ UNCHANGED <<ctxDone, run, consumer, relayConn, relay, row, server, outside>>

\* SaveWithOutbox; a done ctx ends every wait for Postgres.
Save ==
  /\ main = "save"
  /\ dbAnswers \/ ctxDone
  /\ main' = "settle"
  /\ UNCHANGED <<ctxDone, run, consumer, relayConn, relay, row, server, outside>>

\* Ack or Nack: a frame is written, unless the channel is closed.
Settle ==
  /\ main = "settle"
  /\ brokerAnswers \/ cut
  /\ main' = "select"
  /\ UNCHANGED <<ctxDone, run, consumer, relayConn, relay, row, server, outside>>
-----------------------------------------------------------------------------
(* The deferred calls, last first. *)

\* relayCh.Close sends channel.close; the relay goroutine is still there.
SendClose ==
  /\ main = "close relay"
  /\ relayConn = "open"
  /\ relayConn' = "closing"
  /\ UNCHANGED <<main, ctxDone, run, consumer, relay, row, server, outside>>

\* The broker answers, and has read what was written before channel.close; the
\* same wait, for the connection itself, is taken together with this one.  On a
\* lost connection both calls return at once.
CloseRelay ==
  /\ main = "close relay"
  /\ relayConn = "lost" \/ (relayConn = "closing" /\ brokerAnswers)
  /\ main' = "close consumer"
  /\ relayConn' = IF relayConn = "closing" THEN "closed" ELSE relayConn
  /\ frame' = IF relayConn = "closing" /\ frame = "written" THEN "received" ELSE frame
  /\ UNCHANGED <<ctxDone, run, consumer, relay, marked, server, outside>>

\* Consumer.Close: the same for the consumer's channel and connection.
CloseConsumer ==
  /\ main = "close consumer"
  /\ consumerConn = "open" => brokerAnswers
  /\ main' = "close pool"
  /\ consumerConn' = IF consumerConn = "open" THEN "closed" ELSE consumerConn
  /\ UNCHANGED <<ctxDone, run, cut, relayConn, relay, row, server, outside>>

\* pool.Close lets nobody begin and waits until every connection is given back:
\* that of the relay's transaction, and that of a Ping.
ClosePool ==
  /\ main = "close pool"
  /\ relay \notin InTx
  /\ probe = "none"
  /\ main' = "flush traces"
  /\ UNCHANGED <<ctxDone, run, consumer, relayConn, relay, row, server, outside>>

\* providers.Shutdown, with its own deadline; main returns.
FlushTraces ==
  /\ main = "flush traces"
  /\ End("exit 0")
  /\ UNCHANGED <<ctxDone, run, cut, marked, outside>>
-----------------------------------------------------------------------------
(* The relay goroutine: Run and PollAndPublish. *)

PoolClosed == main \in {"close pool", "flush traces"}

\* Begin.  It fails at once on a done ctx and on a closed pool.
Tick ==
  /\ relay = "tick"
  /\ ~ctxDone /\ ~PoolClosed
  /\ relay' = "query"
  /\ UNCHANGED <<main, ctxDone, run, consumer, relayConn, row, server, outside>>

\* Variant for comparison: the queries run on context.Background().
StatementReturnsBackground(next) == dbAnswers /\ relay' = next

\* A statement of the relay's transaction: done when Postgres answers, with or
\* without an error; when ctx is done it returns an error whatever Postgres does.
\* The deferred Rollback then gives the connection back.
StatementReturns(next) ==
  \/ dbAnswers /\ ~ctxDone /\ relay' = next
  \/ (dbAnswers \/ ctxDone) /\ relay' = "tick"

Query ==
  /\ relay = "query"
  /\ StatementReturns(IF marked THEN "tick" ELSE "publish")
  /\ UNCHANGED <<main, ctxDone, run, consumer, relayConn, row, server, outside>>

\* PublishWithContext succeeds once the frame is written, also in the middle of
\* relayCh.Close: the broker drops what comes after channel.close.  A copy it
\* has, or has yet to read, stays.  On a closed channel the poll fails.
Publish ==
  /\ relay = "publish"
  /\ \/ /\ relayConn \in {"open", "closing"} /\ brokerAnswers
        /\ relay' = "mark"
        /\ frame' = IF frame \in {"received", "written"} THEN frame
                    ELSE IF relayConn = "open" THEN "written" ELSE "lost"
     \/ /\ relayConn \notin {"open", "closing"}
        /\ relay' = "tick"
        /\ UNCHANGED frame
  /\ UNCHANGED <<main, ctxDone, run, consumer, relayConn, marked, server, outside>>

Mark ==
  /\ relay = "mark"
  /\ StatementReturns("commit")
  /\ UNCHANGED <<main, ctxDone, run, consumer, relayConn, row, server, outside>>

\* COMMIT was sent before ctx was done, or fails.
Commit ==
  /\ relay = "commit"
  /\ \/ dbAnswers /\ marked' = TRUE
     \/ (dbAnswers \/ ctxDone) /\ UNCHANGED marked
  /\ relay' = "tick"
  /\ UNCHANGED <<main, ctxDone, run, consumer, relayConn, frame, server, outside>>

RelayStops ==
  /\ relay = "tick"
  /\ ctxDone
  /\ relay' = "stopped"
  /\ UNCHANGED <<main, ctxDone, run, consumer, relayConn, row, server, outside>>

RelayStep == Tick \/ Query \/ Publish \/ Mark \/ Commit \/ RelayStops
-----------------------------------------------------------------------------
(* The health server. *)

\* GET /ready: Ping takes a connection of the pool, under the context of the
\* request, which SIGTERM does not cancel.  One handler stands for all.
PingStarts ==
  /\ health = "serving"
  /\ probe = "none" /\ ~PoolClosed
  /\ probe' = "pinging"
  /\ UNCHANGED <<main, ctxDone, run, consumer, relayConn, relay, row, health, outside>>

\* Postgres answers.
PingReturns ==
  /\ probe = "pinging"
  /\ dbAnswers
  /\ probe' = "none"
  /\ UNCHANGED <<main, ctxDone, run, consumer, relayConn, relay, row, health, outside>>

\* The client goes away, and with it the context of its request.
ProberLeaves ==
  /\ probe = "pinging"
  /\ probe' = "none"
  /\ UNCHANGED <<main, ctxDone, run, consumer, relayConn, relay, row, health, outside>>

\* srv.Shutdown, once ctx is done; it ends no handler.
HealthStops ==
  /\ health = "serving"
  /\ ctxDone
  /\ health' = "stopped"
  /\ UNCHANGED <<main, ctxDone, run, consumer, relayConn, relay, row, probe, outside>>

HealthStep == PingStarts \/ PingReturns \/ ProberLeaves \/ HealthStops
-----------------------------------------------------------------------------
(* What happens to the process. *)

Up == main \notin Ended

Sigterm ==
  /\ Up /\ ~ctxDone
  /\ ctxDone' = TRUE
  /\ UNCHANGED <<main, run, consumer, relayConn, relay, row, server, outside>>

\* The broker closes the consumer's channel or cancels its consumer, the
\* connection stays; or the connection is lost.
ConsumerCut ==
  /\ Up /\ consumerConn = "open"
  /\ cut' = TRUE
  /\ consumerConn' \in {"open", "lost"}
  /\ UNCHANGED <<main, ctxDone, run, relayConn, relay, row, server, outside>>

RelayConnLost ==
  /\ Up /\ relayConn \in {"open", "closing"}
  /\ relayConn' = "lost"
  /\ frame' = IF frame = "written" THEN "lost" ELSE frame
  /\ UNCHANGED <<main, ctxDone, run, consumer, relay, marked, server, outside>>

BrokerReads ==
  /\ Up /\ relayConn \in {"open", "closing"}
  /\ frame = "written" /\ brokerAnswers
  /\ frame' = "received"
  /\ UNCHANGED <<main, ctxDone, run, consumer, relayConn, relay, marked, server, outside>>

\* One of the servers stops answering, or answers again.
OutsideChanges ==
  /\ Up
  /\ \/ mailAnswers' = ~mailAnswers /\ UNCHANGED <<dbAnswers, brokerAnswers>>
     \/ dbAnswers' = ~dbAnswers /\ UNCHANGED <<mailAnswers, brokerAnswers>>
     \/ brokerAnswers' = ~brokerAnswers /\ UNCHANGED <<mailAnswers, dbAnswers>>
  /\ UNCHANGED <<main, ctxDone, run, consumer, relayConn, relay, row, server>>

Happens == Sigterm \/ ConsumerCut \/ RelayConnLost \/ BrokerReads \/ OutsideChanges
-----------------------------------------------------------------------------
\* What main does by itself once the call it is in returns.
MainStep ==
  \/ SetUp \/ Dial \/ DialRelay
  \/ RunStarts \/ Consumes \/ RunRefused \/ RunReturns
  \/ LookUp \/ Send \/ Save \/ Settle
  \/ SendClose \/ CloseRelay \/ CloseConsumer \/ ClosePool \/ FlushTraces

Next == MainStep \/ StartupFails \/ Receive \/ RelayStep \/ HealthStep \/ Happens

Spec == Init /\ [][Next]_vars

\* Each goroutine that can go on does, and a Ping that Postgres answers returns;
\* nothing is assumed of who sends signals, messages and requests, nor of the
\* servers outside.
Fairness == WF_vars(MainStep) /\ WF_vars(RelayStep) /\ WF_vars(PingReturns)

FairSpec == Spec /\ Fairness
-----------------------------------------------------------------------------
(* Safety. *)

\* A process that was stopped by a signal and exits with 0 loses no message its
\* relay marked published, unless the relay's connection was lost: what is
\* written once relayCh.Close is under way is not marked, because ctx is done.
CleanExitLosesNothing ==
  main = "exit 0" /\ ~deaf /\ marked /\ relayConn = "closed" => frame = "received"
-----------------------------------------------------------------------------
(* Liveness. *)

\* SIGTERM ends the process, if need be without an answer from Postgres, as long
\* as mail server and broker answer in the end: smtp.SendMail and the close of
\* channels and connections wait for them without a deadline.  Without Postgres
\* the clients of GET /ready must not wait for ever either.
EndsAfterSigterm ==
  /\ <>[](mailAnswers /\ brokerAnswers)
  /\ <>[]dbAnswers \/ []<>(probe = "none")
  => (ctxDone ~> ~Up)

\* A worker whose deliveries were cut off does not linger: as long as mail
\* server, Postgres and the broker answer in the end, the last for the sake of
\* the deferred calls, it ends, so that it can be started anew.
EndsWhenDeaf ==
  <>[](mailAnswers /\ dbAnswers /\ brokerAnswers) => (cut ~> ~Up)
=============================================================================
