------------------------------ MODULE OutboxRelay ------------------------------
(***************************************************************************)
(* OutboxRelay.Run and PollAndPublish: each relay polls the outbox, locks  *)
(* a batch of unpublished rows (FOR UPDATE SKIP LOCKED), hands them to its *)
(* AMQP channel one by one, marks each in the same transaction and         *)
(* commits.  Several relays run against one table; each may crash, lose    *)
(* its channel or get an error from Postgres between any two calls.        *)
(***************************************************************************)
EXTENDS Naturals, FiniteSets

CONSTANTS
  Relays,            \* one per notification-worker process
  Events,            \* rows of notification.outbox
  CreatedAt,         \* their created_at
  Limit,             \* the LIMIT of the batch
  MaxFailures        \* bound on crashes, closed channels and errors from Postgres

ASSUME CreatedAtAssumption == CreatedAt \in [Events -> Nat]
ASSUME LimitAssumption == Limit \in Nat \ {0}
ASSUME BoundAssumption == MaxFailures \in Nat

VARIABLES
  \* Postgres:
  staged,          \* committed rows of outbox
  published,       \* those with published_at set, committed
  locked,          \* the rows each relay's open transaction has locked
  marked,          \* the rows it has updated, not committed
  \* a relay:
  pc,              \* "down", waiting for the "tick", about to "publish" or "mark"
  open,            \* its AMQP channel is usable
  sending,         \* rows of the batch handed to the channel
  \* RabbitMQ:
  wire,            \* messages written to each channel, not yet read by the broker
  accepted,        \* messages the exchange has received
  \* what is observed:
  copies,          \* how often each event was written to a channel
  interruptions, faults

table == <<staged, published>>
batch == <<locked, marked, sending>>
link  == <<open, wire, accepted>>
vars  == <<table, batch, pc, link, copies, interruptions, faults>>

\* Every event ever written to a channel.
handed == {e \in Events : copies[e] > 0}

TypeOK ==
  /\ staged \in SUBSET Events
  /\ published \in SUBSET staged
  /\ locked \in [Relays -> SUBSET Events]
  /\ \A r \in Relays : pc[r] \in {"down", "tick"} => locked[r] = {}
  /\ marked \in [Relays -> SUBSET Events]
  /\ sending \in [Relays -> SUBSET Events]
  /\ pc \in [Relays -> {"down", "tick", "publish", "mark"}]
  /\ open \in [Relays -> BOOLEAN]
  /\ wire \in [Relays -> SUBSET Events]
  /\ accepted \in SUBSET Events
  /\ copies \in [Events -> Nat]
  /\ interruptions \in Nat
  /\ faults \in Nat

Init ==
  /\ staged = {}
  /\ published = {}
  /\ locked = [r \in Relays |-> {}]
  /\ marked = [r \in Relays |-> {}]
  /\ sending = [r \in Relays |-> {}]
  /\ pc = [r \in Relays |-> "down"]
  /\ open = [r \in Relays |-> FALSE]
  /\ wire = [r \in Relays |-> {}]
  /\ accepted = {}
  /\ copies = [e \in Events |-> 0]
  /\ interruptions = 0
  /\ faults = 0
-----------------------------------------------------------------------------
\* SaveWithOutbox commits a row.
Stage(e) ==
  /\ e \notin staged
  /\ staged' = staged \cup {e}
  /\ UNCHANGED <<published, batch, pc, link, copies, interruptions, faults>>

\* Variant for comparison: FOR UPDATE of a relay that keeps no lock.
EligibleUnlocked(r) == staged \ published

\* WHERE published_at IS NULL ... FOR UPDATE SKIP LOCKED: a row another relay
\* has locked is passed over, not waited for.
Eligible(r) == staged \ (published \cup UNION {locked[s] : s \in Relays})

\* ORDER BY created_at LIMIT; rows of one instant come in any order.
IsBatch(b, rows) ==
  /\ b \subseteq rows
  /\ \A e \in b, f \in rows \ b : CreatedAt[e] =< CreatedAt[f]
  /\ Cardinality(b) = IF Cardinality(rows) < Limit THEN Cardinality(rows) ELSE Limit

\* Rows are locked one by one.  One that another relay has at that moment may be
\* free again before the SELECT is done, so that beside other relays a batch can
\* have gaps and be short.
HasGaps(r, b) == Relays # {r} /\ Cardinality(b) =< Limit

\* A tick with rows to publish.  (Without rows, or with an error of Begin or
\* SELECT, PollAndPublish returns and nothing has changed.)
Poll(r) ==
  /\ pc[r] = "tick"
  /\ \E b \in SUBSET Eligible(r) \ {{}} :
       /\ IsBatch(b, Eligible(r)) \/ HasGaps(r, b)
       /\ locked' = [locked EXCEPT ![r] = b]
  /\ pc' = [pc EXCEPT ![r] = "publish"]
  /\ UNCHANGED <<table, marked, sending, link, copies, interruptions, faults>>

\* The next row of the batch.
IsNext(r, e) ==
  /\ e \in locked[r] \ sending[r]
  /\ \A f \in locked[r] \ sending[r] : CreatedAt[e] =< CreatedAt[f]

\* PublishWithContext returns nil once the frame is written to the socket: the
\* channel is not in confirm mode.
PublishOne(r, e) ==
  /\ pc[r] = "publish" /\ open[r]
  /\ IsNext(r, e)
  /\ wire' = [wire EXCEPT ![r] = @ \cup {e}]
  /\ copies' = [copies EXCEPT ![e] = @ + 1]
  /\ sending' = [sending EXCEPT ![r] = @ \cup {e}]
  /\ pc' = [pc EXCEPT ![r] = "mark"]
  /\ UNCHANGED <<table, locked, marked, open, accepted, interruptions, faults>>

\* Variant for comparison: UPDATE without WHERE id.
MarkWholeBatch(r) ==
  /\ pc[r] = "mark"
  /\ marked' = [marked EXCEPT ![r] = locked[r]]
  /\ sending' = [sending EXCEPT ![r] = locked[r]]
  /\ pc' = [pc EXCEPT ![r] = "publish"]
  /\ UNCHANGED <<table, locked, link, copies, interruptions, faults>>

Mark(r) ==
  /\ pc[r] = "mark"
  /\ marked' = [marked EXCEPT ![r] = sending[r]]
  /\ pc' = [pc EXCEPT ![r] = "publish"]
  /\ UNCHANGED <<table, locked, sending, link, copies, interruptions, faults>>

\* The transaction ends, one way or the other; back to the ticker.
EndPoll(r) ==
  /\ locked' = [locked EXCEPT ![r] = {}]
  /\ marked' = [marked EXCEPT ![r] = {}]
  /\ sending' = [sending EXCEPT ![r] = {}]

\* Variant for comparison: return without COMMIT, the deferred Rollback runs.
NeverCommitted(r) ==
  /\ pc[r] = "publish"
  /\ sending[r] = locked[r]
  /\ EndPoll(r)
  /\ pc' = [pc EXCEPT ![r] = "tick"]
  /\ UNCHANGED <<table, link, copies, interruptions, faults>>

\* All of the batch is published.  An answer to COMMIT that is lost changes
\* nothing: the error is only logged.
Commit(r) ==
  /\ pc[r] = "publish"
  /\ sending[r] = locked[r]
  /\ published' = published \cup marked[r]
  /\ EndPoll(r)
  /\ pc' = [pc EXCEPT ![r] = "tick"]
  /\ UNCHANGED <<staged, link, copies, interruptions, faults>>

\* Variant for comparison: the error of publishOne is not looked at.
PublishErrorIgnored(r) ==
  /\ pc[r] = "publish" /\ ~open[r]
  /\ sending' = [sending EXCEPT ![r] = locked[r]]
  /\ pc' = [pc EXCEPT ![r] = "mark"]
  /\ UNCHANGED <<table, locked, marked, link, copies, interruptions, faults>>

\* Variant for comparison: no deferred Rollback, the transaction stays open.
LeaksTransaction(r) ==
  /\ pc[r] = "publish" /\ ~open[r]
  /\ sending[r] # locked[r]
  /\ pc' = [pc EXCEPT ![r] = "tick"]
  /\ UNCHANGED <<table, batch, link, copies, interruptions, faults>>

\* The channel is closed: publishOne returns an error, the batch is rolled
\* back.  Nothing reopens the channel.  (A payload that is no JSON object would
\* fail likewise; the worker stages none.)
PublishFails(r) ==
  /\ pc[r] = "publish" /\ ~open[r]
  /\ sending[r] # locked[r]
  /\ EndPoll(r)
  /\ pc' = [pc EXCEPT ![r] = "tick"]
  /\ UNCHANGED <<table, link, copies, interruptions, faults>>

\* UPDATE or COMMIT returns an error and has no effect.
SqlFails(r) ==
  /\ interruptions + faults < MaxFailures
  /\ pc[r] = "mark" \/ (pc[r] = "publish" /\ sending[r] = locked[r])
  /\ faults' = faults + 1
  /\ EndPoll(r)
  /\ pc' = [pc EXCEPT ![r] = "tick"]
  /\ UNCHANGED <<table, link, copies, interruptions>>
-----------------------------------------------------------------------------
\* The broker reads a message off the connection.
Accept(r, e) ==
  /\ e \in wire[r]
  /\ wire' = [wire EXCEPT ![r] = @ \ {e}]
  /\ accepted' = accepted \cup {e}
  /\ UNCHANGED <<table, batch, pc, open, copies, interruptions, faults>>

\* What was written and not read is gone with the connection.
ChannelClosed(r) ==
  /\ interruptions + faults < MaxFailures
  /\ pc[r] # "down" /\ open[r]
  /\ open' = [open EXCEPT ![r] = FALSE]
  /\ wire' = [wire EXCEPT ![r] = {}]
  /\ interruptions' = interruptions + 1
  /\ UNCHANGED <<table, batch, pc, accepted, copies, faults>>

\* The process dies, or main returns after SIGTERM in the middle of a poll.
Crash(r) ==
  /\ interruptions + faults < MaxFailures
  /\ pc[r] # "down"
  /\ open' = [open EXCEPT ![r] = FALSE]
  /\ wire' = [wire EXCEPT ![r] = {}]
  /\ EndPoll(r)
  /\ pc' = [pc EXCEPT ![r] = "down"]
  /\ interruptions' = interruptions + 1
  /\ UNCHANGED <<table, accepted, copies, faults>>

\* main dials a connection, opens a channel and starts Run.
Start(r) ==
  /\ pc[r] = "down"
  /\ open' = [open EXCEPT ![r] = TRUE]
  /\ pc' = [pc EXCEPT ![r] = "tick"]
  /\ UNCHANGED <<table, batch, wire, accepted, copies, interruptions, faults>>
-----------------------------------------------------------------------------
\* The rest of PollAndPublish, once it has a batch.
Finish(r) ==
  \/ \E e \in Events : PublishOne(r, e)
  \/ Mark(r) \/ Commit(r) \/ PublishFails(r)

Next ==
  \/ \E e \in Events : Stage(e)
  \/ \E r \in Relays : Poll(r) \/ Finish(r) \/ SqlFails(r)
  \/ \E r \in Relays, e \in Events : Accept(r, e)
  \/ \E r \in Relays : ChannelClosed(r) \/ Crash(r) \/ Start(r)

Spec == Init /\ [][Next]_vars

\* The ticker fires for ever, and not always in the moments in which another
\* relay holds the rows (SF); a poll goes on to its end (WF).  Nothing is
\* assumed of Start: no restart policy is part of the repository.
Fairness ==
  \A r \in Relays : SF_vars(Poll(r)) /\ WF_vars(Finish(r))

FairSpec == Spec /\ Fairness
-----------------------------------------------------------------------------
(* Safety. *)

\* FOR UPDATE SKIP LOCKED: two relays never hold one row, and no relay holds a
\* row that is already published, so a batch is published by one relay.
BatchesDisjoint ==
  \A r \in Relays :
    /\ locked[r] \cap published = {}
    /\ \A s \in Relays \ {r} : locked[r] \cap locked[s] = {}

\* A row is marked published only after its message was written to a channel:
\* an error of publishOne marks nothing.
PublishedWasHanded == published \subseteq handed

\* At least once is not any number of times: a message goes out again only if a
\* crash, a lost channel or an error of Postgres undid a batch it was in, and
\* each of these undoes one batch.  Polls of several relays, or one relay's next
\* tick, never repeat what is published or in the hands of another.
RepublishedOnlyAfterFailure ==
  \A e \in Events : copies[e] =< 1 + interruptions + faults

\* As long as no process and no channel was lost, a row marked published has
\* reached the broker or is on its way.
LostOnlyByInterruption ==
  interruptions = 0 =>
    published \subseteq accepted \cup UNION {wire[r] : r \in Relays}

Promise == INSTANCE OutboxPromise

\* The relays together implement the Outbox pattern: see OutboxPromise.
PromiseSpec == Promise!Spec
-----------------------------------------------------------------------------
(* Liveness. *)

\* While one relay stays up with its channel open, every staged row gets
\* published: a batch that fails is retried, LIMIT starves no row, and rows
\* locked by a relay that dies are released.
PublishedEventually ==
  (\E r \in Relays : <>[](pc[r] # "down" /\ open[r])) =>
    \A e \in Events : e \in staged ~> e \in published
-----------------------------------------------------------------------------
(* What the comments of the code claim, and the code breaks. *)

\* OutboxEvent is "staged for at-least-once publishing": what is marked
\* published has reached the broker or is on its way to it.
AtLeastOnce == published \subseteq accepted \cup UNION {wire[r] : r \in Relays}

\* The relay's "only job is get it to the broker eventually", and "a broker/DB
\* blip should not kill the worker": a worker that stays up publishes.
PublishedWhileUp ==
  (\E r \in Relays : <>[](pc[r] # "down")) =>
    \A e \in Events : e \in staged ~> e \in published
=============================================================================
