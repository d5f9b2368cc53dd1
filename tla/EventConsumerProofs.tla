-------------------------- MODULE EventConsumerProofs --------------------------
(***************************************************************************)
(* Proofs about EventConsumer, for any workers, messages and events and    *)
(* any number of interruptions.  The invariants are proved one after the   *)
(* other, each with the help of those before it:                           *)
(*   Typed         the types, and that SaveWithOutbox has an outcome;      *)
(*   Transactions  what an open transaction may hold;                      *)
(*   Attempts      where an attempt is, and what is known under its name;  *)
(*   Accounting    where a message is, and what is known when it is acked. *)
(* Redeliveries and the refinement of NotificationLedger are in            *)
(* EventConsumerRedelivery.                                                *)
(***************************************************************************)
EXTENDS EventConsumer, TLAPS

-----------------------------------------------------------------------------
(* Typing. *)

\* Status has been assigned before SaveWithOutbox is called.
Decided == \A w \in Workers : InSave(w) => outcome[w] \in {"SENT", "FAILED"}

Typed == WorkerTypeOK /\ Decided

\* Before anything runs.
LEMMA TypedInit == Init => Typed
  BY EventOfAssumption DEF Init, Typed, WorkerTypeOK, Decided, Handling, InSave, PCs, Status

\* Every step keeps the types: one case for each action.
LEMMA TypedStep == Typed /\ [Next]_vars => Typed'
<1> SUFFICES ASSUME Typed, [Next]_vars PROVE Typed'
  OBVIOUS
<1> USE EventOfAssumption DEF Typed, WorkerTypeOK, Decided, Handling, InSave, PCs, Status
<1>1. ASSUME NEW m \in Msgs, Publish(m) PROVE Typed'
  BY <1>1 DEF Publish, process, memory, database, observed
<1>2. ASSUME NEW w \in Workers, NEW m \in Msgs, Deliver(w, m) PROVE Typed'
  BY <1>2 DEF Deliver, Attempt, memory, database, observed
<1>3. ASSUME NEW w \in Workers, Restart(w) PROVE Typed'
  BY <1>3 DEF Restart, broker, memory, database, observed
<1>4. ASSUME NEW w \in Workers, Shutdown(w) PROVE Typed'
  BY <1>4 DEF Shutdown, broker, memory, database, observed
<1>5. ASSUME NEW w \in Workers, ConnectionLost(w) PROVE Typed'
  BY <1>5 DEF ConnectionLost, Requeue, memory, database, observed
<1>6. ASSUME NEW w \in Workers, Exit(w), interruptions' \in Nat PROVE Typed'
  BY <1>6 DEF Exit, Requeue, observed
<1>7. ASSUME NEW w \in Workers, NEW a \in inbox[w], Receive(w, a) PROVE Typed'
  BY <1>7 DEF Receive, broker, database, observed
<1>8. ASSUME NEW w \in Workers, RejectEnvelope(w) PROVE Typed'
  BY <1>8 DEF RejectEnvelope, Settles, Settled, Release, Goto, Msg, Attempt, process,
    database, observed
<1>9. ASSUME NEW w \in Workers, RejectEvent(w) PROVE Typed'
  BY <1>9 DEF RejectEvent, Fails, Goto, broker, process, memory, database
<1>10. ASSUME NEW w \in Workers, Prepare(w) PROVE Typed'
  BY <1>10 DEF Prepare, Goto, broker, process, memory, database, observed
<1>11. ASSUME NEW w \in Workers, SendStep(w) PROVE Typed'
  BY <1>11 DEF SendStep, Send, SendStatus, Goto, broker, process, database
<1>12. ASSUME NEW w \in Workers, Begin(w) PROVE Typed'
  BY <1>12 DEF Begin, Goto, broker, process, memory, database, observed
<1>13. ASSUME NEW w \in Workers, InsertNotification(w) PROVE Typed'
  BY <1>13 DEF InsertNotification, AfterInsert, RowOf, Row, Source, Msg, Attempt, Goto,
    broker, process, memory, observed
<1>14. ASSUME NEW w \in Workers, StageEvent(w) PROVE Typed'
  BY <1>14 DEF StageEvent, Goto, broker, process, memory, observed
<1>15. ASSUME NEW w \in Workers, NEW b \in BOOLEAN, Commit(w, b) PROVE Typed'
  BY <1>15 DEF Commit, EndTransaction, Fails, Goto, broker, process, memory
<1>16. ASSUME NEW w \in Workers, SaveFails(w) PROVE Typed'
  BY <1>16 DEF SaveFails, EndTransaction, Fails, Goto, broker, process, memory
<1>17. ASSUME NEW w \in Workers, Ack(w) PROVE Typed'
  BY <1>17 DEF Ack, Acked, Settles, Settled, Release, Goto, Msg, Attempt, process,
    database, observed
<1>18. CASE UNCHANGED vars
  BY <1>18 DEF vars, broker, process, memory, database, observed
<1> QED
  BY <1>1, <1>2, <1>3, <1>4, <1>5, <1>6, <1>7, <1>8, <1>9, <1>10, <1>11, <1>12, <1>13,
    <1>14, <1>15, <1>16, <1>17, <1>18, SMTT(30)
    DEF Next, Step, SaveWithOutbox, Crash, RunReturns

\* Only COMMIT changes the two tables.
LEMMA TablesStep ==
  ASSUME [Next]_vars
  PROVE  \/ UNCHANGED <<rows, outbox>>
         \/ \E w \in Workers, b \in BOOLEAN : Commit(w, b)
BY DEF Next, vars, Publish, Deliver, Restart, Shutdown, ConnectionLost, Crash, Exit, Step,
  Receive, RunReturns, RejectEnvelope, RejectEvent, Prepare, SendStep, Send,
  SaveWithOutbox, Begin, InsertNotification, StageEvent, SaveFails, Ack, database

\* The types hold in every reachable state.
LEMMA TypedAlways == Spec => []Typed
  BY TypedInit, TypedStep, PTL DEF Spec

\* Every variable keeps its type, and a worker inside handle has a delivery
\* in hand: no step of Consumer.handle reads the zero Delivery.
THEOREM TypeCorrect == Spec => []TypeOK
<1>1. Init => TypeOK
  BY TypedInit DEF Init, Typed, TypeOK
<1>2. Typed /\ Typed' /\ TypeOK /\ [Next]_vars => TypeOK'
  <2> SUFFICES ASSUME Typed, Typed', TypeOK, [Next]_vars PROVE rows' \subseteq Row
    BY DEF Typed, TypeOK
  <2>1. \A w \in Workers : txRows[w] \subseteq Row
    BY DEF Typed, WorkerTypeOK
  <2> QED
    BY <2>1, TablesStep DEF TypeOK, Commit
<1> QED
  BY <1>1, <1>2, TypedAlways, PTL DEF Spec
-----------------------------------------------------------------------------
(* Transactions. *)

\* An open transaction holds the row of the attempt in hand and, once it has
\* staged it, the event of that row.
TransactionShape ==
  \A w \in Workers :
    /\ txRows[w] \subseteq {RowOf(w)}
    /\ pc[w] \notin {"stage", "commit"} => txRows[w] = {}
    /\ pc[w] = "stage" => txRows[w] = {RowOf(w)} /\ outcome[w] = "SENT"
    /\ pc[w] # "commit" => txEvts[w] = {}
    /\ pc[w] = "commit" =>
         txEvts[w] = {r.id : r \in {s \in txRows[w] : s.status = "SENT"}}

\* What uq_sent_notification_source_event_id keeps apart: open transactions
\* from one another and from what is committed.
IndexHolds ==
  /\ \A w \in Workers, s \in rows : \A t \in txRows[w] : ~Clash(t, s)
  /\ \A w \in Workers : \A v \in Workers \ {w} :
       \A t \in txRows[w], s \in txRows[v] : ~Clash(t, s)

Transactions == TransactionShape /\ IndexHolds /\ OneRowPerEvent /\ OutboxMatchesRows

\* Before anything runs no transaction is open and the tables are empty.
LEMMA TransactionsInit == Init => Transactions
  BY DEF Init, Transactions, TransactionShape, IndexHolds, OneRowPerEvent,
    OutboxMatchesRows

\* Every step keeps the shape: the steps outside SaveWithOutbox because the
\* worker holds nothing, those inside one by one.
LEMMA ShapeStep == Typed /\ TransactionShape /\ [Next]_vars => TransactionShape'
<1> SUFFICES ASSUME Typed, TransactionShape, [Next]_vars PROVE TransactionShape'
  OBVIOUS
<1> USE DEF Typed, WorkerTypeOK, Decided, TransactionShape, PCs, Status
\* Steps outside SaveWithOutbox, in which the worker holds no transaction.
<1>1. ASSUME UNCHANGED <<txRows, txEvts>>,
             \A w \in Workers :
               \/ pc'[w] = pc[w] /\ RowOf(w)' = RowOf(w) /\ outcome'[w] = outcome[w]
               \/ /\ pc[w] \notin {"stage", "commit"}
                  /\ pc'[w] \notin {"stage", "commit"}
      PROVE TransactionShape'
  <2> SUFFICES ASSUME NEW w \in Workers
               PROVE /\ txRows'[w] \subseteq {RowOf(w)'}
                     /\ pc'[w] \notin {"stage", "commit"} => txRows'[w] = {}
                     /\ pc'[w] = "stage" =>
                          txRows'[w] = {RowOf(w)'} /\ outcome'[w] = "SENT"
                     /\ pc'[w] # "commit" => txEvts'[w] = {}
                     /\ pc'[w] = "commit" =>
                          txEvts'[w] = {r.id : r \in {s \in txRows'[w] : s.status = "SENT"}}
    OBVIOUS
  <2>1. CASE pc'[w] = pc[w] /\ RowOf(w)' = RowOf(w) /\ outcome'[w] = outcome[w]
    BY <1>1, <2>1
  <2>2. CASE pc[w] \notin {"stage", "commit"} /\ pc'[w] \notin {"stage", "commit"}
    BY <1>1, <2>2
  <2> QED
    BY <1>1, <2>1, <2>2
<1>2. ASSUME NEW m \in Msgs, Publish(m) PROVE TransactionShape'
  BY <1>1, <1>2 DEF Publish, process, memory, database, observed, RowOf
<1>3. ASSUME NEW w \in Workers, NEW m \in Msgs, Deliver(w, m) PROVE TransactionShape'
  BY <1>1, <1>3 DEF Deliver, memory, database, observed, RowOf
<1>4. ASSUME NEW w \in Workers, Restart(w) PROVE TransactionShape'
  BY <1>1, <1>4 DEF Restart, broker, memory, database, observed, RowOf
<1>5. ASSUME NEW w \in Workers, Shutdown(w) PROVE TransactionShape'
  BY <1>1, <1>5 DEF Shutdown, broker, memory, database, observed, RowOf
<1>6. ASSUME NEW w \in Workers, ConnectionLost(w) PROVE TransactionShape'
  BY <1>1, <1>6 DEF ConnectionLost, Requeue, memory, database, observed, RowOf
<1>7. ASSUME NEW w \in Workers, Exit(w) PROVE TransactionShape'
  <2>1. \A v \in Workers \ {w} :
          /\ RowOf(v)' = RowOf(v) /\ pc'[v] = pc[v] /\ outcome'[v] = outcome[v]
          /\ txRows'[v] = txRows[v] /\ txEvts'[v] = txEvts[v]
    BY <1>7 DEF Exit, RowOf
  <2>2. txRows'[w] = {} /\ txEvts'[w] = {} /\ pc'[w] = "down"
    BY <1>7 DEF Exit
  <2> QED
    BY <2>1, <2>2
<1>8. ASSUME NEW w \in Workers, NEW a \in inbox[w], Receive(w, a) PROVE TransactionShape'
  BY <1>1, <1>8 DEF Receive, broker, database, observed, RowOf
<1>9. ASSUME NEW w \in Workers, RejectEnvelope(w) PROVE TransactionShape'
  BY <1>1, <1>9 DEF RejectEnvelope, Release, Goto, process, database, observed, RowOf
<1>10. ASSUME NEW w \in Workers, RejectEvent(w) PROVE TransactionShape'
  BY <1>1, <1>10 DEF RejectEvent, Fails, Goto, broker, process, memory, database, RowOf
<1>11. ASSUME NEW w \in Workers, Prepare(w) PROVE TransactionShape'
  BY <1>1, <1>11 DEF Prepare, Goto, broker, process, memory, database, observed, RowOf
<1>12. ASSUME NEW w \in Workers, SendStep(w) PROVE TransactionShape'
  BY <1>1, <1>12 DEF SendStep, Send, Goto, broker, process, database, RowOf
<1>13. ASSUME NEW w \in Workers, Begin(w) PROVE TransactionShape'
  BY <1>1, <1>13 DEF Begin, Goto, broker, process, memory, database, observed, RowOf
<1>14. ASSUME NEW w \in Workers, Ack(w) PROVE TransactionShape'
  BY <1>1, <1>14 DEF Ack, Release, Goto, process, database, observed, RowOf
\* Steps of SaveWithOutbox: the other workers and what is in hand stay put.
<1>15. ASSUME NEW w \in Workers, SaveWithOutbox(w)
       PROVE /\ \A v \in Workers : RowOf(v)' = RowOf(v) /\ outcome'[v] = outcome[v]
             /\ \A v \in Workers \ {w} :
                  pc'[v] = pc[v] /\ txRows'[v] = txRows[v] /\ txEvts'[v] = txEvts[v]
  BY <1>15 DEF SaveWithOutbox, Begin, InsertNotification, StageEvent, Commit, SaveFails,
    Fails, EndTransaction, Goto, memory, database, RowOf
<1>16. ASSUME NEW w \in Workers, InsertNotification(w) PROVE TransactionShape'
  <2>1. CASE Conflicts(w)
    <3>1. txRows'[w] = {} /\ txEvts'[w] = {} /\ pc'[w] = "commit"
      BY <1>16, <2>1 DEF InsertNotification, AfterInsert, Goto
    <3> QED
      BY <1>15, <1>16, <3>1 DEF SaveWithOutbox
  <2>2. CASE ~Conflicts(w)
    <3>1. txRows'[w] = {RowOf(w)} /\ txEvts'[w] = {}
      BY <1>16, <2>2 DEF InsertNotification
    <3>2. pc'[w] = (IF outcome[w] = "SENT" THEN "stage" ELSE "commit")
      BY <1>16, <2>2 DEF InsertNotification, AfterInsert, Goto
    <3>3. outcome[w] \in {"SENT", "FAILED"} /\ RowOf(w).status = outcome[w]
      BY <1>16 DEF InsertNotification, InSave, RowOf
    <3> QED
      BY <1>15, <1>16, <3>1, <3>2, <3>3 DEF SaveWithOutbox
  <2> QED
    BY <2>1, <2>2
<1>17. ASSUME NEW w \in Workers, StageEvent(w) PROVE TransactionShape'
  <2>1. txRows'[w] = {RowOf(w)} /\ txEvts'[w] = {hold[w]} /\ pc'[w] = "commit"
    BY <1>17 DEF StageEvent, Goto
  <2>2. RowOf(w).status = "SENT" /\ RowOf(w).id = hold[w]
    BY <1>17 DEF StageEvent, RowOf
  <2> QED
    BY <1>15, <1>17, <2>1, <2>2 DEF SaveWithOutbox
<1>18. ASSUME NEW w \in Workers, NEW b \in BOOLEAN, Commit(w, b) PROVE TransactionShape'
  <2>1. txRows'[w] = {} /\ txEvts'[w] = {} /\ pc'[w] = "ack"
    BY <1>18 DEF Commit, EndTransaction, Fails, Goto
  <2> QED
    BY <1>15, <1>18, <2>1 DEF SaveWithOutbox
<1>19. ASSUME NEW w \in Workers, SaveFails(w) PROVE TransactionShape'
  <2>1. txRows'[w] = {} /\ txEvts'[w] = {} /\ pc'[w] = "ack"
    BY <1>19 DEF SaveFails, EndTransaction, Fails, Goto
  <2> QED
    BY <1>15, <1>19, <2>1 DEF SaveWithOutbox
<1>20. CASE UNCHANGED vars
  BY <1>1, <1>20 DEF vars, memory, database, RowOf
<1> QED
  BY <1>2, <1>3, <1>4, <1>5, <1>6, <1>7, <1>8, <1>9, <1>10, <1>11, <1>12, <1>13, <1>14,
    <1>16, <1>17, <1>18, <1>19, <1>20
    DEF Next, Step, SaveWithOutbox, Crash, RunReturns

\* What a COMMIT adds to the tables: the row in the transaction, if there is
\* one, and its event.
LEMMA CommitAdds ==
  ASSUME TransactionShape, NEW w \in Workers, NEW b \in BOOLEAN, Commit(w, b)
  PROVE  /\ rows' = rows \cup txRows[w] /\ txRows[w] \subseteq {RowOf(w)}
         /\ outbox' = outbox \cup {r.id : r \in {s \in txRows[w] : s.status = "SENT"}}
         /\ txRows' = [txRows EXCEPT ![w] = {}]
BY DEF TransactionShape, Commit, EndTransaction

\* Open transactions change by an INSERT, a COMMIT or an end without one.
LEMMA OpenTransactionsStep ==
  ASSUME [Next]_vars
  PROVE  \/ UNCHANGED <<rows, txRows>>
         \/ \E w \in Workers : UNCHANGED rows /\ txRows' = [txRows EXCEPT ![w] = {}]
         \/ \E w \in Workers : InsertNotification(w)
         \/ \E w \in Workers, b \in BOOLEAN : Commit(w, b)
BY DEF Next, vars, Publish, Deliver, Restart, Shutdown, ConnectionLost, Crash, Exit, Step,
  Receive, RunReturns, RejectEnvelope, RejectEvent, Prepare, SendStep, Send,
  SaveWithOutbox, Begin, StageEvent, SaveFails, EndTransaction, Ack, database

\* The index holds: an INSERT has waited for the other transactions and looked
\* at the table, and a COMMIT moves what clashed with nothing.
LEMMA UniqueStep ==
  Typed /\ TransactionShape /\ IndexHolds /\ OneRowPerEvent /\ [Next]_vars =>
    IndexHolds' /\ OneRowPerEvent'
<1> SUFFICES ASSUME Typed, TransactionShape, IndexHolds, OneRowPerEvent, [Next]_vars
             PROVE  IndexHolds' /\ OneRowPerEvent'
  OBVIOUS
<1> USE DEF IndexHolds, OneRowPerEvent
<1>1. txRows \in [Workers -> SUBSET Row]
  BY DEF Typed, WorkerTypeOK
<1>2. CASE UNCHANGED <<rows, txRows>>
  BY <1>2 DEF Clash
<1>3. ASSUME NEW w \in Workers, UNCHANGED rows, txRows' = [txRows EXCEPT ![w] = {}]
      PROVE  IndexHolds' /\ OneRowPerEvent'
  BY <1>1, <1>3 DEF Clash
<1>4. ASSUME NEW w \in Workers, InsertNotification(w) PROVE IndexHolds' /\ OneRowPerEvent'
  <2>1. /\ UNCHANGED rows /\ ~Waits(w)
        /\ txRows' = [txRows EXCEPT ![w] = IF Conflicts(w) THEN {} ELSE {RowOf(w)}]
    BY <1>4 DEF InsertNotification
  <2>2. CASE Conflicts(w)
    BY <1>3, <2>1, <2>2
  <2>3. CASE ~Conflicts(w)
    <3>1. \A s \in rows : ~Clash(RowOf(w), s)
      BY <2>3 DEF Conflicts
    <3>2. \A v \in Workers \ {w} : \A s \in txRows[v] :
            ~Clash(RowOf(w), s) /\ ~Clash(s, RowOf(w))
      BY <2>1 DEF Waits, Clash
    <3>3. txRows'[w] = {RowOf(w)} /\ \A v \in Workers \ {w} : txRows'[v] = txRows[v]
      BY <1>1, <2>1, <2>3
    <3> HIDE DEF Clash, RowOf
    <3> QED
      BY <2>1, <3>1, <3>2, <3>3 DEF Clash
  <2> QED
    BY <2>2, <2>3
<1>5. ASSUME NEW w \in Workers, NEW b \in BOOLEAN, Commit(w, b)
      PROVE  IndexHolds' /\ OneRowPerEvent'
  <2>1. /\ rows' = rows \cup txRows[w] /\ txRows[w] \subseteq {RowOf(w)}
        /\ txRows'[w] = {} /\ \A v \in Workers \ {w} : txRows'[v] = txRows[v]
    BY <1>1, <1>5, CommitAdds
  <2>2. IndexHolds'
    BY <2>1 DEF Clash
  <2>3. OneRowPerEvent'
    BY <2>1 DEF Clash
  <2> QED
    BY <2>2, <2>3
<1> QED
  BY <1>2, <1>3, <1>4, <1>5, OpenTransactionsStep

\* Row and event are committed together.
LEMMA OutboxStep ==
  TransactionShape /\ OutboxMatchesRows /\ [Next]_vars => OutboxMatchesRows'
BY TablesStep, CommitAdds DEF OutboxMatchesRows

\* Transactions holds in every reachable state.
LEMMA TransactionsAlways == Spec => []Transactions
<1>1. Typed /\ Transactions /\ [Next]_vars => Transactions'
  BY ShapeStep, UniqueStep, OutboxStep DEF Transactions
<1> QED
  BY <1>1, TypedAlways, TransactionsInit, PTL DEF Spec

\* At most one row for each event, however the transactions interleave.
THEOREM OneRowPerEventAlways == Spec => []OneRowPerEvent
  BY TransactionsAlways, PTL DEF Transactions

\* Rows that say SENT and staged events come and stay together.
THEOREM OutboxMatchesRowsAlways == Spec => []OutboxMatchesRows
  BY TransactionsAlways, PTL DEF Transactions

\* Whoever holds the index entry of a row is alone with it, past its INSERT, and
\* the table does not hold it.
LEMMA HolderIsAlone ==
  ASSUME Transactions, NEW row, NEW v \in HeldUpBy(row)
  PROVE  /\ HeldUpBy(row) = {v}
         /\ pc[v] \in {"stage", "commit"}
         /\ \A r \in rows : ~Clash(row, r)
<1>1. PICK t \in txRows[v] : Clash(row, t)
  BY DEF HeldUpBy
<1>2. v \in Workers
  BY DEF HeldUpBy
<1>3. pc[v] \in {"stage", "commit"}
  BY <1>1, <1>2 DEF Transactions, TransactionShape
<1>4. ASSUME NEW u \in HeldUpBy(row), u # v PROVE FALSE
  <2>1. PICK s \in txRows[u] : Clash(row, s)
    BY DEF HeldUpBy
  <2>2. u \in Workers \ {v}
    BY <1>4 DEF HeldUpBy
  <2>3. ~Clash(t, s)
    BY <1>2, <2>2 DEF Transactions, IndexHolds
  <2> QED
    BY <1>1, <2>1, <2>3 DEF Clash
<1>5. ASSUME NEW r \in rows, Clash(row, r) PROVE FALSE
  <2>1. ~Clash(t, r)
    BY <1>2 DEF Transactions, IndexHolds
  <2> QED
    BY <1>1, <1>5, <2>1 DEF Clash
<1> QED
  BY <1>3, <1>4, <1>5

\* An INSERT waits for one transaction at most, which waits for nobody: inserts
\* never wait in a circle, for any number of workers.
THEOREM HoldersNeverWaitAlways == Spec => []HoldersNeverWait
<1>1. Transactions => HoldersNeverWait
  <2> SUFFICES ASSUME Transactions, NEW w \in Workers, pc[w] = "insert", Waits(w)
               PROVE  /\ ~Conflicts(w)
                      /\ \E v \in Workers \ {w} :
                           HeldUpBy(RowOf(w)) = {v} /\ pc[v] \in {"stage", "commit"}
    BY DEF HoldersNeverWait
  <2>1. PICK v \in Workers \ {w} : \E s \in txRows[v] : Clash(RowOf(w), s)
    BY DEF Waits
  <2>2. v \in HeldUpBy(RowOf(w))
    BY <2>1 DEF HeldUpBy
  <2>3. /\ HeldUpBy(RowOf(w)) = {v} /\ pc[v] \in {"stage", "commit"}
        /\ \A r \in rows : ~Clash(RowOf(w), r)
    BY <2>2, HolderIsAlone
  <2> QED
    BY <2>1, <2>3 DEF Conflicts
<1> QED
  BY <1>1, TransactionsAlways, PTL
-----------------------------------------------------------------------------
(* Attempts.  An attempt stands for the uuid Handle draws: it is in one     *)
(* place only, and what was mailed or recorded under it is its own doing.   *)

\* The deliveries a worker has not finished with.
InProcess(w) == inbox[w] \cup (IF Handling(w) THEN {hold[w]} ELSE {})

\* An attempt that has been drawn from the counter of its message.
Drawn(a) == a[2] =< deliveries[a[1]]

AttemptsDrawn ==
  /\ \A w \in Workers : \A a \in InProcess(w) : Drawn(a)
  /\ \A r \in rows : r.id \in Attempt => Drawn(r.id)
  /\ \A x \in mailed : Drawn(x[1])

AttemptsApart ==
  /\ \A w \in Workers : \A v \in Workers \ {w} :
       \A a \in InProcess(w) : a \notin InProcess(v)
  /\ \A w \in Workers : Handling(w) => hold[w] \notin inbox[w]

\* Nothing is mailed before Send, nothing recorded before COMMIT.
AttemptsUnused ==
  /\ \A w \in Workers : \A a \in inbox[w] :
       (\A r \in rows : r.id # a) /\ (\A x \in mailed : x[1] # a)
  /\ \A w \in Workers : pc[w] \in {"handle", "send"} => \A x \in mailed : x[1] # hold[w]
  /\ \A w \in Workers : Handling(w) /\ pc[w] # "ack" => \A r \in rows : r.id # hold[w]

OutcomeKnown ==
  \A w \in Workers : InSave(w) => (outcome[w] = "SENT" <=> <<hold[w], "ok">> \in mailed)

Attempts ==
  AttemptsDrawn /\ AttemptsApart /\ AttemptsUnused /\ OutcomeKnown /\ RowTellsOutcome

\* Before anything runs no attempt has been drawn.
LEMMA AttemptsInit == Init => Attempts
  BY DEF Init, Attempts, AttemptsDrawn, AttemptsApart, AttemptsUnused, OutcomeKnown,
    RowTellsOutcome, InProcess, Handling, InSave

\* COMMIT adds the row of the attempt in hand, or none.
LEMMA CommittedRows ==
  ASSUME TransactionShape, NEW w \in Workers, NEW b \in BOOLEAN, Commit(w, b)
  PROVE  \A r \in rows' : r \in rows \/ (r.id = hold[w] /\ r.status = outcome[w])
<1>1. \A r \in txRows[w] : r = RowOf(w)
  BY DEF TransactionShape
<1>2. rows' = rows \cup txRows[w]
  BY DEF Commit
<1>3. RowOf(w).id = hold[w] /\ RowOf(w).status = outcome[w]
  BY DEF RowOf
<1> QED
  BY <1>1, <1>2, <1>3

\* Every step keeps Attempts: Deliver draws a new attempt, Send and COMMIT use
\* the one in hand, the other steps at most forget one.
LEMMA AttemptsStep == Typed /\ TransactionShape /\ Attempts /\ [Next]_vars => Attempts'
<1> SUFFICES ASSUME Typed, TransactionShape, Attempts, [Next]_vars PROVE Attempts'
  OBVIOUS
<1> USE DEF Typed, WorkerTypeOK, Attempts, AttemptsDrawn, AttemptsApart,
      AttemptsUnused, OutcomeKnown, RowTellsOutcome, InProcess, Drawn, Handling, InSave, PCs
\* Steps that deliver, mail and record nothing, and leave the workers with no
\* other attempts than they had.
<1>1. ASSUME UNCHANGED <<deliveries, mailed, rows>>,
             \A v \in Workers :
               \/ inbox'[v] = inbox[v] /\ ~Handling(v)'
               \/ inbox'[v] = {} /\ pc'[v] = "down"
               \/ /\ inbox'[v] = inbox[v] /\ hold'[v] = hold[v] /\ Handling(v)
                  /\ InSave(v)' => InSave(v) /\ outcome'[v] = outcome[v]
                  /\ pc'[v] \in {"handle", "send"} => pc[v] \in {"handle", "send"}
                  /\ pc[v] = "ack" => pc'[v] = "ack"
      PROVE Attempts'
  <2>1. \A v \in Workers : InProcess(v)' \subseteq InProcess(v)
    BY <1>1
  <2>2. AttemptsDrawn'
    BY <1>1, <2>1
  <2>3. AttemptsApart'
    <3>1. \A w \in Workers : \A v \in Workers \ {w} :
            \A a \in InProcess(w)' : a \notin InProcess(v)'
      BY <2>1
    <3>2. \A w \in Workers : Handling(w)' => hold'[w] \notin inbox'[w]
      BY <1>1
    <3> QED
      BY <3>1, <3>2
  <2>4. AttemptsUnused'
    <3>1. \A w \in Workers : inbox'[w] \subseteq inbox[w]
      BY <1>1
    <3>2. \A w \in Workers : pc'[w] \in {"handle", "send"} =>
            pc[w] \in {"handle", "send"} /\ hold'[w] = hold[w]
      BY <1>1
    <3>3. \A w \in Workers : Handling(w)' /\ pc'[w] # "ack" =>
            Handling(w) /\ pc[w] # "ack" /\ hold'[w] = hold[w]
      BY <1>1
    <3> QED
      BY <1>1, <3>1, <3>2, <3>3
  <2>5. OutcomeKnown'
    <3>1. \A w \in Workers : InSave(w)' =>
            InSave(w) /\ outcome'[w] = outcome[w] /\ hold'[w] = hold[w]
      BY <1>1
    <3> QED
      BY <1>1, <3>1
  <2>6. RowTellsOutcome'
    BY <1>1
  <2> QED
    BY <2>2, <2>3, <2>4, <2>5, <2>6
<1>2. ASSUME NEW m \in Msgs, Publish(m) PROVE Attempts'
  BY <1>1, <1>2 DEF Publish, process, memory, database, observed
<1>3. ASSUME NEW w \in Workers, NEW m \in Msgs, Deliver(w, m) PROVE Attempts'
  <2> PICK new \in Attempt : new = <<m, deliveries[m] + 1>>
    <3>1. <<m, deliveries[m] + 1>> \in Attempt
      BY DEF Attempt
    <3> QED
      BY <3>1
  <2>1. inbox' = [inbox EXCEPT ![w] = @ \cup {new}]
    BY <1>3 DEF Deliver
  <2>2. \A a \in Attempt : Drawn(a) => a # new /\ Drawn(a)'
    BY <1>3 DEF Deliver, Attempt
  <2>3. new[1] = m /\ new[2] = deliveries[m] + 1
    OBVIOUS
  <2>4. Drawn(new)'
    <3>1. deliveries'[m] = deliveries[m] + 1 /\ deliveries[m] \in Nat
      BY <1>3 DEF Deliver
    <3> QED
      BY <2>3, <3>1
  <2>5. UNCHANGED <<pc, hold, outcome, rows, mailed>>
    BY <1>3 DEF Deliver, memory, database, observed
  <2>6. \A r \in rows : r.id # new /\ (r.id \in Attempt => Drawn(r.id)')
    BY <2>2
  <2>7. \A x \in mailed : x[1] # new /\ Drawn(x[1])'
    BY <2>2
  <2>8. \A v \in Workers : InProcess(v) \subseteq Attempt
    OBVIOUS
  <2> HIDE DEF Drawn
  <2>9. \A v \in Workers :
          InProcess(v)' = InProcess(v) \cup (IF v = w THEN {new} ELSE {})
    BY <2>1, <2>5
  <2>10. AttemptsDrawn'
    <3>1. ASSUME NEW v \in Workers, NEW a \in InProcess(v)' PROVE Drawn(a)'
      <4> HIDE DEF InProcess
      <4>1. a \in InProcess(v) \/ a = new
        BY <2>9
      <4>2. ASSUME a \in InProcess(v) PROVE a \in Attempt /\ Drawn(a)
        BY <2>8, <4>2
      <4> QED
        BY <2>2, <2>4, <4>1, <4>2
    <3>2. /\ \A r \in rows' : r.id \in Attempt => Drawn(r.id)'
          /\ \A x \in mailed' : Drawn(x[1])'
      BY <2>5, <2>6, <2>7
    <3> QED
      BY <3>1, <3>2, <2>5
  <2>11. AttemptsApart'
    <3>1. \A v \in Workers : new \notin InProcess(v)
      BY <2>2, <2>8
    <3>2. \A x \in Workers : \A v \in Workers \ {x} :
            \A a \in InProcess(x)' : a \notin InProcess(v)'
      <4> HIDE DEF InProcess
      <4> QED
        BY <2>9, <3>1, SMTT(30)
    <3>3. \A v \in Workers : Handling(v)' => hold'[v] \notin inbox'[v]
      <4>1. \A v \in Workers : inbox'[v] \subseteq inbox[v] \cup {new}
        BY <2>1
      <4>2. \A v \in Workers : Handling(v) => hold[v] # new
        BY <3>1
      <4> QED
        BY <2>5, <4>1, <4>2
    <3> QED
      BY <3>2, <3>3
  <2>12. AttemptsUnused'
    <3>1. ASSUME NEW v \in Workers, NEW a \in inbox'[v]
          PROVE  (\A r \in rows' : r.id # a) /\ (\A x \in mailed' : x[1] # a)
      <4>1. a = new \/ a \in inbox[v]
        BY <2>1
      <4> QED
        BY <2>5, <2>6, <2>7, <4>1
    <3>2. \A v \in Workers : Handling(v)' <=> Handling(v)
      BY <2>5
    <3> QED
      BY <2>5, <3>1, <3>2
  <2>13. OutcomeKnown' /\ RowTellsOutcome'
    BY <2>5
  <2> QED
    BY <2>10, <2>11, <2>12, <2>13
<1>4. ASSUME NEW w \in Workers, Restart(w) PROVE Attempts'
  BY <1>1, <1>4 DEF Restart, broker, memory, database, observed
<1>5. ASSUME NEW w \in Workers, Shutdown(w) PROVE Attempts'
  BY <1>1, <1>5 DEF Shutdown, broker, memory, database, observed
<1>6. ASSUME NEW w \in Workers, ConnectionLost(w) PROVE Attempts'
  BY <1>1, <1>6 DEF ConnectionLost, Requeue, memory, database, observed
<1>7. ASSUME NEW w \in Workers, Exit(w) PROVE Attempts'
  BY <1>1, <1>7 DEF Exit, Requeue, observed
<1>8. ASSUME NEW w \in Workers, NEW a \in inbox[w], Receive(w, a) PROVE Attempts'
  BY <1>8 DEF Receive, broker, database, observed
<1>9. ASSUME NEW w \in Workers, RejectEnvelope(w) PROVE Attempts'
  BY <1>1, <1>9 DEF RejectEnvelope, Settles, Release, Goto, process, database, observed
<1>10. ASSUME NEW w \in Workers, RejectEvent(w) PROVE Attempts'
  BY <1>1, <1>10 DEF RejectEvent, Fails, Goto, broker, process, memory, database
<1>11. ASSUME NEW w \in Workers, Prepare(w) PROVE Attempts'
  BY <1>1, <1>11 DEF Prepare, Goto, broker, process, memory, database, observed
<1>12. ASSUME NEW w \in Workers, SendStep(w) PROVE Attempts'
  <2> PICK accepted \in BOOLEAN, answer \in {"ok", "error"} : Send(w, accepted, answer)
    BY <1>12 DEF SendStep
  <2>1. /\ pc' = [pc EXCEPT ![w] = "begin"] /\ pc[w] = "send"
        /\ outcome' = [outcome EXCEPT ![w] = IF answer = "ok" THEN "SENT" ELSE "FAILED"]
        /\ UNCHANGED <<deliveries, inbox, hold, rows>>
    BY DEF Send, SendStatus, Goto, broker, process, database
  <2>2. /\ mailed' \subseteq mailed \cup {<<hold[w], answer>>}
        /\ mailed \subseteq mailed'
        /\ answer = "ok" => <<hold[w], "ok">> \in mailed'
    BY DEF Send
  <2>3. \A x \in mailed' : x \in mailed \/ x[1] = hold[w]
    BY <2>2
  <2>4. <<hold[w], "ok">> \in mailed' <=> answer = "ok"
    <3>1. <<hold[w], "ok">> \notin mailed
      BY <2>1
    <3> QED
      BY <2>2, <3>1
  <2>5. \A a : a # hold[w] =>
          (<<a, "ok">> \in mailed' <=> <<a, "ok">> \in mailed)
    BY <2>2
  <2>6. AttemptsDrawn'
    BY <2>1, <2>3
  <2>7. /\ \A v \in Workers \ {w} : Handling(v) => hold[v] # hold[w] /\ hold[v] \in Attempt
        /\ \A v \in Workers : \A a \in inbox[v] : a # hold[w]
    <3>1. hold[w] \in InProcess(w) /\ Handling(w)
      BY <2>1
    <3>2. \A v \in Workers \ {w} : hold[w] \notin InProcess(v)
      BY <3>1
    <3>3. \A v \in Workers : hold[w] \notin inbox[v]
      BY <3>1, <3>2
    <3> QED
      BY <3>2, <3>3
  <2>8. AttemptsApart'
    BY <2>1
  <2>9. AttemptsUnused'
    <3>1. \A v \in Workers : \A a \in inbox'[v] :
            (\A r \in rows' : r.id # a) /\ (\A x \in mailed' : x[1] # a)
      BY <2>1, <2>3, <2>7
    <3>2. \A v \in Workers : pc'[v] \in {"handle", "send"} =>
            v # w /\ pc[v] \in {"handle", "send"}
      BY <2>1
    <3>3. \A v \in Workers : pc'[v] \in {"handle", "send"} =>
            \A x \in mailed' : x[1] # hold'[v]
      BY <2>1, <2>3, <2>7, <3>2
    <3>4. \A v \in Workers : Handling(v)' /\ pc'[v] # "ack" =>
            \A r \in rows' : r.id # hold'[v]
      BY <2>1
    <3> QED
      BY <3>1, <3>3, <3>4
  <2>10. OutcomeKnown'
    <3> SUFFICES ASSUME NEW v \in Workers, InSave(v)'
                 PROVE outcome'[v] = "SENT" <=> <<hold'[v], "ok">> \in mailed'
      OBVIOUS
    <3>1. CASE v = w
      BY <2>1, <2>4, <3>1
    <3>2. CASE v # w
      <4>1. InSave(v) /\ outcome'[v] = outcome[v] /\ hold'[v] = hold[v]
        BY <2>1, <3>2
      <4> QED
        BY <2>5, <2>7, <3>2, <4>1
    <3> QED
      BY <3>1, <3>2
  <2>11. RowTellsOutcome'
    <3>1. \A r \in rows : r.id # hold[w]
      BY <2>1
    <3> QED
      BY <2>1, <2>5, <3>1
  <2> QED
    BY <2>6, <2>8, <2>9, <2>10, <2>11
<1>13. ASSUME NEW w \in Workers, Begin(w) PROVE Attempts'
  BY <1>1, <1>13 DEF Begin, Goto, broker, process, memory, database, observed
<1>14. ASSUME NEW w \in Workers, InsertNotification(w) PROVE Attempts'
  BY <1>1, <1>14 DEF InsertNotification, AfterInsert, Goto, broker, process, memory,
    observed
<1>15. ASSUME NEW w \in Workers, StageEvent(w) PROVE Attempts'
  BY <1>1, <1>15 DEF StageEvent, Goto, broker, process, memory, observed
<1>16. ASSUME NEW w \in Workers, NEW b \in BOOLEAN, Commit(w, b) PROVE Attempts'
  <2>1. pc' = [pc EXCEPT ![w] = "ack"]
    BY <1>16 DEF Commit, Fails, Goto
  <2>2. \A r \in rows' : r \in rows \/ (r.id = hold[w] /\ r.status = outcome[w])
    BY <1>16, CommittedRows
  <2>3. UNCHANGED <<deliveries, inbox, hold, outcome, mailed>>
    BY <1>16 DEF Commit, broker, process, memory
  <2>4. pc[w] = "commit"
    BY <1>16 DEF Commit
  <2>5. /\ \A v \in Workers : Handling(v)' <=> Handling(v)
        /\ \A v \in Workers : InProcess(v)' = InProcess(v)
        /\ Handling(w) /\ InSave(w)
    BY <2>1, <2>3, <2>4
  <2>6. AttemptsDrawn'
    <3>1. Drawn(hold[w])
      BY <2>5
    <3> QED
      BY <2>2, <2>3, <2>5, <3>1
  <2>7. AttemptsApart'
    BY <2>3, <2>5
  <2>8. AttemptsUnused'
    <3>1. \A v \in Workers : Handling(v) /\ v # w => hold[v] # hold[w]
      BY <2>5
    <3>2. \A v \in Workers : hold[w] \notin inbox[v]
      BY <2>5
    <3> QED
      BY <2>1, <2>2, <2>3, <2>4, <2>5, <3>1, <3>2
  <2>9. OutcomeKnown' /\ RowTellsOutcome'
    BY <2>1, <2>2, <2>3, <2>5
  <2> QED
    BY <2>6, <2>7, <2>8, <2>9
<1>17. ASSUME NEW w \in Workers, SaveFails(w) PROVE Attempts'
  BY <1>1, <1>17 DEF SaveFails, Fails, Goto, broker, process, memory
<1>18. ASSUME NEW w \in Workers, Ack(w) PROVE Attempts'
  BY <1>1, <1>18 DEF Ack, Settles, Release, Goto, process, database, observed
<1>19. CASE UNCHANGED vars
  BY <1>1, <1>19 DEF vars, broker, process, memory, database, observed
<1> HIDE DEF Typed, WorkerTypeOK, Attempts, Handling, InSave, InProcess, PCs
<1> QED
  BY <1>2, <1>3, <1>4, <1>5, <1>6, <1>7, <1>8, <1>9, <1>10, <1>11, <1>12, <1>13, <1>14,
    <1>15, <1>16, <1>17, <1>18, <1>19
    DEF Next, Step, SaveWithOutbox, Crash, RunReturns

\* Attempts holds in every reachable state.
LEMMA AttemptsAlways == Spec => []Attempts
<1>1. Typed /\ Transactions /\ Attempts /\ [Next]_vars => Attempts'
  BY AttemptsStep DEF Transactions
<1> QED
  BY <1>1, TypedAlways, TransactionsAlways, AttemptsInit, PTL DEF Spec

\* The status of a row is what the mail server answered for that very attempt.
THEOREM RowTellsOutcomeAlways == Spec => []RowTellsOutcome
  BY AttemptsAlways, PTL DEF Attempts
-----------------------------------------------------------------------------
(* Accounting.  Where the messages are, and what is known of an event when  *)
(* its delivery is acked.                                                   *)

\* The broker holds a message once; a delivery a connected worker has not
\* finished with is unacked, and is the last one of its message.
Placed ==
  /\ queue \subseteq published /\ acked \subseteq published
  /\ \A w \in Workers : unacked[w] \subseteq published
  /\ \A m \in queue : m \notin acked /\ \A w \in Workers : m \notin unacked[w]
  /\ \A w \in Workers : \A m \in unacked[w] :
       m \notin acked /\ \A v \in Workers \ {w} : m \notin unacked[v]
  /\ \A w \in Workers : ~connected[w] => unacked[w] = {}
  /\ \A w \in Workers : connected[w] =>
       \A a \in InProcess(w) : Msg(a) \in unacked[w] /\ a[2] = deliveries[Msg(a)]
  /\ \A w \in Workers : pc[w] = "down" => ~connected[w] /\ inbox[w] = {}

\* A row for the event of attempt a, or an error logged for a.
Accounted(a) ==
  \/ a \in failed
  \/ \E r \in rows : r.id = a
  \/ \E r \in rows : Source(a) # NoEvent /\ r.source = Source(a)

HandledIsAccounted ==
  /\ \A w \in Workers : pc[w] = "ack" => Accounted(hold[w])
  /\ \A w \in Workers : pc[w] = "commit" /\ txRows[w] = {} => Conflicts(w)

Accounting == Placed /\ HandledIsAccounted /\ AckedIsRecordedOrLogged

\* What is accounted for stays so.
LEMMA AccountedStays ==
  ASSUME NEW a, Accounted(a), rows \subseteq rows', failed \subseteq failed'
  PROVE  Accounted(a)'
BY DEF Accounted, Source

\* AckedIsRecordedOrLogged is about the last attempt of what is acked.
LEMMA AckedAccounted ==
  AckedIsRecordedOrLogged <=> \A m \in acked : Accounted(<<m, deliveries[m]>>)
BY DEF AckedIsRecordedOrLogged, Accounted, Source, Msg

\* Before anything runs nothing is published, delivered or acked.
LEMMA AccountingInit == Init => Accounting
  BY DEF Init, Accounting, Placed, HandledIsAccounted, AckedIsRecordedOrLogged,
    InProcess, Handling, PCs

\* Every step keeps Placed: only Deliver, Ack, Nack and the end of a connection
\* move a message.
LEMMA PlacedStep == Typed /\ Attempts /\ Placed /\ [Next]_vars => Placed'
<1> SUFFICES ASSUME Typed, Attempts, Placed, [Next]_vars PROVE Placed'
  OBVIOUS
<1> USE DEF Typed, WorkerTypeOK, Placed, Handling, PCs
\* Steps that move no message: the broker and the connections stay, and the
\* workers hold on to no more than they had.
<1>1. ASSUME UNCHANGED <<published, queue, unacked, deliveries, connected>>,
             acked' = acked,
             \A w \in Workers : InProcess(w)' \subseteq InProcess(w),
             \A w \in Workers : pc'[w] = "down" <=> pc[w] = "down",
             \A w \in Workers : inbox'[w] \subseteq inbox[w]
      PROVE Placed'
  BY <1>1 DEF Msg
<1>2. ASSUME NEW m \in Msgs, Publish(m) PROVE Placed'
  BY <1>2 DEF Publish, process, memory, database, observed, InProcess
<1>3. ASSUME NEW w \in Workers, NEW m \in Msgs, Deliver(w, m) PROVE Placed'
  BY <1>3 DEF Deliver, memory, database, observed, InProcess, Msg, Attempt
<1>4. ASSUME NEW w \in Workers, Restart(w) PROVE Placed'
  BY <1>4 DEF Restart, broker, memory, database, observed, InProcess
<1>5. ASSUME NEW w \in Workers, Shutdown(w) PROVE Placed'
  BY <1>1, <1>5 DEF Shutdown, broker, memory, database, observed, InProcess
<1>6. ASSUME NEW w \in Workers, ConnectionLost(w) PROVE Placed'
  BY <1>6 DEF ConnectionLost, Requeue, memory, database, observed, InProcess
<1>7. ASSUME NEW w \in Workers, Exit(w) PROVE Placed'
  BY <1>7 DEF Exit, Requeue, observed, InProcess
<1>8. ASSUME NEW w \in Workers, NEW a \in inbox[w], Receive(w, a) PROVE Placed'
  BY <1>1, <1>8 DEF Receive, broker, database, observed, InProcess
\* Ack and Nack: the settled message leaves unacked, and no other delivery of
\* it is in the hands of the worker.
<1>9. ASSUME NEW w \in Workers, Handling(w), Settles(w, Settled(w)), Release(w),
             UNCHANGED process, acked' \subseteq acked \cup Settled(w)
      PROVE Placed'
  <2>1. /\ pc' = [pc EXCEPT ![w] = "select"] /\ hold' = [hold EXCEPT ![w] = NoAttempt]
        /\ UNCHANGED <<connected, inbox, published, queue, deliveries>>
    BY <1>9 DEF Settles, Release, Goto, process
  <2>2. unacked' = [unacked EXCEPT ![w] = @ \ Settled(w)]
    BY <1>9 DEF Settles
  <2>3. \A v \in Workers : InProcess(v)' \subseteq InProcess(v)
    BY <2>1 DEF InProcess
  <2>4. CASE ~connected[w]
    <3>1. Settled(w) = {} /\ UNCHANGED unacked
      BY <2>2, <2>4 DEF Settled
    <3> QED
      BY <1>9, <2>1, <2>3, <3>1 DEF Msg
  <2>5. CASE connected[w]
    <3>1. Settled(w) = {Msg(hold[w])} /\ Msg(hold[w]) \in unacked[w]
      BY <1>9, <2>5 DEF Settled, InProcess
    <3>2. \A a \in InProcess(w)' : Msg(a) # Msg(hold[w])
      <4> SUFFICES ASSUME NEW a \in inbox[w], Msg(a) = Msg(hold[w]) PROVE FALSE
        BY <2>1 DEF InProcess
      <4>1. a[2] = hold[w][2] /\ a[1] = hold[w][1]
        BY <1>9, <2>5 DEF InProcess, Msg
      <4>2. a = hold[w]
        BY <1>9, <4>1 DEF Attempt
      <4> QED
        BY <1>9, <4>2 DEF Attempts, AttemptsApart
    <3> QED
      BY <1>9, <2>1, <2>2, <2>3, <3>1, <3>2 DEF Msg
  <2> QED
    BY <2>4, <2>5
<1>10. ASSUME NEW w \in Workers, RejectEnvelope(w) PROVE Placed'
  BY <1>9, <1>10 DEF RejectEnvelope
<1>11. ASSUME NEW w \in Workers, RejectEvent(w) PROVE Placed'
  BY <1>1, <1>11 DEF RejectEvent, Fails, Goto, broker, process, memory, database,
    InProcess
<1>12. ASSUME NEW w \in Workers, Prepare(w) PROVE Placed'
  BY <1>1, <1>12 DEF Prepare, Goto, broker, process, memory, database, observed, InProcess
<1>13. ASSUME NEW w \in Workers, SendStep(w) PROVE Placed'
  BY <1>1, <1>13 DEF SendStep, Send, Goto, broker, process, database, InProcess
<1>14. ASSUME NEW w \in Workers, SaveWithOutbox(w) PROVE Placed'
  <2>1. UNCHANGED <<broker, process, memory>>
    BY <1>14 DEF SaveWithOutbox, Begin, InsertNotification, StageEvent, Commit, SaveFails
  <2>2. Handling(w) /\ Handling(w)' /\ \A v \in Workers \ {w} : pc'[v] = pc[v]
    BY <1>14 DEF SaveWithOutbox, Begin, InsertNotification, AfterInsert, StageEvent,
      Commit, SaveFails, Fails, Goto, InSave
  <2> QED
    BY <1>1, <2>1, <2>2 DEF broker, process, memory, InProcess
<1>15. ASSUME NEW w \in Workers, Ack(w) PROVE Placed'
  BY <1>9, <1>15 DEF Ack, Acked
<1>16. CASE UNCHANGED vars
  BY <1>1, <1>16 DEF vars, broker, process, memory, database, observed, InProcess
<1> HIDE DEF Typed, WorkerTypeOK, Placed, Handling, PCs
<1> QED
  BY <1>2, <1>3, <1>4, <1>5, <1>6, <1>7, <1>8, <1>10, <1>11, <1>12, <1>13, <1>14, <1>15,
    <1>16
    DEF Next, Step, Crash, RunReturns

\* Every step keeps HandledIsAccounted: a worker gets to its Ack with an error
\* logged, with its row committed, or past a row that was there.
LEMMA HandledStep ==
  Typed /\ TransactionShape /\ HandledIsAccounted /\ [Next]_vars => HandledIsAccounted'
<1> SUFFICES ASSUME Typed, TransactionShape, HandledIsAccounted, [Next]_vars
             PROVE HandledIsAccounted'
  OBVIOUS
<1> USE DEF Typed, WorkerTypeOK, HandledIsAccounted, PCs
\* Steps that commit nothing, and after which no worker is newly at commit or ack.
<1>1. ASSUME UNCHANGED <<rows, failed>>,
             \A w \in Workers :
               \/ pc'[w] \notin {"commit", "ack"}
               \/ UNCHANGED <<pc[w], hold[w], outcome[w], txRows[w]>>
      PROVE HandledIsAccounted'
  BY <1>1 DEF Accounted, Conflicts, RowOf, Source, Clash
<1>2. ASSUME NEW w \in Workers, Exit(w) PROVE HandledIsAccounted'
  BY <1>1, <1>2 DEF Exit, observed
<1>3. ASSUME NEW w \in Workers, RejectEvent(w) \/ SaveFails(w) PROVE HandledIsAccounted'
  <2>1. /\ pc' = [pc EXCEPT ![w] = "ack"] /\ failed' = failed \cup {hold[w]}
        /\ UNCHANGED <<rows, hold, outcome>>
        /\ \A v \in Workers \ {w} : txRows'[v] = txRows[v]
    BY <1>3 DEF RejectEvent, SaveFails, EndTransaction, Fails, Goto, memory, database
  <2>2. Accounted(hold[w])'
    BY <2>1 DEF Accounted
  <2> QED
    BY <2>1, <2>2 DEF Accounted, Conflicts, RowOf, Source, Clash
<1>4. ASSUME NEW w \in Workers, InsertNotification(w) PROVE HandledIsAccounted'
  <2>1. /\ pc' = [pc EXCEPT ![w] = AfterInsert(w)]
        /\ txRows' = [txRows EXCEPT ![w] = IF Conflicts(w) THEN {} ELSE {RowOf(w)}]
        /\ UNCHANGED <<rows, failed, hold, outcome>>
    BY <1>4 DEF InsertNotification, Goto, memory, observed
  <2>2. AfterInsert(w) \in {"stage", "commit"}
    BY DEF AfterInsert
  <2>3. \A v \in Workers :
          /\ Conflicts(v)' <=> Conflicts(v)
          /\ Accounted(hold[v])' <=> Accounted(hold[v])
    BY <2>1 DEF Conflicts, Accounted, RowOf, Source, Clash
  <2> QED
    BY <2>1, <2>2, <2>3
<1>5. ASSUME NEW w \in Workers, NEW b \in BOOLEAN, Commit(w, b) PROVE HandledIsAccounted'
  <2>1. /\ pc' = [pc EXCEPT ![w] = "ack"] /\ rows' = rows \cup txRows[w]
        /\ txRows' = [txRows EXCEPT ![w] = {}]
        /\ failed \subseteq failed' /\ UNCHANGED <<hold, outcome>>
    BY <1>5 DEF Commit, EndTransaction, Fails, Goto, memory
  <2>2. Accounted(hold[w])'
    <3>1. CASE txRows[w] = {}
      <4>1. PICK r \in rows : Clash(RowOf(w), r)
        BY <1>5, <3>1 DEF Commit, Conflicts
      <4> QED
        BY <2>1, <4>1 DEF Accounted, Clash, RowOf, Source
    <3>2. CASE txRows[w] # {}
      <4>1. RowOf(w) \in rows'
        BY <2>1, <3>2 DEF TransactionShape
      <4>2. RowOf(w).id = hold[w]
        BY DEF RowOf
      <4> QED
        BY <2>1, <4>1, <4>2 DEF Accounted
    <3> QED
      BY <3>1, <3>2
  <2>3. \A v \in Workers : pc[v] = "ack" => Accounted(hold[v])'
    BY <2>1, AccountedStays DEF Accounted, Source
  <2>4. \A v \in Workers : Conflicts(v) => Conflicts(v)'
    BY <2>1 DEF Conflicts, RowOf, Source, Clash
  <2> QED
    BY <2>1, <2>2, <2>3, <2>4
<1>6. ASSUME NEW m \in Msgs, Publish(m) PROVE HandledIsAccounted'
  BY <1>1, <1>6 DEF Publish, memory, database, observed
<1>7. ASSUME NEW w \in Workers, NEW m \in Msgs, Deliver(w, m) PROVE HandledIsAccounted'
  BY <1>1, <1>7 DEF Deliver, memory, database, observed
<1>8. ASSUME NEW w \in Workers, Restart(w) \/ Shutdown(w) \/ ConnectionLost(w)
      PROVE HandledIsAccounted'
  BY <1>1, <1>8 DEF Restart, Shutdown, ConnectionLost, memory, database, observed
<1>9. ASSUME NEW w \in Workers, NEW a \in inbox[w], Receive(w, a) PROVE HandledIsAccounted'
  BY <1>1, <1>9 DEF Receive, database, observed
<1>10. ASSUME NEW w \in Workers, RejectEnvelope(w) \/ Ack(w) PROVE HandledIsAccounted'
  BY <1>1, <1>10 DEF RejectEnvelope, Ack, Release, Goto, database, observed
<1>11. ASSUME NEW w \in Workers, Prepare(w) \/ SendStep(w) \/ Begin(w)
       PROVE HandledIsAccounted'
  BY <1>1, <1>11 DEF Prepare, SendStep, Send, Begin, Goto, memory, database, observed
<1>12. ASSUME NEW w \in Workers, StageEvent(w) PROVE HandledIsAccounted'
  <2>1. txRows[w] # {}
    BY <1>12 DEF StageEvent, TransactionShape
  <2>2. pc' = [pc EXCEPT ![w] = "commit"] /\ UNCHANGED <<hold, outcome, txRows, rows, failed>>
    BY <1>12 DEF StageEvent, Goto, memory, observed
  <2> QED
    BY <2>1, <2>2 DEF Accounted, Conflicts, RowOf, Source, Clash
<1>13. CASE UNCHANGED vars
  BY <1>1, <1>13 DEF vars, memory, database, observed
<1> HIDE DEF Typed, WorkerTypeOK, HandledIsAccounted, PCs
<1> QED
  BY <1>2, <1>3, <1>4, <1>5, <1>6, <1>7, <1>8, <1>9, <1>10, <1>11, <1>12, <1>13
    DEF Next, Step, SaveWithOutbox, Crash, RunReturns

\* No step takes a message off the queue unaccounted for, and what is acked is
\* never delivered again.
LEMMA AckedStep == Typed /\ Accounting /\ [Next]_vars => AckedIsRecordedOrLogged'
<1> SUFFICES ASSUME Typed, Accounting, [Next]_vars PROVE AckedIsRecordedOrLogged'
  OBVIOUS
<1> USE DEF Accounting
<1>1. rows \subseteq rows' /\ failed \subseteq failed'
  BY DEF Next, vars, Publish, Deliver, Restart, Shutdown, ConnectionLost, Crash, Exit,
    Step, Receive, RunReturns, RejectEnvelope, RejectEvent, Prepare, SendStep, Send,
    SaveWithOutbox, Begin, InsertNotification, StageEvent, Commit, SaveFails, Fails, Ack,
    database, observed
<1>2. ASSUME acked' = acked, \A m \in acked : deliveries'[m] = deliveries[m]
      PROVE AckedIsRecordedOrLogged'
  BY <1>1, <1>2 DEF AckedIsRecordedOrLogged
<1>3. ASSUME NEW w \in Workers, NEW m \in Msgs, Deliver(w, m)
      PROVE AckedIsRecordedOrLogged'
  <2>1. m \notin acked
    BY <1>3 DEF Deliver, Placed
  <2> QED
    BY <1>2, <1>3, <2>1 DEF Deliver, Typed, WorkerTypeOK
<1>4. ASSUME NEW w \in Workers, Ack(w) PROVE AckedIsRecordedOrLogged'
  <2>1. UNCHANGED <<deliveries, rows, failed>> /\ acked' = acked \cup Settled(w)
    BY <1>4 DEF Ack, Acked, Settles, database, observed
  <2>2. CASE ~connected[w]
    BY <1>2, <2>1, <2>2 DEF Settled
  <2>3. CASE connected[w]
    <3>1. hold[w] \in Attempt /\ hold[w] \in InProcess(w)
      BY <1>4 DEF Ack, Typed, WorkerTypeOK, InProcess, Handling, PCs
    <3>2. hold[w] = <<Msg(hold[w]), deliveries[Msg(hold[w])]>>
      BY <2>3, <3>1 DEF Placed, Msg, Attempt
    <3>3. Accounted(<<Msg(hold[w]), deliveries[Msg(hold[w])]>>)
      BY <1>4, <3>2 DEF Ack, HandledIsAccounted
    <3>4. \A m \in acked' : m \in acked \/ m = Msg(hold[w])
      BY <2>1, <2>3 DEF Settled
    <3>5. \A m \in acked' : Accounted(<<m, deliveries[m]>>)
      BY <3>3, <3>4, AckedAccounted
    <3> QED
      BY <2>1, <3>5 DEF AckedIsRecordedOrLogged, Accounted, Source, Msg
  <2> QED
    BY <2>2, <2>3
<1>5. CASE UNCHANGED <<acked, deliveries>>
  BY <1>2, <1>5
<1>6. CASE UNCHANGED vars
  BY <1>5, <1>6 DEF vars, broker
<1> QED
  BY <1>3, <1>4, <1>5, <1>6
    DEF Next, Publish, Restart, Shutdown, ConnectionLost, Crash, Exit, Requeue, Step,
      Receive, RunReturns, RejectEnvelope, Settles, RejectEvent, Prepare, SendStep, Send,
      SaveWithOutbox, Begin, InsertNotification, StageEvent, Commit, SaveFails, broker

\* Accounting holds in every reachable state.
LEMMA AccountingAlways == Spec => []Accounting
<1>1. Typed /\ Transactions /\ Attempts /\ Accounting /\ [Next]_vars => Accounting'
  BY PlacedStep, HandledStep, AckedStep DEF Transactions, Accounting
<1> QED
  BY <1>1, TypedAlways, TransactionsAlways, AttemptsAlways, AccountingInit, PTL DEF Spec

\* No message is acked without a row for its event or an error in the log.
THEOREM AckedIsRecordedOrLoggedAlways == Spec => []AckedIsRecordedOrLogged
  BY AccountingAlways, PTL DEF Accounting
=============================================================================
