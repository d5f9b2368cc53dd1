------------------------ MODULE EventConsumerRedelivery ------------------------
(***************************************************************************)
(* RedeliveredOnlyAfterInterruption, for any workers, messages and number  *)
(* of interruptions.  Each redelivery is paid for by an interruption of    *)
(* its own, and a worker that got SIGTERM owes one: it gives its messages  *)
(* back only when it ends.  With deliveries bounded, the refinement of     *)
(* NotificationLedger follows.                                             *)
(***************************************************************************)
EXTENDS EventConsumerProofs, FiniteSetTheorems

\* The workers whose SIGTERM has been counted, and which still hold messages.
Departing == {w \in Workers : stopping[w] /\ connected[w]}

\* What the broker may have delivered of m: a message in the queue has been
\* paid for, and so has every worker that departs.
Paid(m) ==
  deliveries[m] + Cardinality(Departing) =< interruptions + (IF m \in queue THEN 0 ELSE 1)

Balance ==
  /\ IsFiniteSet(Departing)
  /\ Cardinality(Departing) =< interruptions
  /\ \A m \in Msgs : Paid(m)
  /\ \A m \in Msgs \ published : deliveries[m] = 0
  /\ \A w \in Workers : stopping[w] => pc[w] # "down"

\* Nothing is delivered, nobody departs.
LEMMA BalanceInit == Init => Balance
<1> SUFFICES ASSUME Init PROVE Balance
  OBVIOUS
<1>1. Departing = {}
  BY DEF Init, Departing
<1>2. IsFiniteSet(Departing) /\ Cardinality(Departing) = 0
  BY <1>1, FS_EmptySet
<1> QED
  BY <1>2 DEF Init, Balance, Paid

\* Steps that deliver nothing, give nothing back and keep the workers up or
\* down keep Balance.
LEMMA QuietBalance ==
  ASSUME Balance,
         UNCHANGED <<published, queue, deliveries, connected, stopping, interruptions>>,
         \A w \in Workers : pc'[w] = "down" <=> pc[w] = "down"
  PROVE  Balance'
<1>1. Departing' = Departing
  BY DEF Departing
<1> QED
  BY <1>1 DEF Balance, Paid

\* An interruption that leaves the messages where they are pays at most for one
\* more worker that departs.
LEMMA ShutdownBalance ==
  ASSUME Typed, Balance, NEW w \in Workers, Shutdown(w)
  PROVE  Balance'
<1> USE DEF Typed, WorkerTypeOK
<1>1. /\ Departing' \in {Departing, Departing \cup {w}}
      /\ UNCHANGED <<queue, deliveries, published, pc>>
      /\ interruptions' = interruptions + 1
      /\ \A v \in Workers : stopping'[v] => stopping[v] \/ v = w
  BY DEF Shutdown, Departing, broker
<1>2. /\ IsFiniteSet(Departing') /\ Cardinality(Departing') \in Nat
      /\ Cardinality(Departing) \in Nat
      /\ Cardinality(Departing') =< Cardinality(Departing) + 1
  <2>1. Cardinality(Departing) \in Nat
    BY FS_CardinalityType DEF Balance
  <2>2. CASE Departing' = Departing
    BY <2>1, <2>2 DEF Balance
  <2>3. CASE Departing' = Departing \cup {w}
    <3>1. /\ IsFiniteSet(Departing \cup {w})
          /\ Cardinality(Departing \cup {w}) =
               IF w \in Departing THEN Cardinality(Departing) ELSE Cardinality(Departing) + 1
      BY FS_AddElement DEF Balance
    <3> QED
      BY <2>1, <2>3, <3>1
  <2> QED
    BY <1>1, <2>2, <2>3
<1>3. pc[w] # "down"
  BY DEF Shutdown
<1>4. \A m \in Msgs : Paid(m)'
  BY <1>1, <1>2 DEF Balance, Paid
<1> QED
  BY <1>1, <1>2, <1>3, <1>4 DEF Balance

\* The end of a connection gives its messages back, for the interruption it is
\* or the one its worker owed.
LEMMA RequeueBalance ==
  ASSUME Typed, Balance, NEW w \in Workers,
         Requeue(w), Departing' = Departing \ {w},
         \/ interruptions' = interruptions + 1
         \/ interruptions' = interruptions /\ (w \in Departing \/ unacked[w] = {}),
         \A v \in Workers : stopping'[v] => stopping[v] /\ pc'[v] = pc[v]
  PROVE  Balance'
<1> USE DEF Typed, WorkerTypeOK
<1>1. /\ queue' = queue \cup unacked[w]
      /\ UNCHANGED <<published, deliveries>>
  BY DEF Requeue
<1>2. /\ IsFiniteSet(Departing') /\ Cardinality(Departing') \in Nat
      /\ Cardinality(Departing) \in Nat
      /\ Cardinality(Departing') =
           IF w \in Departing THEN Cardinality(Departing) - 1 ELSE Cardinality(Departing)
  BY FS_CardinalityType, FS_RemoveElement DEF Balance
<1>3. \A m \in Msgs : Paid(m)'
  <2> SUFFICES ASSUME NEW m \in Msgs PROVE Paid(m)'
    OBVIOUS
  <2>1. Paid(m) /\ deliveries[m] \in Nat /\ interruptions \in Nat
    BY DEF Balance
  <2>2. CASE interruptions' = interruptions + 1
    BY <1>1, <1>2, <2>1, <2>2 DEF Paid
  <2>3. CASE interruptions' = interruptions /\ w \in Departing
    BY <1>1, <1>2, <2>1, <2>3 DEF Paid
  <2>4. CASE interruptions' = interruptions /\ unacked[w] = {}
    BY <1>1, <1>2, <2>1, <2>4 DEF Paid
  <2> QED
    BY <2>2, <2>3, <2>4
<1>4. Cardinality(Departing') =< interruptions'
  BY <1>2 DEF Balance
<1> QED
  BY <1>1, <1>2, <1>3, <1>4 DEF Balance

\* Every step keeps Balance.
LEMMA BalanceStep == Typed /\ Accounting /\ Balance /\ [Next]_vars => Balance'
<1> SUFFICES ASSUME Typed, Accounting, Balance, [Next]_vars PROVE Balance'
  OBVIOUS
<1>1. ASSUME NEW m \in Msgs, Publish(m) PROVE Balance'
  <2>1. /\ Departing' = Departing
        /\ queue' = queue \cup {m} /\ published' = published \cup {m}
        /\ UNCHANGED <<deliveries, interruptions, stopping, pc>>
    BY <1>1 DEF Publish, process, Departing
  <2>2. deliveries[m] = 0
    BY <1>1 DEF Publish, Balance
  <2>3. \A n \in Msgs : Paid(n)'
    BY <2>1, <2>2, FS_CardinalityType DEF Balance, Paid, Typed, WorkerTypeOK
  <2> QED
    BY <2>1, <2>3 DEF Balance
<1>2. ASSUME NEW w \in Workers, NEW m \in Msgs, Deliver(w, m) PROVE Balance'
  <2>1. /\ Departing' = Departing
        /\ m \in queue /\ queue' = queue \ {m}
        /\ deliveries' = [deliveries EXCEPT ![m] = @ + 1]
        /\ UNCHANGED <<published, interruptions, stopping, pc>>
    BY <1>2 DEF Deliver, Departing
  <2>2. m \in published
    BY <2>1 DEF Accounting, Placed
  <2>3. \A n \in Msgs : Paid(n)'
    BY <2>1, FS_CardinalityType DEF Balance, Paid, Typed, WorkerTypeOK
  <2>4. \A n \in Msgs \ published' : deliveries'[n] = 0
    BY <2>1, <2>2 DEF Balance, Typed, WorkerTypeOK
  <2> QED
    BY <2>1, <2>3, <2>4 DEF Balance
<1>3. ASSUME NEW w \in Workers, Restart(w) PROVE Balance'
  <2>1. ~stopping[w]
    BY <1>3 DEF Restart, Balance
  <2>2. Departing' = Departing
    BY <1>3, <2>1 DEF Restart, Departing, Typed, WorkerTypeOK
  <2>3. /\ UNCHANGED <<published, queue, deliveries, interruptions, stopping>>
        /\ \A v \in Workers : stopping'[v] => pc'[v] = pc[v]
    BY <1>3, <2>1 DEF Restart, broker, Typed, WorkerTypeOK
  <2> QED
    BY <2>2, <2>3 DEF Balance, Paid
<1>4. ASSUME NEW w \in Workers, Shutdown(w) PROVE Balance'
  BY <1>4, ShutdownBalance
<1>5. ASSUME NEW w \in Workers, ConnectionLost(w) PROVE Balance'
  <2>1. Departing' = Departing \ {w}
    BY <1>5 DEF ConnectionLost, Departing, Typed, WorkerTypeOK
  <2>2. /\ Requeue(w) /\ interruptions' = interruptions + 1
        /\ UNCHANGED <<stopping, pc>>
    BY <1>5 DEF ConnectionLost
  <2> QED
    BY <2>1, <2>2, RequeueBalance
\* A process that ends has its connection cut, and is not stopping any more.
<1>6. ASSUME NEW w \in Workers, Exit(w)
      PROVE  /\ Departing' = Departing \ {w} /\ Requeue(w)
             /\ \A v \in Workers : stopping'[v] => stopping[v] /\ pc'[v] = pc[v]
  BY <1>6 DEF Exit, Departing, Typed, WorkerTypeOK
<1>7. ASSUME NEW w \in Workers, Crash(w) PROVE Balance'
  BY <1>6, <1>7, RequeueBalance DEF Crash
<1>8. ASSUME NEW w \in Workers, RunReturns(w) PROVE Balance'
  <2>1. w \in Departing \/ unacked[w] = {}
    BY <1>8 DEF RunReturns, Ended, Departing, Accounting, Placed
  <2> QED
    BY <1>6, <1>8, <2>1, RequeueBalance DEF RunReturns
\* Within Run nothing is given back: Nack does not requeue.
<1>9. ASSUME NEW w \in Workers, NEW a \in inbox[w], Receive(w, a) PROVE Balance'
  BY <1>9, QuietBalance DEF Receive, broker, Typed, WorkerTypeOK
<1>10. ASSUME NEW w \in Workers, RejectEnvelope(w) \/ Ack(w) PROVE Balance'
  BY <1>10, QuietBalance
    DEF RejectEnvelope, Ack, Settles, Release, Goto, process, Typed, WorkerTypeOK
<1>11. ASSUME NEW w \in Workers, RejectEvent(w) \/ Prepare(w) \/ SendStep(w)
       PROVE Balance'
  BY <1>11, QuietBalance
    DEF RejectEvent, Prepare, SendStep, Send, Fails, Goto, broker, process, Typed, WorkerTypeOK
<1>12. ASSUME NEW w \in Workers, SaveWithOutbox(w) PROVE Balance'
  <2>1. UNCHANGED <<broker, process, interruptions>>
    BY <1>12 DEF SaveWithOutbox, Begin, InsertNotification, StageEvent, Commit, SaveFails
  <2>2. \A v \in Workers : pc'[v] = "down" <=> pc[v] = "down"
    BY <1>12 DEF SaveWithOutbox, Begin, InsertNotification, AfterInsert, StageEvent,
      Commit, SaveFails, Fails, Goto, InSave, Typed, WorkerTypeOK
  <2> QED
    BY <2>1, <2>2, QuietBalance DEF broker, process
<1>13. CASE UNCHANGED vars
  BY <1>13, QuietBalance DEF vars, broker, process
<1> QED
  BY <1>1, <1>2, <1>3, <1>4, <1>5, <1>7, <1>8, <1>9, <1>10, <1>11, <1>12, <1>13
    DEF Next, Step

\* The bound on interruptions bounds the deliveries of a message.
LEMMA DeliveriesBounded ==
  ASSUME Typed, Balance
  PROVE  \A m \in Msgs : deliveries[m] =< interruptions + 1
BY FS_CardinalityType DEF Typed, WorkerTypeOK, Balance, Paid

\* Nothing is interrupted beyond the bound.
Bounded == interruptions =< MaxInterruptions

LEMMA BoundedStep == Typed /\ Bounded /\ [Next]_vars => Bounded'
BY BoundAssumption
  DEF Typed, WorkerTypeOK, Bounded, Next, vars, Publish, Deliver, Restart, Shutdown,
    ConnectionLost, Crash, Exit, Step, Receive, RunReturns, RejectEnvelope, RejectEvent,
    Prepare, SendStep, Send, SaveWithOutbox, Begin, InsertNotification, StageEvent, Commit,
    SaveFails, Ack

\* Redeliveries are paid for, and the payments bounded, in every reachable state.
LEMMA BalanceAlways == Spec => []Balance
  BY BalanceInit, BalanceStep, TypedAlways, AccountingAlways, PTL DEF Spec

LEMMA BoundedAlways == Spec => []Bounded
<1>1. Init => Bounded
  BY BoundAssumption DEF Init, Bounded
<1> QED
  BY <1>1, BoundedStep, TypedAlways, PTL DEF Spec

\* However many workers and interruptions: the worker asks for no redelivery,
\* a message is delivered once, and once more for an interruption at most.
THEOREM RedeliveredOnlyAfterInterruptionAlways ==
  Spec => []RedeliveredOnlyAfterInterruption
<1>1. Typed /\ Balance => RedeliveredOnlyAfterInterruption
  BY DeliveriesBounded DEF RedeliveredOnlyAfterInterruption
<1> QED
  BY <1>1, BalanceAlways, TypedAlways, PTL
-----------------------------------------------------------------------------
(* Refinement. *)

\* The attempts whose row may be inserted are those the bound allows.
LEMMA HeldWithinBound ==
  ASSUME Typed, Attempts, Balance, Bounded, NEW w \in Workers, Handling(w)
  PROVE  hold[w] \in BoundedAttempt
<1>1. hold[w] \in Attempt /\ Drawn(hold[w])
  BY DEF Typed, WorkerTypeOK, Attempts, AttemptsDrawn, InProcess
<1>2. PICK m \in Msgs, n \in Nat \ {0} : hold[w] = <<m, n>>
  BY <1>1 DEF Attempt
<1>3. n =< deliveries[m] /\ deliveries[m] \in Nat
  BY <1>1, <1>2 DEF Drawn, Typed, WorkerTypeOK
<1>4. deliveries[m] =< MaxInterruptions + 1
  BY <1>3, DeliveriesBounded, BoundAssumption DEF Bounded, Typed, WorkerTypeOK
<1> QED
  BY <1>2, <1>3, <1>4, BoundAssumption DEF BoundedAttempt

\* A COMMIT with a row is Record of that row; every other step leaves the two
\* tables alone.
LEMMA LedgerStep ==
  /\ Typed /\ Transactions /\ Attempts /\ Balance /\ Bounded
  /\ [Next]_vars
  => [Ledger!Next]_(Ledger!vars)
<1> SUFFICES ASSUME Typed, Transactions, Attempts, Balance, Bounded, [Next]_vars
             PROVE Ledger!Next \/ UNCHANGED <<rows, outbox>>
  BY DEF Ledger!vars
<1>1. ASSUME NEW w \in Workers, NEW b \in BOOLEAN, Commit(w, b)
      PROVE Ledger!Next \/ UNCHANGED <<rows, outbox>>
  <2>1. /\ txEvts[w] = {r.id : r \in {s \in txRows[w] : s.status = "SENT"}}
        /\ txRows[w] \subseteq {RowOf(w)}
    BY <1>1 DEF Commit, Transactions, TransactionShape
  <2>2. rows' = rows \cup txRows[w] /\ outbox' = outbox \cup txEvts[w]
    BY <1>1 DEF Commit
  <2>3. CASE txRows[w] = {}
    BY <2>1, <2>2, <2>3
  <2>4. CASE txRows[w] = {RowOf(w)}
    <3>1. RowOf(w) \in Ledger!Row
      <4>1. Handling(w)
        BY <1>1 DEF Commit, Handling, PCs
      <4>2. RowOf(w) \in Row
        BY <2>4 DEF Typed, WorkerTypeOK
      <4> QED
        BY <4>1, <4>2, HeldWithinBound DEF RowOf, Row, Ledger!Row
    <3>2. \A s \in rows : s.id # RowOf(w).id
      BY <1>1 DEF Commit, Attempts, AttemptsUnused, Handling, PCs, RowOf
    <3>3. \A s \in rows : ~Clash(RowOf(w), s)
      BY <2>4 DEF Transactions, IndexHolds
    <3>4. outbox' = outbox \cup (IF RowOf(w).status = "SENT" THEN {RowOf(w).id} ELSE {})
      BY <2>1, <2>2, <2>4
    <3>5. Ledger!Record(RowOf(w))
      BY <2>2, <2>4, <3>2, <3>3, <3>4 DEF Ledger!Record, Clash
    <3> QED
      BY <3>1, <3>5 DEF Ledger!Next
  <2> QED
    BY <2>1, <2>3, <2>4
<1>2. CASE UNCHANGED <<rows, outbox>>
  BY <1>2
<1> QED
  BY <1>1, <1>2
    DEF Next, vars, Publish, Deliver, Restart, Shutdown, ConnectionLost, Crash, Exit, Step,
      Receive, RunReturns, RejectEnvelope, RejectEvent, Prepare, SendStep, Send,
      SaveWithOutbox, Begin, InsertNotification, StageEvent, SaveFails, Ack, database

\* The worker implements NotificationLedger, for any workers and messages and
\* whatever is interrupted: the two tables change by whole, fresh, unrepeated
\* notifications, at most one for each delivery the interruptions account for.
THEOREM ImplementsLedger == Spec => LedgerSpec
<1>1. Init => Ledger!Init
  BY DEF Init, Ledger!Init
<1> QED
  BY <1>1, LedgerStep, TypedAlways, TransactionsAlways, AttemptsAlways, BalanceAlways,
    BoundedAlways, PTL
    DEF Spec, LedgerSpec, Ledger!Spec
=============================================================================
