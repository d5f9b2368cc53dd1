------------------------ MODULE NotificationSystemProofs ------------------------
(***************************************************************************)
(* Proofs about the system as a whole, for any number of workers,          *)
(* messages, calls, faults and changes of the template.  A step of it is a *)
(* step of EventConsumer or, where a call of the API inserts a row, none   *)
(* but for that row.  So the invariants of EventConsumerProofs and         *)
(* EventConsumerRedelivery hold of the worker inside the system (Consuming)*)
(* once they are seen to survive such a row; what the system announces,    *)
(* and what it owes the API and the relay, follows from them.              *)
(***************************************************************************)
EXTENDS NotificationSystem, EventConsumerRedelivery

-----------------------------------------------------------------------------
(* The worker inside the system. *)

\* A call of the API inserts its row: the id is no attempt's, and its INSERT
\* has waited for the open transactions and looked at the table.
CallInserts(c) ==
  /\ UNCHANGED <<consumer, outbox>>
  /\ rows' = rows \cup {A!RowOf(c)}
  /\ \A s \in rows : ~Clash(A!RowOf(c), s)
  /\ \A w \in Workers : \A s \in txRows[w] : ~Clash(A!RowOf(c), s)

LEMMA CallsAreNoAttempts == A!Call \cap Attempt = {}
  BY IdsAssumption DEF A!Call, Attempt

\* To the worker the system is itself and the rows of calls.
LEMMA SystemStep ==
  ASSUME [SystemNext]_systemVars
  PROVE  [Next]_vars \/ \E c \in A!Call : CallInserts(c)
<1>1. CASE Broker
  BY <1>1 DEF Broker, Next
<1>2. ASSUME NEW w \in Workers, Worker(w) PROVE [Next]_vars
  BY <1>2 DEF Worker, WorkerGoesOn, WorkerLetsGo, WorkerPrepares, WorkerInserts,
    WorkerCommits, Next, Step, SaveWithOutbox
<1>3. ASSUME UNCHANGED <<consumer, rows, outbox>> PROVE UNCHANGED vars
  BY <1>3 DEF consumer, vars, broker, process, memory, database, observed
<1>4. ASSUME NEW c \in A!Call, CallSaves(c) PROVE [Next]_vars \/ CallInserts(c)
  <2>1. CASE A!SaveRefused(c)
    BY <1>3, <1>4, <2>1 DEF CallSaves, A!SaveRefused, A!database
  <2>2. CASE \E returned \in BOOLEAN : A!Save(c, returned)
    <3>1. UNCHANGED <<consumer, outbox>> /\ rows' = rows \cup {A!RowOf(c)}
      BY <1>4, <2>2 DEF CallSaves, A!Save
    <3>2. \A s \in rows : ~Clash(A!RowOf(c), s)
      BY <2>2 DEF A!Save, A!Storable, A!RowOf, Clash
    <3>3. \A w \in Workers : \A s \in txRows[w] : ~Clash(A!RowOf(c), s)
      BY <1>4 DEF CallSaves, CallWaits
    <3> QED
      BY <3>1, <3>2, <3>3 DEF CallInserts
  <2> QED
    BY <1>4, <2>1, <2>2 DEF CallSaves
<1>5. ASSUME NEW c \in A!Call, CallGoesOn(c) PROVE [Next]_vars
  BY <1>3, <1>5 DEF CallGoesOn, A!Post, A!GiveUp, A!Refuse, A!Validate, A!LookUp,
    A!LookUpFails, A!SaveFails, A!Respond, A!Get, A!database
<1>6. CASE ApiCrashes \/ TemplateChanges \/ Relay
  BY <1>3, <1>6 DEF ApiCrashes, TemplateChanges, Relay, A!Crash, A!ChangeTemplate,
    A!database, R!Hand, R!MarkPublished
<1> QED
  BY <1>1, <1>2, <1>3, <1>4, <1>5, <1>6 DEF SystemNext, Api, systemVars

\* The row of an attempt is of the event its message carries.
RowsOfAttempts == \A r \in rows : r.id \in Attempt => r.source = Source(r.id)

\* What is known of the worker on a table that is not its own.
Consuming ==
  Typed /\ Transactions /\ Attempts /\ Accounting /\ Balance /\ Bounded /\ RowsOfAttempts

LEMMA ConsumingInit == SystemInit => Consuming
  BY TypedInit, TransactionsInit, AttemptsInit, AccountingInit, BalanceInit, BoundAssumption
    DEF SystemInit, Consuming, Init, Bounded, RowsOfAttempts

\* A step of the worker.
LEMMA WorkerConsumes == Consuming /\ [Next]_vars => Consuming'
<1> SUFFICES ASSUME Consuming, [Next]_vars PROVE Consuming'
  OBVIOUS
<1>1. Typed /\ TransactionShape /\ Transactions
  BY DEF Consuming, Transactions
<1>2. RowsOfAttempts'
  <2>1. CASE UNCHANGED rows
    BY <2>1 DEF Consuming, RowsOfAttempts, Source
  <2>2. ASSUME NEW w \in Workers, NEW b \in BOOLEAN, Commit(w, b) PROVE RowsOfAttempts'
    <3>1. \A r \in rows' : r \in rows \/ r = RowOf(w)
      BY <1>1, <2>2, CommitAdds
    <3> QED
      BY <3>1 DEF Consuming, RowsOfAttempts, Source, RowOf
  <2> QED
    BY <2>1, <2>2, TablesStep
<1>3. Typed' /\ TransactionShape' /\ IndexHolds' /\ OneRowPerEvent' /\ OutboxMatchesRows'
  BY <1>1, TypedStep, ShapeStep, UniqueStep, OutboxStep DEF Transactions
<1>4. Attempts'
  BY <1>1, AttemptsStep DEF Consuming
<1>5. Accounting'
  BY <1>1, PlacedStep, HandledStep, AckedStep DEF Consuming, Accounting
<1>6. Balance' /\ Bounded'
  BY <1>1, BalanceStep, BoundedStep DEF Consuming
<1> QED
  BY <1>2, <1>3, <1>4, <1>5, <1>6 DEF Consuming, Transactions

\* A row of a call: its id is none of the worker's, PENDING says nothing of a
\* mail, and what was accounted for stays so.
LEMMA CallConsumes ==
  ASSUME Consuming, NEW c \in A!Call, CallInserts(c)
  PROVE  Consuming'
<1> DEFINE new == A!RowOf(c)
<1>1. new.id \notin Attempt /\ new.status = "PENDING"
  BY CallsAreNoAttempts DEF A!RowOf
<1>2. UNCHANGED <<consumer, outbox>> /\ rows' = rows \cup {new}
  BY DEF CallInserts
<1>3. \A s \in rows : ~Clash(new, s) /\ ~Clash(s, new)
  BY DEF CallInserts, Clash
<1>4. \A w \in Workers : \A s \in txRows[w] : ~Clash(new, s) /\ ~Clash(s, new)
  BY DEF CallInserts, Clash
<1> HIDE DEF new
<1>5. Typed' /\ TransactionShape'
  BY <1>2 DEF Consuming, Transactions, Typed, WorkerTypeOK, Decided, TransactionShape,
    Handling, InSave, RowOf, consumer
<1>6. IndexHolds' /\ OneRowPerEvent'
  BY <1>2, <1>3, <1>4 DEF Consuming, Transactions, IndexHolds, OneRowPerEvent, consumer
<1>7. OutboxMatchesRows'
  BY <1>1, <1>2 DEF Consuming, Transactions, OutboxMatchesRows
<1>8. Attempts'
  <2> USE DEF Consuming, Typed, WorkerTypeOK, Attempts, consumer
  <2>1. AttemptsDrawn' /\ AttemptsApart' /\ OutcomeKnown'
    BY <1>1, <1>2 DEF AttemptsDrawn, AttemptsApart, OutcomeKnown, InProcess, Drawn,
      Handling, InSave
  <2>2. AttemptsUnused'
    BY <1>1, <1>2 DEF AttemptsUnused, Handling, PCs
  <2>3. RowTellsOutcome'
    <3>1. <<new.id, "ok">> \notin mailed
      BY <1>1
    <3> QED
      BY <1>1, <1>2, <3>1 DEF RowTellsOutcome
  <2> QED
    BY <2>1, <2>2, <2>3
<1>9. Accounting'
  <2>1. Placed'
    BY <1>2 DEF Consuming, Accounting, Placed, InProcess, Handling, Msg, consumer
  <2>2. HandledIsAccounted' /\ AckedIsRecordedOrLogged'
    BY <1>2 DEF Consuming, Accounting, HandledIsAccounted, AckedIsRecordedOrLogged,
      Accounted, Conflicts, Clash, RowOf, Source, Msg, consumer
  <2> QED
    BY <2>1, <2>2 DEF Accounting
<1>10. Balance' /\ Bounded'
  <2>1. Departing' = Departing
    BY <1>2 DEF Departing, consumer
  <2> QED
    BY <1>2, <2>1 DEF Consuming, Balance, Bounded, Paid, consumer
<1>11. RowsOfAttempts'
  BY <1>1, <1>2 DEF Consuming, RowsOfAttempts, Source, Msg
<1> QED
  BY <1>5, <1>6, <1>7, <1>8, <1>9, <1>10, <1>11 DEF Consuming, Transactions

\* Consuming holds in every reachable state of the system.
LEMMA ConsumingAlways == SystemSpec => []Consuming
<1>1. Consuming /\ [SystemNext]_systemVars => Consuming'
  BY SystemStep, WorkerConsumes, CallConsumes
<1> QED
  BY <1>1, ConsumingInit, PTL DEF SystemSpec

\* The workers and the API together, however many and however they overlap,
\* leave at most one row for each source_event_id.
THEOREM OneRowPerSourceAlways == SystemSpec => []OneRowPerSource
<1>1. Consuming => OneRowPerSource
  BY DEF Consuming, Transactions, OneRowPerEvent, OneRowPerSource, A!OneRowPerSource, Clash
<1> QED
  BY <1>1, ConsumingAlways, PTL

\* What holds up the INSERT of a call is one worker that waits for nobody; the
\* API itself never holds up a worker.
THEOREM CallHoldersNeverWaitAlways == SystemSpec => []CallHoldersNeverWait
<1>1. Transactions => CallHoldersNeverWait
  <2> SUFFICES ASSUME Transactions, NEW c \in A!Call, CallWaits(c)
               PROVE  /\ \A r \in rows : ~Clash(A!RowOf(c), r)
                      /\ \E w \in Workers :
                           HeldUpBy(A!RowOf(c)) = {w} /\ pc[w] \in {"stage", "commit"}
    BY DEF CallHoldersNeverWait
  <2>1. PICK w \in Workers : \E r \in txRows[w] : Clash(A!RowOf(c), r)
    BY DEF CallWaits
  <2>2. w \in HeldUpBy(A!RowOf(c))
    BY <2>1 DEF HeldUpBy
  <2> QED
    BY <2>1, <2>2, HolderIsAlone
<1> QED
  BY <1>1, ConsumingAlways, PTL DEF Consuming

\* A mail that went out is announced unless an error was logged or another row
\* had taken the event: of the three ways in which an acked message is accounted
\* for, a row of its own is announced.
THEOREM UnannouncedOnlyIfTakenAlways == SystemSpec => []UnannouncedOnlyIfTaken
<1>1. Consuming => UnannouncedOnlyIfTaken
  <2> SUFFICES ASSUME Consuming, NEW m \in acked, NEW last, last = <<m, deliveries[m]>>,
                      <<last, "ok">> \in mailed, last \notin failed \cup outbox
               PROVE  \E r \in rows : r.id # last /\ r.source = EventOf[m] /\ r.source # NoEvent
    BY DEF UnannouncedOnlyIfTaken
  <2>1. \A r \in rows : r.id # last
    BY DEF Consuming, Attempts, RowTellsOutcome, Transactions, OutboxMatchesRows
  <2>2. \E r \in rows : EventOf[m] # NoEvent /\ r.source = EventOf[m]
    BY <2>1 DEF Consuming, Accounting, AckedIsRecordedOrLogged
  <2> QED
    BY <2>1, <2>2
<1> QED
  BY <1>1, ConsumingAlways, PTL
-----------------------------------------------------------------------------
(* What is announced. *)

\* The relay hands over what is staged, and marks what it has handed over.
Announced ==
  handed \subseteq outbox /\ relayed \subseteq handed /\ handed \subseteq BoundedAttempt

LEMMA AnnouncedStep == Consuming /\ Announced /\ [SystemNext]_systemVars => Announced'
<1> SUFFICES ASSUME Consuming, Announced, [SystemNext]_systemVars PROVE Announced'
  OBVIOUS
<1>1. outbox \subseteq outbox'
  <2>1. CASE [Next]_vars
    BY <2>1, TablesStep DEF Commit
  <2>2. CASE \E c \in A!Call : CallInserts(c)
    BY <2>2 DEF CallInserts
  <2> QED
    BY <2>1, <2>2, SystemStep
<1>2. CASE Relay
  BY <1>2 DEF Relay, R!Hand, R!MarkPublished, Announced
<1>3. CASE UNCHANGED relay
  BY <1>1, <1>3 DEF Announced, relay
<1> QED
  BY <1>2, <1>3 DEF SystemNext, systemVars, Broker, Worker, WorkerGoesOn, WorkerLetsGo,
    WorkerPrepares, WorkerInserts, WorkerCommits, Api, CallSaves, CallGoesOn, ApiCrashes,
    TemplateChanges

LEMMA AnnouncedAlways == SystemSpec => []Announced
<1>1. SystemInit => Announced
  BY DEF SystemInit, Init, R!Init, Announced
<1> QED
  BY <1>1, AnnouncedStep, ConsumingAlways, PTL DEF SystemSpec

\* notification.sent is handed over for a committed row whose own mail was
\* answered without an error, and for one row of an event only.
THEOREM AnnouncedIsTrueAlways == SystemSpec => []AnnouncedIsTrue
<1>1. Consuming /\ Announced => AnnouncedIsTrue
  <2> SUFFICES ASSUME Consuming, Announced PROVE AnnouncedIsTrue
    OBVIOUS
  <2>1. \A a \in handed : \E r \in rows :
          /\ r.id = a /\ r.status = "SENT" /\ r.source = Source(a)
          /\ <<a, "ok">> \in mailed
    <3> SUFFICES ASSUME NEW a \in handed
                 PROVE  \E r \in rows : /\ r.id = a /\ r.status = "SENT"
                                        /\ r.source = Source(a)
                                        /\ <<a, "ok">> \in mailed
      OBVIOUS
    <3>1. PICK r \in rows : r.id = a /\ r.status = "SENT"
      BY DEF Consuming, Announced, Transactions, OutboxMatchesRows
    <3>2. a \in Attempt
      BY DEF Consuming, Announced, Typed, WorkerTypeOK
    <3>3. r.source = Source(a) /\ <<a, "ok">> \in mailed
      BY <3>1, <3>2 DEF Consuming, RowsOfAttempts, Attempts, RowTellsOutcome
    <3> QED
      BY <3>1, <3>3
  <2>2. ASSUME NEW a \in handed, NEW b \in handed,
               Clash([source |-> Source(a)], [source |-> Source(b)])
        PROVE  a = b
    <3>1. PICK r \in rows, s \in rows : /\ r.id = a /\ r.source = Source(a)
                                      /\ s.id = b /\ s.source = Source(b)
      BY <2>1
    <3>2. Clash(r, s)
      BY <2>2, <3>1 DEF Clash
    <3> QED
      BY <3>1, <3>2 DEF Consuming, Transactions, OneRowPerEvent
  <2> QED
    BY <2>1, <2>2 DEF AnnouncedIsTrue
<1> QED
  BY <1>1, ConsumingAlways, AnnouncedAlways, PTL
-----------------------------------------------------------------------------
(* The foreign key. *)

\* A row that is inserted and not yet committed locks the template it refers
\* to; workers are functions of the worker.
Key ==
  /\ txRows = [w \in Workers |-> txRows[w]]
  /\ workerPicked = [w \in Workers |-> workerPicked[w]]
  /\ \A w \in Workers : workerPicked[w] /\ txRows[w] # {} => template # "deleted"
  /\ ReferencesExist

LEMMA KeyInit == SystemInit => Key
  BY DEF SystemInit, Init, A!Init, Key, ReferencesExist

\* Steps that add no reference: transactions end, notifications are let go.
LEMMA FewerReferences ==
  ASSUME Key, UNCHANGED <<template, references, workerReferences>>,
         \/ UNCHANGED txRows
         \/ \E w \in Workers : txRows' = [txRows EXCEPT ![w] = {}],
         \/ UNCHANGED workerPicked
         \/ \E w \in Workers : workerPicked' = [workerPicked EXCEPT ![w] = FALSE]
  PROVE  Key'
BY DEF Key, ReferencesExist

LEMMA KeyStep == Key /\ [SystemNext]_systemVars => Key'
<1> SUFFICES ASSUME Key, [SystemNext]_systemVars PROVE Key'
  OBVIOUS
<1>1. CASE Broker
  BY <1>1, FewerReferences DEF Broker, Publish, Deliver, database, api, key
<1>2. ASSUME NEW w \in Workers, Worker(w) PROVE Key'
  <2>1. CASE WorkerGoesOn(w)
    <3>1. UNCHANGED <<template, references, workerReferences, workerPicked, txRows>>
      BY <2>1 DEF WorkerGoesOn, Restart, Shutdown, ConnectionLost, Receive,
         SendStep, Send, Begin, StageEvent, database, api, key
    <3> QED
      BY <3>1, FewerReferences
  <2>2. CASE WorkerLetsGo(w)
    <3>1. /\ UNCHANGED txRows \/ txRows' = [txRows EXCEPT ![w] = {}]
          /\ UNCHANGED <<template, references, workerReferences>>
          /\ workerPicked' = [workerPicked EXCEPT ![w] = FALSE]
      BY <2>2 DEF WorkerLetsGo, Crash, RunReturns, Exit, RejectEnvelope,
         RejectEvent, SaveFails, EndTransaction, Ack, database, api
    <3> QED
      BY <3>1, FewerReferences
  <2>3. ASSUME NEW found \in BOOLEAN, WorkerPrepares(w, found) PROVE Key'
    \* What it found is there.
    <3>1. /\ UNCHANGED <<template, references, workerReferences, txRows>>
          /\ workerPicked' = [workerPicked EXCEPT ![w] = found]
          /\ found => template = "active"
      BY <2>3 DEF WorkerPrepares, Prepare, database, api
    <3> QED
      BY <3>1 DEF Key, ReferencesExist
  <2>4. CASE WorkerInserts(w)
    \* The foreign key is looked at.
    <3>1. /\ UNCHANGED <<template, references, workerReferences, workerPicked>>
          /\ txRows' = [txRows EXCEPT
               ![w] = IF Conflicts(w) THEN {} ELSE {RowOf(w)}]
          /\ Conflicts(w) \/ (workerPicked[w] => template # "deleted")
      BY <2>4 DEF WorkerInserts, KeyHolds, InsertNotification, api, key
    <3> QED
      BY <3>1 DEF Key, ReferencesExist
  <2>5. ASSUME NEW returned \in BOOLEAN, WorkerCommits(w, returned) PROVE Key'
    \* The template was locked up to now.
    <3>1. /\ UNCHANGED <<template, references>>
          /\ txRows' = [txRows EXCEPT ![w] = {}]
          /\ workerPicked' = [workerPicked EXCEPT ![w] = FALSE]
      BY <2>5 DEF WorkerCommits, Commit, EndTransaction, api
    <3>2. workerReferences' # {} =>
            workerReferences # {} \/ (workerPicked[w] /\ txRows[w] # {})
      BY <2>5 DEF WorkerCommits
    <3> QED
      BY <3>1, <3>2 DEF Key, ReferencesExist
  <2> QED
    BY <1>2, <2>1, <2>2, <2>3, <2>4, <2>5 DEF Worker
<1>3. ASSUME NEW c \in A!Call, CallSaves(c) PROVE Key'
  <2>1. UNCHANGED <<template, txRows, workerPicked, workerReferences>>
    BY <1>3 DEF CallSaves, consumer, key, A!SaveRefused, A!Save, A!database
  <2>2. references' = references \/ template # "deleted"
    BY <1>3 DEF CallSaves, A!SaveRefused, A!Save, A!Storable, A!database
  <2> QED
    BY <2>1, <2>2 DEF Key, ReferencesExist
<1>4. ASSUME NEW c \in A!Call, CallGoesOn(c) PROVE Key'
  BY <1>4, FewerReferences DEF CallGoesOn, consumer, key, A!Post, A!GiveUp, A!Refuse,
     A!Validate, A!LookUp, A!LookUpFails, A!SaveFails, A!Respond, A!Get, A!database
<1>5. CASE ApiCrashes
  BY <1>5, FewerReferences DEF ApiCrashes, consumer, key, A!Crash, A!database
<1>6. CASE TemplateChanges
  \* A deletion has waited for the transactions, and sets the references to NULL.
  <2>1. UNCHANGED <<txRows, workerPicked>>
    BY <1>6 DEF TemplateChanges, consumer
  <2>2. template' = "deleted" =>
          /\ references' = {} /\ workerReferences' = {}
          /\ \A w \in Workers : workerPicked[w] => txRows[w] = {}
    BY <1>6 DEF TemplateChanges, A!ChangeTemplate
  <2> QED
    BY <2>1, <2>2 DEF Key, ReferencesExist
<1>7. CASE Relay \/ UNCHANGED systemVars
  BY <1>7, FewerReferences DEF Relay, systemVars, consumer, api, key
<1> QED
  BY <1>1, <1>2, <1>3, <1>4, <1>5, <1>6, <1>7 DEF SystemNext, Api

\* No row of a worker or of the API refers to a template that was deleted.
THEOREM ReferencesExistAlways == SystemSpec => []ReferencesExist
<1>1. Key => ReferencesExist
  BY DEF Key
<1> QED
  BY <1>1, KeyInit, KeyStep, PTL DEF SystemSpec
-----------------------------------------------------------------------------
(* What the system owes the API and the relay. *)

\* A COMMIT leaves the tables as they are, or records one notification whose id
\* and source no row has.
LEMMA CommitRecords ==
  ASSUME Consuming, NEW w \in Workers, NEW b \in BOOLEAN, Commit(w, b)
  PROVE  \/ UNCHANGED <<rows, outbox>>
         \/ RowOf(w) \in A!Worker!Row /\ A!Worker!Record(RowOf(w))
<1>1. /\ rows' = rows \cup txRows[w] /\ txRows[w] \subseteq {RowOf(w)}
      /\ outbox' = outbox \cup {r.id : r \in {s \in txRows[w] : s.status = "SENT"}}
  BY CommitAdds DEF Consuming, Transactions
<1>2. CASE txRows[w] = {}
  BY <1>1, <1>2
<1>3. CASE txRows[w] = {RowOf(w)}
  <2>1. pc[w] = "commit" /\ Handling(w)
    BY DEF Commit, Handling, PCs
  <2>2. RowOf(w) \in Row
    BY <1>3 DEF Consuming, Typed, WorkerTypeOK
  <2>3. RowOf(w) \in A!Worker!Row
    BY <2>1, <2>2, HeldWithinBound DEF Consuming, RowOf, Row, A!Worker!Row
  <2>4. \A s \in rows : s.id # RowOf(w).id
    BY <2>1 DEF Consuming, Attempts, AttemptsUnused, RowOf
  <2>5. \A s \in rows : ~Clash(RowOf(w), s)
    BY <1>3 DEF Consuming, Transactions, IndexHolds
  <2>6. outbox' = outbox \cup (IF RowOf(w).status = "SENT" THEN {RowOf(w).id} ELSE {})
    BY <1>1, <1>3
  <2>7. A!Worker!Record(RowOf(w))
    BY <1>1, <1>3, <2>4, <2>5, <2>6 DEF A!Worker!Record, Clash
  <2> QED
    BY <2>3, <2>7
<1> QED
  BY <1>1, <1>2, <1>3

LEMMA ApiStep == Consuming /\ [SystemNext]_systemVars => [A!Next]_(A!vars)
<1> SUFFICES ASSUME Consuming, [SystemNext]_systemVars PROVE A!Next \/ UNCHANGED A!vars
  OBVIOUS
<1>1. ASSUME UNCHANGED <<rows, outbox, template, api>> PROVE UNCHANGED A!vars
  BY <1>1 DEF api, A!vars, A!database, A!handler, A!client
<1>2. CASE Broker
  BY <1>1, <1>2 DEF Broker, Publish, Deliver, database
<1>3. ASSUME NEW w \in Workers, Worker(w) PROVE A!Next \/ UNCHANGED A!vars
  <2>1. UNCHANGED <<template, api>>
    BY <1>3 DEF Worker, WorkerGoesOn, WorkerLetsGo, WorkerPrepares, WorkerInserts,
      WorkerCommits
  <2>2. [Next]_vars
    BY <1>3 DEF Worker, WorkerGoesOn, WorkerLetsGo, WorkerPrepares, WorkerInserts,
      WorkerCommits, Next, Step, SaveWithOutbox
  <2>3. \/ UNCHANGED <<rows, outbox>>
        \/ \E r \in A!Worker!Row : A!Worker!Record(r)
    BY <2>2, TablesStep, CommitRecords
  <2>4. CASE \E r \in A!Worker!Row : A!Worker!Record(r)
    BY <2>1, <2>4 DEF A!Next, A!WorkerRecords, A!Worker!Next, api, A!handler, A!client
  <2> QED
    BY <1>1, <2>1, <2>3, <2>4
<1>4. ASSUME NEW c \in A!Call, CallSaves(c) PROVE A!Next
  BY <1>4 DEF CallSaves, A!Next, A!Step
<1>5. ASSUME NEW c \in A!Call, CallGoesOn(c) PROVE A!Next
  BY <1>5 DEF CallGoesOn, A!Next, A!Step
<1>6. CASE ApiCrashes \/ TemplateChanges
  BY <1>6 DEF ApiCrashes, TemplateChanges, A!Next
<1>7. CASE Relay
  BY <1>1, <1>7 DEF Relay, R!Hand, R!MarkPublished
<1>8. CASE UNCHANGED systemVars
  BY <1>1, <1>8 DEF systemVars
<1> QED
  BY <1>2, <1>3, <1>4, <1>5, <1>6, <1>7, <1>8 DEF SystemNext, Api

\* Seen from the API, the detailed worker with its transactions, crashes and
\* redeliveries is a NotificationLedger: what NotificationApiProofs proves of the
\* API over the ledger it has over the worker.
THEOREM ApiImplemented == SystemSpec => ApiSpec
<1>1. SystemInit => A!Init
  BY DEF SystemInit
<1> QED
  BY <1>1, ApiStep, ConsumingAlways, PTL DEF SystemSpec, ApiSpec, A!Spec

\* The event a COMMIT stages is that of a row nobody has seen.
LEMMA RelayStep ==
  Consuming /\ Announced /\ [SystemNext]_systemVars => [R!Next]_(R!vars)
<1> SUFFICES ASSUME Consuming, Announced, [SystemNext]_systemVars
             PROVE  R!Next \/ UNCHANGED <<outbox, relayed, handed>>
  BY DEF R!vars
<1>1. CASE Relay
  BY <1>1 DEF Relay, R!Next, R!MarkPublished, Announced
<1>2. CASE UNCHANGED relay
  <2>1. CASE UNCHANGED outbox
    BY <1>2, <2>1 DEF relay
  <2>2. ASSUME NEW w \in Workers, NEW b \in BOOLEAN, Commit(w, b)
        PROVE  R!Next \/ UNCHANGED outbox
    <3>1. CASE A!Worker!Record(RowOf(w)) /\ RowOf(w).status = "SENT"
      <4>1. outbox' = outbox \cup {hold[w]}
        BY <3>1 DEF A!Worker!Record, RowOf
      <4>2. hold[w] \notin outbox
        BY <3>1 DEF A!Worker!Record, RowOf, Consuming, Transactions, OutboxMatchesRows
      <4>3. hold[w] \in BoundedAttempt
        BY <2>2, HeldWithinBound DEF Consuming, Commit, Handling, PCs
      <4> QED
        BY <1>2, <4>1, <4>2, <4>3 DEF R!Next, R!Stage, relay
    <3>2. CASE A!Worker!Record(RowOf(w)) /\ RowOf(w).status # "SENT"
      BY <3>2 DEF A!Worker!Record
    <3> QED
      BY <2>2, <3>1, <3>2, CommitRecords
  <2>3. CASE \E c \in A!Call : CallInserts(c)
    BY <2>1, <2>3 DEF CallInserts
  <2> QED
    BY <1>2, <2>1, <2>2, <2>3, SystemStep, TablesStep DEF relay
<1> QED
  BY <1>1, <1>2 DEF SystemNext, systemVars, Broker, Worker, WorkerGoesOn, WorkerLetsGo,
    WorkerPrepares, WorkerInserts, WorkerCommits, Api, CallSaves, CallGoesOn, ApiCrashes,
    TemplateChanges

\* To the relay, workers stage events by their commits, each once, and do nothing
\* else to the outbox: that is all OutboxPromise assumes of them.  The relay's own
\* half holds by definition here; OutboxRelayProofs has it of the detailed relay.
THEOREM RelayImplemented == SystemSpec => RelaySpec
<1>1. SystemInit => R!Init
  BY DEF SystemInit
<1> QED
  BY <1>1, RelayStep, ConsumingAlways, AnnouncedAlways, PTL DEF SystemSpec, RelaySpec, R!Spec
-----------------------------------------------------------------------------
(* Types. *)

\* Every step of the API and of what it sees of the worker keeps its types.
LEMMA ApiTypedStep == A!TypeOK /\ [A!Next]_(A!vars) => A!TypeOK'
<1> SUFFICES ASSUME A!TypeOK, [A!Next]_(A!vars) PROVE A!TypeOK'
  OBVIOUS
<1> USE BoundsAssumption DEF A!TypeOK
<1>1. ASSUME NEW c \in A!Call, A!Post(c) \/ A!Validate(c) PROVE A!TypeOK'
  BY <1>1 DEF A!Post, A!Validate, A!database, A!client
<1>2. ASSUME NEW c \in A!Call, A!GiveUp(c) PROVE A!TypeOK'
  BY <1>2 DEF A!GiveUp, A!Fault, A!database, A!handler
<1>3. ASSUME NEW c \in A!Call, A!Refuse(c) \/ A!SaveRefused(c) \/ A!SaveFails(c)
      PROVE A!TypeOK'
  <2>1. \E code \in {"400", "503"} : A!Answer(c, code)
    BY <1>3 DEF A!Refuse, A!SaveRefused, A!SaveFails
  <2>2. UNCHANGED <<A!database, picked, A!client, changes>>
    BY <1>3 DEF A!Refuse, A!SaveRefused, A!SaveFails
  <2>3. faults' \in 0..MaxFaults
    BY <1>3 DEF A!Refuse, A!SaveRefused, A!SaveFails, A!QueryFault, A!Fault
  <2> QED
    BY <2>1, <2>2, <2>3 DEF A!Answer, A!database, A!client
<1>4. ASSUME NEW c \in A!Call, NEW returned \in BOOLEAN, A!Save(c, returned)
      PROVE A!TypeOK'
  <2>1. A!RowOf(c) \in A!Rows
    BY SourceOfAssumption DEF A!RowOf, A!Source, A!Rows, A!Call
  <2> QED
    BY <1>4, <2>1 DEF A!Save, A!Answer, A!Fault, A!client
<1>5. CASE A!Crash
  BY <1>5 DEF A!Crash, A!Fault, A!database
<1>6. ASSUME NEW c \in A!Call, A!Get(c) PROVE A!TypeOK'
  <2>1. A!Found(c) \in SUBSET {"PENDING", "SENT", "FAILED"}
    BY DEF A!Found, A!Rows, A!Worker!Row
  <2>2. faults' \in 0..MaxFaults
    BY <1>6 DEF A!Get, A!Fault
  <2>3. got' \in SUBSET (A!Call \X {"PENDING", "SENT", "FAILED", "404", "503"})
    BY <1>6, <2>1 DEF A!Get
  <2> QED
    BY <1>6, <2>2, <2>3 DEF A!Get, A!database, A!handler
<1>7. CASE A!ChangeTemplate
  BY <1>7 DEF A!ChangeTemplate, A!handler, A!client
<1>8. ASSUME NEW r \in A!Worker!Row, A!Worker!Record(r),
             UNCHANGED <<template, references, A!handler, A!client, faults, changes>>
      PROVE A!TypeOK'
  BY <1>8 DEF A!Worker!Record, A!Worker!Row, A!Rows, A!handler, A!client
<1>9. ASSUME NEW c \in A!Call, A!Respond(c) PROVE A!TypeOK'
  BY <1>9 DEF A!Respond, A!database
<1>10. ASSUME NEW c \in A!Call, A!LookUp(c) PROVE A!TypeOK'
  BY <1>10 DEF A!LookUp, A!database, A!client
<1>11. ASSUME NEW c \in A!Call, A!LookUpFails(c) PROVE A!TypeOK'
  BY <1>11 DEF A!LookUpFails, A!QueryFault, A!Fault, A!database, A!client
<1>12. CASE UNCHANGED A!vars
  BY <1>12 DEF A!vars, A!database, A!handler, A!client
<1> HIDE DEF A!TypeOK
<1> QED
  BY <1>1, <1>2, <1>3, <1>4, <1>5, <1>6, <1>7, <1>8, <1>9, <1>10, <1>11, <1>12
    DEF A!Next, A!Step, A!WorkerRecords, A!Worker!Next

\* A worker has the template's id in hand from Prepare to the end of
\* SaveWithOutbox; what refers to the template is a row.
Picking ==
  /\ workerPicked \in [Workers -> BOOLEAN]
  /\ \A w \in Workers : workerPicked[w] => InSave(w) \/ pc[w] = "send"
  /\ workerReferences \subseteq {r.id : r \in rows}

LEMMA PickingStep == Consuming /\ Picking /\ [SystemNext]_systemVars => Picking'
<1> SUFFICES ASSUME Consuming, Picking, [SystemNext]_systemVars PROVE Picking'
  OBVIOUS
<1> USE DEF Picking, InSave
<1>1. pc \in [Workers -> PCs]
  BY DEF Consuming, Typed, WorkerTypeOK
<1>2. rows \subseteq rows'
  BY SystemStep, TablesStep DEF Commit, CallInserts
<1>3. ASSUME \A w \in Workers : workerPicked[w] => InSave(w)' \/ pc'[w] = "send",
             UNCHANGED key
      PROVE  Picking'
  BY <1>2, <1>3 DEF key
<1>4. CASE UNCHANGED <<pc, key>>
  BY <1>3, <1>4
<1>5. CASE Broker
  BY <1>4, <1>5 DEF Broker, Publish, Deliver
<1>6. ASSUME NEW w \in Workers, WorkerGoesOn(w) PROVE Picking'
  <2>1. UNCHANGED key
    BY <1>6 DEF WorkerGoesOn
  <2>2. \/ UNCHANGED pc
        \/ pc[w] \notin {"begin", "insert", "stage", "commit", "send"}
           /\ \E label : pc' = [pc EXCEPT ![w] = label]
        \/ \E label \in {"begin", "insert", "commit"} : pc' = [pc EXCEPT ![w] = label]
    BY <1>6 DEF WorkerGoesOn, Restart, Shutdown, ConnectionLost, Receive, SendStep, Send,
      Begin, StageEvent, Goto
  <2> QED
    BY <1>1, <1>3, <2>1, <2>2
<1>7. ASSUME NEW w \in Workers, WorkerLetsGo(w) PROVE Picking'
  <2>1. /\ workerPicked' = [workerPicked EXCEPT ![w] = FALSE]
        /\ \A v \in Workers \ {w} : pc'[v] = pc[v]
        /\ UNCHANGED workerReferences
    BY <1>1, <1>7 DEF WorkerLetsGo, Crash, RunReturns, Exit, RejectEnvelope, RejectEvent,
      SaveFails, Fails, Ack, Release, Goto
  <2> QED
    BY <1>2, <2>1
<1>8. ASSUME NEW w \in Workers, NEW found \in BOOLEAN, WorkerPrepares(w, found)
      PROVE  Picking'
  BY <1>1, <1>2, <1>8 DEF WorkerPrepares, Prepare, Goto
<1>9. ASSUME NEW w \in Workers, WorkerInserts(w) PROVE Picking'
  BY <1>1, <1>3, <1>9 DEF WorkerInserts, InsertNotification, AfterInsert, Goto
<1>10. ASSUME NEW w \in Workers, NEW returned \in BOOLEAN, WorkerCommits(w, returned)
       PROVE  Picking'
  <2>1. /\ workerPicked' = [workerPicked EXCEPT ![w] = FALSE]
        /\ pc' = [pc EXCEPT ![w] = "ack"]
        /\ workerReferences' \subseteq workerReferences \cup {r.id : r \in txRows[w]}
        /\ rows' = rows \cup txRows[w]
    BY <1>10 DEF WorkerCommits, Commit, Fails, Goto
  <2> QED
    BY <1>1, <2>1
<1>11. CASE TemplateChanges
  <2>1. UNCHANGED <<pc, workerPicked>> /\ workerReferences' \subseteq workerReferences
    BY <1>11 DEF TemplateChanges, consumer
  <2> QED
    BY <1>2, <2>1
<1>12. ASSUME NEW c \in A!Call, CallSaves(c) \/ CallGoesOn(c) PROVE Picking'
  BY <1>4, <1>12 DEF CallSaves, CallGoesOn, consumer
<1>13. CASE ApiCrashes \/ Relay \/ UNCHANGED systemVars
  BY <1>4, <1>13 DEF ApiCrashes, Relay, systemVars, consumer
<1> HIDE DEF Picking, InSave
<1> QED
  BY <1>5, <1>6, <1>7, <1>8, <1>9, <1>10, <1>11, <1>12, <1>13 DEF SystemNext, Worker, Api

\* Every variable keeps its type, and a worker holds a template's id only where
\* Handle does.
THEOREM SystemTypeCorrect == SystemSpec => []SystemTypeOK
<1>1. SystemInit => A!TypeOK /\ Picking
  BY BoundsAssumption DEF SystemInit, A!Init, A!TypeOK, Picking
<1>2. Consuming /\ A!TypeOK /\ [SystemNext]_systemVars => A!TypeOK'
  BY ApiStep, ApiTypedStep
<1>3. Consuming /\ Announced /\ A!TypeOK /\ Picking => SystemTypeOK
  BY DEF Consuming, Typed, Announced, Picking, SystemTypeOK
<1> QED
  BY <1>1, <1>2, <1>3, PickingStep, ConsumingAlways, AnnouncedAlways, PTL DEF SystemSpec
=============================================================================
