------------------------- MODULE NotificationApiProofs -------------------------
(***************************************************************************)
(* Proofs about NotificationApi, for any requests, tries, failures, any    *)
(* life of the template and any notifications of the worker.               *)
(***************************************************************************)
EXTENDS NotificationApi, TLAPS

\* A row with the id of a call is the row of that call, inserted by its Save.
RowsOfCalls ==
  \A r \in rows : r.id \in Call =>
    /\ r = RowOf(r.id)
    /\ pc[r.id] \in {"respond", "done"}
    /\ r.id[1] \notin Invalid

\* What the handler is about to write is true, what the client heard is what
\* the handler wrote, and what it read was PENDING, or an error.
AnswersKnown ==
  /\ \A c \in Call :
       /\ pc[c] \in {"template", "save"} => c[1] \notin Invalid
       /\ answer[c] = "202" => RowOf(c) \in rows
       /\ answer[c] = "400" => c[1] \in Invalid
       /\ answer[c] = "503" /\ faults = 0 => RowOf(c) \notin rows
       /\ answer[c] # "none" => pc[c] \in {"respond", "done"}
       /\ heard[c] \notin {"nothing", "timeout"} => heard[c] = answer[c]
  /\ AcceptedReadsPending

Serving == TypeOK /\ RowsOfCalls /\ AnswersKnown /\ ReferencesExist

\* Before anything is sent there are no rows and no answers.
LEMMA ServingInit == Init => Serving
  BY BoundsAssumption DEF Init, Serving, TypeOK, RowsOfCalls, AnswersKnown,
    ReferencesExist, AcceptedReadsPending

\* A row that Save inserts is of a known source and clashes with none.
LEMMA RowTyped ==
  ASSUME NEW c \in Call
  PROVE  RowOf(c) \in Rows /\ RowOf(c).id = c /\ RowOf(c).source = Source(c)
BY SourcesAssumption DEF RowOf, Rows, Source, Call

\* Steps that leave the table alone, and after which no call has an answer it
\* had not, keep Serving if they keep the types and the reference.
LEMMA QuietServes ==
  ASSUME Serving, TypeOK', UNCHANGED <<rows, answer, got>>, faults' = 0 => faults = 0,
         ReferencesExist',
         \A c \in Call :
           /\ pc'[c] \in {"template", "save"} => c[1] \notin Invalid
           /\ pc[c] \in {"respond", "done"} => pc'[c] \in {"respond", "done"}
           /\ heard'[c] \in {heard[c], "timeout", answer[c]}
           /\ heard'[c] # "none"
  PROVE  Serving'
<1>1. faults > 0 => faults' > 0
  BY BoundsAssumption DEF Serving, TypeOK
<1>2. AcceptedReadsPending'
  BY <1>1 DEF Serving, AnswersKnown, AcceptedReadsPending
<1>3. AnswersKnown'
  BY <1>2 DEF Serving, AnswersKnown, RowOf, Source
<1>4. RowsOfCalls'
  BY DEF Serving, RowsOfCalls, RowOf, Source
<1> QED
  BY <1>3, <1>4 DEF Serving

\* A call that is given an answer other than 202 without a change of the table
\* keeps Serving: no call whose answer is still open has a row.
LEMMA RefusalServes ==
  ASSUME Serving, NEW c \in Call, NEW code \in {"400", "503"}, Answer(c, code),
         pc[c] \in {"validate", "save"},
         code = "400" => c[1] \in Invalid,
         UNCHANGED <<database, picked, client, changes>>, faults' \in 0..MaxFaults,
         faults' = 0 => faults = 0
  PROVE  Serving'
<1> USE DEF Serving, TypeOK
<1>1. /\ answer' = [answer EXCEPT ![c] = code] /\ pc' = [pc EXCEPT ![c] = "respond"]
      /\ UNCHANGED <<rows, outbox, template, references, heard, got>>
  BY DEF Answer, database, client
<1>2. TypeOK'
  BY <1>1
<1>3. RowOf(c) \notin rows
  BY RowTyped DEF RowsOfCalls
<1>4. RowsOfCalls'
  BY <1>1 DEF RowsOfCalls, RowOf, Source
<1>5. heard[c] \in {"nothing", "timeout"}
  <2>1. answer[c] = "none"
    BY DEF AnswersKnown
  <2> QED
    BY <2>1 DEF AnswersKnown
<1>6. AnswersKnown'
  BY <1>1, <1>3, <1>5 DEF AnswersKnown, AcceptedReadsPending, RowOf, Source
<1> QED
  BY <1>1, <1>2, <1>4, <1>6 DEF ReferencesExist

\* Save of a storable row keeps Serving, whether or not its answer gets back.
LEMMA SaveServes ==
  ASSUME Serving, NEW c \in Call, NEW returned \in BOOLEAN, Save(c, returned)
  PROVE  Serving'
<1> USE DEF Serving, TypeOK
<1>1. /\ pc[c] = "save" /\ rows' = rows \cup {RowOf(c)}
      /\ pc' = [pc EXCEPT ![c] = "respond"]
      /\ answer' = [answer EXCEPT ![c] = IF returned THEN "202" ELSE "503"]
      /\ UNCHANGED <<outbox, template, picked, heard, got, changes>>
  BY DEF Save, Answer, client
<1>2. faults' \in 0..MaxFaults /\ (~returned => faults' # 0) /\ (faults' = 0 => faults = 0)
  BY BoundsAssumption DEF Save, Fault
<1>3. references' \in SUBSET Call /\ ReferencesExist'
  BY <1>1 DEF Save, Storable, ReferencesExist
<1>4. rows' \in SUBSET Rows
  BY <1>1, RowTyped
<1>5. TypeOK'
  BY <1>1, <1>2, <1>3, <1>4
<1>6. RowsOfCalls'
  BY <1>1, RowTyped DEF RowsOfCalls, AnswersKnown, RowOf, Source
<1>7. heard[c] \in {"nothing", "timeout"}
  <2>1. answer[c] = "none"
    BY <1>1 DEF AnswersKnown
  <2> QED
    BY <2>1 DEF AnswersKnown
<1>8. \A d \in Call \ {c} : RowOf(d) \in rows' <=> RowOf(d) \in rows
  BY <1>1, RowTyped
<1>9. AnswersKnown'
  BY <1>1, <1>2, <1>7, <1>8 DEF AnswersKnown, AcceptedReadsPending, RowOf, Source
<1> QED
  BY <1>3, <1>5, <1>6, <1>9

\* The worker's rows have ids of their own.
LEMMA WorkerServes == Serving /\ WorkerRecords => Serving'
<1> SUFFICES ASSUME Serving, NEW r \in Worker!Row, Worker!Record(r),
               UNCHANGED <<template, references, handler, client, faults, changes>>
             PROVE  Serving'
  BY DEF WorkerRecords, Worker!Next
<1> USE DEF Serving, TypeOK
<1>1. rows' = rows \cup {r} /\ outbox' \in SUBSET WorkerIds /\ r \in Rows
  BY DEF Worker!Record, Worker!Row, Rows
<1>2. r.id \notin Call
  BY IdsAssumption DEF Worker!Row
<1>3. TypeOK'
  BY <1>1 DEF handler, client
<1>4. RowsOfCalls'
  BY <1>1, <1>2 DEF RowsOfCalls, RowOf, Source, handler
<1>5. \A c \in Call : RowOf(c) \in rows' <=> RowOf(c) \in rows
  BY <1>1, <1>2, RowTyped
<1>6. AnswersKnown'
  BY <1>5 DEF AnswersKnown, AcceptedReadsPending, RowOf, Source, handler, client
<1> QED
  BY <1>3, <1>4, <1>6 DEF ReferencesExist

\* Every step keeps Serving: one case for each action.
LEMMA ServingStep == Serving /\ [Next]_vars => Serving'
<1> SUFFICES ASSUME Serving, [Next]_vars PROVE Serving'
  OBVIOUS
<1> USE BoundsAssumption DEF Serving, TypeOK
<1>1. ASSUME NEW c \in Call, Post(c) PROVE Serving'
  BY <1>1, QuietServes DEF Post, database, client, ReferencesExist, AnswersKnown
<1>2. ASSUME NEW c \in Call, GiveUp(c) PROVE Serving'
  BY <1>2, QuietServes DEF GiveUp, Fault, database, handler, ReferencesExist, AnswersKnown
<1>3. ASSUME NEW c \in Call, Refuse(c) PROVE Serving'
  BY <1>3, RefusalServes DEF Refuse
<1>4. ASSUME NEW c \in Call, Validate(c) PROVE Serving'
  BY <1>4, QuietServes DEF Validate, database, client, ReferencesExist, AnswersKnown
<1>5. ASSUME NEW c \in Call, LookUp(c) PROVE Serving'
  BY <1>5, QuietServes DEF LookUp, database, client, ReferencesExist, AnswersKnown
<1>6. ASSUME NEW c \in Call, LookUpFails(c) PROVE Serving'
  BY <1>6, QuietServes DEF LookUpFails, QueryFault, Fault, database, client,
    ReferencesExist,
    AnswersKnown
<1>7. ASSUME NEW c \in Call, SaveRefused(c) PROVE Serving'
  BY <1>7, RefusalServes DEF SaveRefused
<1>8. ASSUME NEW c \in Call, SaveFails(c) PROVE Serving'
  BY <1>8, RefusalServes DEF SaveFails, QueryFault, Fault
<1>9. ASSUME NEW c \in Call, Respond(c) PROVE Serving'
  BY <1>9, QuietServes DEF Respond, database, ReferencesExist, AnswersKnown
<1>10. CASE Crash
  BY <1>10, QuietServes DEF Crash, Fault, database, ReferencesExist, AnswersKnown
<1>11. ASSUME NEW c \in Call, Get(c) PROVE Serving'
  \* The row is there, and it is PENDING; a query that fails is a fault.
  <2>1. RowOf(c) \in rows
    BY <1>11 DEF Get, AnswersKnown
  <2>2. Found(c) = {"PENDING"}
    <3>1. \A r \in rows : r.id = c => r.status = "PENDING"
      BY DEF RowsOfCalls, RowOf
    <3>2. RowOf(c).id = c /\ RowOf(c).status = "PENDING"
      BY DEF RowOf
    <3>. QED
      BY <2>1, <3>1, <3>2 DEF Found
  <2>3. \/ got' = got \cup {<<c, "PENDING">>} /\ faults' = faults
        \/ got' = got \cup {<<c, "503">>} /\ faults < MaxFaults /\ faults' = faults + 1
    BY <1>11, <2>2 DEF Get, Fault
  <2>4. /\ faults' \in 0..MaxFaults /\ (faults' = 0 => faults = 0)
        /\ faults > 0 => faults' > 0
    BY <2>3
  <2>5. UNCHANGED <<database, handler, heard, changes>>
    BY <1>11 DEF Get
  <2>6. TypeOK'
    BY <2>3, <2>4, <2>5 DEF database, handler
  <2>7. AcceptedReadsPending'
    <3>1. got' \subseteq got \cup {<<c, "PENDING">>, <<c, "503">>}
      BY <2>3
    <3>2. <<c, "503">> \in got' => <<c, "503">> \in got \/ faults' > 0
      BY <2>3
    <3>. QED
      BY <2>4, <3>1, <3>2 DEF AnswersKnown, AcceptedReadsPending
  <2> QED
    BY <2>4, <2>5, <2>6, <2>7 DEF database, handler, RowsOfCalls, AnswersKnown,
      ReferencesExist, RowOf, Source
<1>12. CASE ChangeTemplate
  BY <1>12, QuietServes DEF ChangeTemplate, handler, client, ReferencesExist, AnswersKnown
<1>13. CASE UNCHANGED vars
  BY <1>13, QuietServes DEF vars, database, handler, client, ReferencesExist, AnswersKnown
<1> QED
  BY <1>1, <1>2, <1>3, <1>4, <1>5, <1>6, <1>7, <1>8, <1>9, <1>10, <1>11, <1>12, <1>13,
    SaveServes, WorkerServes DEF Next, Step

\* Serving holds in every reachable state.
LEMMA ServingAlways == Spec => []Serving
  BY ServingInit, ServingStep, PTL DEF Spec

\* Every variable keeps its type, and no handler responds without an answer.
THEOREM TypeCorrect == Spec => []TypeOK
  BY ServingAlways, PTL DEF Serving

\* A GET of what was accepted answers PENDING, or 503 for an error of its query,
\* and never 404.
THEOREM AcceptedReadsPendingAlways == Spec => []AcceptedReadsPending
<1>1. Serving => AcceptedReadsPending
  BY DEF Serving, AnswersKnown
<1> QED
  BY <1>1, ServingAlways, PTL

\* No row refers to a template that was deleted.
THEOREM ReferencesExistAlways == Spec => []ReferencesExist
  BY ServingAlways, PTL DEF Serving

\* The status code a client receives says what became of its row.
THEOREM AnswersAreTrueAlways == Spec => []AnswersAreTrue
<1>1. Serving => AnswersAreTrue
  BY RowTyped DEF Serving, TypeOK, RowsOfCalls, AnswersKnown, AnswersAreTrue
<1> QED
  BY <1>1, ServingAlways, PTL
=============================================================================
