---------------------------- MODULE NotificationApi ----------------------------
(***************************************************************************)
(* notification-api: POST /notifications (Handler.send, SendNotification,  *)
(* PgNotificationRepository.Save) and GET /notifications/{id}.  Every call *)
(* is a goroutine of its own.  Clients repeat a POST that was answered 503 *)
(* or not at all; templates are changed in the database meanwhile; and     *)
(* notification-worker, as NotificationLedger describes it, records its    *)
(* notifications in the same table.                                        *)
(***************************************************************************)
EXTENDS Naturals, FiniteSets

CONSTANTS
  Requests,       \* bodies of POST /notifications
  Sources,        \* values of source_event_id
  NoSource,       \* no source_event_id
  SourceOf,       \* the source_event_id of each request
  Invalid,        \* requests that are not decoded or not validated
  Unstorable,     \* requests whose row Postgres refuses (a length)
  Templated,      \* requests with the template_code of the template
  WorkerIds,      \* ids of the worker's notifications
  MaxTries,       \* bound on the calls for one request
  MaxFaults,      \* bound on errors, lost answers and crashes
  MaxChanges      \* bound on changes of the template

Call == Requests \X (1..MaxTries)

ASSUME SourcesAssumption ==
  NoSource \notin Sources /\ SourceOf \in [Requests -> Sources \cup {NoSource}]
ASSUME IdsAssumption == WorkerIds \cap Call = {}
ASSUME BoundsAssumption == MaxTries \in Nat /\ MaxFaults \in Nat /\ MaxChanges \in Nat

VARIABLES
  \* Postgres:
  rows,           \* notification.sent_notification
  outbox,         \* notification.outbox: the notifications whose event is staged
  template,       \* the row of notification_template: "active", "inactive", "deleted"
  references,     \* ids of the rows whose template_id is that template's
  \* a call:
  pc,             \* what the handler does next
  picked,         \* n.TemplateID is set
  answer,         \* the status code it is about to write
  \* its client:
  heard,          \* the status code received, "timeout" once the client gave up
  got,            \* answers to GET: an id with its send_status, "404" or "503"
  faults, changes

database == <<rows, outbox, template, references>>
handler  == <<pc, picked, answer>>
client   == <<heard, got>>
vars     == <<database, handler, client, faults, changes>>

Worker == INSTANCE NotificationLedger WITH Ids <- WorkerIds

Source(c) == SourceOf[c[1]]
RowOf(c)  == [id |-> c, source |-> Source(c), status |-> "PENDING"]
Rows == Worker!Row \cup
        [id : Call, source : Sources \cup {NoSource}, status : {"PENDING"}]

TypeOK ==
  /\ rows \in SUBSET Rows
  /\ outbox \in SUBSET WorkerIds
  /\ template \in {"active", "inactive", "deleted"}
  /\ references \in SUBSET Call
  /\ pc \in [Call -> {"unsent", "validate", "template", "save", "respond", "done"}]
  /\ picked \in [Call -> BOOLEAN]
  /\ answer \in [Call -> {"none", "202", "400", "503"}]
  /\ \A c \in Call : pc[c] = "respond" => answer[c] # "none"
  /\ heard \in [Call -> {"nothing", "202", "400", "503", "timeout"}]
  /\ got \in SUBSET (Call \X {"PENDING", "SENT", "FAILED", "404", "503"})
  /\ faults \in 0..MaxFaults
  /\ changes \in 0..MaxChanges

Init ==
  /\ rows = {}
  /\ outbox = {}
  /\ template \in {"active", "inactive"}
  /\ references = {}
  /\ pc = [c \in Call |-> "unsent"]
  /\ picked = [c \in Call |-> FALSE]
  /\ answer = [c \in Call |-> "none"]
  /\ heard = [c \in Call |-> "nothing"]
  /\ got = {}
  /\ faults = 0
  /\ changes = 0
-----------------------------------------------------------------------------
(* The client. *)

Fault == faults < MaxFaults /\ faults' = faults + 1

\* An error of a query: there may be one for free when r.Context() is done.
QueryFault(c) == IF heard[c] = "timeout" THEN UNCHANGED faults ELSE Fault

\* A first call, or another one after 503 or without an answer.
Post(c) ==
  /\ pc[c] = "unsent"
  /\ c[2] > 1 => heard[<<c[1], c[2] - 1>>] \in {"503", "timeout"}
  /\ pc' = [pc EXCEPT ![c] = "validate"]
  /\ UNCHANGED <<database, picked, answer, client, faults, changes>>

\* The client closes the connection; the handler goes on, r.Context() is done.
GiveUp(c) ==
  /\ pc[c] # "unsent" /\ heard[c] = "nothing"
  /\ heard' = [heard EXCEPT ![c] = "timeout"]
  /\ Fault
  /\ UNCHANGED <<database, handler, got, changes>>
-----------------------------------------------------------------------------
(* Handler.send and SendNotification.Handle. *)

Answer(c, code) ==
  /\ answer' = [answer EXCEPT ![c] = code]
  /\ pc' = [pc EXCEPT ![c] = "respond"]

Refuse(c) ==
  /\ pc[c] = "validate"
  /\ c[1] \in Invalid
  /\ Answer(c, "400")
  /\ UNCHANGED <<database, picked, client, faults, changes>>

Validate(c) ==
  /\ pc[c] = "validate"
  /\ c[1] \notin Invalid
  /\ pc' = [pc EXCEPT ![c] = "template"]
  /\ UNCHANGED <<database, picked, answer, client, faults, changes>>

\* Variant for comparison: a template that is not found is an error.
LookUpOrFail(c) ==
  /\ pc[c] = "template"
  /\ IF c[1] \in Templated /\ template = "deleted"
     THEN Answer(c, "503") /\ UNCHANGED picked
     ELSE /\ picked' = [picked EXCEPT ![c] = c[1] \in Templated /\ template = "active"]
          /\ pc' = [pc EXCEPT ![c] = "save"]
          /\ UNCHANGED answer
  /\ UNCHANGED <<database, client, faults, changes>>

\* FindByCode.  A template that is not there or not active is passed over.
LookUp(c) ==
  /\ pc[c] = "template"
  /\ picked' = [picked EXCEPT ![c] = c[1] \in Templated /\ template = "active"]
  /\ pc' = [pc EXCEPT ![c] = "save"]
  /\ UNCHANGED <<database, answer, client, faults, changes>>

\* So is an error of the query.
LookUpFails(c) ==
  /\ pc[c] = "template"
  /\ c[1] \in Templated
  /\ QueryFault(c)
  /\ pc' = [pc EXCEPT ![c] = "save"]
  /\ UNCHANGED <<database, picked, answer, client, changes>>
-----------------------------------------------------------------------------
(* PgNotificationRepository.Save: one INSERT, a transaction of its own. *)

\* Variant for comparison: the unique index is missing.
StorableWithoutIndex(c) ==
  c[1] \notin Unstorable /\ (picked[c] => template # "deleted")

\* uq_sent_notification_source_event_id and fk_sent_notification_template.
Storable(c) ==
  /\ c[1] \notin Unstorable
  /\ Source(c) # NoSource => \A r \in rows : r.source # Source(c)
  /\ picked[c] => template # "deleted"

\* Variant for comparison: ON CONFLICT DO UPDATE, the row gets the new id.
SaveReplacing(c, returned) ==
  /\ pc[c] = "save"
  /\ StorableWithoutIndex(c)
  /\ rows' = {RowOf(c)} \cup
             {r \in rows : Source(c) = NoSource \/ r.source # Source(c)}
  /\ references' = IF picked[c] THEN references \cup {c} ELSE references
  /\ IF returned THEN Answer(c, "202") /\ UNCHANGED faults
                 ELSE Answer(c, "503") /\ Fault
  /\ UNCHANGED <<outbox, template, picked, client, changes>>

\* The row is stored; the answer may be lost on the way back.
Save(c, returned) ==
  /\ pc[c] = "save"
  /\ Storable(c)
  /\ rows' = rows \cup {RowOf(c)}
  /\ references' = IF picked[c] THEN references \cup {c} ELSE references
  /\ IF returned THEN Answer(c, "202") /\ UNCHANGED faults
                 ELSE Answer(c, "503") /\ Fault
  /\ UNCHANGED <<outbox, template, picked, client, changes>>

\* Variants for comparison: the handler returns without writing an answer; the
\* error of Save is not looked at.
SaveRefusedSilently(c) ==
  /\ pc[c] = "save"
  /\ ~Storable(c)
  /\ pc' = [pc EXCEPT ![c] = "respond"]
  /\ UNCHANGED <<database, picked, answer, client, faults, changes>>
SaveErrorIgnored(c) ==
  /\ pc[c] = "save"
  /\ ~Storable(c)
  /\ Answer(c, "202")
  /\ UNCHANGED <<database, picked, client, faults, changes>>

SaveRefused(c) ==
  /\ pc[c] = "save"
  /\ ~Storable(c)
  /\ Answer(c, "503")
  /\ UNCHANGED <<database, picked, client, faults, changes>>

\* Any other error.
SaveFails(c) ==
  /\ pc[c] = "save"
  /\ Answer(c, "503")
  /\ QueryFault(c)
  /\ UNCHANGED <<database, picked, client, changes>>

Respond(c) ==
  /\ pc[c] = "respond"
  /\ pc' = [pc EXCEPT ![c] = "done"]
  /\ heard' = [heard EXCEPT ![c] = IF @ = "timeout" THEN @ ELSE answer[c]]
  /\ UNCHANGED <<database, picked, answer, got, faults, changes>>
-----------------------------------------------------------------------------
\* The process dies with all the calls it is serving.
Crash ==
  /\ \E c \in Call : pc[c] \notin {"unsent", "done"}
  /\ Fault
  /\ pc' = [c \in Call |-> IF pc[c] = "unsent" THEN "unsent" ELSE "done"]
  /\ heard' = [c \in Call |->
       IF pc[c] \notin {"unsent", "done"} THEN "timeout" ELSE heard[c]]
  /\ UNCHANGED <<database, picked, answer, got, changes>>

\* What FindByID finds under an id.
Found(c) == {r.status : r \in {s \in rows : s.id = c}}

\* GET /notifications/{id}, with an id that a POST has returned, which is a uuid:
\* one SELECT, answered 200 or 404, or 503 when the query fails.
Get(c) ==
  /\ heard[c] = "202"
  /\ \/ \E status \in Found(c) : got' = got \cup {<<c, status>>} /\ UNCHANGED faults
     \/ Found(c) = {} /\ got' = got \cup {<<c, "404">>} /\ UNCHANGED faults
     \/ got' = got \cup {<<c, "503">>} /\ Fault
  /\ UNCHANGED <<database, handler, heard, changes>>
-----------------------------------------------------------------------------
(* Others on the same database. *)

\* Templates are managed in SQL; ON DELETE SET NULL.  None is created while the
\* service runs.
ChangeTemplate ==
  /\ changes < MaxChanges
  /\ template # "deleted"
  /\ template' \in {"active", "inactive", "deleted"} \ {template}
  /\ references' = IF template' = "deleted" THEN {} ELSE references
  /\ changes' = changes + 1
  /\ UNCHANGED <<rows, outbox, handler, client, faults>>

WorkerRecords ==
  /\ Worker!Next
  /\ UNCHANGED <<template, references, handler, client, faults, changes>>
-----------------------------------------------------------------------------
\* What the handler does of itself.
Step(c) ==
  \/ Refuse(c) \/ Validate(c) \/ LookUp(c)
  \/ Save(c, TRUE) \/ SaveRefused(c) \/ Respond(c)

Next ==
  \/ \E c \in Call : Post(c) \/ GiveUp(c) \/ Step(c)
  \/ \E c \in Call : LookUpFails(c) \/ Save(c, FALSE) \/ SaveFails(c) \/ Get(c)
  \/ Crash \/ ChangeTemplate \/ WorkerRecords

Spec == Init /\ [][Next]_vars
-----------------------------------------------------------------------------
(* Safety. *)

\* The API's plain INSERT, its retries and the worker's transactions together
\* leave at most one row for each source_event_id.  Here the worker's part is what
\* NotificationLedger says; NotificationSystem has its transactions.
OneRowPerSource ==
  \A r, s \in rows : r.source # NoSource /\ r.source = s.source => r = s

\* An id returned with 202 is never unknown to a GET, and reads PENDING: neither
\* retries, nor the worker, nor a change of the template touch the row, and
\* nothing delivers it either.  Only an error of the query is answered otherwise.
AcceptedReadsPending ==
  \A g \in got : g[2] = "PENDING" \/ (g[2] = "503" /\ faults > 0)

\* No row refers to a template that is gone, also when it was deleted between
\* FindByCode and the INSERT.
ReferencesExist == references # {} => template # "deleted"

\* A row exists for the calls answered 202, for those answered 503 after a lost
\* answer of Postgres and for those without an answer, never after a 400.
AnswersAreTrue ==
  \A c \in Call :
    /\ heard[c] = "202" => RowOf(c) \in rows
    /\ heard[c] = "400" => RowOf(c) \notin rows
    /\ heard[c] = "503" /\ faults = 0 => RowOf(c) \notin rows

\* A client that repeats its POST is not turned down for ever, whatever becomes
\* of the template: each try without success has a cause of its own, an error or
\* the one deletion of the template, which the next try does not meet again.
\* (Not so with a source_event_id: see StoredIsNotUnavailable.)
RefusalsHaveCause ==
  \A q \in Requests \ (Invalid \cup Unstorable) :
    SourceOf[q] = NoSource =>
      Cardinality({n \in 1..MaxTries : heard[<<q, n>>] \in {"503", "timeout"}})
        =< faults + (IF template = "deleted" THEN 1 ELSE 0)
-----------------------------------------------------------------------------
(* What the API says, and the code breaks. *)

\* 503 comes with "no se pudo persistir la notificacion", and source_event_id
\* is "útil para idempotencia": a repeated request is not refused as
\* unavailable because it has already been stored.
StoredIsNotUnavailable ==
  \A c, d \in Call :
    c[1] = d[1] /\ c[2] < d[2] /\ RowOf(c) \in rows => heard[d] # "503"
=============================================================================
