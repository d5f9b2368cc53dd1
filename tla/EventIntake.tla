------------------------------ MODULE EventIntake ------------------------------
(***************************************************************************)
(* What one delivery goes through between its bytes and its row:           *)
(* DomainEventEnvelope.UnmarshalJSON, recipientRefFor, FindByCode, Render  *)
(* (whose order is that of a Go map), Send and the casts and lengths of    *)
(* the INSERT.  EventConsumer takes the outcome of all this as classes of  *)
(* messages (Malformed, Unmapped, Unstorable); here they are functions of  *)
(* the envelope.                                                           *)
(***************************************************************************)
EXTENDS Naturals, Sequences, Functions

CONSTANTS
  Deliveries,     \* the envelopes delivered
  Templates,      \* rows of notification_template an event may find
  NoTemplate,     \* none, or the query failed
  WordLength,     \* the length of each word a text is made of
  MaxSubject      \* the length of the column subject

(***************************************************************************)
(* A text is a sequence of words: the fixed pieces of a template, its      *)
(* placeholders like "{{ficha}}", and the strings of an event, each of     *)
(* them one word however long it is.  An envelope is a record:             *)
(*   form     "object", "null" (the JSON value) or "broken"                *)
(*   absent   the required fields that are not there                       *)
(*   mistyped the fields whose JSON type is wrong                          *)
(*   event_type, event_id, source_service   "" when the field is null, and *)
(*            in what is decoded from a null                               *)
(*   payload  key -> word, for the keys that hold a JSON string            *)
(***************************************************************************)
Words == DOMAIN WordLength

ASSUME WordsAssumption ==
  {"", "Alert triggered:", "Schedule published"} \subseteq Words
ASSUME DeliveriesAssumption ==
  \A e \in Deliveries : /\ Range(e.payload) \subseteq Words
                        /\ e.form \in {"object", "null", "broken"}
                        /\ e.form = "null" => e.event_type = ""
ASSUME TemplatesAssumption ==
  \A t \in Templates : /\ t.is_active \in BOOLEAN
                       /\ t.subject_template \in Seq(Words)
                       /\ t.body_template \in Seq(Words)
VARIABLES
  envelope,    \* the delivery in hand
  template,    \* what FindByCode finds for its event_type
  pc,
  left,        \* keys the loop of Render has still to visit
  subject, body,
  templated,   \* n.TemplateID is set
  mail,        \* what the mail server got: sequence of subjects
  result       \* "none", "nacked", "logged" or "recorded"

vars == <<envelope, template, pc, left, subject, body, templated, mail, result>>

Init ==
  /\ envelope \in Deliveries
  /\ template \in Templates \cup {NoTemplate}
  /\ pc = "decode"
  /\ left = {}
  /\ subject = <<>>
  /\ body = <<>>
  /\ templated = FALSE
  /\ mail = <<>>
  /\ result = "none"
-----------------------------------------------------------------------------
(* UnmarshalJSON. *)

EventTypes == {"monitoring.alert.triggered", "scheduling.schedule.published"}

\* The pattern <service>.<entity>.<action>; "a.b.c" stands for any other event.
Patterned(type) == type \in EventTypes \cup {"a.b.c"}

\* Variant for comparison: the pattern is not looked at.
DecodableUnpatterned(e) ==
  /\ e.form # "broken"
  /\ e.form = "object" => e.absent = {} /\ e.mistyped = {}

\* Of a JSON null no field is required and none has the wrong type: only the
\* pattern stops it, which its empty event_type does not have.
Decodable(e) ==
  /\ e.form # "broken"
  /\ e.form = "object" => e.absent = {} /\ e.mistyped = {}
  /\ Patterned(e.event_type)

\* Variant for comparison: handle returns without settling the delivery.
FinishUnsettled(outcome) == pc' = "done" /\ UNCHANGED result

Finish(outcome) == pc' = "done" /\ result' = outcome

\* Nack(false, false).
Reject ==
  /\ pc = "decode" /\ ~Decodable(envelope)
  /\ Finish("nacked")
  /\ UNCHANGED <<envelope, template, left, subject, body, templated, mail>>

Decode ==
  /\ pc = "decode" /\ Decodable(envelope)
  /\ pc' = "map"
  /\ UNCHANGED <<envelope, template, left, subject, body, templated, mail, result>>
-----------------------------------------------------------------------------
(* recipientRefFor, templateVarsFor. *)

\* payload[k].(string): "" when it is not there or no string.
Str(e, k) == IF k \in DOMAIN e.payload THEN e.payload[k] ELSE ""

Recipient(e) ==
  CASE e.event_type = "monitoring.alert.triggered" ->
         IF Str(e, "affected_entity_type") = "" THEN ""
         ELSE Str(e, "affected_entity_id")
    [] e.event_type = "scheduling.schedule.published" -> Str(e, "published_by")
    [] OTHER -> ""

Mapped(e) == Recipient(e) # ""

FixedSubject(e) ==
  IF e.event_type = "monitoring.alert.triggered"
  THEN <<"Alert triggered:", Str(e, "alert_type_code")>>
  ELSE <<"Schedule published">>

\* Variant for comparison: a key only for the strings the payload has.
VarsPresent(e) ==
  IF e.event_type = "monitoring.alert.triggered"
  THEN [k \in {h \in {"alert_type", "ficha"} :
                  h = "ficha" \/ "alert_type_code" \in DOMAIN e.payload} |->
          Str(e, IF k = "ficha" THEN "affected_entity_id" ELSE "alert_type_code")]
  ELSE [k \in {"schedule_name", "ficha"} \cap DOMAIN e.payload |-> Str(e, k)]

Vars(e) ==
  IF e.event_type = "monitoring.alert.triggered"
  THEN [k \in {"alert_type", "ficha"} |->
          Str(e, IF k = "ficha" THEN "affected_entity_id" ELSE "alert_type_code")]
  ELSE [k \in {"schedule_name", "ficha"} |-> Str(e, k)]

\* The use case returns an error; it is logged, the message acked.
Refuse ==
  /\ pc = "map" /\ ~Mapped(envelope)
  /\ Finish("logged")
  /\ UNCHANGED <<envelope, template, left, subject, body, templated, mail>>

Map ==
  /\ pc = "map" /\ Mapped(envelope)
  /\ subject' = FixedSubject(envelope)
  /\ pc' = "template"
  /\ UNCHANGED <<envelope, template, left, body, templated, mail, result>>
-----------------------------------------------------------------------------
(* FindByCode and Render. *)

ActiveTemplate == template # NoTemplate /\ template.is_active

\* Not there, not active, or the query failed: the fixed subject stays.
PassTemplate ==
  /\ pc = "template"
  /\ ~ActiveTemplate
  /\ pc' = "send"
  /\ UNCHANGED <<envelope, template, left, subject, body, templated, mail, result>>

TakeTemplate ==
  /\ pc = "template"
  /\ ActiveTemplate
  /\ subject' = template.subject_template
  /\ body' = template.body_template
  /\ templated' = TRUE
  /\ left' = DOMAIN Vars(envelope)
  /\ pc' = "subject"
  /\ UNCHANGED <<envelope, template, mail, result>>

\* "{{" + k + "}}".
Hole(k) ==
  CASE k = "alert_type"    -> "{{alert_type}}"
    [] k = "ficha"         -> "{{ficha}}"
    [] k = "schedule_name" -> "{{schedule_name}}"

\* Variant for comparison: strings.Replace(result, ..., 1).
ReplacedFirst(text, k, value) ==
  [i \in DOMAIN text |->
     IF text[i] = Hole(k) /\ \A j \in 1..(i - 1) : text[j] # Hole(k)
     THEN value ELSE text[i]]

Replaced(text, k, value) ==
  [i \in DOMAIN text |-> IF text[i] = Hole(k) THEN value ELSE text[i]]

\* One round of the loop of Render: Go visits the keys of a map in any order,
\* and in another order the next time.
RenderSubject(k) ==
  /\ pc = "subject" /\ k \in left
  /\ subject' = Replaced(subject, k, Vars(envelope)[k])
  /\ left' = left \ {k}
  /\ UNCHANGED <<envelope, template, pc, body, templated, mail, result>>

SubjectDone ==
  /\ pc = "subject" /\ left = {}
  /\ left' = DOMAIN Vars(envelope)
  /\ pc' = "body"
  /\ UNCHANGED <<envelope, template, subject, body, templated, mail, result>>

RenderBody(k) ==
  /\ pc = "body" /\ k \in left
  /\ body' = Replaced(body, k, Vars(envelope)[k])
  /\ left' = left \ {k}
  /\ UNCHANGED <<envelope, template, pc, subject, templated, mail, result>>

BodyDone ==
  /\ pc = "body" /\ left = {}
  /\ pc' = "send"
  /\ UNCHANGED <<envelope, template, left, subject, body, templated, mail, result>>
-----------------------------------------------------------------------------
(* Send and SaveWithOutbox. *)

\* CompositeNotifier and SMTPNotifier: the channel is EMAIL whatever that of the
\* template is, and the mail consists of the subject; the body is not in it.
Send ==
  /\ pc = "send"
  /\ \/ mail' = Append(mail, subject)
     \/ UNCHANGED mail
  /\ pc' = "save"
  /\ UNCHANGED <<envelope, template, left, subject, body, templated, result>>

\* $2::uuid, NULLIF($11,'')::uuid and VARCHAR(50).  Of ids, "uuid" stands for
\* those that are; "long" is a source_service beyond its column.
Casts(e) ==
  /\ Recipient(e) = "uuid"
  /\ e.event_id \in {"", "uuid"}
  /\ e.source_service # "long"

TooLong(text) ==
  SumFunction([i \in DOMAIN text |-> WordLength[text[i]]]) > MaxSubject

\* Variant for comparison: subject is a TEXT.
StorableAnyLength == Casts(envelope)

Storable == Casts(envelope) /\ ~TooLong(subject)

Save ==
  /\ pc = "save" /\ Storable
  /\ Finish("recorded")
  /\ UNCHANGED <<envelope, template, left, subject, body, templated, mail>>

SaveRefused ==
  /\ pc = "save" /\ ~Storable
  /\ Finish("logged")
  /\ UNCHANGED <<envelope, template, left, subject, body, templated, mail>>
-----------------------------------------------------------------------------
Next ==
  \/ Reject \/ Decode \/ Refuse \/ Map \/ PassTemplate \/ TakeTemplate
  \/ \E k \in left : RenderSubject(k) \/ RenderBody(k)
  \/ SubjectDone \/ BodyDone
  \/ Send \/ Save \/ SaveRefused

Spec == Init /\ [][Next]_vars
-----------------------------------------------------------------------------
\* What Render is for: every placeholder of the template is replaced, once.
Filled(text, keys) ==
  [i \in DOMAIN text |->
     IF \E k \in keys : text[i] = Hole(k)
     THEN Vars(envelope)[CHOOSE k \in keys : text[i] = Hole(k)]
     ELSE text[i]]

Substituted(text) == Filled(text, DOMAIN Vars(envelope))

\* No value of the event is itself a placeholder that Render would replace.
Plain == \A k, h \in DOMAIN Vars(envelope) : Vars(envelope)[k] # Hole(h)

Rendered == templated /\ pc \in {"send", "save", "done"}
-----------------------------------------------------------------------------
TypeOK ==
  /\ envelope \in Deliveries
  /\ template \in Templates \cup {NoTemplate}
  /\ pc \in {"decode", "map", "template", "subject", "body", "send", "save", "done"}
  /\ left \subseteq {"alert_type", "ficha", "schedule_name"}
  /\ subject \in Seq(Words)
  /\ body \in Seq(Words)
  /\ templated \in BOOLEAN
  /\ Len(mail) =< 1
  /\ result \in {"none", "nacked", "logged", "recorded"}
  /\ result # "none" <=> pc = "done"

\* The random order of the map is not to be seen in what is stored and mailed,
\* as long as the values of the event are no placeholders themselves: every
\* occurrence is replaced, once, in subject and body alike.
RenderedOnce ==
  Rendered /\ Plain =>
    /\ subject = Substituted(template.subject_template)
    /\ body = Substituted(template.body_template)

\* The placeholders the seeded templates use for an event.
SeededKeys(type) ==
  IF type = "monitoring.alert.triggered" THEN {"alert_type", "ficha"}
  ELSE {"schedule_name", "ficha"}

\* Nobody is mailed a bare placeholder because the event lacks an optional
\* field, or has something else than a string in it.
NoPlaceholderIsMailed ==
  Rendered /\ Plain =>
    \A k \in SeededKeys(envelope.event_type) : Hole(k) \notin Range(subject) \cup Range(body)

\* The classes EventConsumer takes as constants.
Malformed ==
  \/ envelope.form # "object"
  \/ envelope.absent \cup envelope.mistyped # {}
  \/ ~Patterned(envelope.event_type)
Unmapped == ~Malformed /\ ~Mapped(envelope)
Unstorable ==
  /\ ~Malformed /\ ~Unmapped
  /\ \/ ~Casts(envelope)
     \/ TooLong(IF ActiveTemplate THEN Substituted(template.subject_template)
                ELSE FixedSubject(envelope))

\* An event that is malformed, or nobody is to be told of, is mailed to nobody,
\* whatever its payload and the template; malformed ones alone are nacked, and
\* an unmapped one ends in the log.
UnfitIsNotMailed ==
  /\ Malformed \/ Unmapped => mail = <<>>
  /\ pc = "done" => /\ result = "nacked" <=> Malformed
                    /\ Unmapped => result = "logged"

\* What becomes of the others is decided by the envelope and the template, not
\* by the order in which Render went through the map: exactly those Postgres
\* refuses are left without a row, whether they were mailed or not.
FateFollowsClass ==
  pc = "done" /\ Plain /\ ~Malformed /\ ~Unmapped =>
    result = IF Unstorable THEN "logged" ELSE "recorded"
=============================================================================
