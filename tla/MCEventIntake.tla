----------------------------- MODULE MCEventIntake -----------------------------
(* Small instances of EventIntake: envelopes of every kind.                  *)
EXTENDS EventIntake, TLC

\* What a string in the payload may be: a uuid, a short and a long text, a value
\* that is a placeholder itself.
Values == {"uuid", "x", "a long name", "{{ficha}}"}

Alerts ==
  UNION {[K -> Values] :
    K \in {{"affected_entity_type", "affected_entity_id"},
           {"affected_entity_type", "affected_entity_id", "alert_type_code"},
           {"affected_entity_id"}, {}}}

Schedules ==
  UNION {[K -> Values] :
    K \in {{"published_by"}, {"published_by", "ficha"}, {"ficha", "schedule_name"},
           {"published_by", "ficha", "schedule_name"}}}

Event(type, id, service, payload) ==
  [form |-> "object", absent |-> {}, mistyped |-> {}, event_type |-> type,
   event_id |-> id, source_service |-> service, payload |-> payload]

Good(payloads, type) == {Event(type, "uuid", "s", p) : p \in payloads}

Uuids == [affected_entity_type |-> "x", affected_entity_id |-> "uuid"]

Odd ==
  {Event(t, i, s, Uuids) :
     t \in {"monitoring.alert.triggered", "a.b.c", "Alert", ""},
     i \in {"", "uuid", "text"}, s \in {"s", "long"}}

Broken ==
  {[e EXCEPT !.form = f, !.absent = a, !.mistyped = t] :
     e \in {Event("monitoring.alert.triggered", "uuid", "s", Uuids)},
     f \in {"object", "broken"},
     a \in {{}, {"event_id"}, {"payload"}}, t \in {{}, {"timestamp"}}}

\* The delivery is the four bytes null.
Null == [Event("", "", "", [k \in {} |-> ""]) EXCEPT !.form = "null"]

AllDeliveries ==
  Good(Alerts, "monitoring.alert.triggered")
    \cup Good(Schedules, "scheduling.schedule.published") \cup Odd \cup Broken \cup {Null}

\* The two seeded templates, one with an unknown placeholder and a repeated one,
\* and one that is switched off.
AllTemplates ==
  {[is_active |-> TRUE,
    subject_template |-> <<"Tu horario", "{{schedule_name}}", "fue publicado">>,
    body_template |-> <<"El horario", "{{schedule_name}}", "de la ficha", "{{ficha}}">>],
   [is_active |-> TRUE,
    subject_template |-> <<"Alerta:", "{{alert_type}}">>,
    body_template |-> <<"Se genero una alerta", "{{alert_type}}", "en la ficha", "{{ficha}}">>],
   [is_active |-> TRUE,
    subject_template |-> <<"{{ficha}}", "{{other}}", "{{ficha}}">>,
    body_template |-> <<"{{ficha}}", "{{schedule_name}}", "{{alert_type}}">>],
   [is_active |-> FALSE,
    subject_template |-> <<"{{ficha}}">>, body_template |-> <<"{{ficha}}">>]}

\* A long name is longer than the placeholder it takes the place of.
Lengths ==
  [w \in Values \cup {"", "Alert triggered:", "Schedule published"}
         \cup UNION {Range(t.subject_template) \cup Range(t.body_template) :
                       t \in AllTemplates} |->
     CASE w = "" -> 0 [] w = "a long name" -> 3 [] OTHER -> 1]
=============================================================================
