-------------------------- MODULE NotificationLedger --------------------------
(***************************************************************************)
(* What the schema notification promises to whoever reads it: a row of     *)
(* sent_notification appears at most once for an upstream event, together  *)
(* with its row of outbox when, and only when, the notification was SENT,  *)
(* and nothing that was recorded is ever changed or removed.  There are no *)
(* processes, no transactions and no crashes here: EventConsumer is shown  *)
(* to implement this.                                                      *)
(***************************************************************************)
CONSTANTS
  Ids,       \* identifiers of notifications
  Sources,   \* values of source_event_id
  NoSource   \* the NULL of source_event_id: the row is not deduplicated

VARIABLES
  rows,      \* notification.sent_notification
  outbox     \* notification.outbox: the notifications whose event is staged

vars == <<rows, outbox>>

Row == [id : Ids, source : Sources \cup {NoSource}, status : {"SENT", "FAILED"}]

Init ==
  /\ rows = {}
  /\ outbox = {}

Record(r) ==
  /\ \A s \in rows : s.id # r.id
  /\ r.source # NoSource => \A s \in rows : s.source # r.source
  /\ rows' = rows \cup {r}
  /\ outbox' = outbox \cup (IF r.status = "SENT" THEN {r.id} ELSE {})

Next == \E r \in Row : Record(r)

Spec == Init /\ [][Next]_vars
=============================================================================
