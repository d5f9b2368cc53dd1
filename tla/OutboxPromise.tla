----------------------------- MODULE OutboxPromise -----------------------------
(***************************************************************************)
(* The Outbox pattern from the side of the database: an event is staged,   *)
(* handed to the broker at least once, possibly many times, and only then  *)
(* marked published; once it is marked it is never handed over again.      *)
(* OutboxRelay is shown to implement this, whatever relays run.            *)
(***************************************************************************)
CONSTANT Events

VARIABLES
  staged,      \* rows of notification.outbox
  published,   \* rows with published_at set
  handed       \* events written to a channel at least once

vars == <<staged, published, handed>>

Init ==
  /\ staged = {}
  /\ published = {}
  /\ handed = {}

Stage(e) ==
  /\ e \notin staged
  /\ staged' = staged \cup {e}
  /\ UNCHANGED <<published, handed>>

Hand(e) ==
  /\ e \in staged \ published
  /\ handed' = handed \cup {e}
  /\ UNCHANGED <<staged, published>>

\* A batch is marked at once.
MarkPublished(batch) ==
  /\ batch \subseteq handed \ published
  /\ published' = published \cup batch
  /\ UNCHANGED <<staged, handed>>

Next ==
  \/ \E e \in Events : Stage(e) \/ Hand(e)
  \/ \E batch \in SUBSET Events : MarkPublished(batch)

Spec == Init /\ [][Next]_vars
=============================================================================
