----------------------------- MODULE MCOutboxRelay -----------------------------
(* Small instances of OutboxRelay.                                           *)
EXTENDS OutboxRelay, TLC

CONSTANTS r1, r2, e1, e2, e3

\* e1 is the oldest; e2 and e3 were created in one instant.
TwoOfOneInstant == (e1 :> 1) @@ (e2 :> 2) @@ (e3 :> 2)
Single == (e1 :> 1)
=============================================================================
