---------------------------- MODULE MCEventConsumer ----------------------------
(* Small instances of EventConsumer: which event the messages carry.         *)
EXTENDS EventConsumer, TLC

CONSTANTS w1, w2, m1, m2, m3, e1, e2

OneEvent        == (m1 :> e1)
TwinEvents      == (m1 :> e1) @@ (m2 :> e1)
MixedEvents     == (m1 :> e1) @@ (m2 :> e2) @@ (m3 :> NoEvent)

\* Workers are interchangeable: no definition names one of them.
WorkerSymmetry == Permutations(Workers)
=============================================================================
