\* Two deliveries, everything may stop answering at any time, and again.  The
\* process ends: no deadlock check.
SPECIFICATION FairSpec
CONSTANT MaxDeliveries = 2
INVARIANTS
  TypeOK
  CleanExitLosesNothing
PROPERTIES
  EndsAfterSigterm
  EndsWhenDeaf
CHECK_DEADLOCK FALSE
