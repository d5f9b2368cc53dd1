\* Two relays, three rows, two of one instant, batches of two, and one failure: a
\* crash, a lost channel or an error of Postgres.  No symmetry: liveness.
\* When all is published nothing is left to do: no deadlock check.
SPECIFICATION FairSpec
CONSTANTS
  r1 = r1
  r2 = r2
  e1 = e1
  e2 = e2
  e3 = e3
  Relays = {r1, r2}
  Events = {e1, e2, e3}
  CreatedAt <- TwoOfOneInstant
  Limit = 2
  MaxFailures = 1
INVARIANTS
  TypeOK
  BatchesDisjoint
  RepublishedOnlyAfterFailure
  LostOnlyByInterruption
PROPERTIES
  PromiseSpec
  PublishedEventually
CHECK_DEADLOCK FALSE
