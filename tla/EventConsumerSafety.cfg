\* Two workers; a good event, a malformed message, and one without event_id that
\* Postgres refuses; one crash, lost connection or SIGTERM.  A lost connection
\* leaves both workers with the same event.
\* An idle system with nothing left to publish stops: no deadlock check.
SPECIFICATION Spec
CONSTANTS
  w1 = w1
  w2 = w2
  m1 = m1
  m2 = m2
  m3 = m3
  e1 = e1
  e2 = e2
  NoEvent = NoEvent
  NoAttempt = NoAttempt
  Workers = {w1, w2}
  Msgs = {m1, m2, m3}
  Events = {e1, e2}
  EventOf <- MixedEvents
  Malformed = {m2}
  Unmapped = {}
  Unstorable = {m3}
  MaxInterruptions = 1
SYMMETRY WorkerSymmetry
INVARIANTS
  TypeOK
  OneRowPerEvent
  OutboxMatchesRows
  RowTellsOutcome
  AckedIsRecordedOrLogged
  RedeliveredOnlyAfterInterruption
  HoldersNeverWait
PROPERTIES
  LedgerSpec
CHECK_DEADLOCK FALSE
