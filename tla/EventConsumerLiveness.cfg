\* Two workers and one interruption, the second message refused by
\* recipientRefFor.  No symmetry: liveness.  An idle system stops: no deadlock
\* check.
SPECIFICATION FairSpec
CONSTANTS
  w1 = w1
  w2 = w2
  m1 = m1
  m2 = m2
  m3 = m3
  e1 = e1
  e2 = e2
  NoEvent = NoEvent
  NoAttempt = NoAttempt
  Workers = {w1, w2}
  Msgs = {m1, m2}
  Events = {e1, e2}
  EventOf <- TwinEvents
  Malformed = {}
  Unmapped = {m2}
  Unstorable = {}
  MaxInterruptions = 1
PROPERTIES
  SettledEventually
  ShutdownCompletes
CHECK_DEADLOCK FALSE
