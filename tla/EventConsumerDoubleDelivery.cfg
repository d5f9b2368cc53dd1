\* One event, delivered again after one interruption.
SPECIFICATION Spec
CONSTANTS
  w1 = w1
  w2 = w2
  m1 = m1
  m2 = m2
  m3 = m3
  e1 = e1
  e2 = e2
  NoEvent = NoEvent
  NoAttempt = NoAttempt
  Workers = {w1}
  Msgs = {m1}
  Events = {e1, e2}
  EventOf <- OneEvent
  Malformed = {}
  Unmapped = {}
  Unstorable = {}
  MaxInterruptions = 1
INVARIANTS
  NoDoubleDelivery
CHECK_DEADLOCK FALSE
