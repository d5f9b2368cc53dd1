\* One relay, one row, one lost connection.
\* When all is published nothing is left to do: no deadlock check.
SPECIFICATION FairSpec
CONSTANTS
  r1 = r1
  r2 = r2
  e1 = e1
  e2 = e2
  e3 = e3
  Relays = {r1}
  Events = {e1}
  CreatedAt <- Single
  Limit = 1
  MaxFailures = 1
PROPERTIES
  PublishedWhileUp
CHECK_DEADLOCK FALSE
