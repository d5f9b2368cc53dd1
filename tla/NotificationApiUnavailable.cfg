\* One request, repeated after one lost answer.  No deadlock check: all calls
\* made, nothing is left to do.
SPECIFICATION Spec
CONSTANTS
  q1 = q1
  q2 = q2
  q3 = q3
  e1 = e1
  n1 = n1
  NoSource = NoSource
  Requests = {q1}
  Sources = {e1}
  SourceOf <- SourcedAlone
  Invalid = {}
  Unstorable = {}
  Templated = {}
  WorkerIds = {}
  MaxTries = 2
  MaxFaults = 1
  MaxChanges = 0
INVARIANTS
  StoredIsNotUnavailable
CHECK_DEADLOCK FALSE
