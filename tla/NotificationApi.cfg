\* A request with a source_event_id, one without, both with the template, one
\* that is not valid, and one notification of the worker; one try more than
\* faults and changes together.  All calls made, nothing is left to do: no
\* deadlock check.
SPECIFICATION Spec
CONSTANTS
  q1 = q1
  q2 = q2
  q3 = q3
  e1 = e1
  n1 = n1
  NoSource = NoSource
  Requests = {q1, q2, q3}
  Sources = {e1}
  SourceOf <- Mixed
  Invalid = {q3}
  Unstorable = {}
  Templated = {q1, q2}
  WorkerIds = {n1}
  MaxTries = 3
  MaxFaults = 1
  MaxChanges = 1
INVARIANTS
  TypeOK
  AcceptedReadsPending
  AnswersAreTrue
  RefusalsHaveCause
CHECK_DEADLOCK FALSE
