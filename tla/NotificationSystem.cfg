\* A worker and a call of the API for one event, both about to refer to the
\* template; one interruption of the worker, one fault of the API, one change of
\* the template.  All handled, nothing is left to do: no deadlock check.
SPECIFICATION SystemFairSpec
CONSTANTS
  w1 = w1
  m1 = m1
  q1 = q1
  e1 = e1
  NoEvent = NoEvent
  NoAttempt = NoAttempt
  Workers = {w1}
  Msgs = {m1}
  Events = {e1}
  EventOf <- EventsOfMsgs
  Malformed = {}
  Unmapped = {}
  Unstorable = {}
  MaxInterruptions = 1
  Requests = {q1}
  SourceOf <- SourcesOfRequests
  Invalid = {}
  UnstorableRequests = {}
  Templated = {q1}
  MaxTries = 1
  MaxFaults = 1
  MaxChanges = 1
INVARIANTS
  SystemTypeOK
  OneRowPerSource
  UnannouncedOnlyIfTaken
  AnnouncedIsTrue
  ReferencesExist
  CallHoldersNeverWait
PROPERTIES
  ApiSpec
  PostAnswered
CHECK_DEADLOCK FALSE
