SPECIFICATION Spec
CONSTANTS
  Creators = {c1}
  Streams = {s1}
  Cancellers = {}
  MaxRuns = 1
  MaxText = 1
  MaxAsks = 0
  QueueSize = 2
  MaxRestarts = 0
CHECK_DEADLOCK FALSE
INVARIANTS
  ErrorOnlyIfRunFailed
  FailureReachesListeners
