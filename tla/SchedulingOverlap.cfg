SPECIFICATION Spec
CONSTANTS
  Tasks = {t1}
  Requests = {q1}
  Firings = {f1, f2}
  Dates = {1}
  Operations = {"create", "run"}
  Slots = 2
  MaxPerUser = 1
  Grace = 0
  MaxTime = 1
  MaxCrashes = 0
CHECK_DEADLOCK FALSE
INVARIANT NoOverlappingRuns
