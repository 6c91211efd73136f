SPECIFICATION Spec
CONSTANTS
  Tasks = {t1}
  Requests = {q1, q2}
  Firings = {f1}
  Dates = {1}
  Operations = {"create", "update", "pause"}
  Slots = 1
  MaxPerUser = 1
  Grace = 0
  MaxTime = 1
  MaxCrashes = 0
CHECK_DEADLOCK FALSE
INVARIANTS
  FinishedHasFired
  PausedHasNoNext
