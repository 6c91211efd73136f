SPECIFICATION Spec
CONSTANTS
  Tasks = {t1}
  Requests = {q1}
  Firings = {f1}
  Dates = {1}
  Operations = {"create"}
  Slots = 1
  MaxPerUser = 1
  Grace = 0
  MaxTime = 2
  MaxCrashes = 1
CHECK_DEADLOCK FALSE
INVARIANT MissedIsMarked
