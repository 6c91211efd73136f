SPECIFICATION Spec
CONSTANTS
  Tasks = {t1}
  Requests = {q1}
  Firings = {f1}
  Dates = {1}
  Operations = {"create", "stop"}
  Slots = 1
  MaxPerUser = 1
  Grace = 0
  MaxTime = 1
  MaxCrashes = 0
CHECK_DEADLOCK FALSE
PROPERTY CancelReallyCancels
