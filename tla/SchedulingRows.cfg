SPECIFICATION Spec
CONSTANTS
  Tasks = {t1}
  Requests = {q1, q2}
  Firings = {f1, f2}
  Dates = {1}
  Operations = {"update", "rename", "pause", "resume", "delete", "run", "forget"}
  Slots = 2
  MaxPerUser = 1
  Grace = 0
  MaxTime = 1
  MaxCrashes = 0
CHECK_DEADLOCK FALSE
SYMMETRY Interchangeable
INVARIANTS
  JobsMatchRows
  RegistryExact
  RowsConsistent
