SPECIFICATION Spec
CONSTANTS
  Creators = {c1, c2}
  Streams = {s1}
  Cancellers = {k1}
  MaxRuns = 1
  MaxText = 2
  MaxAsks = 0
  QueueSize = 2
  MaxRestarts = 1
CHECK_DEADLOCK FALSE
SYMMETRY RequestSymmetry
INVARIANTS
  TypeOK
  RegistryTracksTasks
PROPERTY LedgerSpec
