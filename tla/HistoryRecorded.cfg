SPECIFICATION Spec
CONSTANTS
  NoCopy = NoCopy
  MaxTurns = 2
  Deletions = {d1}
  Processes = {p1}
  Scenes <- WithDeletions
CHECK_DEADLOCK FALSE
INVARIANT RecordedOnce
