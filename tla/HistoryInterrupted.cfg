SPECIFICATION Spec
CONSTANTS
  NoCopy = NoCopy
  MaxTurns = 1
  Deletions = {}
  Processes = {p1}
  Scenes <- WithStop
CHECK_DEADLOCK FALSE
INVARIANT InterruptedTextSaved
