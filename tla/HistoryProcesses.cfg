SPECIFICATION Spec
CONSTANTS
  NoCopy = NoCopy
  MaxTurns = 2
  Deletions = {}
  Processes = {p1, p2}
  Scenes <- WithFault
CHECK_DEADLOCK FALSE
INVARIANT ProcessesAgree
