SPECIFICATION Spec
CONSTANTS
  NoCopy = NoCopy
  MaxTurns = 3
  Deletions = {d1, d2}
  Processes = {p1}
  Scenes <- Settings
CHECK_DEADLOCK FALSE
INVARIANTS
  KeepsHistory
  CopiesConsistent
  DeletionsHold
  TranscriptFirst
SYMMETRY DeletionSymmetry
