SPECIFICATION Spec
CONSTANTS
  Creators = {c1}
  Streams = {s1}
  Cancellers = {k1, k2}
  MaxRuns = 1
  MaxText = 2
  MaxAsks = 2
  QueueSize = 2
  MaxRestarts = 0
CHECK_DEADLOCK FALSE
SYMMETRY RequestSymmetry
INVARIANTS
  ListenersTold
  ToldTheTruth
  NoZombieQuestion
  AnswerMatchesQuestion
  OutputKept
