SPECIFICATION FairSpec
CONSTANTS
  Creators = {c1}
  Streams = {s1}
  Cancellers = {k1}
  MaxRuns = 1
  MaxText = 1
  MaxAsks = 1
  QueueSize = 2
  MaxRestarts = 0
CHECK_DEADLOCK FALSE
PROPERTY EverythingEnds
