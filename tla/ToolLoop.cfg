SPECIFICATION FairSpec
CONSTANTS
  p = p
  q = q
  Replies <- MCReplies
  Modes <- MCModes
  Limits = {0, 2}
  Budgets = {0, 1}
  MaxAgents = 2
  MaxEvents = 1
  MaxRounds = 2
CHECK_DEADLOCK FALSE
INVARIANTS
  ConflictsHarmless
  ResultsComplete
  NothingLeft
  BudgetsHold
PROPERTY LoopEnds
