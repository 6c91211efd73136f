SPECIFICATION Spec
CONSTANTS
  p = p
  q = q
  Replies <- MCReplies
  Modes <- MCModes
  Limits = {2}
  Budgets = {0}
  MaxAgents = 1
  MaxEvents = 1
  MaxRounds = 2
CHECK_DEADLOCK FALSE
INVARIANT RequestsWellFormed
