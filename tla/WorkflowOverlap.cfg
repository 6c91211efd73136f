SPECIFICATION ServicesSpec
CONSTANTS
  Parts = {"overlap"}
  Nobody = Nobody
  N = 2
  Tools = {"b", "m", "o"}
  Calls = {"c1", "c2"}
  Attempts = 2
  Setups <- MCSetups
  IdleSetup <- Setup
  Tasks = {1, 2, 3}
  Runs = {"r1", "r2", "r3"}
  Plans <- MCPlans
  IdlePlan <- Plan
  Overlaps <- MCOverlaps
  Callers = {"a", "b"}
  Threshold = 2
  Recovery = 2
  MaxRetries = 2
CHECK_DEADLOCK FALSE
PROPERTY FinishedNotRerun
