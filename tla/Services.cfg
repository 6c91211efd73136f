SPECIFICATION FairServicesSpec
CONSTANTS
  Parts = {"breaker", "tools", "workflow"}
  Nobody = Nobody
  N = 2
  Tools = {"b", "m", "o"}
  Calls = {"c1", "c2"}
  Attempts = 2
  Setups <- MCSetups
  IdleSetup <- Setup
  Tasks = {1, 2, 3}
  Runs = {"r1", "r2", "r3"}
  Plans <- MCPlans
  IdlePlan <- Plan
  Overlaps <- MCOverlaps
  Callers = {"a", "b"}
  Threshold = 2
  Recovery = 2
  MaxRetries = 2
CHECK_DEADLOCK FALSE
INVARIANTS
  StatesTrue
  OwnAnswer
  ShownIsFound
PROPERTIES
  Sheltered
  TasksInOrder
  WorkEnds
