SPECIFICATION Spec
CONSTANTS
  Scenes <- MCScenes
  MaxText = 1
  MaxAsked = 2
  MaxFailures = 1
CHECK_DEADLOCK FALSE
INVARIANT NothingTwice
PROPERTIES RowFirst CancelHeard NothingStuck
