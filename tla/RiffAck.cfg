SPECIFICATION Spec
CONSTANTS
  NumThreads = 1
  Lengths = {1}
  MinTasks = 1
  MaxTasks = 2
  MaxPhase = 0
  Destroy = TRUE
INVARIANTS
  ReturnsAfterStopReceived
CHECK_DEADLOCK FALSE
