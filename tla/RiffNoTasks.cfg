SPECIFICATION Spec
CONSTANTS
  NumThreads = 1
  Lengths = {1}
  MinTasks = 0
  MaxTasks = 1
  MaxPhase = 0
  Destroy = TRUE
INVARIANTS
  StartComesFirst
CHECK_DEADLOCK FALSE
