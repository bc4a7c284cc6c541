SPECIFICATION Spec
CONSTANTS
  NumThreads = 1
  Lengths = {1}
  MinTasks = 1
  MaxTasks = 3
  MaxPhase = 2
  Destroy = TRUE
INVARIANTS
  PhaseMatchesThreads
CHECK_DEADLOCK FALSE
