SPECIFICATION FairSpec
CONSTANTS
  NumThreads = 2
  Lengths = {1, 3}
  MinTasks = 1
  MaxTasks = 3
  MaxPhase = 0
  Destroy = FALSE
PROPERTIES
  TerminateReturns
  SessionEnds
CHECK_DEADLOCK FALSE
