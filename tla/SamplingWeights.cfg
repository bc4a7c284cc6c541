SPECIFICATION Spec
CONSTANTS
  SamplingTimes = {0}
  Threshold = 5
  Weights = {1, 2}
  MaxTime = 5
  MaxTasks = 4
INVARIANTS
  NoException
CHECK_DEADLOCK FALSE
