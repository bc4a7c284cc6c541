SPECIFICATION Spec
CONSTANTS
  SamplingTimes = {4}
  Threshold = 50
  Weights = {1}
  MaxTime = 12
  MaxTasks = 6
INVARIANTS
  LoadInDocumentedRange
CHECK_DEADLOCK FALSE
