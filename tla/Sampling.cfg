SPECIFICATION Spec
CONSTANTS
  SamplingTimes = {0, 3}
  Threshold = 5
  Weights = {1}
  MaxTime = 8
  MaxTasks = 7
INVARIANTS
  TypeOK
  TaskConservation
  ReportConservation
  NoException
  TimersFresh
  LoadWithinThreshold
  LoadWithoutSampling
  ExecutionTimeSpansCalls
  ExactTiming
CHECK_DEADLOCK FALSE
