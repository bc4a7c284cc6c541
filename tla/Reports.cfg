SPECIFICATION Spec
CONSTANTS
  MaxCustomFields = 1
  PrintLimit = 100
  NumThreads = 2
  Measured <- MCMeasured
  ExtraFields = 1
  MaxStores = 2
  MaxAnswers = 2
INVARIANTS
  TypeOK
  AveragesWithinSamples
  InconsistentWhenUnreliable
  ThroughputOfAllThreads
  AggregatedOverAllThreads
  CustomValueNotRepeated
  LogReadsBack
CHECK_DEADLOCK FALSE
