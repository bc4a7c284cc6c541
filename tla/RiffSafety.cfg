SPECIFICATION Spec
CONSTANTS
  NumThreads = 2
  Lengths = {1, 3}
  MinTasks = 1
  MaxTasks = 4
  MaxPhase = 1
  Destroy = TRUE
INVARIANTS
  TypeOK
  InFlightBounded
  ExclusiveSample
  CollectedNotEmpty
  CompleteAnswers
  NoFatalError
  StartComesFirst
  OnlyRequests
  NoMutualWait
  StopNotLost
  TasksAccounted
  SummaryExact
PROPERTIES
  ImplementsHandover
  ImplementsSession
CHECK_DEADLOCK FALSE
