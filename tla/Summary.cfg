SPECIFICATION Spec
CONSTANTS
  Threads = {t1, t2, t3}
  UnitsPerMs = 2
  MaxTime = 6
INVARIANTS
  TypeOK
  ExecutionTimeSpansThreads
CHECK_DEADLOCK FALSE
