SPECIFICATION Spec
CONSTANTS
  Threads = {t1, t2, t3}
  UnitsPerMs = 2
  MaxTime = 6
INVARIANT
  ExecutionTimeAsDocumented
CHECK_DEADLOCK FALSE
