\* No stalls: one of two nodes may die in any step, one statement may fail.
CONSTANTS
  Runners = {n1, n2}
  NoRunner = none
  TTL = 1
  MaxAge = 1
  MaxTasks = 2
  Stalls = FALSE
  MaxFaults = 1
  MaxCrashes = 1
SPECIFICATION FairSpec
INVARIANTS IInv ExecutedOnce OneWorker NoOrphan
PROPERTIES OneLife RowsEnd
CHECK_DEADLOCK FALSE
