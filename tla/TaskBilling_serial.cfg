\* A task of any kind, passes of two nodes that take turns, every answer and failure.
CONSTANTS
  Tasks = {t1}
  Pollers = {n1, n2}
  Kinds = {"suno", "video", "realtime"}
  Quotas = {1, 2}
  SubmitTimes <- MCSubmitTimes
  Overlap = FALSE
  MaxFetches = 1
  MaxFaults = 1
  MaxCrashes = 1
SPECIFICATION FairSpec
INVARIANTS SunoBill NeverOverRefunded
PROPERTY EveryTaskEnds
CHECK_DEADLOCK FALSE
