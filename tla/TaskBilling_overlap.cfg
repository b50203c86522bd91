\* A video task, and passes of two nodes that overlap.
CONSTANTS
  Tasks = {t1}
  Pollers = {n1, n2}
  Kinds = {"video"}
  Quotas = {0, 1, 2}
  SubmitTimes <- MCSubmitTimes
  Overlap = TRUE
  MaxFetches = 2
  MaxFaults = 1
  MaxCrashes = 1
SPECIFICATION Spec
SYMMETRY Symmetry
INVARIANTS IInv VideoBill
PROPERTY EndIsFinal
CHECK_DEADLOCK FALSE
