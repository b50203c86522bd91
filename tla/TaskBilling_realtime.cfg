\* One Gemini or Vertex task that its user fetches; nothing fails.
CONSTANTS
  Tasks = {t1}
  Pollers = {n1}
  Kinds = {"realtime"}
  Quotas = {1}
  SubmitTimes <- MCSubmitTimes
  Overlap = FALSE
  MaxFetches = 2
  MaxFaults = 0
  MaxCrashes = 0
SPECIFICATION Spec
INVARIANT NoDoubleRefund
CHECK_DEADLOCK FALSE
