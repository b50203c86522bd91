\* Two requests at a time, with and without Redis and the batch updater.
CONSTANTS
  Requests = {r1, r2}
  Initial = {1, 3}
  Hold = 2
  Costs = {0, 3}
  MaxCost = 3
  TrustQuota = 2
  Amounts = {1}
  MaxChanges = 2
  MaxJobs = 2
  MaxFaults = 1
SPECIFICATION FairSpec
INVARIANTS IInv Ledger OverdraftBound
PROPERTY CacheHeals
CHECK_DEADLOCK FALSE
