\* An order of any provider, three workers on two nodes, one failing statement, one crash.
CONSTANTS
  n1 = n1
  n2 = n2
  w1 = w1
  w2 = w2
  w3 = w3
  Orders = {o1}
  Nodes = {n1, n2}
  Workers = {w1, w2, w3}
  NodeOf <- MCNodeOf
  Mutexes = {m1, m2}
  NoMutex = noMutex
  NoWorker = noWorker
  NoOrder = noOrder
  Providers = {"epay", "stripe", "creem", "waffo", "waffo_pancake"}
  MaxFaults = 1
  MaxCrashes = 1
SPECIFICATION Spec
INVARIANTS IInv OrderExclusive NoLockLeak CreditedOnce CreditMatchesStatus
PROPERTY EndedStays
