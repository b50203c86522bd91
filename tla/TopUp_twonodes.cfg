\* An Epay order, two nodes; nothing fails.
CONSTANTS
  n1 = n1
  n2 = n2
  w1 = w1
  w2 = w2
  w3 = w3
  Orders = {o1}
  Nodes = {n1, n2}
  Workers = {w1, w2, w3}
  NodeOf <- MCNodeOf
  Mutexes = {m1, m2}
  NoMutex = noMutex
  NoWorker = noWorker
  NoOrder = noOrder
  Providers = {"epay"}
  MaxFaults = 0
  MaxCrashes = 0
SPECIFICATION Spec
INVARIANT NoDoubleCredit
