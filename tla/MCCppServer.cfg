CONSTANTS
  Workers = {w1}
  MaxQueue = 1
  Backlog = 1
  Capacity = 1
  NumFds = 4
  Conns = {c1, c2, c3, c4}
  Requests <- JustOn
  Cuts <- NoCuts
SPECIFICATION CrowdSpec
INVARIANTS
  FdOwnership
  FdsSuffice
PROPERTIES
  EveryConnectionEnds
  PoolSpec
