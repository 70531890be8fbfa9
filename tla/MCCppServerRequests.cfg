CONSTANTS
  Workers = {w1, w2}
  MaxQueue = 1
  Backlog = 1
  Capacity = 1
  NumFds = 3
  Conns = {c1, c2}
  Requests <- EveryRoute
  Cuts <- EveryCut
SPECIFICATION SafeSpec
SYMMETRY Symmetry
INVARIANTS
  TypeOK
  RepliesTruthful
PROPERTIES
  ServiceSpec
