CONSTANTS
  Requests = {r1}
  NoConn = NoConn
  Backlog = 2
  MaxDgrams = 2
  StartLimit = 3
  Clients = {c1, c2}
  NoClient = NoClient
  Room = 2
  Scenarios <- EitherSide
SPECIFICATION Spec
INVARIANTS
  TypeOK
  FailureMeansUntouched
PROPERTIES
  PcSettles
  
  WakeupServes
