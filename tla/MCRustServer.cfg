CONSTANTS
  Conns = {c1, c2}
  Acceptor = Acceptor
  Idle = Idle
  MaxConcurrent = 2
  Capacity = 1
  Requests <- EveryRequest
  Envs <- EveryEnv
SPECIFICATION Spec
INVARIANTS
  TypeOK
PROPERTIES
  ServiceSpec
  Answered
