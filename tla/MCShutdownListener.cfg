CONSTANTS
  Conns = {c1, c2}
  NoConn = NoConn
  Backlog = 2
  MaxDgrams = 2
SPECIFICATION Spec
INVARIANTS
  TypeOK
  PowersOffOnce
  NoClientLeft
PROPERTIES
  SignalFirst
  SignalEnds
  DatagramObeyed
  ClientObeyed
