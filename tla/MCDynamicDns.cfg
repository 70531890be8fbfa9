CONSTANTS
  Addrs = {a1, a2, a3}
  ProxyAddr = ProxyAddr
  NoAddr = NoAddr
  MaxChanges = 2
SPECIFICATION Spec
INVARIANTS
  TypeOK
PROPERTIES
  WritesFreshAddress
  Converges
