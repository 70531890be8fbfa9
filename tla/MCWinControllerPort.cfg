CONSTANTS
  Ports = {p1, p2}
  DefaultPort = p1
  MaxChanges = 2
SPECIFICATION Spec
INVARIANTS
  ListeningAfterPortChange
