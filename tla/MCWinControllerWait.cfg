CONSTANTS
  Ports = {p1, p2}
  DefaultPort = p1
  MaxChanges = 1
SPECIFICATION Spec
INVARIANTS
  WaitsAreTimed
