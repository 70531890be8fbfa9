CONSTANTS
  Capacity = 40
  RefillRate = 5
  Cost = 8
  MaxTime = 8
SPECIFICATION Spec
INVARIANTS
  AtMostFivePerSecond
