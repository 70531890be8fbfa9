CONSTANTS
  Workers = {w1, w2, w3}
  Tasks = {t1, t2, t3, t4, t5, t6}
  NoTask = NoTask
  MaxQueue = 2
SPECIFICATION Spec
INVARIANTS
  TypeOK
  WorkConserving
  SleepsOnlyWhenFull
  NoSleepAfterStop
  DestructorDrains
PROPERTIES
  DestructorReturns
  QueueSpec
