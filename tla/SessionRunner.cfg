CONSTANTS
  r1 = r1
  r2 = r2
  r3 = r3
  Runs = {r1, r2, r3}
  Slots = {1, 2, 4, 5}
  AEnd = 3
  End = 10
  Grace = 1
  LeaseTTL = 2
  Beat = 1
  FailureLimit = 2
  MaxTick = 3
SYMMETRY Symmetry
SPECIFICATION Spec
INVARIANTS
  TypeOK
  OneWorker
  DayAccounted
PROPERTIES
  OutcomesKept
CHECK_DEADLOCK FALSE
