CONSTANTS
  r1 = r1
  r2 = r2
  r3 = r3
  Runs = {r1, r2}
  Slots = {1, 2, 4}
  AEnd = 3
  End = 7
  Grace = 1
  LeaseTTL = 2
  Beat = 1
  FailureLimit = 2
  MaxTick = 1
SPECIFICATION Spec
INVARIANTS
  ResumeNotRefused
CHECK_DEADLOCK FALSE
