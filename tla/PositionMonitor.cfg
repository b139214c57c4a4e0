CONSTANTS
  p1 = p1
  t1 = t1
  Positions = {p1}
  Plans = {}
  Prices = {1, 2}
  Signals <- MCSignals
  OpenRows <- MCOpenRows
  Stop = 1
  Tp1 = 3
  Tp2 = 3
  Trigger = 2
  MinInterval = 2
  Repeat = 3
  Slow = 2
  MaxFailures = 1
  MaxChanges = 1
SPECIFICATION FairSpec
INVARIANTS
  TypeOK
  ThrottleSeparates
PROPERTIES
  RepeatsOnlyByOverlap
  SellNowRepeats
CHECK_DEADLOCK FALSE
