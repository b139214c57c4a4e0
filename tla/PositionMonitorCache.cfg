CONSTANTS
  p1 = p1
  t1 = t1
  Positions = {p1}
  Plans = {t1}
  Prices = {1, 2}
  Signals <- MCSignals
  OpenRows <- MCCacheRows
  Stop = 1
  Tp1 = 3
  Tp2 = 3
  Trigger = 2
  MinInterval = 1
  Repeat = 1
  Slow = 0
  MaxFailures = 1
  MaxChanges = 2
SPECIFICATION FairSpec
PROPERTIES
  CacheConverges
CHECK_DEADLOCK FALSE
