CONSTANTS
  N = 3
  Opens = 2
  PlansPerRun = 1
  SPY = SPY
  ABC = ABC
  QQQ = QQQ
  Symbols = {SPY, ABC, QQQ}
  Anchor = SPY
  MaxMissing = 1
  t30 = t30
  t3 = t3
  Checkpoints = {t30, t3}
  WindowEnd <- MCWindowEnd
  MaxFailedTicks = 1
SPECIFICATION Spec
CHECK_DEADLOCK FALSE
INVARIANTS TypeOK EventsAgree
PROPERTIES  CompletedKept DigestHonest
