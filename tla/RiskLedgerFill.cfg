SPECIFICATION Spec
CONSTANTS
  p1 = p1  p2 = p2  s1 = s1  s2 = s2  symA = symA  symB = symB  Manual = Manual
  Plans = {p1}
  Slots = {s1}
  Symbols = {symA, symB}
  Offers <- MCOffers
  Seeds <- WideSeeds
  Fills <- BreakEvenFills
  Imports = {}
  Exits <- MCExits
  Stops = {}
  PlanTTL = 2
  ReservationTTL = 1
  RetestWindow = 1
  Slippage = 12
  StopTolerance = 3
  MaxConcurrent = 1
  TradeRiskBp = 50
  DailyLossBp = 100
  NotionalBp = 3500
  FillRiskBp = 2000
  MaxTime = 2
  MaxSeeds = 1
  MaxInflight = 1
INVARIANTS
  FillNeverBreaksAccounting
CHECK_DEADLOCK FALSE
