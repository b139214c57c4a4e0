SPECIFICATION Spec
CONSTANTS
  p1 = p1  p2 = p2  s1 = s1  s2 = s2  symA = symA  symB = symB  Manual = Manual
  Plans = {p1, p2}
  Slots = {s1, s2}
  Symbols = {symA, symB}
  Offers <- MCOffers
  Seeds <- MCSeeds
  Fills <- MCFills
  Imports <- MCImports
  Exits <- MCExits
  Stops <- MCStops
  PlanTTL = 0
  ReservationTTL = 0
  RetestWindow = 1
  Slippage = 12
  StopTolerance = 3
  MaxConcurrent = 1
  TradeRiskBp = 50
  DailyLossBp = 100
  NotionalBp = 3500
  FillRiskBp = 2000
  MaxTime = 2
  MaxSeeds = 1
  MaxInflight = 2
INVARIANTS
  TypeOK
  ReservationMatchesPlan
  ReservedCashBacked
  ReplayMatches
  FilledWithinLimits
  FillsWithinConcurrency
  ProtectedCovers
PROPERTIES
  StopNeverLoosens
  TerminalStable
  ReserveWithinCapacity
  ImplementsPool
SYMMETRY Symmetry
CHECK_DEADLOCK FALSE
