CONSTANTS
  AAA = AAA
  SPY = SPY
  Symbols = {AAA, SPY}
  Watchlist = {SPY}
  Cap = 1
  Limit = 1
  Refresh = 1
  StaleAfter = 1
  AlertAfter = 1
  MaxDelay = 2
  DayLength = 6
  Opens = 1
  Closes = 5
  Days = 2
  MaxChanges = 2
  MaxFailures = 1
SPECIFICATION FairSpec
CHECK_DEADLOCK FALSE
INVARIANTS TypeOK SubscriptionsTrue StaleNoticed
PROPERTIES PositionsWatched AlarmsTrue
