CONSTANTS
  sell = sell
  buy = buy
  Alerts = {sell, buy}
  Priority <- MCPriority
  NumSinks = 2
  MaxAttempts = 3
  Backoffs <- MCBackoffs
  AgeCap = 2
  MaxCrashes = 1
SPECIFICATION FairSpec
INVARIANTS
  TypeOK
  CopiesAccounted
  FailureReportedOnce
PROPERTIES
  SendsRespectBackoff
  ImplementsContract
  EventuallySettled
CHECK_DEADLOCK FALSE
