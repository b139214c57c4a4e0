CONSTANTS
  Length = 2
  Opening = 1
  Window = 1
  Touch = 1
  BufferPct = 25
  Bars <- MCRaceBars
  Backfills = {"loop"}
  Lag = 1
  MaxFetches = 1
SPECIFICATION Spec
INVARIANTS
  BackfillArms
CHECK_DEADLOCK FALSE
