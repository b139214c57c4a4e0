CONSTANTS
  Length = 4
  Opening = 1
  Window = 1
  Touch = 1
  BufferPct = 25
  Bars <- MCBars
  Backfills = {"loop"}
  Lag = 1
  MaxFetches = 1
SPECIFICATION Spec
INVARIANTS
  TypeOK
  SettledStructureCurrent
  RetestSound
  StreamAgrees
CHECK_DEADLOCK FALSE
