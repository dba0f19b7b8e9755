CONSTANTS
  m1 = m1
  w1 = w1
  w2 = w2
  Maps <- OneMap
  NoMap = NoMap
  OnDisk <- OneMap
  Http = FALSE
  Empty = Empty
  Worlds <- OneWorld
  TickSpeed = 3
  KeepSeconds = 1
  InitEvery = 1
  SnapEvery = 1
  MaxCrcErrors = 1
  MAX_TICK = 22
  MaxParts = 1
  CatchUp = 1
  MaxSnaps = 1
  MaxInputs = 1
  CalmDown = TRUE
  StormTicks = 5
  RecoveryTicks = 16
  MaxRounds = 2
SPECIFICATION SnapSpec
INVARIANTS Recovers ShownIsHeld
CHECK_DEADLOCK FALSE
