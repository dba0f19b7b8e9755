CONSTANTS
  m1 = m1
  w1 = w1
  w2 = w2
  Maps <- OneMap
  NoMap = NoMap
  OnDisk <- OneMap
  Http = FALSE
  Empty = Empty
  Worlds <- TwoWorlds
  TickSpeed = 2
  KeepSeconds = 1
  InitEvery = 1
  SnapEvery = 1
  MaxCrcErrors = 1
  MAX_TICK = 3
  MaxParts = 2
  CatchUp = 1
  MaxSnaps = 2
  MaxInputs = 1
  CalmDown = FALSE
  StormTicks = 3
  RecoveryTicks = 0
  MaxRounds = 2
SPECIFICATION SnapSpec
INVARIANTS Faithful
PROPERTIES JoinSpec
SYMMETRY AnyWorld
CHECK_DEADLOCK FALSE
