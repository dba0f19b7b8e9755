CONSTANTS
  m1 = m1
  m2 = m2
  m3 = m3
  Maps <- AllMaps
  NoMap = NoMap
  OnDisk <- OneMap
  Http = TRUE
  MaxRounds = 4
SPECIFICATION JoinFairSpec
INVARIANTS ReplacedOnlyByDownload ResetEachRound
PROPERTIES JoinEnds
CHECK_DEADLOCK FALSE
