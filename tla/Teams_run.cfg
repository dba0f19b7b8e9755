CONSTANTS
  ann = ann
  bob = bob
  cyd = cyd
  Nobody = Nobody
  NumSlots = 3
  NumTeams = 1
  Names <- Three
  MaxRequests = 2
  Configs <- Settings
SYMMETRY Alike
SPECIFICATION Spec
INVARIANTS EmptyIsFresh OneRun RightTee RanksHonest
PROPERTIES LedgerSpec
CHECK_DEADLOCK FALSE
