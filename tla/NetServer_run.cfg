CONSTANTS
  a1 = a1
  h1 = h1
  k1 = k1
  Addrs = {a1}
  NoAddr = NoAddr
  Host <- OneHost
  Code <- OnePlayer
  NoCode = NoCode
  MaxClients = 3
  MaxPerIP = 2
  MaxTries <- ThreeTimes
  MaxNet = 1
SPECIFICATION FairSpec
INVARIANTS OneSlot ClientIffConnection PerHostLimit
PROPERTIES SlotsAreFreed
CHECK_DEADLOCK FALSE
