CONSTANTS
  A = A
  B = B
  MaxSeq = 6
  PacketCap = 2
  BufSure = 2
  BufCap = 2
  Window = 2
  MaxInFlight = 2
  Timeouts = FALSE
  MaxMsgs <- OneWay
SPECIFICATION Spec
INVARIANTS InOrder NoUnackedLoss
PROPERTIES ReliableSpec
