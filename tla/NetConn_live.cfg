CONSTANTS
  A = A
  B = B
  MaxSeq = 6
  PacketCap = 2
  BufSure = 1
  BufCap = 2
  Window = 2
  MaxInFlight = 1
  Timeouts = TRUE
  MaxMsgs <- Few
SPECIFICATION FairSpec
PROPERTY EventualDelivery
CHECK_DEADLOCK FALSE
