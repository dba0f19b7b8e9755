CONSTANTS
  RingSize = 3
  Setup <- Mysql
  Requests = {"read", "write"}
  MaxRequests = 7
  MaxOutstanding = 2
  Faults = {"main", "reply", "remove", "move", "read"}
SPECIFICATION FairSpec
INVARIANTS Durable InTurn BackupFirst
PROPERTIES RequestSpec ShutdownEnds EveryRequestAnswered
CHECK_DEADLOCK FALSE
