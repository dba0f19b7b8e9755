CONSTANTS
  RingSize = 3
  Setup <- Local
  Requests = {"write", "addBackup", "print"}
  MaxRequests = 5
  MaxOutstanding = 2
  Faults = {"main", "reply", "remove", "move"}
  MaxImports = 2
SPECIFICATION ImportSpec
INVARIANTS LostOnlyBehindTheDump StoredOnce
CHECK_DEADLOCK FALSE
