CONSTANTS
  w1 = w1
  w2 = w2
  Writers <- Both
  BufSize = 2
  LocalSize = 2
  Uses <- Endings
  Failing <- Asking
  Pieces <- Few
  MaxBytes = 7
SPECIFICATION FairSpec
INVARIANTS HonestError NoUseAfterFree
PROPERTIES StreamSpec Progress
CHECK_DEADLOCK FALSE
