CONSTANTS
  v4 = v4
  v6 = v6
  Protocols = {v4, v6}
  Second = 1
  Period = 2
  Timeout = 4
  MaxNews = 2
  MaxTrouble = 1
  MaxBetween = 1
SPECIFICATION Spec
SYMMETRY Symmetric
INVARIANTS ListFits ListedSoon GoneSoon
CHECK_DEADLOCK FALSE
