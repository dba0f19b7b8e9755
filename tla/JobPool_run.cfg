CONSTANTS
  Workers = {w1, w2, w3}
  Adders = {a1, a2}
  Jobs = {j1, j2, j3}
  NoJob = NoJob
SPECIFICATION FairSpec
INVARIANTS WakeUps CleanShutdown
PROPERTIES QueueSpec JobsRun DestroyReturns
CHECK_DEADLOCK FALSE
