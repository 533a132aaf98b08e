SPECIFICATION FairSpec
CONSTANTS
  Threads = {t1, t2, t3}
  MaxReaders = 3
  SpinIterations = 1
  UseWait = TRUE
  MaxCalls = 1
CHECK_DEADLOCK FALSE
INVARIANTS
  StateCountsHolders
  NoLostWakeUp
PROPERTIES
  ImplementsRWLock
  CallsReturn
