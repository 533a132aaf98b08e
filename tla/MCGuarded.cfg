CONSTANTS
  t1 = t1
  t2 = t2
  Threads = {t1, t2}
  Maps = {a, b}
  Keys = {k}
  NumPos = 2
  Contents <- MCContents
  MaxCalls = 1
  MaxNested <- MCNested
  Empty = Empty
  None = None
SPECIFICATION FairSpec
CHECK_DEADLOCK FALSE
INVARIANTS
  PositionsValid
  LocksAccountedFor
PROPERTIES
  CallsUndisturbed
  CallsReturn
