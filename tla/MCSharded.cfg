CONSTANTS
  t1 = t1
  t2 = t2
  Threads = {t1, t2}
  NumShards = 2
  k1 = k1
  k2 = k2

  Keys = {k1, k2}
  ShardIdx <- MCShardIdx
  Contents <- MCContents
  Caps = {1, 2}
  MaxCalls <- MCCalls
  Ops <- MCOps
  Empty = Empty
  None = None
SPECIFICATION FairSpec
CHECK_DEADLOCK FALSE
INVARIANTS
  LocksFollowIterators
  PositionsValid
  LoopsMeetAll
  WalksConsistent
PROPERTIES
  CallsReturn
