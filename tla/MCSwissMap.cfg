SPECIFICATION FairSpec
CONSTANTS
  KernelSize = 2
  Probe <- MCProbe
  MaxProbes = 0
  Duplicates = FALSE
  AutoScrub = TRUE
  AutoShrink = TRUE
  MinCapacity = 4
  InitCapacity = 4
  GrowBias = 4
  ScrubBias = 4
  ShrinkBias = 4
  MaxBuckets = 4
  Line = 4
  Empty = Empty
  Tombstone = Tombstone
  None = None
  Keys = {k1, k2, k3, k4, k5, k6}
  Values = {v1}
  Homes <- Crowded
INVARIANTS
  TypeOK
  CountersExact
  TombstonesOnlyInFullBuckets
  EntriesReachable
  PassProgress
  KeysUnique
  LookupFindsStoredKeys
  ProbingEnds
PROPERTIES
  ImplementsDictionary
  OperationsEnd
