SPECIFICATION FairSpec
CONSTANTS
  KernelSize = 2
  Probe <- MCProbe
  MaxProbes = 1
  Duplicates = FALSE
  AutoScrub = TRUE
  AutoShrink = FALSE
  MinCapacity = 4
  InitCapacity = 4
  GrowBias = 4
  ScrubBias = 4
  ShrinkBias = 4
  MaxBuckets = 8
  Line = 2
  Empty = Empty
  Tombstone = Tombstone
  None = None
  Keys = {k1, k2, k3, k4}
  Values = {v1, v2}
  Homes <- Folding
PROPERTIES
  ImplementsDictionary
  OperationsEnd
