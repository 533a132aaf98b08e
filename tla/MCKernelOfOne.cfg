SPECIFICATION Spec
CONSTANTS
  KernelSize = 1
  Probe <- MCProbe
  MaxProbes = 0
  Duplicates = FALSE
  AutoScrub = TRUE
  AutoShrink = FALSE
  MinCapacity = 8
  InitCapacity = 8
  GrowBias = 4
  ScrubBias = 4
  ShrinkBias = 4
  MaxBuckets = 8
  Line = 4
  Empty = Empty
  Tombstone = Tombstone
  None = None
  Keys = {k1, k2, k3, k4}
  Values = {v1}
  Homes <- Chained
INVARIANT LookupFindsStoredKeys
