SPECIFICATION Spec
CONSTANTS
  KernelSize = 4
  Probe <- MCProbe
  MaxProbes = 0
  Duplicates = TRUE
  AutoScrub = TRUE
  AutoShrink = FALSE
  MinCapacity = 8
  InitCapacity = 8
  GrowBias = 4
  ScrubBias = 4
  ShrinkBias = 4
  MaxBuckets = 2
  Line = 4
  Empty = Empty
  Tombstone = Tombstone
  None = None
  Keys = {k1, k2}
  Values = {v1}
  Homes <- TwoHomes
INVARIANT FindNextStaysInTable
