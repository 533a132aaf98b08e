SPECIFICATION Spec
CONSTANTS
  KernelSize = 2
  Hash <- MCHash
  Hashes <- Splitting
  MaxLru = 1
  Duplicates = TRUE
  MinCapacity = 2
  InitCapacity = 2
  MaxBuckets = 4
  Empty = Empty
  Keys = {k1, k2, k3}
  Values = {v1}
INVARIANT GrowthKeepsEntries
