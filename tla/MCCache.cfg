SPECIFICATION Spec
CONSTANTS
  KernelSize = 2
  Hash <- MCHash
  Hashes <- Spread
  MaxLru = 3
  Duplicates = FALSE
  MinCapacity = 2
  InitCapacity = 2
  MaxBuckets = 2
  Empty = Empty
  Keys = {k1, k2, k3, k4, k5}
  Values = {v1}
INVARIANTS
  NumEmptyExact
  EntriesAtHome
  HottestKept
PROPERTIES
  
  ImplementsLossyDictionary
