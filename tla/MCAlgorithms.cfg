SPECIFICATION Spec
CONSTANTS
  Kinds = {"linear", "quadratic"}
  Alignments = {0, 1, 2, 4, 8, 16}
  Kernels = {1, 2, 4}
  Tables = {1, 2, 4, 8, 16}
  KernelTypes = {"uint1", "uint4", "fast2", "fast8", "sse2", "ssse3", "sse4", "sse_bwvl",
                 "avx2", "avx_bwvl", "avx512", "neon8", "neon16", "neon32", "neon64",
                 "sve4", "sve8"}
  Hashes = {0, 1, 127}
  Thresholds = {1, 128, 255}
  InitLru = {127, 255}
  MaxSteps = 2
CHECK_DEADLOCK FALSE
INVARIANTS
  VisitsEveryBucketOnce
PROPERTIES
  MasksAgree
  SearchesAgree
  RewritesAgree
  CountsAgree
  MasksWalk
  BitOpsAgree
