SPECIFICATION Spec
CONSTANTS
  Infos <- MCInfos
  Fence = "fence"
  Syncs = {"x", "y", "fence"}
  MaxBatches = 3
INVARIANTS
  MergeInvisible
  OrderKept
