SPECIFICATION Spec
CONSTANTS
  MaxHeight = 4
  InitChain = 4
  ParallelBlocks = 2
  BatchSize = 2
  AdaptBatchSize = FALSE
  MinBatch = 1
  MaxBatch = 4
  FinalityDepth = 1
  RecentBlocks = 0
  MayLoseBlocks = FALSE
  MayFailFlush = TRUE
  SingleSCIDs = FALSE
  MaxRestarts = 0
INVARIANT FlushErrorNotSkipped
CHECK_DEADLOCK FALSE
