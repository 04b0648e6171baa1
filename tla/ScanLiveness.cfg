SPECIFICATION LiveSpec
CONSTANTS
  MaxHeight = 4
  InitChain = 3
  ParallelBlocks = 2
  BatchSize = 2
  AdaptBatchSize = FALSE
  MinBatch = 1
  MaxBatch = 4
  FinalityDepth = 1
  RecentBlocks = 0
  MayLoseBlocks = FALSE
  MayFailFlush = FALSE
  SingleSCIDs = TRUE
  MaxRestarts = 1
PROPERTIES DrainEnds ScanReachesTip
CHECK_DEADLOCK FALSE
