SPECIFICATION LiveSpec
CONSTANTS
  MaxHeight = 6
  InitChain = 3
  ParallelBlocks = 2
  BatchSize = 2
  AdaptBatchSize = FALSE
  MinBatch = 1
  MaxBatch = 4
  FinalityDepth = 1
  RecentBlocks = 0
  MayLoseBlocks = FALSE
  MayFailFlush = FALSE
  SingleSCIDs = FALSE
  MaxRestarts = 0
PROPERTY ShutdownEnds
CHECK_DEADLOCK FALSE
