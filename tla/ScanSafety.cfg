SPECIFICATION Spec
CONSTANTS
  MaxHeight = 4
  InitChain = 2
  ParallelBlocks = 2
  BatchSize = 2
  AdaptBatchSize = TRUE
  MinBatch = 1
  MaxBatch = 4
  FinalityDepth = 1
  RecentBlocks = 1
  MayLoseBlocks = TRUE
  MayFailFlush = TRUE
  SingleSCIDs = FALSE
  MaxRestarts = 1
INVARIANTS TypeOK IInv GapFree CountedOnce ClaimsPersisted SafeBehindIndexed PublishedCommitted
PROPERTIES SyncAfterData ImplementsProgress
CHECK_DEADLOCK FALSE
