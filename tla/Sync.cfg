SPECIFICATION SessionSpec
CONSTANTS
  MaxSessions = 3
  MaxStops = 3
  Size = 2
  Users = {u1, u2, u3}
  MaxCloses = 2
  MaxHeight = 3
  MaxForks = 2
  MaxCrashes = 1
  ParallelBlocks = 2
  Cap = 1
  MaxDepth = 1
  Clients = {c1, c2}
  Syncers = {s1}
  Log = log
  SendBuffer = 1
  FeedSize = 1
  MaxSends = 2
INVARIANTS Inductive OneSession StoreOutlivesWorkers StopClosesStore PoolAccounted ChainFollowed SlowDropped
PROPERTY StopReturns
CHECK_DEADLOCK FALSE
