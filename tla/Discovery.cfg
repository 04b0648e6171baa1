SPECIFICATION LiveSpec
CONSTANTS
  Registry <- MCRegistry
  HeightOf <- MCHeight
  ClassOf <- MCClass
  Persisted = {"INDEX"}
  WorkCap = 1
  VarBatch = 2
  EarlyExit = 0
  KeepSeeds = 1
  FreshSpan = 1
  MaxTip = 2
  MaxFaults = 1
  MaxSessions = 2
INVARIANTS DiscoveryInv CachesComplete SettledDurable ProgressImported
PROPERTY Settles
CHECK_DEADLOCK FALSE
