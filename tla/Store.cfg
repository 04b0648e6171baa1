SPECIFICATION StoreSpec
CONSTANTS
  Scids = {"s1", "s2"}
  Addrs = {"a1", "a2"}
  NoAddr = ""
  Blocks <- MCBlocks
  Codes = {"TELA-INDEX-1"}
  Excluded = {}
  Filter = {}
  CodePolicy = "tela"
  Refreshed = "TELA-INDEX-1"
  MaxHeight = 3
  MaxQueue = 1
  MaxForks = 1
  MaxRefresh = 1
  Contracts = {1, 2, 3}
  Registry = {2, 3}
  DefLimit = 1
  MaxLimit = 2
  Asked = {0, 1, 3}
  MaxWrites = 4
  Keys <- MCKeys
  Requests = {r1, r2}
  MaxBytes = 3
  InboxSize = 1
  MaxVersion = 2
  MaxCrashes = 1
INVARIANTS Inductive PrefixConsistent QueriesAgree ClassKept PagesCover CacheAccounted StaleExcused
SYMMETRY RequestSymmetry
CHECK_DEADLOCK FALSE
