CONSTANTS
  MaxWrite = 4
  MaxRead = 3
  MaxBytes = 12
  NumThreads = 3
  Items <- mcItems
  PoolBlocks = 3
  Reentrant = TRUE
  MayFail = {"thread", "open", "locked", "code", "write"}
  Databases <- mcDatabases
  Freed = {"old", "crash"}
SPECIFICATION mcSpec
INVARIANT StatusesOutliveDecoder
