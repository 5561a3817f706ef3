CONSTANTS
  NumThreads = 2
  Items <- mcItems
  PoolBlocks = 3
  Reentrant = FALSE
  MayFail = {"locked"}
SPECIFICATION FairSpec
PROPERTY UpdateReturns
CHECK_DEADLOCK FALSE
