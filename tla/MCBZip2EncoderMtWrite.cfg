CONSTANTS
  NumThreads = 2
  MaxBlocks = 2
  Failure = {"WRITE"}
SPECIFICATION FairSpec
PROPERTY CallsReturn
CHECK_DEADLOCK FALSE
