CONSTANTS
  NumThreads = 3
  MaxBlocks = 4
  Failure = {"READ", "PROGRESS"}
  DecoderFailure = {}
SPECIFICATION mcSpec
INVARIANTS BothWriteInOrder ResultIsRight BothAreParked
PROPERTY CallsReturn
