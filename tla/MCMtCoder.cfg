CONSTANTS
  MaxThreads = 3
  MaxBlocks = 3
  CoderError = {"DATA"}
SPECIFICATION FairSpec
INVARIANTS StreamsHaveOneUser CauseIsReported EventsAreUnused
PROPERTIES ImplementsBlockCoder CallsReturn
