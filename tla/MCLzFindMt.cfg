CONSTANTS
  NumHashBlocks = 2
  NumBtBlocks = 1
  HashBlockSize = 2
  BtBlockSize = 1
  NumHashBytes = 2
  MaxLen = 7
SPECIFICATION FairSpec
INVARIANTS StoppedMeansReset BlocksInOrder NothingOverwritten MoveIsAlone
PROPERTY CallsReturn
