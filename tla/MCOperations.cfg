SPECIFICATION mcSpec
CONSTANTS
  NumNames = 2
  MaxRuns = 2
  CommandLists <- MCCommandLists
  LaterInputs <- MCLaterInputs
  ShortWrites = FALSE
  CacheSize = 4
  BlockSize = 2
  Byte = {0, 1}
  Zero = 0
  MaxStore = 3
  Data <- mcData
  Sizes <- mcSizes
  MaxSize = 6
  Places = {0, 3, 5}
  MayFail = {"call"}
  ItemName = {"a", "b"}
  Archives <- mcArchives
  Disks <- mcDisks
  MaxSuffix = 3
INVARIANTS CopiesSurvive FailureChangesNothing SuccessMatchesManual NothingLostUnasked EachItemReportedOnce SuccessIsExtracted FieldsAgree
PROPERTIES OnlyOwnFiles ImplementsOutFile VolumesImplementOutFile
CHECK_DEADLOCK FALSE
