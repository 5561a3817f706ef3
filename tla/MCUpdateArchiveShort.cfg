SPECIFICATION Spec
CONSTANTS
  NumNames = 1
  MaxRuns = 1
  CommandLists <- MCCommandLists
  LaterInputs <- MCLaterInputs
  ShortWrites = TRUE
INVARIANT SuccessMatchesManual
CHECK_DEADLOCK FALSE
