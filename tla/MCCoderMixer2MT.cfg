CONSTANTS
  b1 = b1  b2 = b2
  NumCoders = 3
  Binder = {b1, b2}
  BindInfo <- mcBindInfo
  CoderResult = {"S_OK", "E_ABORT", "E_NOTIMPL"}
  NoBinder = NoBinder
SPECIFICATION FairSpec
INVARIANTS ResultsAreFinal NothingLeftBehind SuccessLosesNothing CauseIsReported
PROPERTY CallsReturn
