CONSTANTS
  t1 = t1  t2 = t2  t3 = t3
  man = man  auto = auto  sem = sem
  Thread = {t1, t2, t3}
  ManualEvent = {man}
  AutoEvent = {auto}
  Semaphore = {sem}
  MaxCount <- mcMaxCount
  MaxRelease = 1
  UIntSize = 8
  LongMax = 7
  HandleLists <- mcHandleLists
  Nobody = Nobody
SPECIFICATION mcSpec
INVARIANT NoLostWakeup
PROPERTIES ImplementsWaitObjects ThreadsImplementWaitObjects BothWaitsReturn
