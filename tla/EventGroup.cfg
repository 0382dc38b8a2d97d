CONSTANTS
  t1 = t1
  t2 = t2
  ready = ready
  Tasks = {t1, t2}
  Flags = {ready}
  TimerQueue = 2
  MaxRaises = 2
SPECIFICATION FairSpec
INVARIANTS
  TypeOK
  NothingFromNowhere
  AnswerMatchesKernel
PROPERTIES
  SyncReturns
CHECK_DEADLOCK FALSE
