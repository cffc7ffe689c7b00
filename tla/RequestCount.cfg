SPECIFICATION Spec
CONSTANTS
  t1 = t1
  t2 = t2
  t3 = t3
  Threads <- MCThreads
  Destroyers <- MCThreads
  NullThread = NullThread
  N = 10
CHECK_DEADLOCK FALSE
INVARIANTS
  WinnerSeesNoUse
  CountExact
  NoEarlyWakeup
PROPERTY OnlyShutdownReturns
