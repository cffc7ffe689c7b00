SPECIFICATION StopSpec
CONSTANTS
  t1 = t1
  t2 = t2
  t3 = t3
  Threads <- MCThreads
  Destroyers <- MCThreads
  NullThread = NullThread
  N = 10
  MaxClosings = 2
INVARIANTS
  RestartFindsNoWaiter
  UnrobbedCloserSeesNoUse
PROPERTIES
  RefusedEnterResolves
  CloseReturns
