SPECIFICATION Spec
CONSTANTS
  t1 = t1
  t2 = t2
  t3 = t3
  Threads <- MCThreads
  LockEl = LockEl
  Nil = Nil
INVARIANTS
  MutualExclusion
  WaiterChainIntact
  LinkTargetAlive
PROPERTIES
  ImplementsFairLock
  QueuedGetsLock
