SPECIFICATION Spec
CONSTANTS
  t1 = t1
  t2 = t2
  t3 = t3
  Threads <- MCThreads
  NullThread = NullThread
INVARIANTS
  WriterIsAlone
  NoWaiterForgotten
PROPERTIES
  WriterGetsIn
  ReaderGetsIn
