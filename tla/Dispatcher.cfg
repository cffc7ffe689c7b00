SPECIFICATION Spec
CONSTANTS
  b1 = b1
  b2 = b2
  e1 = e1
  Threads <- MCThreads
  Extended <- MCExtended
  NULL = NULL
  Groups = {0, 1}
  FaultIDs = {0}
  RetryIDs = {0}
  MaxOutstanding = 2
CONSTRAINT Bounded
SYMMETRY Alike
INVARIANTS
  InOnePlace
  TailIsLast
  NoneStranded
  FaultListExact
PROPERTY CompletionNotLost
