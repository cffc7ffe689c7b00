SPECIFICATION RingSpec
CONSTANTS
  HDR_LENGTH = 1
  MSG_LENGTH = 2
  CAPACITY = 4
  WORD = 2
  MaxStores = 4
CHECK_DEADLOCK FALSE
INVARIANTS
  FetchedInOrder
PROPERTY AllFetched
