SPECIFICATION Spec
CONSTANTS
  h1 = h1
  h2 = h2
  h3 = h3
  h4 = h4
  Handlers <- MCHandlers
  ASYNC_BUSY_HANDLER_MAX = 3
  HDR_LENGTH = 1
  MSG_LENGTH = 1
  CAPACITY = 3
  WORD = 1
  Senders = 2
INVARIANTS
  HandlersCounted
  NoneStranded
PROPERTY MessagesTaken
