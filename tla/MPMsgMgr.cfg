SPECIFICATION Spec
\* the failed assertion of processSendQueue stops its dispatcher for good
CHECK_DEADLOCK FALSE
CONSTANTS
  v1 = v1
  v2 = v2
  c1 = c1
  c2 = c2
  w1 = w1
  w2 = w2
  m1 = m1
  NULL = NULL
  VPs <- MCVPs
  Clients <- MCClients
  Workers <- MCWorkers
  Holders <- MCHolders
  Targets <- MCTargets
  Home <- MCHome
INVARIANTS
  ReachedOnce
  QueueAnnounced
  ReturnsServed
PROPERTY AllHandled
