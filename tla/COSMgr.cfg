CONSTANTS
  N = 2
  t0 = t0
  t1 = t1
  r0 = r0
  o1 = o1
  o2 = o2
  Threads = {t0, t1}
  VPOf <- MC_VPOf
  None = None
  Refs = {r0}
  HomeOf <- MC_HomeOf
  Roots = {o1, o2}
  MultiRep = {o1}
SPECIFICATION Spec
INVARIANTS
  NoUseAfterCleanup
  FreeRefUnused
  ListedRootsAlive
PROPERTIES
  ImplementsThreadMarkers
  DestroyedIsReclaimed
