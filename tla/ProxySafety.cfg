CONSTANTS
  Dummy = Dummy
  NULL = NULL
  Threads = {t1, t2, t3, t4}
  Urls = {u1, u2}
  Nodes = {n1, n2, n3}
  MAX_CACHE_SIZE = 3
  MAX_OBJECT_SIZE = 2
  Asks <- AnyKey
  Sizes = {1, 2, 3}
  ActiveBound = 3
  StackBound = 4
  BadRequests = TRUE
  NetworkFails = TRUE
  MallocFails = TRUE
SPECIFICATION Spec
INVARIANTS Inv ItemStillThere SoundUnlessHitsRace KnownLeaks
CHECK_DEADLOCK FALSE
SYMMETRY Symmetry
