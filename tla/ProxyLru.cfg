CONSTANTS
  Dummy = Dummy
  NULL = NULL
  Threads = {t1, t2, t3, t4, t5, t6}
  Urls = {u1, u2, u3}
  Nodes = {n1, n2, n3}
  MAX_CACHE_SIZE = 3
  MAX_OBJECT_SIZE = 2
  Asks <- AnyKey
  Sizes = {1, 2}
  ActiveBound = 1
  StackBound = 5
  BadRequests = FALSE
  NetworkFails = FALSE
  MallocFails = FALSE
SPECIFICATION Spec
PROPERTY ImplementsLru
CHECK_DEADLOCK FALSE
SYMMETRY Symmetry
