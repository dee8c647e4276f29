CONSTANTS
  Dummy = Dummy
  NULL = NULL
  Threads = {t1, t2, t3}
  Urls = {u1, u2}
  Nodes = {n1, n2, n3}
  MAX_CACHE_SIZE = 3
  MAX_OBJECT_SIZE = 2
  Asks <- AnyKey
  Sizes = {1}
  ActiveBound = 2
  StackBound = 3
  BadRequests = FALSE
  NetworkFails = FALSE
  MallocFails = FALSE
SPECIFICATION FairSpec
PROPERTY RequestsServed
CHECK_DEADLOCK FALSE
