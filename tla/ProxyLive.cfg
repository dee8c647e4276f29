CONSTANTS
  Dummy = Dummy
  NULL = NULL
  Threads = {t1, t2, t3}
  Urls = {u1, u2, u3}
  Nodes = {n1, n2, n3}
  MAX_CACHE_SIZE = 3
  MAX_OBJECT_SIZE = 2
  Asks <- OwnKey
  Sizes = {1, 2}
  ActiveBound = 3
  StackBound = 3
  BadRequests = TRUE
  NetworkFails = TRUE
  MallocFails = FALSE
SPECIFICATION FairSpec
PROPERTY RequestsServed
CHECK_DEADLOCK FALSE
