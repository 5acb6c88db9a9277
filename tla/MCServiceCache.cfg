SPECIFICATION FairSpec
CONSTANTS
  Keys = {k1, k2}
  Values = {v1}
  CacheSize = 1
  Kinds = {"get", "insert", "erase", "set"}
  MaxOps = 3
  RedisFails = FALSE
  Shutdown = TRUE
INVARIANTS
  ChangesKept
  SetReplaces
PROPERTIES
  RedisConverges
\* The process may end: the two threads collide on the connection.
CHECK_DEADLOCK FALSE
