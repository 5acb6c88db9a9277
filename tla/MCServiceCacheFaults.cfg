SPECIFICATION Spec
CONSTANTS
  Keys = {k1, k2, k3}
  Values = {v1}
  CacheSize = 2
  Kinds = {"get", "insert", "erase", "set"}
  MaxOps = 3
  RedisFails = TRUE
  Shutdown = FALSE
SYMMETRY MCSymmetry
INVARIANTS
  TypeOK
  LruTracked
  RepliesBalanced
  NothingInvented
CHECK_DEADLOCK FALSE
