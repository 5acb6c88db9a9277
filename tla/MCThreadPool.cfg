SPECIFICATION FairSpec
CONSTANTS
  Workers = {w1, w2, w3}
  Callers = {c1, c2}
  Waiters = {v1}
  Tasks = {t1, t2}
  NoTask = NoTask
  NoOne = NoOne
  Shutdown = TRUE
INVARIANTS
  TypeOK
  TasksSerialized
  NoLostWakeup
PROPERTIES
  WaitAllLeavesAtMostOne
  ImplementsExecutor
  TasksExecuted
  ShutdownCompletes
\* The pool stops once it is destroyed, or hangs in its destructor.
CHECK_DEADLOCK FALSE
