SPECIFICATION FairSpec
CONSTANTS
  Callers = {t1}
  Balancers = {b1}
  Providers = {p1, p2}
  Mode = "CLIENT"
  MaxCalls = 2
  MaxCrashes = 1
  MaxCuts = 1
INVARIANTS
  TypeOK
  TablesAgree
  ResultIsOwn
PROPERTIES
  ImplementsCalls
  CallsEnd
\* The process may end, and the constructor may throw.
CHECK_DEADLOCK FALSE
