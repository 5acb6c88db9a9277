SPECIFICATION Spec
CONSTANTS
  Callers = {t1}
  Balancers = {b1, b2}
  Providers = {}
  Mode = "SERVER"
  MaxCalls = 1
  MaxCrashes = 1
  MaxCuts = 0
INVARIANTS
  RequestsAreServed
CHECK_DEADLOCK FALSE
