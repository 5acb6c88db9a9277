SPECIFICATION FairSpec
CONSTANTS
  c1 = c1
  c2 = c2
  f1 = f1
  f2 = f2
  Clients = {c1, c2}
  Balancer = balancer
  Fronts = {f1, f2}
  Backs = {b1}
  Mode <- MCMode
  MaxCrashes = 2
  None = None
  Gone = Gone
INVARIANTS
  TypeOK
  DeadlocksKnown
PROPERTIES
  EveryCallEnds
\* A deadlock of the system is a state the properties are about.
CHECK_DEADLOCK FALSE
