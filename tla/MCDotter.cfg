\* Two clients report one dot to two servers, two failures.
SPECIFICATION FairSpec
CONSTANTS
  Clients = {c1, c2}
  Servers = {s1, s2}
  Dots = {d1}
  NoDot = NoDot
  MaxCounts = 3
  MaxCrashes = 2
INVARIANTS
  TypeOK
  CountsConserved
PROPERTIES
  CountsArrive
\* The bounds are used up.
CHECK_DEADLOCK FALSE
