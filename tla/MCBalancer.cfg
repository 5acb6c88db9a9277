SPECIFICATION FairSpec
CONSTANTS
  Endpoints <- MCEndpoints
  MaxCost = 1
  MaxRequests = 2
  MaxCrashes = 2
INVARIANTS
  TypeOK
  AnsweredIfSteady
  CountersLeak
PROPERTIES
  RequestEnds
\* The bounds are used up.
CHECK_DEADLOCK FALSE
