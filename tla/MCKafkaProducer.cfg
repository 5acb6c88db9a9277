SPECIFICATION FairSpec
CONSTANTS
  Requests = {r1, r2, r3}
  MaxRefused = 1
INVARIANTS
  TypeOK
  LogFollowsOrder
PROPERTIES
  EveryCallLogged
\* The system rests once every request was sent and nobody replays.
CHECK_DEADLOCK FALSE
