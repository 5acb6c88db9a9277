SPECIFICATION FairSpec
CONSTANTS
  Conns = {c1, c2}
  Fds = {f1, f2, f3}
  NoFd = NoFd
  Slots = 2
  BodyLen <- MCBodyLen
  Cuts <- MCBodyCuts
  MaxRequests = 2
  CloseWhen = "idle"
  Failing = {}
INVARIANTS
  RepliesInOrder
PROPERTIES
  EveryRequestAnswered
\* The server stops when its process ends, and waits when no client is left.
CHECK_DEADLOCK FALSE
