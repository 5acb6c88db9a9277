SPECIFICATION Spec
CONSTANTS
  Conns = {c1, c2}
  Fds = {f1, f2}
  NoFd = NoFd
  Slots = 1
  BodyLen <- MCBodyLen
  Cuts <- MCAllCuts
  MaxRequests = 2
  CloseWhen = "any"
  Failing = {c2}
SYMMETRY MCFdSymmetry
INVARIANTS
  TypeOK
  FutureOwner
  PartialsBelong
  AnswersOwn
\* The server stops when its process ends, and waits when no client is left.
CHECK_DEADLOCK FALSE
