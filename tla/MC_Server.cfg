\* A server that is stopped, or out of descriptors, may do nothing more.
CONSTANTS
  Fds = {0, 1, 2}
  MaxConnection = 2
  MaxOnce = 2
  LoopNum = 2
  Clients = 2
  MaxFiles = 1
  Signals = {1}
  Callers = {c1}
  OneByOne = TRUE
SPECIFICATION Spec
INVARIANTS
  TypeOK
  BacklogIsSeen
  DescriptorsAreOwned
PROPERTIES
  SignalsAreHandled
  StopEndsServer
  JoinedOnce
CHECK_DEADLOCK FALSE
