\* When every client has come and gone nothing is left to happen.
CONSTANTS
  Fds = {f1, f2}
  Clients = {c1, c2}
SPECIFICATION Spec
INVARIANTS
  TypeOK
  SlotNotShared
  HandlersMeetTheirOwn
  StaleCallbacksAreToldApart
PROPERTIES
  TasksAreCalledBack
  SocketsAreReleased
CHECK_DEADLOCK FALSE
