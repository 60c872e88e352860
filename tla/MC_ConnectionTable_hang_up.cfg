\* When every client has come and gone nothing is left to happen.
CONSTANTS
  Fds = {f1}
  Clients = {c1, c2}
SPECIFICATION Spec
INVARIANT CallbackKeepsToItsOwn
CHECK_DEADLOCK FALSE
