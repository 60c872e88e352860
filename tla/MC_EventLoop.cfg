CONSTANTS
  Threads = {c1, c2}
  Works = {w1, w2, w3}
  Fds = {f1}
  Timers = {t1}
  EarlyStop = FALSE
SPECIFICATION Spec
INVARIANTS
  TypeOK
  NoLostWakeup
  NoLostStop
PROPERTIES
  ExecutesInOrder
  QueuedIsExecuted
  StopEndsLoop
