CONSTANTS
  Threads = {c1}
  Works = {w1}
  Fds = {f1}
  Timers = {t1, t2}
  EarlyStop = FALSE
SPECIFICATION Spec
INVARIANT SleepsWithinTimers
