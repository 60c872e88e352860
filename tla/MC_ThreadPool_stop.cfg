CONSTANTS
  N = 2
  Tasks = {k1}
  Posters = {p1}
  MayStop = TRUE
SPECIFICATION Spec
PROPERTY StopReturns
CHECK_DEADLOCK FALSE
