\* A pool that was stopped and joined has nothing left to do.
CONSTANTS
  N = 2
  Tasks = {k1, k2, k3}
  Posters = {p1, p2}
  MayStop = TRUE
SPECIFICATION Spec
INVARIANTS
  TypeOK
  EachTaskOnce
  PostIsNotSleptOver
PROPERTY PostedIsRun
CHECK_DEADLOCK FALSE
