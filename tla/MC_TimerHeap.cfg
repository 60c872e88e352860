CONSTANTS
  Timers = {t1, t2, t3, t4}
  Durations = {0, 1, 2}
  Repeating = {t1}
  MaxNow = 2
  OwnRepeat = FALSE
SYMMETRY Symmetry
SPECIFICATION Spec
INVARIANTS
  TypeOK
  HeapOrdered
  IndexesRight
  HoldsAwaited
PROPERTY ExpiresInTurn
