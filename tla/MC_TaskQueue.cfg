CONSTANTS
  Threads = {t1, t2, t3}
  Values = {v1, v2, v3}
SPECIFICATION Spec
INVARIANTS
  TypeOK
  NoDataRace
PROPERTIES
  Linearizable
  CallsReturn
