\* A connection that was closed, or has nothing left to answer, stops.
CONSTANTS
  N = 2
  Kinds = {"length", "generator", "async_chunked", "marked", "bad"}
  Chunks = 2
  Room = 2
SPECIFICATION Spec
INVARIANTS
  TypeOK
  ResponsesInOrder
  AnsweredIsWhole
  ResponderIsAlone
PROPERTY EveryRequestIsAnswered
CHECK_DEADLOCK FALSE
