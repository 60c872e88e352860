\* A client may stop in the middle of a request.
CONSTANTS
  Numbers = {"0", "1", "2"}
  Value <- MCValue
  Lengths = {1, 2}
  Raws = {1, 2, 3, 4, 5, 6, 7, 8}
  ChunkSize = 8
  Streams <- MCStreams
  ExactFills = FALSE
SPECIFICATION Spec
INVARIANTS
  HandsWhatWasSent
  NothingLeftBehind
  BodyStays
  PiecesFit
CHECK_DEADLOCK FALSE
