CONSTANTS
  Numbers = {"0", "1", "2"}
  Value <- MCValue
  Lengths = {1, 2}
  Raws = {1, 2, 3, 4, 5, 6, 7, 8}
  ChunkSize = 8
  Streams <- ExactStreams
  ExactFills = TRUE
SPECIFICATION Spec
INVARIANT ReadsWhatIsThere
CHECK_DEADLOCK FALSE
