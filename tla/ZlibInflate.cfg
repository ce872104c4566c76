\* A decompressing stream whose last chunk fills the output buffer.
SPECIFICATION Spec
CONSTANTS
  Inflates = TRUE
  HighWaterMark = 2
  ChunkSize = 2
  Lengths = {1, 3}
  Kinds = {2, 3}
  MaxUnits = 4
  MaxFlushes = 0
INVARIANTS Reprocesses
CHECK_DEADLOCK FALSE
