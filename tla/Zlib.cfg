\* A compressing stream: small output and reading buffers, two calls of flush().
SPECIFICATION FairSpec
CONSTANTS
  Inflates = FALSE
  HighWaterMark = 2
  ChunkSize = 2
  Lengths = {1, 3}
  Kinds = {2, 3}
  MaxUnits = 4
  MaxFlushes = 2
INVARIANTS TypeOK Flushed
PROPERTIES IsPipe Ends
CHECK_DEADLOCK FALSE
