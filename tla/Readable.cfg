\* Two destinations, two chunks of one or two bytes, three calls by the user.
SPECIFICATION FairSpec
CONSTANTS
  Dests = {d1, d2}
  User = User
  HighWaterMark = 2
  DestMark = 2
  Lengths = {1, 2}
  ReadSizes = {1, 3}
  Eagers = {TRUE, FALSE}
  Barge = FALSE
  MaxChunks = 2
  MaxCalls = 3
INVARIANTS TypeOK InOrder NoStall
PROPERTIES Complete
CHECK_DEADLOCK FALSE
