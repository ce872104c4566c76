\* Four messages, split and coalesced, and processes that die.
SPECIFICATION FairSpec
CONSTANTS
  Ends = {parent, child}
  MaxSends = 4
  Splits = TRUE
  Coalesce = TRUE
  Crashes = TRUE
INVARIANTS TypeOK OneHandleAtATime
PROPERTIES IsFifo Settles
CHECK_DEADLOCK FALSE
