\* Four calls: chunks of one byte on a stream that may fail, and of none or one
\* byte on a stream that does not; with and without _writev.
SPECIFICATION FairSpec
CONSTANTS
  HighWaterMarks = {2}
  Uses <- MCUses
  Writevs = {TRUE, FALSE}
  LateWrites = FALSE
  MaxCalls = 4
INVARIANTS TypeOK Accounting Quiescent
PROPERTIES OrderedDelivery Settled
CHECK_DEADLOCK FALSE
