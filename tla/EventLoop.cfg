\* Three ticks, three immediates, two exceptions; the queue is trimmed beyond 1.
SPECIFICATION FairSpec
CONSTANTS
  MaxIndex = 1
  MaxTicks = 3
  MaxImmediates = 3
  MaxThrows = 2
INVARIANTS TypeOK TickOrder Kept
PROPERTIES AllRun
CHECK_DEADLOCK FALSE
