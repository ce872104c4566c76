\* A timeout and an interval, durations 1 and 2, one exception, one tick of drift.
SPECIFICATION FairSpec
CONSTANTS
  Timeouts = {t1}
  Intervals = {i1}
  None = None
  Delays = {1, 2}
  MaxTime = 5
  MaxDrift = 1
  MaxLists = 3
  MaxThrows = 1
INVARIANTS TypeOK Armed
PROPERTIES OnceInTime Fires
CHECK_DEADLOCK FALSE
