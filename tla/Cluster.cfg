\* Two workers, two connections.
SPECIFICATION FairSpec
CONSTANTS
  Workers = {w1, w2}
  Conns = {c1, c2}
  NoConn = NoConn
  MaxListens = 3
  Overlap = FALSE
  ExitFirst = FALSE
INVARIANTS TypeOK Dispatching
PROPERTIES Dispatched
CHECK_DEADLOCK FALSE
