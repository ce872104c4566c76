\* One worker listens and dies, and its exit is noticed before its channel ends; another disconnects.
SPECIFICATION Spec
CONSTANTS
  Workers = {w1, w2}
  Conns = {c1}
  NoConn = NoConn
  MaxListens = 2
  Overlap = FALSE
  ExitFirst = TRUE
INVARIANTS NoLeak
CHECK_DEADLOCK FALSE
