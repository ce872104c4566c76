\* Three connections and two slaves.
SPECIFICATION FairSpec
CONSTANTS
  Sockets = {c1, c2, c3}
  Slaves = {s1, s2}
  LateSends = FALSE
INVARIANTS TypeOK Drained
PROPERTIES Closes
CHECK_DEADLOCK FALSE
