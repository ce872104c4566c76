\* Three requests through one keep-alive agent.
SPECIFICATION FairSpec
CONSTANTS
  Requests = {r1, r2, r3}
  NoRequest = NoRequest
  MaxSockets = 2
  MaxFreeSockets = 1
  KeepAlive = TRUE
INVARIANTS TypeOK Exclusive NoLostWakeup
PROPERTIES Served
CHECK_DEADLOCK FALSE
