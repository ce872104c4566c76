\* Three requests or pieces of their bodies, three calls by the user.
SPECIFICATION Spec
CONSTANTS
  MaxInput = 3
  MaxCalls = 3
  Mark = 2
  HalfOpens = {TRUE, FALSE}
  Expecting = {2}
  Careless = FALSE
INVARIANTS TypeOK InOrder Accounted NoStall Closes
CHECK_DEADLOCK FALSE
