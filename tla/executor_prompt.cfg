SPECIFICATION Spec
CONSTANTS
  c1 = c1
  d1 = d1
  Calls = {c1}
  Deciders = {}
  Idle = Idle
  Requests <- AllRequests
  Prompting = TRUE
PROPERTY ImplementsApproval
CHECK_DEADLOCK FALSE
