SPECIFICATION Spec
CONSTANTS
  c1 = c1
  d1 = d1
  Calls = {c1}
  Deciders = {d1}
  Idle = Idle
  Requests <- GateRequests
  Prompting = TRUE
PROPERTY AnswersAreFinal
CHECK_DEADLOCK FALSE
