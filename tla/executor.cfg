SPECIFICATION Spec
CONSTANTS
  c1 = c1
  d1 = d1
  Calls = {c1}
  Deciders = {d1}
  Idle = Idle
  Requests <- AllRequests
  Prompting = TRUE
INVARIANTS RunsOnlyWhenCleared FlagsAgree LedgerKeepsUp PolicyContains
PROPERTIES LapsedIsNeverSpent EndsUnlessAsking
CHECK_DEADLOCK FALSE
