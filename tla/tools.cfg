SPECIFICATION MCFairSpec
CONSTANTS
  a = a
  b = b
  x = x
  first = c1
  Calls = {c1, c2}
  Paths = {a, b, x}
  Writable = {a, b}
  Absent = absent
  Torn = torn
INVARIANTS FoundIsKept AnswersAreTrue LeaderIsGone
PROPERTY CallsAnswer
CHECK_DEADLOCK FALSE
