SPECIFICATION EventSpec
CONSTANTS
  Task = Task
  Approver = Approver
  Neighbour = Neighbour
  Related = {Approver}
  Unrelated = {Neighbour}
  Quota <- Quotas
  HistorySize = 3
  HistoryLimit = 2
  QueueSize = 2
  End = End
INVARIANTS CaughtUp LiveInOrder
PROPERTY StreamEnds
CHECK_DEADLOCK FALSE
