SPECIFICATION FairSpec
CONSTANTS
  j1 = j1
  j2 = j2
  Jobs = {j1, j2}
  Probes = {p1}
  MaxStarts = 2
  MaxBeats = 2
INVARIANTS CountersAgree OnlyLateTasksOutliveStop StoppedSaysSo
PROPERTY StopEnds
CHECK_DEADLOCK FALSE
