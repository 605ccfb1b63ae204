SPECIFICATION Spec
CONSTANTS
  audit = audit
  approval = approval
  rotation = rotation
  prune = prune
  daemon = daemon
  command = command
  Singles = {audit, approval}
  Groups = {rotation, prune}
  Procs = {daemon, command}
  Main = daemon
  ColumnCount = 2
SYMMETRY WriterSymmetry
INVARIANTS OpenIsMigrated WholeUnlessCrossed AcknowledgedIsDurable UndoneLeavesNothing
CHECK_DEADLOCK FALSE
