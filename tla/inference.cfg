SPECIFICATION Spec
CONSTANTS
  Objectives = {o1, o2}
  Probes = {h}
  MaxRepairs = 1
  MaxTurns = 2
  MaxCloses = 2
SYMMETRY Symmetry
INVARIANTS JsonModeIsOwn TurnsAreAccounted
CHECK_DEADLOCK FALSE
