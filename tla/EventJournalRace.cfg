CONSTANTS
  e1 = e1
  w1 = w1
  w2 = w2
  Writers = {w1, w2}
  Events = {e1}
  MaxBuilds = 2
  CrashLeaves = {}
  DiskErrors = FALSE
SPECIFICATION Spec
SYMMETRY Symmetry
CHECK_DEADLOCK FALSE
INVARIANTS
  RestartReconstructs
