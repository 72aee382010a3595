CONSTANTS
  e1 = e1
  e2 = e2
  w1 = w1
  Writers = {w1}
  Events = {e1, e2}
  MaxBuilds = 5
  CrashLeaves = {"nothing", "whole"}
  DiskErrors = FALSE
SPECIFICATION Spec
CHECK_DEADLOCK FALSE
INVARIANTS
  TypeOK
  RestartReconstructs
  MemoryMirrorsDisk
PROPERTIES
  LogSpec
