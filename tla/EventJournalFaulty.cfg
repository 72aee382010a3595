CONSTANTS
  e1 = e1
  w1 = w1
  w2 = w2
  Writers = {w1, w2}
  Events = {e1}
  MaxBuilds = 4
  CrashLeaves = {"nothing", "torn", "unterminated", "whole"}
  DiskErrors = TRUE
SPECIFICATION Spec
CHECK_DEADLOCK FALSE
INVARIANTS
  LossDetected
PROPERTIES
  AppendOnly
