CONSTANTS
  t1 = t1
  t2 = t2
  Threads = {t1, t2}
  Digests = {"full"}
  CompleteDigests = {"full"}
  MaxCommits = 1
  MaxSnapshots = 1
  Crashes = FALSE
  Faults = FALSE
  Pushes = FALSE
SPECIFICATION Spec
CHECK_DEADLOCK FALSE
PROPERTIES
  FailedIsTerminal
