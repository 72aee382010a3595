CONSTANTS
  t1 = t1
  Threads = {t1}
  Digests = {"full"}
  CompleteDigests = {"full"}
  MaxCommits = 1
  MaxSnapshots = 1
  Crashes = TRUE
  Faults = FALSE
  Pushes = FALSE
SPECIFICATION Spec
CHECK_DEADLOCK FALSE
INVARIANTS
  RunResumable
