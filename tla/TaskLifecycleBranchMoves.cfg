CONSTANTS
  t1 = t1
  Threads = {t1}
  Digests = {"full"}
  CompleteDigests = {"full"}
  MaxCommits = 2
  MaxSnapshots = 2
  Crashes = FALSE
  Faults = FALSE
  Pushes = TRUE
SPECIFICATION Spec
CHECK_DEADLOCK FALSE
INVARIANTS
  HealthIsCurrent
