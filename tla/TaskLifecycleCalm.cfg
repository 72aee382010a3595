CONSTANTS
  t1 = t1
  Threads = {t1}
  Digests = {"full"}
  CompleteDigests = {"full"}
  MaxCommits = 2
  MaxSnapshots = 3
  Crashes = FALSE
  Faults = FALSE
  Pushes = FALSE
SPECIFICATION FairSpec
CHECK_DEADLOCK FALSE
INVARIANTS
  HealthIsCurrent
  GateSeesLatest
  RunResumable
  CompletedIsRefreshable
  PullRecorded
PROPERTIES
  RequestsReturn
