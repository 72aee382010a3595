CONSTANTS
  t1 = t1
  t2 = t2
  Threads = {t1, t2}
  Digests = {"full", "truncated"}
  CompleteDigests = {"full"}
  MaxCommits = 1
  MaxSnapshots = 1
  Crashes = FALSE
  Faults = FALSE
  Pushes = FALSE
SPECIFICATION Spec
SYMMETRY Symmetry
CHECK_DEADLOCK FALSE
INVARIANTS
  PullHasEvidence
  VerifiedHasEvidence
