CONSTANTS
  a = a
  b = b
  c = c
  case = case
  None = None
  Models = {a, b, c}
  Candidates = {b, c}
  LearningKinds = {"experience", "evaluation"}
  MaxLearned = 2
  CriticalCases = {case}
  BenchmarkRuns <- MCRuns
  WindowRuns <- MCWindows
  Observations <- MCObservations
  StabilityRounds = 1
  RecoveryRounds = 1
  DriftWindows = 2
  DegradedInARow = 2
  MaxGenerations = 4
  MaxStuck = 1
SYMMETRY Symmetric
SPECIFICATION Spec
CHECK_DEADLOCK FALSE
INVARIANTS
  TypeOK
  RegistryReloads
  EvidenceBacked
  RollbackReturns
PROPERTIES
  WatchesReload
  OrchestrationsReload
