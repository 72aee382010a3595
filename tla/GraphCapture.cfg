CONSTANTS
  NodeCount = 3
  Graphs <- SmallGraphs
  Results <- SomeResults
  MaxGraphEvents = 5
SPECIFICATION CaptureSpec
CHECK_DEADLOCK FALSE
INVARIANTS
  CaptureTypeOK
  ReplayAgrees
  BlockedByUpstream
  ContinueHasWork
  DependenciesFirst
  StoredReplays
  StoredInOrder
PROPERTIES
  StatesAdvance
  CaptureFaithful
