CONSTANTS
  ItemCount = 3
  CommitCount = 3
  Models = {1, 2}
  Provider <- TwoProviders
  Preference <- SamePreference
  Critics = {1, 2}
  Specialists <- SmallStaff
  Answers = {"pass", "fail"}
  MaxTurns = 2
  MaxToolCalls = 1
  Keys = {"k"}
  Plans <- SmallPlans
  Results = {"failed", "abstained"}
  Producers = {1}
  Decisions = {"working", "verified_success"}
  MaxRestarts = 1
SPECIFICATION FairSpec
CHECK_DEADLOCK FALSE
INVARIANTS
  CoordinationTypeOK
  PlanReplays
  AcceptedIsBacked
  NoMovingTarget
  ContinueHasWork
  StoredReplays
PROPERTIES
  ItemsAdvance
  CallsReturn
