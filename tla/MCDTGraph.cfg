SPECIFICATION Spec
CONSTANT
  MaxVersions = 5
INVARIANTS
  GraphChecks
  QueriesAreHistories
  FrontiersMoveExactly
  ConflictsCoverBoth
  PartsKeepOrder
  ScopeIsProjection
  ConflictGraphsAgree
  PlansAreWalks
CHECK_DEADLOCK FALSE
