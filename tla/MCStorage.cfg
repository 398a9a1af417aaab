SPECIFICATION Spec
CONSTANTS
  KindCount = 2
  Capacity = 2
  MaxItems = 4
  MaxCrashes = 2
  MaxPages = 10
  Situations = {}
INVARIANTS
  OpensAgain
  PagesAreOwned
PROPERTY
  SyncedSurvives
CHECK_DEADLOCK FALSE
