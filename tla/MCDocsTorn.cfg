SPECIFICATION Spec
CONSTANTS
  LE = 4
  Docs = {1, 2}
  BaseAgent = 0
  Followers = {1}
  Keys = {1}
  MaxOwn = 2
  MaxAll = 3
  SendsTorn = TRUE
CHECK_DEADLOCK FALSE
INVARIANT SameEventsSameDoc
