SPECIFICATION Spec
CONSTANTS
  LE = 4
  Docs = {1, 2}
  Base = 1
  BaseAgent = 0
  MaxOwn = 2
  MaxAll = 3
  Keepers = {1}
  Rewinders = {1}
  Senders = {1}
  TakesSplitAgents = FALSE
  SendsPartDeletes = FALSE
CHECK_DEADLOCK FALSE
INVARIANTS LogsKeepOps SameEventsSameText BranchesAreCheckouts
