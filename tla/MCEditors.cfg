CONSTANTS
  Agents = {0, 1}
  MaxOps = 3
  MaxLen = 2
SPECIFICATION Spec
INVARIANTS
  OpsTravelWithEvents
  BranchIsItsVersion
PROPERTIES
  BranchesOnlyAdvance
CHECK_DEADLOCK FALSE
