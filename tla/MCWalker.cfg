CONSTANTS
  Agents = {0, 1}
  MaxOps = 4
  MaxMerged = 3
SPECIFICATION Spec
INVARIANTS
  ItemsAreAtVersion
  MergeIsCheckout
CHECK_DEADLOCK FALSE
