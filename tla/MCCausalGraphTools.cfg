CONSTANTS
  Agents = {0, 1}
  MaxLV = 5
  MaxSeq = 3
  MaxLen = 1
  MaxPaired = 4
SPECIFICATION SpecContiguous
CONSTRAINT FirstByAgentZero
INVARIANTS
  MovesAreExact
  ContainmentIsExact
  ConflictSplitsHistory
  ExchangeDeliversAll
CHECK_DEADLOCK FALSE
