CONSTANTS
  Agents = {0, 1}
  Docs = {d1, d2}
  MaxOps = 4
SYMMETRY Symmetry
SPECIFICATION Spec
INVARIANTS
  AssertionsHold
  SameEventsSameContent
  ContentIsFugue
PROPERTIES
  NothingReturnsOrMoves
  ExchangesEvents
CHECK_DEADLOCK FALSE
