SPECIFICATION Spec
CONSTANTS
  LE = 4
  Writers = {1, 2}
  Base = 1
  BaseWriter = 0
  MaxVersions = 4
  MaxLen = 2
CHECK_DEADLOCK FALSE
INVARIANTS MergesAreCheckouts OneOrder OlderAgrees
