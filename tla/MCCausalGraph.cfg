CONSTANTS
  Agents = {0, 1}
  MaxLV = 4
  MaxSeq = 3
  MaxLen = 2
SPECIFICATION Spec
INVARIANTS
  TypeOK
  EntriesInOrder
  HeadsAreChildless
  MappingsAgree
PROPERTIES
  EventsAreStable
  AddsAreUnions
CHECK_DEADLOCK FALSE
