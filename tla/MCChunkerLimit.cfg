CONSTANTS
  U64 = 64
  Elements <- SmallElements
  Limited = TRUE
  BufferLimit = 3
  MaxElements = 4
SPECIFICATION Spec
CHECK_DEADLOCK FALSE
INVARIANTS DroppedOnlyAboveLimit
