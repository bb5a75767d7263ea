CONSTANTS
  U64 = 64
  Elements <- SmallElements
  Limited = TRUE
  BufferLimit = 3
  MaxElements = 6
SPECIFICATION Spec
CHECK_DEADLOCK FALSE
INVARIANTS HeadersThenClusters ChunksAsDefined EndsAsDefined RefusedAtLimit
