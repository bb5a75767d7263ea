CONSTANTS
  Inputs <- SmallInputs
  Limited = TRUE
  BufferLimit = 4
  MaxRefill = 4
SPECIFICATION FairSpec
CHECK_DEADLOCK FALSE
INVARIANTS BytesConserved ExceededOnlyByLongElement BufferBounded ParsesAsIterator
PROPERTIES DeliveredIsReported
