CONSTANTS
  Ends = {0, 2, 3, 5}
  None = None
  Other = Other
  Horizon = 5
  MaxTime = 12
  MaxChunks = 4
SPECIFICATION FairSpec
INVARIANTS NoDrift
PROPERTIES RealTime AllForwarded
CHECK_DEADLOCK FALSE
