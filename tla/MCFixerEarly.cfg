CONSTANTS
  U64 = 64
  AssumedDuration = 3
  Timecodes <- SmallTimecodes
  BlockTimes <- SmallBlockTimes
  EarlyBlocks = TRUE
  MaxClock = 63
  MaxFed = 5
  Times = {0, 4, 11}
  MaxTaken = 5
SPECIFICATION FixerSpec
CHECK_DEADLOCK FALSE
PROPERTIES MonotonicStarts
