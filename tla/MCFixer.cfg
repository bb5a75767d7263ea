CONSTANTS
  U64 = 64
  AssumedDuration = 3
  Timecodes <- SmallTimecodes
  BlockTimes <- SmallBlockTimes
  EarlyBlocks = FALSE
  MaxClock = 40
  MaxFed = 8
  Times = {0, 4, 11}
  MaxTaken = 7
SPECIFICATION FixerSpec
CHECK_DEADLOCK FALSE
INVARIANTS OneHeaderFirst
PROPERTIES NoOverlap ResumesAtKeyframe NoSkips OnePiece WholeClusters
