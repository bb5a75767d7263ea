CONSTANTS
  ByteBits = 4
  Id <- SmallId
  DocType <- SmallDocType
  MaxTrack = 3
  Elements <- SmallElements
  MaxElements = 3
  MaxVarint = 4
  MaxBytes = 7
  Alphabet <- SomeBytes
SPECIFICATION CodecSpec
CHECK_DEADLOCK FALSE
INVARIANTS ReadsBack NothingLeftOver VarintsReadBack VarintsMinimal RewrittenTheSame
PROPERTIES VerdictFinal
