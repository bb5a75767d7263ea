CONSTANTS
  Transmitters = {t1}
  Listeners = {l1, l2}
  Readers = {l1}
  NoOne = NoOne
  MpscBuffer = 1
  Exclusive = FALSE
  MaxChunks = 4
SPECIFICATION FairSpec
PROPERTIES SendsComplete ReadersServed EvictedEnd
