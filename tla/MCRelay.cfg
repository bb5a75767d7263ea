CONSTANTS
  Transmitters = {t1, t2}
  Listeners = {l1}
  Readers = {l1}
  NoOne = NoOne
  MpscBuffer = 1
  Exclusive = TRUE
  MaxChunks = 5
SPECIFICATION RelaySpec
INVARIANTS RemembersWhileLive PlayableStream PlayableAtClient
PROPERTIES KeyframesReachClient
