CONSTANTS
  Transmitters = {t1, t2}
  Listeners = {l1}
  Readers = {}
  NoOne = NoOne
  MpscBuffer = 1
  Exclusive = FALSE
  MaxChunks = 3
SPECIFICATION Spec
SYMMETRY Symmetry
INVARIANTS RemembersWhileLive
