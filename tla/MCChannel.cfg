CONSTANTS
  Transmitters = {t1, t2}
  Listeners = {l1, l2}
  Readers = {}
  NoOne = NoOne
  MpscBuffer = 1
  Exclusive = FALSE
  MaxChunks = 4
SPECIFICATION Spec
SYMMETRY Symmetry
INVARIANTS TypeOK NoGaps NothingMissed ForgetsWhenIdle DepartedForgotten
PROPERTIES ImplementsBroadcast
