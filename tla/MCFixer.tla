------------------------------- MODULE MCFixer -------------------------------
(* The two users of the ChunkTimecodeFixer, in a u64 of a few bits. A fixer*)
(* is fed by a listener of the relay (Viewer) or by the input of a filter  *)
(* or send command (Filter); which of the two, its first chunk decides.    *)
EXTENDS Viewer, Filter

SmallTimecodes == {0, 2, 5, 9}
SmallBlockTimes == {-6, -2, 0, 1, 4}

FixerInit == ViewerInit /\ FilterInit

ViewerStep ==
  /\ taken = 0 /\ status = "running" /\ start_time = 0 /\ stop_time = U64
  /\ ViewerNext
  /\ UNCHANGED <<start_time, stop_time, chunk, status, taken, lastTaken,
                 clusters, lastKept, written>>

FilterStep ==
  /\ fed = 0
  /\ FilterNext
  /\ UNCHANGED <<seen_header, seen_keyframe, fed, session, headersOut, lastOut>>

FixerNext == ViewerStep \/ FilterStep

FixerSpec == FixerInit /\ [][FixerNext]_<<viewerVars, filterVars>>

=============================================================================
