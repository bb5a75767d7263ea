------------------------------- MODULE Viewer -------------------------------
(***************************************************************************)
(* What the relay does between a Listener and the client (get_stream in    *)
(* src/commands/relay.rs): every chunk goes through a ChunkTimecodeFixer   *)
(* and then a StartingPointFinder (src/fixers.rs). One step is one chunk.  *)
(* The chunks arrive in the order Channel!NoGaps and Channel!PlayableStream*)
(* describe: uploads one after the other, each starting with its Headers.  *)
(* What the stages only pass on (the end of the stream) is left out.       *)
(***************************************************************************)
EXTENDS TimecodeFixer

CONSTANT MaxFed  \* bound: chunks fed

ASSUME ViewerAssumption == MaxFed \in Nat

VARIABLES
  seen_header, seen_keyframe, \* the StartingPointFinder
  fed,        \* history: chunks fed so far
  session,    \* history: uploads fed so far, counted by their Headers
  headersOut, \* history: Headers chunks forwarded
  lastOut     \* history: the last cluster forwarded

viewerVars == <<current_offset, last_observed_timecode, seen_header,
                seen_keyframe, fed, session, headersOut, lastOut>>

(* A forwarded cluster, with its place in the input; serial 0 is none.     *)
Forwarded == [serial : Nat, session : Nat, head : ClusterHeadType]
NoCluster == [serial |-> 0, session |-> 0, head |-> NewHead(0)]

-----------------------------------------------------------------------------
(* ChunkTimecodeFixer::new and find_starting_point                         *)
ViewerInit ==
  /\ current_offset = 0
  /\ last_observed_timecode = 0
  /\ seen_header = FALSE
  /\ seen_keyframe = FALSE
  /\ fed = 0
  /\ session = 0
  /\ headersOut = 0
  /\ lastOut = NoCluster

(* Mutant: a later Headers chunk does not send the viewer back to waiting. *)
FeedHeadersStays ==
  /\ fed < MaxFed
  /\ headersOut' = IF seen_header THEN headersOut ELSE headersOut + 1
  /\ seen_header' = TRUE
  /\ fed' = fed + 1
  /\ session' = session + 1
  /\ UNCHANGED <<current_offset, last_observed_timecode, seen_keyframe, lastOut>>

(* Mutant: every Headers chunk is forwarded.                               *)
FeedHeadersAll ==
  /\ fed < MaxFed
  /\ headersOut' = headersOut + 1
  /\ seen_keyframe' = IF seen_header THEN FALSE ELSE seen_keyframe
  /\ seen_header' = TRUE
  /\ fed' = fed + 1
  /\ session' = session + 1
  /\ UNCHANGED <<current_offset, last_observed_timecode, lastOut>>

(* A Headers chunk: the first is forwarded; a later one is swallowed and   *)
(* sends the viewer back to waiting for a keyframe.                        *)
FeedHeaders ==
  /\ fed < MaxFed
  /\ IF seen_header
     THEN /\ seen_keyframe' = FALSE
          /\ UNCHANGED <<seen_header, headersOut>>
     ELSE /\ seen_header' = TRUE
          /\ headersOut' = headersOut + 1
          /\ UNCHANGED seen_keyframe
  /\ fed' = fed + 1
  /\ session' = session + 1
  /\ UNCHANGED <<current_offset, last_observed_timecode, lastOut>>

(* Mutant: only clusters that have a keyframe are forwarded.               *)
FeedClusterKeyed(head) ==
  /\ fed < MaxFed
  /\ session > 0
  /\ last_observed_timecode <= MaxClock
  /\ current_offset' = NextOffset(head.start)
  /\ last_observed_timecode' = Process(head).end
  /\ seen_keyframe' = head.keyframe
  /\ lastOut' = IF seen_keyframe'
                THEN [serial |-> fed + 1, session |-> session, head |-> Process(head)]
                ELSE lastOut
  /\ fed' = fed + 1
  /\ UNCHANGED <<seen_header, session, headersOut>>

(* A cluster: its time is fixed, and it is forwarded from a keyframe on.   *)
FeedCluster(head) ==
  /\ fed < MaxFed
  /\ session > 0
  /\ last_observed_timecode <= MaxClock
  /\ current_offset' = NextOffset(head.start)
  /\ last_observed_timecode' = Process(head).end
  /\ seen_keyframe' = (seen_keyframe \/ head.keyframe)
  /\ lastOut' = IF seen_keyframe'
                THEN [serial |-> fed + 1, session |-> session, head |-> Process(head)]
                ELSE lastOut
  /\ fed' = fed + 1
  /\ UNCHANGED <<seen_header, session, headersOut>>

ViewerNext == FeedHeaders \/ \E head \in ClusterHeads : FeedCluster(head)

ViewerSpec == ViewerInit /\ [][ViewerNext]_viewerVars

-----------------------------------------------------------------------------
ViewerTypeOK ==
  /\ current_offset \in u64
  /\ last_observed_timecode \in u64
  /\ seen_header \in BOOLEAN
  /\ seen_keyframe \in BOOLEAN
  /\ fed \in 0..MaxFed
  /\ session \in Nat
  /\ headersOut \in Nat
  /\ lastOut \in Forwarded

(* The client gets exactly one initialization segment, and before any      *)
(* cluster, however many uploads follow one another (StartingPointFinder). *)
OneHeaderFirst ==
  /\ headersOut <= 1
  /\ lastOut # NoCluster => headersOut = 1

(* A step that forwards a cluster.                                         *)
Forwards == lastOut' # lastOut

(* "Cluster timestamps are rewritten to be monotonic" (README): a          *)
(* forwarded cluster never starts before the start of the one before it.   *)
MonotonicStarts ==
  [][Forwards => lastOut'.head.start >= lastOut.head.start]_viewerVars

(* Nor before its end: chained uploads do not overlap in the viewer's time *)
(* whichever clusters the StartingPointFinder left out in between.         *)
NoOverlap ==
  [][Forwards => lastOut'.head.start >= lastOut.head.end]_viewerVars

(* The first cluster a client gets of each upload contains a keyframe.     *)
ResumesAtKeyframe ==
  [][Forwards /\ lastOut'.session # lastOut.session => lastOut'.head.keyframe]_viewerVars

(* Once some cluster of an upload was forwarded, all that follow are.      *)
NoSkips ==
  [][Forwards /\ lastOut'.session = lastOut.session
       => lastOut'.serial = lastOut.serial + 1]_viewerVars

=============================================================================
