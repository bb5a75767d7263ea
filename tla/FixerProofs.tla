----------------------------- MODULE FixerProofs -----------------------------
(* Proofs about Viewer and Filter, for any width of the timecodes, any     *)
(* clusters, any window and any number of uploads or files. They share     *)
(* what is proved first, of the ChunkTimecodeFixer.                        *)
EXTENDS Viewer, Filter, ClusterHeadProofs, TLAPS

-----------------------------------------------------------------------------
(* The times of the clusters, as the assumptions bound them.               *)
LEMMA ClusterTimes ==
  ASSUME NEW tc \in Timecodes, NEW b \in BlockTimes
  PROVE  /\ tc \in u64 /\ tc \in Nat
         /\ b \in Int /\ b < U64 /\ 0 - b < U64
<1>1. tc \in Nat /\ tc < U64 /\ b \in Int /\ b < U64 /\ 0 - b < U64
  BY FixerAssumption
<1> QED
  BY <1>1, U64Assumption DEF u64

(* A head the chunker builds is one of these two.                          *)
LEMMA ClusterHeadIs ==
  ASSUME NEW head \in ClusterHeads
  PROVE  \E tc \in Timecodes, b \in BlockTimes, key \in BOOLEAN :
           \/ head = HeadOf(tc, b, key) /\ Allowed(tc, b)
           \/ head = LateHeadOf(tc, b, key) /\ Allowed(0, b)
  BY DEF ClusterHeads, Clusters

(* The head of a cluster whose Timecode comes after its block.             *)
LEMMA LateHead ==
  ASSUME NEW tc \in u64, NEW b \in Int, b < U64, 0 - b < U64, NEW key \in BOOLEAN
  PROVE  /\ LateHeadOf(tc, b, key) \in ClusterHeadType
         /\ LateHeadOf(tc, b, key).start = tc
         /\ 0 <= b /\ tc + b < U64 =>
              LateHeadOf(tc, b, key).end \in {tc, tc + b}
<1>1. PICK early : early = [observe_simpleblock_timecode(NewHead(0), b)
                              EXCEPT !.keyframe = key]
  OBVIOUS
<1>2. 0 \in u64
  BY U64Assumption DEF u64
<1>3. PICK seen : seen = observe_simpleblock_timecode(NewHead(0), b)
  OBVIOUS
<1>4. seen \in ClusterHeadType
  BY <1>2, <1>3, NewHeadFacts, ObserveType
<1>5. /\ early.start = 0
      /\ 0 <= 0 + b /\ 0 + b < U64 => early.end \in {0, 0 + b}
  BY <1>1, <1>2, BlockHead
<1>6. early = [seen EXCEPT !.keyframe = key]
  BY <1>1, <1>3
<1>7. /\ seen.start = 0
      /\ 0 <= b /\ b < U64 => seen.end \in {0, b}
  BY <1>4, <1>5, <1>6 DEF ClusterHeadType
<1>8. LateHeadOf(tc, b, key) = [update_timecode(seen, tc) EXCEPT !.keyframe = key]
  BY <1>3 DEF LateHeadOf
<1>9. /\ update_timecode(seen, tc) \in ClusterHeadType
      /\ update_timecode(seen, tc).start = tc
      /\ update_timecode(seen, tc).end = WrapAdd(tc, WrapSub(seen.end, seen.start))
  BY <1>4, UpdateType
<1>10. /\ LateHeadOf(tc, b, key) \in ClusterHeadType
       /\ LateHeadOf(tc, b, key).start = tc
       /\ LateHeadOf(tc, b, key).end = WrapAdd(tc, WrapSub(seen.end, 0))
  BY <1>7, <1>8, <1>9 DEF ClusterHeadType
<1>11. ASSUME 0 <= b, tc + b < U64
       PROVE  WrapAdd(tc, WrapSub(seen.end, 0)) \in {tc, tc + b}
  <2>1. tc \in Nat /\ U64 \in Nat /\ seen.end \in {0, b}
    BY <1>7, <1>11, U64Assumption DEF u64
  <2>2. CASE seen.end = 0
    BY <2>1, <2>2 DEF WrapAdd, WrapSub, u64
  <2>3. CASE seen.end = b
    BY <1>11, <2>1, <2>3 DEF WrapAdd, WrapSub
  <2> QED
    BY <2>1, <2>2, <2>3
<1> QED
  BY <1>10, <1>11

(* The heads the chunker builds.                                           *)
LEMMA ClusterHeadsType == ClusterHeads \subseteq ClusterHeadType
<1>1. ASSUME NEW tc \in Timecodes, NEW b \in BlockTimes, NEW key \in BOOLEAN
      PROVE  /\ HeadOf(tc, b, key) \in ClusterHeadType
             /\ LateHeadOf(tc, b, key) \in ClusterHeadType
  BY ClusterTimes, BlockHead, LateHead DEF HeadOf
<1> QED
  BY <1>1, ClusterHeadIs

(* The state of the fixer.                                                 *)
FixerTypeOK == current_offset \in u64 /\ last_observed_timecode \in u64

LEMMA NextOffsetType ==
  ASSUME FixerTypeOK, NEW start \in u64
  PROVE  NextOffset(start) \in u64
  BY FixerAssumption, WrapAddType, WrapSubType DEF NextOffset, FixerTypeOK

(* A cluster rewritten by the fixer is a head with the keyframe mark it    *)
(* had.                                                                    *)
LEMMA ProcessType ==
  ASSUME FixerTypeOK, NEW head \in ClusterHeads
  PROVE  /\ head \in ClusterHeadType
         /\ NextOffset(head.start) \in u64
         /\ Process(head) \in ClusterHeadType
         /\ Process(head).keyframe = head.keyframe
         /\ Process(head).start = WrapAdd(head.start, NextOffset(head.start))
         /\ Process(head).end
              = WrapAdd(Process(head).start, WrapSub(head.end, head.start))
<1>1. head \in ClusterHeadType /\ head.start \in u64
  BY ClusterHeadsType DEF ClusterHeadType
<1>2. NextOffset(head.start) \in u64
  BY <1>1, NextOffsetType
<1>3. WrapAdd(head.start, NextOffset(head.start)) \in u64
  BY <1>1, <1>2, WrapAddType
<1> QED
  BY <1>1, <1>2, <1>3, UpdateType DEF Process

(* A cluster without early blocks ends after it starts, far from the end   *)
(* of u64.                                                                 *)
LEMMA TimelyHeads ==
  ASSUME ~EarlyBlocks, NEW head \in ClusterHeads
  PROVE  /\ head \in ClusterHeadType
         /\ head.start <= head.end
         /\ head.start + MaxClock + AssumedDuration < U64
         /\ head.end + MaxClock + AssumedDuration < U64
<1>1. PICK tc \in Timecodes, b \in BlockTimes, key \in BOOLEAN :
        \/ head = HeadOf(tc, b, key) /\ tc + b >= 0
        \/ head = LateHeadOf(tc, b, key) /\ 0 + b >= 0
  BY ClusterHeadIs DEF Allowed
<1>2. /\ tc + MaxClock + AssumedDuration < U64
      /\ tc + MaxClock + AssumedDuration + b < U64
  BY FixerAssumption
<1>3. /\ tc \in u64 /\ tc \in Nat /\ b \in Int /\ b < U64 /\ 0 - b < U64
  BY ClusterTimes
<1>4. U64 \in Nat /\ MaxClock \in Nat /\ AssumedDuration \in Nat
  BY FixerAssumption, U64Assumption DEF u64
<1>5. 0 <= tc + b /\ tc + b < U64
  BY <1>1, <1>2, <1>3, <1>4
<1>6. /\ head \in ClusterHeadType /\ head.start = tc
      /\ head.end >= tc /\ head.end \in {tc, tc + b}
  <2>1. CASE head = HeadOf(tc, b, key)
    <3>1. head = [observe_simpleblock_timecode(NewHead(tc), b) EXCEPT !.keyframe = key]
      BY <2>1 DEF HeadOf
    <3> QED
      BY <1>3, <1>5, <3>1, BlockHead
  <2>2. CASE head = LateHeadOf(tc, b, key) /\ 0 + b >= 0
    BY <1>3, <1>5, <2>2, LateHead
  <2> QED
    BY <1>1, <2>1, <2>2
<1> QED
  BY <1>2, <1>3, <1>4, <1>6

(* What ChunkTimecodeFixer::process makes of such a cluster.               *)
LEMMA ProcessTimely ==
  ASSUME ~EarlyBlocks, FixerTypeOK, current_offset <= last_observed_timecode,
         NEW head \in ClusterHeads,
         last_observed_timecode <= MaxClock
  PROVE  /\ Process(head).start >= last_observed_timecode
         /\ Process(head).start >= NextOffset(head.start)
         /\ Process(head).end >= Process(head).start
<1>1. /\ last_observed_timecode \in u64 /\ current_offset \in u64
      /\ current_offset <= last_observed_timecode
      /\ MaxClock \in Nat /\ AssumedDuration \in Nat
  BY FixerAssumption, U64Assumption DEF FixerTypeOK, u64
<1> QED
  BY <1>1, TimelyHeads, MoveBehind DEF Process, NextOffset

-----------------------------------------------------------------------------
(* The viewers of a relay.                                                 *)
LEMMA ViewerFixer ==
  ASSUME ViewerTypeOK
  PROVE  FixerTypeOK /\ fed \in Nat /\ MaxFed \in Nat
  BY ViewerAssumption DEF ViewerTypeOK, FixerTypeOK

LEMMA ViewerTypeStep == ViewerTypeOK /\ [ViewerNext]_viewerVars => ViewerTypeOK'
<1> SUFFICES ASSUME ViewerTypeOK, [ViewerNext]_viewerVars PROVE ViewerTypeOK'
  OBVIOUS
<1>1. CASE FeedHeaders
  <2>1. /\ fed' \in 0..MaxFed
        /\ session' \in Nat
        /\ headersOut' \in Nat
    BY <1>1, ViewerAssumption DEF FeedHeaders, ViewerTypeOK
  <2>2. seen_header' \in BOOLEAN /\ seen_keyframe' \in BOOLEAN
    BY <1>1 DEF FeedHeaders, ViewerTypeOK
  <2> QED
    BY <1>1, <2>1, <2>2 DEF FeedHeaders, ViewerTypeOK
<1>2. ASSUME NEW head \in ClusterHeads, FeedCluster(head) PROVE ViewerTypeOK'
  <2>1. /\ current_offset' \in u64
        /\ last_observed_timecode' \in u64
    BY <1>2, ViewerFixer, ProcessType DEF FeedCluster, ClusterHeadType
  <2>2. seen_keyframe' \in BOOLEAN
    BY <1>2 DEF FeedCluster
  <2>3. lastOut' \in Forwarded
    <3>1. Process(head) \in ClusterHeadType
      BY ViewerFixer, ProcessType
    <3>2. [serial |-> fed + 1, session |-> session, head |-> Process(head)]
            \in Forwarded
      BY <3>1 DEF ViewerTypeOK, Forwarded
    <3> QED
      BY <1>2, <3>2 DEF FeedCluster, ViewerTypeOK
  <2> QED
    BY <1>2, <2>1, <2>2, <2>3, ViewerAssumption DEF FeedCluster, ViewerTypeOK
<1>3. CASE UNCHANGED viewerVars
  BY <1>3 DEF viewerVars, ViewerTypeOK
<1> QED
  BY <1>1, <1>2, <1>3 DEF ViewerNext

(* All times stay within 64 bits, wrapping or not, and the stages keep     *)
(* their types whatever blocks the clusters contain.                       *)
THEOREM ViewerTypeCorrect == ViewerSpec => []ViewerTypeOK
<1>1. ViewerInit => ViewerTypeOK
  <2>1. 0 \in u64
    BY U64Assumption DEF u64
  <2>2. NoCluster \in Forwarded
    BY <2>1, NewHeadFacts DEF NoCluster, Forwarded
  <2> QED
    <3> SUFFICES ASSUME ViewerInit PROVE ViewerTypeOK
      OBVIOUS
    <3>1. seen_header \in BOOLEAN /\ seen_keyframe \in BOOLEAN
      BY DEF ViewerInit
    <3>2. fed \in 0..MaxFed /\ session \in Nat /\ headersOut \in Nat
      BY ViewerAssumption DEF ViewerInit
    <3> QED
      BY <2>1, <2>2, <3>1, <3>2 DEF ViewerInit, ViewerTypeOK
<1> QED
  BY <1>1, ViewerTypeStep, PTL DEF ViewerSpec

-----------------------------------------------------------------------------
(* The StartingPointFinder. What was forwarded last says where the viewer  *)
(* is: in the running upload up to the last chunk fed when a keyframe was  *)
(* seen in it, else in an earlier upload (or nowhere).                     *)
Finding ==
  /\ headersOut = IF seen_header THEN 1 ELSE 0
  /\ session > 0 => seen_header
  /\ lastOut # NoCluster => seen_header
  /\ seen_keyframe => /\ session > 0
                      /\ lastOut.session = session
                      /\ lastOut.serial = fed
  /\ ~seen_keyframe => lastOut.session < session \/ session = 0
  /\ lastOut.session <= session

LEMMA FindingStep == ViewerTypeOK /\ Finding /\ [ViewerNext]_viewerVars => Finding'
<1> SUFFICES ASSUME ViewerTypeOK, Finding, [ViewerNext]_viewerVars PROVE Finding'
  OBVIOUS
<1>0. lastOut.session \in Nat /\ lastOut.serial \in Nat /\ session \in Nat /\ fed \in Nat
  BY ViewerAssumption DEF ViewerTypeOK, Forwarded
<1>1. CASE FeedHeaders
  <2>1. CASE seen_header
    BY <1>0, <1>1, <2>1 DEF FeedHeaders, Finding
  <2>2. CASE ~seen_header
    BY <1>0, <1>1, <2>2 DEF FeedHeaders, Finding, ViewerTypeOK
  <2> QED
    BY <2>1, <2>2
<1>2. ASSUME NEW head \in ClusterHeads, FeedCluster(head) PROVE Finding'
  <2>1. CASE seen_keyframe'
    <3>1. lastOut' = [serial |-> fed + 1, session |-> session, head |-> Process(head)]
      BY <1>2, <2>1 DEF FeedCluster
    <3>2. lastOut'.serial = fed + 1 /\ lastOut'.session = session
      BY <3>1
    <3> QED
      BY <1>0, <1>2, <2>1, <3>2 DEF FeedCluster, Finding
  <2>2. CASE ~seen_keyframe'
    BY <1>0, <1>2, <2>2 DEF FeedCluster, Finding
  <2> QED
    BY <2>1, <2>2
<1>3. CASE UNCHANGED viewerVars
  BY <1>3 DEF viewerVars, Finding
<1> QED
  BY <1>1, <1>2, <1>3 DEF ViewerNext

LEMMA FindingAlways == ViewerSpec => []Finding
<1>1. ViewerInit => Finding
  BY DEF ViewerInit, Finding, NoCluster
<1> QED
  BY <1>1, ViewerTypeCorrect, FindingStep, PTL DEF ViewerSpec

(* The client gets one initialization segment, before any cluster.         *)
THEOREM OneHeaderFirstAlways == ViewerSpec => []OneHeaderFirst
<1>1. Finding => OneHeaderFirst
  BY DEF Finding, OneHeaderFirst
<1> QED
  BY <1>1, FindingAlways, PTL

(* A step that forwards a cluster is FeedCluster, with a keyframe seen.    *)
LEMMA ForwardsFacts ==
  ASSUME ViewerTypeOK, [ViewerNext]_viewerVars, Forwards
  PROVE  \E head \in ClusterHeads :
           /\ FeedCluster(head)
           /\ seen_keyframe \/ head.keyframe
           /\ lastOut'.serial = fed + 1
           /\ lastOut'.session = session
           /\ lastOut'.head = Process(head)
<1>1. PICK head \in ClusterHeads : FeedCluster(head)
  BY DEF ViewerNext, viewerVars, Forwards, FeedHeaders
<1>2. seen_keyframe \/ head.keyframe
  BY <1>1 DEF FeedCluster, Forwards
<1>3. lastOut' = [serial |-> fed + 1, session |-> session, head |-> Process(head)]
  BY <1>1 DEF FeedCluster, Forwards
<1> QED
  BY <1>1, <1>2, <1>3

(* The first cluster forwarded of each upload contains a keyframe: a new   *)
(* Headers chunk makes the StartingPointFinder wait for one again.         *)
THEOREM ResumesAtKeyframeAlways == ViewerSpec => ResumesAtKeyframe
<1>1. ViewerTypeOK /\ Finding /\ [ViewerNext]_viewerVars =>
        [Forwards /\ lastOut'.session # lastOut.session => lastOut'.head.keyframe]_viewerVars
  <2> SUFFICES ASSUME ViewerTypeOK, Finding, [ViewerNext]_viewerVars, Forwards,
                      lastOut'.session # lastOut.session
               PROVE  lastOut'.head.keyframe
    OBVIOUS
  <2>1. PICK head \in ClusterHeads :
           /\ seen_keyframe \/ head.keyframe
           /\ lastOut'.session = session
           /\ lastOut'.head = Process(head)
    BY ForwardsFacts
  <2>2. head.keyframe
    BY <2>1 DEF Finding
  <2> QED
    BY <2>1, <2>2, ViewerFixer, ProcessType
<1> QED
  BY <1>1, ViewerTypeCorrect, FindingAlways, PTL DEF ViewerSpec, ResumesAtKeyframe

(* After that no cluster of the upload is left out.                        *)
THEOREM NoSkipsAlways == ViewerSpec => NoSkips
<1>1. ViewerTypeOK /\ Finding /\ [ViewerNext]_viewerVars =>
        [Forwards /\ lastOut'.session = lastOut.session
           => lastOut'.serial = lastOut.serial + 1]_viewerVars
  <2> SUFFICES ASSUME ViewerTypeOK, Finding, [ViewerNext]_viewerVars, Forwards,
                      lastOut'.session = lastOut.session
               PROVE  lastOut'.serial = lastOut.serial + 1
    OBVIOUS
  <2>1. PICK head \in ClusterHeads :
           /\ FeedCluster(head)
           /\ lastOut'.serial = fed + 1
           /\ lastOut'.session = session
    BY ForwardsFacts
  <2>2. session > 0 /\ session \in Nat /\ lastOut.session \in Nat
    BY <2>1 DEF FeedCluster, ViewerTypeOK, Forwarded
  <2>3. lastOut.serial = fed
    BY <2>1, <2>2 DEF Finding
  <2> QED
    BY <2>1, <2>3
<1> QED
  BY <1>1, ViewerTypeCorrect, FindingAlways, PTL DEF ViewerSpec, NoSkips

-----------------------------------------------------------------------------
(* The ChunkTimecodeFixer. The offset never exceeds the end of what was    *)
(* sent, so neither sum overflows before MaxClock.                         *)
Timely ==
  /\ current_offset <= last_observed_timecode
  /\ lastOut.head.end <= last_observed_timecode

LEMMA TimelyStep ==
  ASSUME ~EarlyBlocks
  PROVE  ViewerTypeOK /\ Timely /\ [ViewerNext]_viewerVars => Timely'
<1> SUFFICES ASSUME ViewerTypeOK, Timely, [ViewerNext]_viewerVars PROVE Timely'
  OBVIOUS
<1>1. CASE FeedHeaders
  BY <1>1 DEF FeedHeaders, Timely
<1>2. ASSUME NEW head \in ClusterHeads, FeedCluster(head) PROVE Timely'
  <2>1. /\ last_observed_timecode <= MaxClock
        /\ current_offset' = NextOffset(head.start)
        /\ last_observed_timecode' = Process(head).end
        /\ lastOut'.head = Process(head) \/ lastOut' = lastOut
    BY <1>2 DEF FeedCluster
  <2>2. /\ Process(head).start >= last_observed_timecode
        /\ Process(head).start >= NextOffset(head.start)
        /\ Process(head).end >= Process(head).start
    BY <2>1, ViewerFixer, ProcessTimely DEF Timely
  <2>3. /\ Process(head).start \in Nat /\ Process(head).end \in Nat
        /\ NextOffset(head.start) \in Nat
        /\ last_observed_timecode \in Nat /\ lastOut.head.end \in Nat
    BY ViewerFixer, ProcessType DEF ClusterHeadType, u64, ViewerTypeOK, Forwarded
  <2> QED
    BY <2>1, <2>2, <2>3 DEF Timely
<1>3. CASE UNCHANGED viewerVars
  BY <1>3 DEF viewerVars, Timely
<1> QED
  BY <1>1, <1>2, <1>3 DEF ViewerNext

LEMMA TimelyAlways == ASSUME ~EarlyBlocks PROVE ViewerSpec => []Timely
<1>1. ViewerInit => Timely
  <2>1. NoCluster.head.end = 0
    BY NewHeadFacts, U64Assumption DEF NoCluster, u64
  <2> QED
    BY <2>1 DEF ViewerInit, Timely
<1> QED
  BY <1>1, ViewerTypeCorrect, TimelyStep, PTL DEF ViewerSpec

(* Without early blocks a forwarded cluster starts no earlier than the one *)
(* before it ended, across any number of uploads and skipped clusters.     *)
THEOREM NoOverlapAlways == ASSUME ~EarlyBlocks PROVE ViewerSpec => NoOverlap
<1>1. ViewerTypeOK /\ Timely /\ [ViewerNext]_viewerVars =>
        [Forwards => lastOut'.head.start >= lastOut.head.end]_viewerVars
  <2> SUFFICES ASSUME ViewerTypeOK, Timely, [ViewerNext]_viewerVars, Forwards
               PROVE  lastOut'.head.start >= lastOut.head.end
    OBVIOUS
  <2>1. PICK head \in ClusterHeads :
           FeedCluster(head) /\ lastOut'.head = Process(head)
    BY ForwardsFacts
  <2>2. Process(head).start >= last_observed_timecode
    BY <2>1, ViewerFixer, ProcessTimely DEF FeedCluster, Timely
  <2>3. /\ Process(head).start \in Nat
        /\ last_observed_timecode \in Nat /\ lastOut.head.end \in Nat
    BY ViewerFixer, ProcessType DEF ClusterHeadType, u64, ViewerTypeOK, Forwarded
  <2> QED
    BY <2>1, <2>2, <2>3 DEF Timely
<1> QED
  BY <1>1, ViewerTypeCorrect, TimelyAlways, PTL DEF ViewerSpec, NoOverlap

-----------------------------------------------------------------------------
(* The filter and send commands.                                           *)
LEMMA FilterFixer == ASSUME FilterTypeOK PROVE FixerTypeOK
  BY DEF FilterTypeOK, FixerTypeOK

LEMMA FilterTypeStep == FilterTypeOK /\ [FilterNext]_filterVars => FilterTypeOK'
<1> SUFFICES ASSUME FilterTypeOK, [FilterNext]_filterVars PROVE FilterTypeOK'
  OBVIOUS
<1>0. MaxTaken \in Nat
  BY FilterAssumption
<1>1. CASE FilterHeaders
  BY <1>0, <1>1 DEF FilterHeaders, Take, FilterTypeOK, ChunkType
<1>2. ASSUME NEW head \in ClusterHeads, FilterCluster(head) PROVE FilterTypeOK'
  <2>1. current_offset' \in u64 /\ last_observed_timecode' \in u64
    BY <1>2, FilterFixer, ProcessType DEF FilterCluster, ClusterHeadType
  <2>2. clusters' \in Nat /\ lastKept' \in Nat
    BY <1>2 DEF FilterCluster, FilterTypeOK
  <2>3. chunk' \in ChunkType \cup {Empty}
    BY <1>2, <2>2 DEF FilterCluster, FilterTypeOK, ChunkType
  <2>4. taken' \in 0..MaxTaken /\ lastTaken' \in {"Empty", "Headers", "Cluster"}
    BY <1>0, <1>2 DEF FilterCluster, Take, FilterTypeOK
  <2>5. UNCHANGED <<start_time, stop_time, status, written>>
    BY <1>2 DEF FilterCluster, Take
  <2> QED
    BY <2>1, <2>2, <2>3, <2>4, <2>5 DEF FilterTypeOK
<1>3. CASE EndOfInput
  BY <1>3 DEF EndOfInput, FilterTypeOK
<1>4. CASE WriteSlice
  <2>1. chunk \in ChunkType /\ Rest(chunk) \in ChunkType \cup {Empty}
    BY <1>4 DEF WriteSlice, Rest, FilterTypeOK, ChunkType
  <2> QED
    BY <1>4, <2>1 DEF WriteSlice, FilterTypeOK, ChunkType
<1>5. CASE WriteFails
  BY <1>5 DEF WriteFails, FilterTypeOK
<1>6. CASE UNCHANGED filterVars
  BY <1>6 DEF filterVars, FilterTypeOK
<1> QED
  BY <1>1, <1>2, <1>3, <1>4, <1>5, <1>6 DEF FilterNext

(* The times stay within 64 bits whatever the files contain.               *)
THEOREM FilterTypeCorrect == FilterSpec => []FilterTypeOK
<1>1. FilterInit => FilterTypeOK
  <2> SUFFICES ASSUME FilterInit PROVE FilterTypeOK
    OBVIOUS
  <2>1. 0 \in u64 /\ U64 \in Nat
    BY U64Assumption DEF u64
  <2>2. start_time \in Nat /\ stop_time \in Nat
    BY <2>1, FilterAssumption DEF FilterInit
  <2> QED
    BY <2>1, <2>2, FilterAssumption DEF FilterInit, FilterTypeOK
<1> QED
  BY <1>1, FilterTypeStep, PTL DEF FilterSpec

-----------------------------------------------------------------------------
(* Between the head of a cluster and its body nothing but the body is due. *)
BodyDue ==
  written.slice = "Cluster" =>
    chunk = [variant |-> "RemainingBody", number |-> written.number]

LEMMA BodyDueStep == FilterTypeOK /\ BodyDue /\ [FilterNext]_filterVars => BodyDue'
<1> SUFFICES ASSUME FilterTypeOK, BodyDue, [FilterNext]_filterVars PROVE BodyDue'
  OBVIOUS
<1>1. ASSUME chunk = Empty, UNCHANGED written PROVE BodyDue'
  BY <1>1 DEF BodyDue, Empty
<1>2. CASE FilterHeaders \/ \E head \in ClusterHeads : FilterCluster(head)
  BY <1>1, <1>2 DEF FilterHeaders, FilterCluster, Take
<1>3. CASE EndOfInput
  BY <1>1, <1>3 DEF EndOfInput
<1>4. CASE WriteSlice
  <2>1. /\ chunk' = Rest(chunk)
        /\ written' = [slice |-> chunk.variant, number |-> chunk.number]
        /\ chunk \in ChunkType
    BY <1>4 DEF WriteSlice, FilterTypeOK
  <2>2. ASSUME chunk.variant = "Cluster"
        PROVE  chunk' = [variant |-> "RemainingBody", number |-> chunk.number]
    BY <2>1, <2>2 DEF Rest, ChunkType
  <2> QED
    BY <2>1, <2>2 DEF BodyDue
<1>5. CASE WriteFails
  BY <1>5 DEF WriteFails, BodyDue
<1>6. CASE UNCHANGED filterVars
  BY <1>6 DEF filterVars, BodyDue
<1> QED
  BY <1>2, <1>3, <1>4, <1>5, <1>6 DEF FilterNext

(* Whatever is written and however the command ends, a cluster whose head  *)
(* is out is completed before anything else, or the command fails.         *)
THEOREM WholeClustersAlways == FilterSpec => WholeClusters
<1>1. FilterInit => BodyDue
  BY DEF FilterInit, BodyDue
<1>2. FilterTypeOK /\ BodyDue /\ [FilterNext]_filterVars =>
        [written.slice = "Cluster" /\ (written' # written \/ status' = "done")
           => written' = [written EXCEPT !.slice = "RemainingBody"]]_filterVars
  <2> SUFFICES ASSUME FilterTypeOK, BodyDue, FilterNext, written.slice = "Cluster",
                      written' # written \/ status' = "done"
               PROVE  written' = [written EXCEPT !.slice = "RemainingBody"]
    BY DEF filterVars
  <2>1. chunk = [variant |-> "RemainingBody", number |-> written.number] /\ chunk # Empty
    BY DEF BodyDue, Empty
  <2>2. WriteSlice
    BY <2>1 DEF FilterNext, FilterHeaders, FilterCluster, Take, EndOfInput, WriteFails
  <2>3. written' = [slice |-> "RemainingBody", number |-> written.number]
    BY <2>1, <2>2 DEF WriteSlice
  <2> QED
    BY <2>3 DEF FilterTypeOK
<1> QED
  BY <1>1, <1>2, FilterTypeCorrect, BodyDueStep, PTL DEF FilterSpec, WholeClusters

-----------------------------------------------------------------------------
(* Where the fixed time is relative to the window: in it or past it once a *)
(* cluster was let through, and past it for good once a later cluster was  *)
(* left out.                                                               *)
Window ==
  /\ current_offset <= last_observed_timecode
  /\ lastKept <= clusters
  /\ lastKept # 0 => last_observed_timecode >= start_time
  /\ lastKept # 0 /\ lastKept < clusters => last_observed_timecode > stop_time

(* A cluster comes after everything before it, and is judged by that.      *)
LEMMA ClusterStep ==
  ASSUME ~EarlyBlocks, FilterTypeOK, Window, NEW head \in ClusterHeads, FilterCluster(head)
  PROVE  /\ Window'
         /\ lastKept' # lastKept /\ lastKept # 0 => lastKept' = lastKept + 1
<1> DEFINE last == last_observed_timecode
           start == Process(head).start
           end == Process(head).end
<1>1. /\ last <= MaxClock
      /\ current_offset' = NextOffset(head.start) /\ last' = end
      /\ clusters' = clusters + 1
      /\ UNCHANGED <<start_time, stop_time>>
      /\ IF start <= stop_time /\ end >= start_time
         THEN lastKept' = clusters + 1 ELSE lastKept' = lastKept
  BY DEF FilterCluster, Take, LetThrough, Overlaps
<1>2. start >= last /\ start >= NextOffset(head.start) /\ end >= start
  BY <1>1, FilterFixer, ProcessTimely DEF Window
<1>3. /\ start \in Nat /\ end \in Nat /\ NextOffset(head.start) \in Nat
      /\ last \in Nat /\ start_time \in Nat /\ stop_time \in Nat
      /\ clusters \in Nat /\ lastKept \in Nat
  BY FilterFixer, ProcessType DEF ClusterHeadType, u64, FilterTypeOK
<1> HIDE DEF start, end
<1>4. CASE start <= stop_time /\ end >= start_time
  BY <1>1, <1>2, <1>3, <1>4 DEF Window
<1>5. CASE ~(start <= stop_time /\ end >= start_time)
  BY <1>1, <1>2, <1>3, <1>5 DEF Window
<1> QED
  BY <1>4, <1>5

LEMMA WindowStep ==
  ASSUME ~EarlyBlocks
  PROVE  FilterTypeOK /\ Window /\ [FilterNext]_filterVars => Window'
<1> SUFFICES ASSUME FilterTypeOK, Window, [FilterNext]_filterVars PROVE Window'
  OBVIOUS
<1>1. ASSUME UNCHANGED <<current_offset, last_observed_timecode, start_time,
                         stop_time, clusters, lastKept>>
      PROVE  Window'
  BY <1>1 DEF Window
<1> QED
  BY <1>1, ClusterStep
  DEF FilterNext, FilterHeaders, Take, EndOfInput, WriteSlice, WriteFails, filterVars

(* The window of --skip and --take lets through one uninterrupted run of   *)
(* clusters, however many files the input is made of, when no block lies   *)
(* before the start of its file.                                           *)
THEOREM OnePieceAlways == ASSUME ~EarlyBlocks PROVE FilterSpec => OnePiece
<1>1. FilterInit => Window
  BY DEF FilterInit, Window
<1>2. FilterTypeOK /\ Window /\ [FilterNext]_filterVars =>
        [lastKept' # lastKept /\ lastKept # 0 => lastKept' = lastKept + 1]_filterVars
  BY ClusterStep
  DEF FilterNext, FilterHeaders, EndOfInput, WriteSlice, WriteFails, filterVars
<1> QED
  BY <1>1, <1>2, FilterTypeCorrect, WindowStep, PTL DEF FilterSpec, OnePiece

=============================================================================
