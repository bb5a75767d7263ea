-------------------------------- MODULE Filter --------------------------------
(***************************************************************************)
(* The pipeline of the filter and send commands (src/commands/filter.rs,   *)
(* src/commands/send.rs): the chunks of the input have their timecodes     *)
(* fixed, those outside the window of --skip and --take are left out, and  *)
(* the rest are written slice by slice (Chunk as an Iterator in            *)
(* src/chunk.rs), to stdout or into the body of a PUT request. The input   *)
(* is any number of WebM files one after the other. --throttle only delays *)
(* the chunks (see Throttle).                                              *)
(***************************************************************************)
EXTENDS TimecodeFixer

CONSTANTS
  Times,    \* the values of --skip and --take, in milliseconds
  MaxTaken  \* bound: chunks of the input

ASSUME FilterAssumption == Times \subseteq Nat /\ MaxTaken \in Nat

VARIABLES
  start_time, stop_time, \* the window
  chunk,     \* the Chunk being iterated: a variant and the cluster's number
  status,    \* running, done or failed
  taken,     \* chunks taken so far
  lastTaken, \* variant of the last of them
  clusters,  \* clusters among them
  lastKept,  \* history: the last cluster let through; number 0 is none
  written    \* history: the last slice written

filterVars == <<current_offset, last_observed_timecode, start_time, stop_time,
                chunk, status, taken, lastTaken, clusters, lastKept, written>>

(* The variants of a Chunk; a chunk all of whose slices are out is Empty.  *)
ChunkType == [variant : {"Headers", "Cluster", "RemainingBody"}, number : Nat]
Empty == [variant |-> "Empty", number |-> 0]

(* --skip defaults to 0, --take to the whole input: no u64 reaches U64.    *)
FilterInit ==
  /\ current_offset = 0
  /\ last_observed_timecode = 0
  /\ start_time \in Times \cup {0}
  /\ stop_time \in {t + start_time : t \in Times} \cup {U64}
  /\ chunk = Empty
  /\ status = "running"
  /\ taken = 0
  /\ lastTaken = "Empty"
  /\ clusters = 0
  /\ lastKept = 0
  /\ written = [slice |-> "none", number |-> 0]

-----------------------------------------------------------------------------
(* Chunk::overlaps, of a cluster.                                          *)
Overlaps(head) == head.start <= stop_time /\ head.end >= start_time

(* Mutant: the window is applied to the times of the files themselves.     *)
LetThroughUnfixed(head) == Overlaps(head)

(* The filter comes after the fixer.                                       *)
LetThrough(head) == Overlaps(Process(head))

(* The pipeline is polled for its next chunk once the last is written.     *)
Take ==
  /\ status = "running"
  /\ chunk = Empty
  /\ taken < MaxTaken
  /\ taken' = taken + 1
  /\ UNCHANGED <<start_time, stop_time, status, written>>

(* The chunker returns a Headers chunk first, and at least one cluster     *)
(* after each (HeadersThenClusters in Chunker).                            *)
FilterHeaders ==
  /\ Take
  /\ lastTaken # "Headers"
  /\ lastTaken' = "Headers"
  /\ chunk' = [variant |-> "Headers", number |-> 0]
  /\ UNCHANGED <<current_offset, last_observed_timecode, clusters, lastKept>>

FilterCluster(head) ==
  /\ Take
  /\ lastTaken # "Empty"
  /\ lastTaken' = "Cluster"
  /\ last_observed_timecode <= MaxClock
  /\ current_offset' = NextOffset(head.start)
  /\ last_observed_timecode' = Process(head).end
  /\ clusters' = clusters + 1
  /\ IF LetThrough(head)
     THEN /\ chunk' = [variant |-> "Cluster", number |-> clusters']
          /\ lastKept' = clusters'
     ELSE UNCHANGED <<chunk, lastKept>>

(* The input ends, or reading, parsing or chunking it fails: what was let  *)
(* through before has been written.                                        *)
EndOfInput ==
  /\ status = "running"
  /\ chunk = Empty
  /\ status' \in {"done", "failed"}
  /\ UNCHANGED <<current_offset, last_observed_timecode, start_time, stop_time,
                 chunk, taken, lastTaken, clusters, lastKept, written>>

(* Mutant: a cluster is over with its head.                                *)
RestLost(c) == Empty

(* What Chunk::next leaves of a chunk.                                     *)
Rest(c) ==
  IF c.variant = "Cluster" THEN [c EXCEPT !.variant = "RemainingBody"] ELSE Empty

(* Chunk::next returns a slice and the slice is written.                   *)
WriteSlice ==
  /\ status = "running"
  /\ chunk # Empty
  /\ chunk' = Rest(chunk)
  /\ written' = [slice |-> chunk.variant, number |-> chunk.number]
  /\ UNCHANGED <<current_offset, last_observed_timecode, start_time, stop_time,
                 status, taken, lastTaken, clusters, lastKept>>

(* The slice cannot be written, or the request fails: the command ends.    *)
WriteFails ==
  /\ status = "running"
  /\ chunk # Empty
  /\ status' = "failed"
  /\ UNCHANGED <<current_offset, last_observed_timecode, start_time, stop_time,
                 chunk, taken, lastTaken, clusters, lastKept, written>>

FilterNext ==
  \/ FilterHeaders
  \/ \E head \in ClusterHeads : FilterCluster(head)
  \/ EndOfInput
  \/ WriteSlice
  \/ WriteFails

FilterSpec == FilterInit /\ [][FilterNext]_filterVars

-----------------------------------------------------------------------------
FilterTypeOK ==
  /\ current_offset \in u64
  /\ last_observed_timecode \in u64
  /\ start_time \in Nat
  /\ stop_time \in Nat
  /\ chunk \in ChunkType \cup {Empty}
  /\ status \in {"running", "done", "failed"}
  /\ taken \in 0..MaxTaken
  /\ lastTaken \in {"Empty", "Headers", "Cluster"}
  /\ clusters \in Nat
  /\ lastKept \in Nat
  /\ written \in [slice : {"none", "Headers", "Cluster", "RemainingBody"},
                 number : Nat]

(* --skip and --take cut one piece out of the input, across the files it   *)
(* is made of: between two clusters let through none is left out, though   *)
(* each file starts its time anew (Chunk::overlaps after the fixer).       *)
OnePiece ==
  [][lastKept' # lastKept /\ lastKept # 0 => lastKept' = lastKept + 1]_filterVars

(* A head is followed by the body of the same cluster before anything else *)
(* is written and before the command ends well: what arrives is a sequence *)
(* of whole chunks unless the command fails (Iterator for Chunk).          *)
WholeClusters ==
  [][written.slice = "Cluster" /\ (written' # written \/ status' = "done")
       => written' = [written EXCEPT !.slice = "RemainingBody"]]_filterVars

=============================================================================
