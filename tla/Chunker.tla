------------------------------- MODULE Chunker -------------------------------
(***************************************************************************)
(* WebmChunker::poll_next (src/chunk.rs): groups the parser's elements     *)
(* into Headers and Cluster chunks. One step is one turn of its loop, that *)
(* is one event of the source. Two events change nothing and so are no     *)
(* actions: Pending, and an error of the parser, which is passed on.       *)
(*                                                                         *)
(* The bytes of a chunk are represented by the positions, in the sequence  *)
(* of elements fed, of the elements encoded into them.                     *)
(***************************************************************************)
EXTENDS ClusterHead, Sequences

CONSTANTS
  Elements,    \* the elements the parser may report
  Limited,     \* whether with_soft_limit was called
  BufferLimit, \* its argument: 2 MiB in the relay
  MaxElements  \* bound: elements fed

(* Kinds of WebmElement. Info, Void and Unknown are handled alike.         *)
Kinds == {"EbmlHead", "Segment", "SeekHead", "Cues", "Tracks", "Cluster",
          "Timecode", "SimpleBlock", "Stripped"}

(* time: of a Timecode (u64) or a SimpleBlock (i16); size: of its encoding;*)
(* encodable: FALSE for a block whose track number is above 31.            *)
ElementShape ==
  [kind : Kinds, time : Int, keyframe : BOOLEAN, size : Nat, encodable : BOOLEAN]

ASSUME ChunkerAssumption ==
  /\ Elements \subseteq ElementShape
  /\ \A e \in Elements :
       /\ e.kind = "Timecode" => e.time \in u64
       /\ e.kind = "SimpleBlock" => e.time < U64 /\ 0 - e.time < U64
       /\ e.kind \in {"SeekHead", "Cues"} => e.size = 0
       /\ e.kind # "SimpleBlock" => e.encodable
  /\ Limited \in BOOLEAN
  /\ BufferLimit \in Nat \ {0}
  /\ MaxElements \in Nat

VARIABLES
  state,  \* ChunkerState
  head,   \* the ClusterHead of BuildingCluster
  buffer, \* the elements in the buffer of BuildingHeader or BuildingCluster
  len,    \* the length of that buffer
  out,    \* history: the chunks returned
  fed,    \* history: the elements taken from the source
  eof,    \* the source has ended
  failed  \* an element was refused by encode

vars == <<state, head, buffer, len, out, fed, eof, failed>>

ChunkType ==
  [kind : {"Headers", "Cluster"}, head : ClusterHeadType, body : Seq(Nat)]

HeadersChunk(body) == [kind |-> "Headers", head |-> NewHead(0), body |-> body]
ClusterChunk(h, body) == [kind |-> "Cluster", head |-> h, body |-> body]

-----------------------------------------------------------------------------
(* chunk_webm                                                              *)
Init ==
  /\ state = "BuildingHeader"
  /\ head = NewHead(0)
  /\ buffer = << >>
  /\ len = 0
  /\ out = << >>
  /\ fed = << >>
  /\ eof = FALSE
  /\ failed = FALSE

(* The source reports the element e to a chunker in state s.               *)
Event(s, e) ==
  /\ state = s
  /\ ~eof
  /\ Len(fed) < MaxElements
  /\ fed' = Append(fed, e)
  /\ UNCHANGED eof

(* Mutant: the limit is compared after the element was written.            *)
EncodesStrict(e, n) == e.encodable /\ (Limited => n + e.size <= BufferLimit)

(* encode: the limit is compared with what the buffer holds already.       *)
Encodes(e, n) == e.encodable /\ (Limited => n < BufferLimit)

(* What encode_webm_element writes for the element at position i.          *)
Written(e, i) == IF e.size > 0 THEN <<i>> ELSE << >>

(* Encode e at the end of the buffer, or end the stream with an error.     *)
EncodeInto(e) ==
  IF Encodes(e, len)
  THEN /\ buffer' = buffer \o Written(e, Len(fed) + 1)
       /\ len' = len + e.size
       /\ UNCHANGED <<state, failed>>
  ELSE /\ state' = "End"
       /\ buffer' = << >>
       /\ len' = 0
       /\ failed' = TRUE

(* BuildingHeader: a Cluster tag completes the header.                     *)
HeaderCluster(e) ==
  /\ Event("BuildingHeader", e)
  /\ e.kind = "Cluster"
  /\ out' = Append(out, HeadersChunk(buffer))
  /\ state' = "BuildingCluster"
  /\ head' = NewHead(0)
  /\ buffer' = << >>
  /\ len' = 0
  /\ UNCHANGED failed

(* BuildingHeader: Info, Void and unknown elements are stripped, all else  *)
(* is encoded, and nothing is returned.                                    *)
HeaderElement(e) ==
  /\ Event("BuildingHeader", e)
  /\ e.kind # "Cluster"
  /\ IF e.kind = "Stripped"
     THEN UNCHANGED <<state, buffer, len, failed>>
     ELSE EncodeInto(e)
  /\ UNCHANGED <<head, out>>

(* BuildingHeader: the source ends; a header without clusters is dropped.  *)
HeaderEof ==
  /\ state = "BuildingHeader"
  /\ ~eof
  /\ eof' = TRUE
  /\ UNCHANGED <<state, head, buffer, len, out, fed, failed>>

(* BuildingCluster: another Cluster tag completes the cluster.             *)
ClusterCluster(e) ==
  /\ Event("BuildingCluster", e)
  /\ e.kind = "Cluster"
  /\ out' = Append(out, ClusterChunk(head, buffer))
  /\ head' = NewHead(0)
  /\ buffer' = << >>
  /\ len' = 0
  /\ UNCHANGED <<state, failed>>

(* The elements that start a new header in the middle of a stream.         *)
StartsFile(e) == e.kind \in {"EbmlHead", "Segment"}

(* Mutant: the new header is started, but the finished cluster is lost.    *)
ClusterFileLoses(e) ==
  /\ Event("BuildingCluster", e)
  /\ StartsFile(e)
  /\ IF Encodes(e, 0)
     THEN /\ state' = "BuildingHeader"
          /\ buffer' = Written(e, Len(fed) + 1)
          /\ len' = e.size
          /\ UNCHANGED failed
     ELSE /\ state' = "End"
          /\ buffer' = << >>
          /\ len' = 0
          /\ failed' = TRUE
  /\ head' = NewHead(0)
  /\ UNCHANGED out

(* BuildingCluster: a new file starts. The cluster is complete and the     *)
(* element is the first of a new header.                                   *)
ClusterFile(e) ==
  /\ Event("BuildingCluster", e)
  /\ StartsFile(e)
  /\ IF Encodes(e, 0)
     THEN /\ out' = Append(out, ClusterChunk(head, buffer))
          /\ state' = "BuildingHeader"
          /\ buffer' = Written(e, Len(fed) + 1)
          /\ len' = e.size
          /\ UNCHANGED failed
     ELSE /\ state' = "End"
          /\ buffer' = << >>
          /\ len' = 0
          /\ failed' = TRUE
          /\ UNCHANGED out
  /\ head' = NewHead(0)

(* BuildingCluster: the Timecode moves into the head, which encodes it.    *)
ClusterTimecode(e) ==
  /\ Event("BuildingCluster", e)
  /\ e.kind = "Timecode"
  /\ head' = update_timecode(head, e.time)
  /\ UNCHANGED <<state, buffer, len, out, failed>>

(* BuildingCluster: a block marks the head and is encoded.                 *)
ClusterBlock(e) ==
  /\ Event("BuildingCluster", e)
  /\ e.kind = "SimpleBlock"
  /\ head' = observe_simpleblock_timecode(
               [head EXCEPT !.keyframe = @ \/ e.keyframe], e.time)
  /\ EncodeInto(e)
  /\ UNCHANGED out

(* BuildingCluster: any other element is stripped or encoded.              *)
ClusterElement(e) ==
  /\ Event("BuildingCluster", e)
  /\ e.kind \in {"SeekHead", "Cues", "Tracks", "Stripped"}
  /\ IF e.kind = "Stripped"
     THEN UNCHANGED <<state, buffer, len, failed>>
     ELSE EncodeInto(e)
  /\ UNCHANGED <<head, out>>

(* Mutant: the last cluster is not flushed.                                *)
ClusterEofDrops ==
  /\ state = "BuildingCluster"
  /\ ~eof
  /\ eof' = TRUE
  /\ state' = "End"
  /\ head' = NewHead(0)
  /\ buffer' = << >>
  /\ len' = 0
  /\ UNCHANGED <<out, fed, failed>>

(* BuildingCluster: the source ends, the last cluster is flushed.          *)
ClusterEof ==
  /\ state = "BuildingCluster"
  /\ ~eof
  /\ eof' = TRUE
  /\ out' = Append(out, ClusterChunk(head, buffer))
  /\ state' = "End"
  /\ head' = NewHead(0)
  /\ buffer' = << >>
  /\ len' = 0
  /\ UNCHANGED <<fed, failed>>

Next ==
  \/ \E e \in Elements :
       \/ HeaderCluster(e) \/ HeaderElement(e)
       \/ ClusterCluster(e) \/ ClusterFile(e) \/ ClusterTimecode(e)
       \/ ClusterBlock(e) \/ ClusterElement(e)
  \/ HeaderEof \/ ClusterEof

Spec == Init /\ [][Next]_vars

-----------------------------------------------------------------------------
TypeOK ==
  /\ state \in {"BuildingHeader", "BuildingCluster", "End"}
  /\ head \in ClusterHeadType
  /\ buffer \in Seq(Nat)
  /\ len \in Nat
  /\ out \in Seq(ChunkType)
  /\ fed \in Seq(Elements)
  /\ eof \in BOOLEAN
  /\ failed \in BOOLEAN

(* The chunks come as the relay's channel expects them: a Headers chunk    *)
(* first, and after each Headers chunk at least one cluster before another.*)
HeadersThenClusters ==
  /\ out # << >> => out[1].kind = "Headers"
  /\ \A i \in 1..Len(out) - 1 :
       out[i].kind = "Headers" => out[i + 1].kind = "Cluster"

=============================================================================
