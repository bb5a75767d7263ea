------------------------------- MODULE Chunks -------------------------------
(***************************************************************************)
(* What the chunks of a stream are, by definition: read off the whole      *)
(* sequence of elements fed to the Chunker, without its state. A chunk is  *)
(* what lies between two cuts.                                             *)
(***************************************************************************)
EXTENDS Chunker, FiniteSetsExt

IsCluster(i) == fed[i].kind = "Cluster"

(* A file starts at i: the first EBML head or Segment after a cluster.     *)
FileStartsAt(i) ==
  /\ StartsFile(fed[i])
  /\ \E j \in 1..i - 1 :
       IsCluster(j) /\ \A k \in j + 1..i - 1 : ~StartsFile(fed[k])

(* Where one chunk ends and the next begins.                               *)
Cuts == {i \in 1..Len(fed) : IsCluster(i) \/ FileStartsAt(i)}

(* The cut the chunk that ends at j begins at, 0 for the first chunk, and  *)
(* the cut the chunk under construction begins at.                         *)
CutBefore(j) == Max({0} \cup {i \in Cuts : i < j})
LastCut == Max({0} \cup Cuts)

(* The chunk that ends at the cut j is the Rank(j)th.                      *)
Rank(j) == Cardinality({i \in Cuts : i <= j})

(* A chunk that begins at i is a cluster, or else a header.                *)
OpensCluster(i) == i > 0 /\ IsCluster(i)

(* Positions from i to j - 1 that are encoded into the body of a chunk.    *)
Encoded(i, j) ==
  LET kept(k) == /\ fed[k].kind \notin {"Cluster", "Stripped"}
                 /\ fed[k].size > 0
                 /\ ~(OpensCluster(i) /\ fed[k].kind = "Timecode")
  IN  {k \in i..j - 1 : k > 0 /\ kept(k)}

(* The time of the last Timecode between i and j, 0 without one.           *)
TimeOf(i, j) ==
  LET S == {k \in i + 1..j - 1 : fed[k].kind = "Timecode"}
  IN  IF S = {} THEN 0 ELSE fed[Max(S)].time

(* The time that passes from the start of a cluster to its last block that *)
(* is later than the start.                                                *)
DurationOf(i, j) ==
  LET S == {k \in i + 1..j - 1 : fed[k].kind = "SimpleBlock" /\ fed[k].time > 0}
  IN  IF S = {} THEN 0 ELSE fed[Max(S)].time

(* The sequence s lists the numbers in S in their order.                   *)
Lists(s, S) ==
  /\ {s[a] : a \in 1..Len(s)} = S
  /\ \A a, b \in 1..Len(s) : a < b => s[a] < s[b]

(* The head h is that of a cluster which stretches from the cut i to       *)
(* before j, but for its end.                                              *)
IsHeadOf(h, i, j) ==
  /\ h.start = TimeOf(i, j)
  /\ h.keyframe <=> \E k \in i + 1..j - 1 :
                      fed[k].kind = "SimpleBlock" /\ fed[k].keyframe

(* The chunk c stretches from the cut i (0: the beginning) to before j.    *)
Spans(c, i, j) ==
  /\ c.kind = IF OpensCluster(i) THEN "Cluster" ELSE "Headers"
  /\ Lists(c.body, Encoded(i, j))
  /\ OpensCluster(i) => IsHeadOf(c.head, i, j)

EndsInTime(c, i, j) ==
  OpensCluster(i) => c.head.end = TimeOf(i, j) + DurationOf(i, j)

(* The source ended in a cluster, which makes one more chunk.              *)
Flushed == eof /\ OpensCluster(LastCut)

(* No block is early: none lies before time 0 of its file, given the time *)
(* its cluster had when the block came.                                    *)
NoEarlyBlock ==
  \A k \in 1..Len(fed) : fed[k].kind = "SimpleBlock" =>
    TimeOf(CutBefore(k), k) + fed[k].time >= 0

(* The sums of the first values of w.                                      *)
Sums(w) ==
  LET sum[n \in Nat] == IF n = 0 THEN 0 ELSE sum[n - 1] + w[n] IN sum

SumOfSizes(S) ==
  Sums([k \in Nat |-> IF k \in S THEN fed[k].size ELSE 0])[Len(fed)]

-----------------------------------------------------------------------------
(* The chunks returned are those the definition finds in the elements fed: *)
(* every element in its chunk and in order, the start and the keyframe     *)
(* mark of each cluster its own, the last one flushed at the end, also     *)
(* when the stream is cut off by an element that could not be encoded.     *)
ChunksAsDefined ==
  /\ Len(out) = Cardinality(Cuts) + IF Flushed THEN 1 ELSE 0
  /\ \A j \in Cuts : Spans(out[Rank(j)], CutBefore(j), j)
  /\ Flushed => Spans(out[Len(out)], LastCut, Len(fed) + 1)

(* And each cluster ends at its last block that is later than its start,   *)
(* when no block is early.                                                 *)
EndsAsDefined ==
  NoEarlyBlock =>
    /\ \A j \in Cuts : EndsInTime(out[Rank(j)], CutBefore(j), j)
    /\ Flushed => EndsInTime(out[Len(out)], LastCut, Len(fed) + 1)

(* A source is refused exactly when there is an element to encode and it   *)
(* has no encoding, or the chunk under construction already holds as many  *)
(* bytes as the limit, be the element one that adds none to them. What a   *)
(* chunk that holds less grows to by one element is not limited (encode).  *)
RefusedAtLimit ==
  LET before == Encoded(LastCut, Len(fed))
      last   == fed[Len(fed)]
  IN  failed <=> /\ fed # << >>
                 /\ last.kind \in {"EbmlHead", "Segment", "SeekHead", "Cues",
                                   "Tracks", "Timecode", "SimpleBlock"}
                 /\ ~(OpensCluster(LastCut) /\ last.kind = "Timecode")
                 /\ \/ ~last.encodable
                    \/ Limited /\ SumOfSizes(before) >= BufferLimit

(* "if a chunk buffer exceeds this size, error the stream" (comment of     *)
(* with_soft_limit), "clusters & the initialization segment can't          *)
(* individually be more than 2M" (README): an element that can be encoded  *)
(* is refused only if the chunk would be larger than the limit with it.    *)
DroppedOnlyAboveLimit ==
  failed /\ fed[Len(fed)].encodable =>
    SumOfSizes(Encoded(LastCut, Len(fed) + 1)) > BufferLimit

=============================================================================
