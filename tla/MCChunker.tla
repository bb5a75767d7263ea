------------------------------ MODULE MCChunker ------------------------------
(* Model checking instances of Chunker against Chunks.                     *)
EXTENDS Chunks

El(kind, time, keyframe, size, encodable) ==
  [kind |-> kind, time |-> time, keyframe |-> keyframe, size |-> size,
   encodable |-> encodable]

(* One element of each kind, blocks of each sort: one without an encoding, *)
(* two that move the end, in either order, one before its cluster's start. *)
SmallElements ==
  { El("EbmlHead", 0, FALSE, 2, TRUE), El("Segment", 0, FALSE, 1, TRUE),
    El("Cues", 0, FALSE, 0, TRUE),     El("Tracks", 0, FALSE, 1, TRUE),
    El("Cluster", 0, FALSE, 1, TRUE),  El("Stripped", 0, FALSE, 1, TRUE),
    El("Timecode", 5, FALSE, 1, TRUE), El("SimpleBlock", -2, FALSE, 1, FALSE),
    El("SimpleBlock", 3, TRUE, 1, TRUE), El("SimpleBlock", 1, FALSE, 1, TRUE),
    El("SimpleBlock", -1, FALSE, 2, TRUE) }

=============================================================================
