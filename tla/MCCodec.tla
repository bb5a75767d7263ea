------------------------------- MODULE MCCodec -------------------------------
(* The codec in bytes of four bits. What a decoder is given was either     *)
(* written by the encoder (Wire), or comes from anywhere: any bytes, which *)
(* arrive one by one.                                                      *)
EXTENDS Wire, Arrival

(* As in the code the ids of frequent elements take one byte, the others   *)
(* more; 9 is read as the id 1, 8 as the id 0.                             *)
SmallId ==
  [EbmlHead |-> 600, Void |-> 2, Segment |-> 511, SeekHead |-> 63, Info |-> 62,
   Cues |-> 510, Tracks |-> 16, Cluster |-> 7, Timecode |-> 0, SimpleBlock |-> 1,
   DocType |-> 33]
SmallDocType == <<7, 7, 6, 5>>

(* Varints of one byte (0 and 1, 4 the shortest block, 5, unknown), and    *)
(* first bytes of varints of two and of three bytes.                       *)
SomeBytes == {2, 4, 8, 9, 12, 13, 15}

(* Data on both sides of the longest length that takes one byte, and       *)
(* numbers at the ends of their ranges; payloads that look like elements.  *)
SmallElements ==
  { Plain("EbmlHead"), Plain("Segment"), Plain("Cues"), Plain("Cluster"),
    Plain("Info"),
    Tracks(<< >>), Tracks(<<8, 9, 15, 0, 8, 9>>), Tracks(<<9, 12, 8, 0, 0, 0, 8>>),
    Timecode(0), Timecode(2^16 - 1),
    SimpleBlock(0, -128, 8, << >>), SimpleBlock(3, 127, 0, <<9, 9, 9>>),
    SimpleBlock(4, 0, 0, << >>) }

WireStep == bytes = << >> /\ WireNext /\ UNCHANGED bytes

ArrivalStep == encoded = << >> /\ ~failed /\ ArrivalNext /\ UNCHANGED wireVars

CodecInit == WireInit /\ ArrivalInit

CodecNext == WireStep \/ ArrivalStep

CodecSpec == CodecInit /\ [][CodecNext]_<<wireVars, bytes>>

=============================================================================
