-------------------------------- MODULE Wire --------------------------------
(***************************************************************************)
(* From encoder to decoder: elements are written one after the other into  *)
(* one output by encode_webm_element, as the chunker does, the output is   *)
(* transmitted byte by byte, and the elements in it are read one after the *)
(* other by decode_element, as EbmlIterator and the streaming parser of    *)
(* the next hop do (send and relay: src/commands).                         *)
(***************************************************************************)
EXTENDS Webm

CONSTANTS
  Elements,    \* the elements to write
  MaxElements  \* bound: elements written

(* No payload is longer than a length can say: 2^56 - 2 bytes in the code. *)
Fits(e) ==
  /\ e.kind = "Tracks" => Len(e.data) <= EIGHT_MAX
  /\ e.kind = "SimpleBlock" => BlockLen(e) <= EIGHT_MAX

ASSUME WireAssumption ==
  /\ Elements \subseteq WebmElement
  /\ \A e \in Elements : Fits(e)
  /\ MaxElements \in Nat

VARIABLES
  encoded,  \* history: the elements written, as far as a reader should find them
  output,   \* the bytes written
  failed,   \* an element could not be written
  arrived,  \* how many bytes of output were transmitted
  consumed, \* how many of these the decoder has split off
  decoded,  \* history: the elements read
  broken    \* the decoder has reported an error

wireVars == <<encoded, output, failed, arrived, consumed, decoded, broken>>

(* What the decoder is given.                                              *)
Buffer == SubSeq(output, consumed + 1, arrived)

(* SeekHead and Cues are written as nothing, since the positions in them   *)
(* would be wrong.                                                         *)
Skipped(e) == e.kind \in {"SeekHead", "Cues"}

-----------------------------------------------------------------------------
WireInit ==
  /\ encoded = << >>
  /\ output = << >>
  /\ failed = FALSE
  /\ arrived = 0
  /\ consumed = 0
  /\ decoded = << >>
  /\ broken = FALSE

(* Another element is written; a chunk is transmitted when it is complete. *)
Encode(e) ==
  /\ arrived = 0
  /\ ~failed
  /\ Len(encoded) < MaxElements
  /\ LET written == encode_webm_element(e, output)
     IN  IF written.status = "ok"
         THEN /\ output' = written.output
              /\ encoded' = IF Skipped(e) THEN encoded ELSE Append(encoded, e)
              /\ UNCHANGED failed
         ELSE failed' = TRUE /\ UNCHANGED <<output, encoded>>
  /\ UNCHANGED <<arrived, consumed, decoded, broken>>

Transmit ==
  /\ arrived < Len(output)
  /\ arrived' = arrived + 1
  /\ UNCHANGED <<encoded, output, failed, consumed, decoded, broken>>

(* The decoder finds an element, or an error, in what has arrived.         *)
Decode ==
  /\ ~broken
  /\ LET found == decode_element(Buffer)
     IN  /\ found.status # "more"
         /\ IF found.status = "ok"
            THEN /\ decoded' = Append(decoded, found.element)
                 /\ consumed' = consumed + found.len
                 /\ UNCHANGED broken
            ELSE broken' = TRUE /\ UNCHANGED <<decoded, consumed>>
  /\ UNCHANGED <<encoded, output, failed, arrived>>

WireNext == Transmit \/ Decode \/ \E e \in Elements : Encode(e)

WireSpec == WireInit /\ [][WireNext]_wireVars

-----------------------------------------------------------------------------
(* The decoder reads back the elements that were written, in order, also   *)
(* from an output cut off anywhere: it takes no part of one element for    *)
(* another, and never finds an error.                                      *)
ReadsBack == ~broken /\ IsPrefix(decoded, encoded)

(* And all of them: when everything has arrived and the decoder waits for  *)
(* more, it has read every element to the last byte. In particular the     *)
(* length patched into the EBML head is that of its content.               *)
NothingLeftOver ==
  arrived = Len(output) /\ decode_element(Buffer) = More => decoded = encoded

=============================================================================
