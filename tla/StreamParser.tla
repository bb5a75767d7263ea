---------------------------- MODULE StreamParser ----------------------------
(***************************************************************************)
(* EbmlStreamingParser (src/stream_parser.rs): reassembles EBML elements   *)
(* from a byte stream that arrives in pieces of any size. poll_event and   *)
(* next run the same loop; one step here is one turn of it. Waiting for    *)
(* the source (Pending, .await) changes nothing and is no action.          *)
(*                                                                         *)
(* Bytes are counted, not kept: what matters of an element is how long its *)
(* header and body are and whether they parse. An element that is          *)
(* unwrapped (Segment, Cluster) is its header; its children follow it as   *)
(* elements of their own.                                                  *)
(***************************************************************************)
EXTENDS Integers, Sequences, FiniteSetsExt

CONSTANTS
  Inputs,      \* the byte streams: sequences of elements, one after another
  Limited,     \* whether with_soft_limit was called
  BufferLimit, \* its argument: 2 MiB in the relay
  MaxRefill    \* the longest piece the source delivers

(* start: offset in the stream; header: length of the id and the size;     *)
(* body: the payload's length as the size says; corruptAt: 0, or after how *)
(* many bytes the header shows to be invalid; decodes: the payload parses. *)
ElementShape ==
  [start : Nat, header : Nat \ {0}, body : Nat, unwrap : BOOLEAN,
   corruptAt : Nat, decodes : BOOLEAN]

(* EbmlLayout.element_len                                                  *)
ElementLen(e) == e.header + (IF e.unwrap THEN 0 ELSE e.body)
EndOf(e) == e.start + ElementLen(e)

ASSUME StreamParserAssumption ==
  /\ Inputs \subseteq Seq(ElementShape)
  /\ \A input \in Inputs : \A k \in 1..Len(input) :
       /\ input[k].corruptAt <= input[k].header
       /\ input[k].start = IF k = 1 THEN 0 ELSE EndOf(input[k - 1])
  /\ Limited \in BOOLEAN
  /\ BufferLimit \in Nat \ {0}
  /\ MaxRefill \in Nat \ {0}

VARIABLES
  input,   \* the stream being parsed
  sent,    \* bytes of it the source has delivered
  buffer,  \* length of the parser's buffer
  pos,     \* elements split off the buffer
  result   \* running, or how the stream of events ended

vars == <<input, sent, buffer, pos, result>>

Results == {"running", "ended", "EbmlError", "ResourcesExceeded", "SourceError"}

(* The length of the whole stream.                                         *)
Total == IF input = << >> THEN 0 ELSE EndOf(input[Len(input)])

-----------------------------------------------------------------------------
(* parse_ebml                                                              *)
Init ==
  /\ input \in Inputs
  /\ sent = 0
  /\ buffer = 0
  /\ pos = 0
  /\ result = "running"

(* check_space on a buffer of n bytes that starts with the element e: the  *)
(* header is invalid, all of e is there, or more bytes are needed.         *)
Corrupt(e, n)  == e.corruptAt > 0 /\ n >= e.corruptAt

(* Mutant: an element is complete when a byte more than it is there.       *)
CompleteLate(e, n) == e.corruptAt = 0 /\ n > ElementLen(e)

Complete(e, n) == e.corruptAt = 0 /\ n >= ElementLen(e)

HasNext == pos < Len(input)
CorruptNext  == HasNext /\ Corrupt(input[pos + 1], buffer)
CompleteNext == HasNext /\ Complete(input[pos + 1], buffer)
NeedsMore    == ~CorruptNext /\ ~CompleteNext

(* Mutant: the limit also counts bytes of elements that are complete.      *)
OverLimitStrict == Limited /\ BufferLimit < buffer + MaxRefill

(* Mutant: one turn too late.                                              *)
OverLimitLate == Limited /\ BufferLimit < buffer

(* "hit our buffer limit and still nothing parsed"                         *)
OverLimit == Limited /\ BufferLimit <= buffer

(* The header of the next element does not parse.                          *)
HeaderError ==
  /\ result = "running"
  /\ CorruptNext
  /\ result' = "EbmlError"
  /\ UNCHANGED <<input, sent, buffer, pos>>

(* The next element is split off the buffer and decoded.                   *)
Event ==
  /\ result = "running"
  /\ CompleteNext
  /\ buffer' = buffer - ElementLen(input[pos + 1])
  /\ pos' = pos + 1
  /\ result' = IF input[pos + 1].decodes THEN "running" ELSE "EbmlError"
  /\ UNCHANGED <<input, sent>>

(* No room for the next piece.                                             *)
Exceeded ==
  /\ result = "running"
  /\ NeedsMore
  /\ OverLimit
  /\ result' = "ResourcesExceeded"
  /\ UNCHANGED <<input, sent, buffer, pos>>

(* Mutant: the piece replaces what the buffer held.                        *)
RefillReplaces(n) ==
  /\ result = "running"
  /\ NeedsMore
  /\ ~OverLimit
  /\ sent + n <= Total
  /\ sent' = sent + n
  /\ buffer' = n
  /\ UNCHANGED <<input, pos, result>>

(* The source delivers a piece of n bytes.                                 *)
Refill(n) ==
  /\ result = "running"
  /\ NeedsMore
  /\ ~OverLimit
  /\ sent + n <= Total
  /\ sent' = sent + n
  /\ buffer' = buffer + n
  /\ UNCHANGED <<input, pos, result>>

(* The source ends, possibly in the middle of an element, or fails.        *)
SourceEnds ==
  /\ result = "running"
  /\ NeedsMore
  /\ ~OverLimit
  /\ result' \in {"ended", "SourceError"}
  /\ UNCHANGED <<input, sent, buffer, pos>>

Next ==
  \/ HeaderError \/ Event \/ Exceeded \/ SourceEnds
  \/ \E n \in 1..MaxRefill : Refill(n)

Spec == Init /\ [][Next]_vars

-----------------------------------------------------------------------------
TypeOK ==
  /\ input \in Inputs
  /\ sent \in Nat
  /\ buffer \in Nat
  /\ pos \in 0..Len(input)
  /\ result \in Results

(* Bytes are neither lost nor read twice: the buffer holds what was        *)
(* delivered beyond the last element split off.                            *)
BytesConserved ==
  sent = buffer + (IF pos = 0 THEN 0 ELSE EndOf(input[pos]))

(* A source is refused for its size only when the element it is sending is *)
(* longer than the limit by itself: what was parsed before does not count, *)
(* and elements within the limit get through however the bytes are split.  *)
ExceededOnlyByLongElement ==
  result = "ResourcesExceeded" =>
    pos < Len(input) /\ ElementLen(input[pos + 1]) > BufferLimit

(* The soft limit: the buffer never grows to the limit plus a piece.       *)
BufferBounded == Limited => buffer < BufferLimit + MaxRefill

-----------------------------------------------------------------------------
(* How many elements EbmlIterator::next (src/iterator.rs), which parses a  *)
(* slice that is all there, yields from the first n bytes: it stops for    *)
(* good at the first that is incomplete or does not parse.                 *)
IteratorYields(n) ==
  Max({k \in 0..Len(input) : \A i \in 1..k :
         Complete(input[i], n - input[i].start) /\ input[i].decodes})

(* The events do not depend on how the stream was cut into pieces: they    *)
(* are those the iterator finds in all the bytes delivered, when the       *)
(* stream ends, and before the error when it fails.                        *)
ParsesAsIterator ==
  CASE result = "running" -> pos <= IteratorYields(sent)
    [] result = "EbmlError" /\ pos > 0 /\ ~input[pos].decodes ->
         pos - 1 = IteratorYields(sent)
    [] OTHER -> pos = IteratorYields(sent)

=============================================================================
