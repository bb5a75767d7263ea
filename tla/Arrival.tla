------------------------------- MODULE Arrival -------------------------------
(***************************************************************************)
(* The decoder of src/webm.rs and src/ebml.rs on bytes that come from      *)
(* anywhere: they arrive one by one, and after each one decode_varint and  *)
(* decode_element are asked what they find.                                *)
(***************************************************************************)
EXTENDS Webm

CONSTANTS
  MaxVarint, \* bound: any bytes arrive up to this length,
  MaxBytes,  \* bound: and bytes of Alphabet up to this one
  Alphabet

ASSUME ArrivalAssumption ==
  Alphabet \subseteq Byte /\ MaxVarint \in Nat /\ MaxBytes \in Nat

VARIABLE bytes  \* what has arrived

ArrivalInit == bytes = << >>

Arrive(b) ==
  /\ \/ Len(bytes) < MaxVarint
     \/ Len(bytes) < MaxBytes /\ Range(bytes) \cup {b} \subseteq Alphabet
  /\ bytes' = Append(bytes, b)

ArrivalNext == \E b \in Byte : Arrive(b)

ArrivalSpec == ArrivalInit /\ [][ArrivalNext]_bytes

-----------------------------------------------------------------------------
(* A verdict of the decoder is final: once it has found an element or an   *)
(* error, no byte that arrives later changes what it found. The streaming  *)
(* parser relies on it, since it asks again after each piece.              *)
VerdictFinal ==
  [][decode_element(bytes).status # "more"
       => decode_element(bytes') = decode_element(bytes)]_bytes

(* All of bytes is one varint.                                             *)
IsVarint ==
  LET v == decode_varint(bytes) IN v.status = "ok" /\ v.size = Len(bytes)

(* Every varint that can be read can be written, also in four bytes if it  *)
(* fits, and is read back as the same value: no value is taken for         *)
(* "unknown" on the way.                                                   *)
VarintsReadBack ==
  IsVarint =>
    LET v == decode_varint(bytes).varint
        readsBack(written) ==
          /\ written.status = "ok"
          /\ decode_varint(written.bytes) =
               [status |-> "ok", varint |-> v, size |-> Len(written.bytes)]
    IN  readsBack(encode_varint(v)) /\ (v <= FOUR_MAX => readsBack(encode_varint_4(v)))

(* "using minimal space": no shorter varint has the value encode_varint    *)
(* writes.                                                                 *)
VarintsMinimal ==
  IsVarint => LET written == encode_varint(decode_varint(bytes).varint)
              IN  written.status = "ok" => Len(written.bytes) <= Len(bytes)

(* All of bytes is one element.                                            *)
IsElement ==
  LET e == decode_element(bytes) IN e.status = "ok" /\ e.len = Len(bytes)

(* What the relay rewrites means the same: an element read from bytes in   *)
(* any form (lengths, tracks and integers of any size) and written again   *)
(* is read as the same element, and takes up exactly what was written.     *)
RewrittenTheSame ==
  IsElement =>
    LET e == decode_element(bytes).element
        w == encode_webm_element(e, << >>)
    IN  w.status = "ok" /\ w.output # << >> =>
          decode_element(w.output) =
            [status |-> "ok", element |-> e, len |-> Len(w.output)]

=============================================================================
