-------------------------------- MODULE Webm --------------------------------
(***************************************************************************)
(* The WebM elements (src/webm.rs): how an element is read from bytes and  *)
(* written to an output. An i16 has two bytes.                             *)
(***************************************************************************)
EXTENDS Ebml

CONSTANTS
  Id,       \* the id of each kind of element
  DocType,  \* the bytes of "webm"
  MaxTrack  \* the highest track number that is written: 31 in the code

TagNames == {"EbmlHead", "Void", "Segment", "SeekHead", "Info", "Cues",
             "Tracks", "Cluster", "Timecode", "SimpleBlock", "DocType"}

(* The kinds of element at the top level.                                  *)
Tags == TagNames \ {"DocType"}

(* Like 31, MaxTrack fits a varint of one byte.                            *)
ASSUME WebmAssumption ==
  /\ Id \in [TagNames -> 0..EIGHT_MAX]
  /\ \A a, b \in Tags : Id[a] = Id[b] => a = b
  /\ DocType \in [1..4 -> Byte]
  /\ MaxTrack \in 0..Flag(1) - 2

(* The variants of WebmElement                                             *)
Plain(kind)    == [kind |-> kind]
Tracks(data)   == [kind |-> "Tracks", data |-> data]
Timecode(time) == [kind |-> "Timecode", time |-> time]
SimpleBlock(track, timecode, flags, data) ==
  [kind |-> "SimpleBlock", track |-> track, timecode |-> timecode,
   flags |-> flags, data |-> data]
UnknownElement(id) == [kind |-> "Unknown", id |-> id]

(* An i16 in two bytes, a u64 in ByteBits.                                 *)
I16 == Pow2[2 * ByteBits]
i16 == -(I16 \div 2)..(I16 \div 2) - 1
u64 == 0..Pow2[ByteBits * ByteBits] - 1

WebmElement ==
  [kind : Tags \ {"Tracks", "Timecode", "SimpleBlock"}]
  \cup [kind : {"Tracks"}, data : Seq(Byte)]
  \cup [kind : {"Timecode"}, time : u64]
  \cup [kind : {"SimpleBlock"}, track : u64, timecode : i16, flags : Byte,
        data : Seq(Byte)]
  \cup [kind : {"Unknown"}, id : u64]

ReadI16(bytes) ==
  LET n == ReadUint(bytes) IN IF n < I16 \div 2 THEN n ELSE n - I16
PutI16(n) == PutUint(n % I16, 2)

-----------------------------------------------------------------------------
should_unwrap(id) == id \in {Id["Segment"], Id["Cluster"]}

Decoded(element) == [status |-> "ok", element |-> element]

BlockAfter(track, bytes) ==
  LET n == track.size
  IN  IF /\ track.status = "ok"
         /\ track.varint # Unknown
         /\ Len(bytes) >= n + 2 + 1
      THEN Decoded(SimpleBlock(track.varint, ReadI16(SubSeq(bytes, n + 1, n + 2)),
                               bytes[n + 3], SubSeq(bytes, n + 4, Len(bytes))))
      ELSE Result("CorruptPayload")

decode_simple_block(bytes) == BlockAfter(decode_varint(bytes), bytes)

TimecodeOf(number) ==
  IF number.status = "ok" THEN Decoded(Timecode(number.number)) ELSE number

(* WebmElement::decode                                                     *)
decode(id, bytes) ==
  CASE id = Id["Tracks"]      -> Decoded(Tracks(bytes))
    [] id = Id["Timecode"]    -> TimecodeOf(decode_uint(bytes))
    [] id = Id["SimpleBlock"] -> decode_simple_block(bytes)
    [] OTHER -> Decoded(IF \E t \in Tags : Id[t] = id
                        THEN Plain(CHOOSE t \in Tags : Id[t] = id)
                        ELSE UnknownElement(id))

(* EbmlLayout                                                              *)
Layout(tag, len) ==
  [status |-> "ok", id |-> tag.id, offset |-> tag.size, len |-> len]

(* Mutant: only the header has to be there.                                *)
SpaceForHeader(tag, available) ==
  CASE tag.status # "ok" -> tag
    [] tag.status = "ok" /\ should_unwrap(tag.id) -> Layout(tag, tag.size)
    [] OTHER -> Layout(tag, Min({tag.size + tag.length, available}))

(* Where the element with this tag ends, once so many bytes are available. *)
SpaceFor(tag, available) ==
  CASE tag.status # "ok" -> tag
    [] tag.status = "ok" /\ should_unwrap(tag.id) -> Layout(tag, tag.size)
    [] OTHER -> CASE tag.length = Unknown -> Result("UnknownElementLength")
                  [] tag.size + tag.length > available -> More
                  [] OTHER -> Layout(tag, tag.size + tag.length)

check_space(bytes) == SpaceFor(decode_tag(bytes), Len(bytes))

ElementOf(got, len) ==
  IF got.status # "ok" THEN got
  ELSE [status |-> "ok", element |-> got.element, len |-> len]

ElementIn(info, bytes) ==
  IF info.status # "ok" THEN info
  ELSE ElementOf(decode(info.id, SubSeq(bytes, info.offset + 1, info.len)), info.len)

(* The first element, and how many bytes it takes.                         *)
decode_element(bytes) == ElementIn(check_space(bytes), bytes)

-----------------------------------------------------------------------------
Written(output) == [status |-> "ok", output |-> output]

(* Mutant: the block's length counts only its data.                        *)
BlockLenData(block) == Len(block.data)

(* A block's payload: track (one byte), timecode, flags and data.          *)
BlockLen(block) == 1 + 2 + 1 + Len(block.data)

(* Mutant: any track number is written, in as many bytes as it takes.      *)
encode_simple_block_any(block, output) ==
  Written(encode_tag_header(Id["SimpleBlock"], BlockLen(block), output)
          \o encode_varint(block.track).bytes
          \o PutI16(block.timecode) \o <<block.flags>> \o block.data)

encode_simple_block(block, output) ==
  IF block.track > MaxTrack THEN Result("OutOfRange")
  ELSE Written(encode_tag_header(Id["SimpleBlock"], BlockLen(block), output)
               \o encode_varint(block.track).bytes
               \o PutI16(block.timecode) \o <<block.flags>> \o block.data)

encode_webm_element(element, output) ==
  CASE element.kind = "EbmlHead" ->
         Written(encode_element(Id["EbmlHead"], output,
                                encode_bytes(Id["DocType"], DocType, << >>)))
    [] element.kind \in {"Segment", "Cluster"} ->
         Written(encode_tag_header(Id[element.kind], Unknown, output))
    [] element.kind \in {"SeekHead", "Cues"} -> Written(output)
    [] element.kind = "Tracks" ->
         Written(encode_bytes(Id["Tracks"], element.data, output))
    [] element.kind = "Timecode" ->
         Written(encode_integer(Id["Timecode"], element.time, output))
    [] element.kind = "SimpleBlock" -> encode_simple_block(element, output)
    [] element.kind \in {"Void", "Info", "Unknown"} -> Result("OutOfRange")

=============================================================================
