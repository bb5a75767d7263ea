-------------------------------- MODULE Ebml --------------------------------
(***************************************************************************)
(* The EBML codec (src/ebml.rs): varints, tags and integers over bytes.    *)
(* A byte has ByteBits bits, 8 in the code; as there, ByteBits is also the *)
(* number of bytes of a u64 and of the longest varint.                     *)
(*                                                                         *)
(* A result is a record: status "ok" with the values returned, "more" for  *)
(* Ok(None), or the name of the error.                                     *)
(***************************************************************************)
EXTENDS Integers, Sequences, SequencesExt, FiniteSetsExt

CONSTANT ByteBits

(* Four bytes at least: encode_varint_4 writes four.                       *)
ASSUME EbmlAssumption == ByteBits \in Nat /\ ByteBits >= 4

(* Powers of two, as a recursive function that proofs can unfold.          *)
Pow2[n \in Nat] == IF n = 0 THEN 1 ELSE 2 * Pow2[n - 1]

Byte == 0..Pow2[ByteBits] - 1

Unknown == -1   \* Varint::Unknown; Varint::Value(n) is n

Result(status) == [status |-> status]
More == Result("more")

(* BigEndian::read_uint and put_uint                                       *)
ReadUint(bytes) ==
  LET value[i \in 0..Len(bytes)] ==
        IF i = 0 THEN 0 ELSE value[i - 1] * Pow2[ByteBits] + bytes[i]
  IN  value[Len(bytes)]

PutUint(n, size) ==
  [i \in 1..size |-> (n \div Pow2[ByteBits * (size - i)]) % Pow2[ByteBits]]

(* The length marker of a varint of size bytes: SMALL_FLAG, FOUR_FLAG,     *)
(* EIGHT_FLAG. One less is what the unknown value leaves of it.            *)
Flag(size) == Pow2[(ByteBits - 1) * size]
FOUR_MAX  == Flag(4) - 2
EIGHT_MAX == Flag(ByteBits) - 2

-----------------------------------------------------------------------------
(* The highest bit set in the first byte tells the size of a varint.       *)
VarintSize(byte) == Min({s \in 1..ByteBits : byte >= Pow2[ByteBits - s]})

VarintOf(value, size) ==
  [status |-> "ok", size |-> size,
   varint |-> IF value = Flag(size) - 1 THEN Unknown ELSE value]

VarintAt(bytes, size) ==
  IF size > Len(bytes) THEN More
  ELSE VarintOf(ReadUint(SubSeq(bytes, 1, size)) - Flag(size), size)

decode_varint(bytes) ==
  CASE bytes = << >> -> More
    [] bytes # << >> /\ bytes[1] = 0 -> Result("CorruptVarint")
    [] OTHER -> VarintAt(bytes, VarintSize(bytes[1]))

(* An element's id, the length of its payload and that of its header.      *)
TagOf(id, length) ==
  IF length.status # "ok" THEN length
  ELSE [status |-> "ok", id |-> id.varint, length |-> length.varint,
        size |-> id.size + length.size]

TagAfter(id, bytes) ==
  CASE id.status # "ok" -> id
    [] id.status = "ok" /\ id.varint = Unknown -> Result("UnknownElementId")
    [] OTHER -> TagOf(id, decode_varint(SubSeq(bytes, id.size + 1, Len(bytes))))

decode_tag(bytes) == TagAfter(decode_varint(bytes), bytes)

decode_uint(bytes) ==
  IF Len(bytes) \in 1..ByteBits
  THEN [status |-> "ok", number |-> ReadUint(bytes)]
  ELSE Result("CorruptPayload")

-----------------------------------------------------------------------------
(* Mutant: a value that fills the bits of a size is written in that size.  *)
MinimalSizeTight(value) == Min({s \in 1..ByteBits : value < Flag(s)})

(* Mutant: the size is chosen as if the flag took two bits.                *)
MinimalSizeWide(value) ==
  IF value + 1 < Flag(1) \div 2 THEN 1
  ELSE Min({s \in 2..ByteBits : value < Flag(s) - 1})

(* The loop of encode_varint.                                              *)
MinimalSize(value) == Min({s \in 1..ByteBits : value < Flag(s) - 1})

(* encode_varint: the unknown value always in one byte.                    *)
encode_varint(varint) ==
  CASE varint = Unknown   -> [status |-> "ok", bytes |-> <<Pow2[ByteBits] - 1>>]
    [] varint > EIGHT_MAX -> Result("OutOfRange")
    [] OTHER -> LET size == MinimalSize(varint)
                IN  [status |-> "ok", bytes |-> PutUint(Flag(size) + varint, size)]

encode_varint_4(varint) ==
  CASE varint = Unknown     -> [status |-> "ok", bytes |-> PutUint(2 * Flag(4) - 1, 4)]
    [] varint > FOUR_MAX    -> Result("OutOfRange")
    [] OTHER -> [status |-> "ok", bytes |-> PutUint(Flag(4) + varint, 4)]

-----------------------------------------------------------------------------
(* What follows writes to output and is used with ids and lengths in range.*)
encode_tag_header(tag, size, output) ==
  output \o encode_varint(tag).bytes \o encode_varint(size).bytes

encode_bytes(tag, bytes, output) ==
  encode_tag_header(tag, Len(bytes), output) \o bytes

encode_integer(tag, value, output) ==
  encode_tag_header(tag, ByteBits, output) \o PutUint(value, ByteBits)

(* Seeks to an offset, overwrites what is there and seeks back to the end. *)
Overwrite(output, offset, bytes) ==
  [i \in 1..Len(output) |->
     IF i - offset \in 1..Len(bytes) THEN bytes[i - offset] ELSE output[i]]

(* Where the length field of an element is whose content begins at start.  *)
LengthOffset(start) == start - 4

(* Mutant: the length field itself is counted.                             *)
ContentLenAll(opened, closed) == Len(closed) - LengthOffset(Len(opened))

ContentLen(opened, closed) == Len(closed) - Len(opened)

(* The length is unknown before the content is written, and patched then.  *)
(* content: what the closure appends to the output.                        *)
encode_element(tag, output, content) ==
  LET opened == output \o encode_varint(tag).bytes \o encode_varint_4(Unknown).bytes
      closed == opened \o content
  IN  Overwrite(closed, LengthOffset(Len(opened)),
                encode_varint_4(ContentLen(opened, closed)).bytes)

=============================================================================
