---------------------------- MODULE ClusterHead ----------------------------
(***************************************************************************)
(* The head of a cluster (ClusterHead in src/chunk.rs): whether a keyframe *)
(* was seen in it and the span of time it covers. The arithmetic is the    *)
(* u64 arithmetic of the release build, which wraps. The encoded bytes of  *)
(* the head are a function of start, since update_timecode rewrites both.  *)
(***************************************************************************)
EXTENDS Integers

CONSTANT U64  \* the number of u64 values: 2^64 in the code

ASSUME U64Assumption == U64 \in Nat \ {0}

u64 == 0..U64 - 1

(* u64 addition and subtraction, for arguments in range.                   *)
WrapAdd(a, b) == IF a + b < U64 THEN a + b ELSE a + b - U64
WrapSub(a, b) == IF a >= b THEN a - b ELSE a - b + U64

(* timecode as u64, for an i16: a negative number is sign extended.        *)
AsU64(i) == IF i < 0 THEN U64 + i ELSE i

ClusterHeadType == [keyframe : BOOLEAN, start : u64, end : u64]

(* Mutant: only the start moves.                                           *)
update_start_only(head, timecode) == [head EXCEPT !.start = timecode]

(* Moves the span to another start, keeping its length.                    *)
update_timecode(head, timecode) ==
  [head EXCEPT !.start = timecode,
               !.end = WrapAdd(timecode, WrapSub(head.end, head.start))]

(* ClusterHead::new                                                        *)
NewHead(timecode) ==
  update_timecode([keyframe |-> FALSE, start |-> 0, end |-> 0], timecode)

(* A block's time, relative to the start, becomes the end of the span when *)
(* it is later than the start.                                             *)
observe_simpleblock_timecode(head, timecode) ==
  LET absolute == WrapAdd(head.start, AsU64(timecode))
  IN  IF absolute > head.start THEN [head EXCEPT !.end = absolute] ELSE head

=============================================================================
