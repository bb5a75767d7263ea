-------------------------- MODULE ClusterHeadProofs --------------------------
(* Facts about the arithmetic of ClusterHead that the other proofs cite.   *)
EXTENDS ClusterHead, TLAPS

(* u64 arithmetic stays in u64.                                            *)
LEMMA WrapAddType ==
  ASSUME NEW a \in u64, NEW b \in u64
  PROVE  WrapAdd(a, b) \in u64
  BY U64Assumption DEF WrapAdd, u64

LEMMA WrapSubType ==
  ASSUME NEW a \in u64, NEW b \in u64
  PROVE  WrapSub(a, b) \in u64
  BY U64Assumption DEF WrapSub, u64

LEMMA AsU64Type ==
  ASSUME NEW i \in Int, i < U64, 0 - i < U64
  PROVE  AsU64(i) \in u64
  BY U64Assumption DEF AsU64, u64

(* Rewriting a head gives a head, with the same keyframe mark.             *)
LEMMA UpdateType ==
  ASSUME NEW head \in ClusterHeadType, NEW timecode \in u64
  PROVE  /\ update_timecode(head, timecode) \in ClusterHeadType
         /\ update_timecode(head, timecode).keyframe = head.keyframe
         /\ update_timecode(head, timecode).start = timecode
         /\ update_timecode(head, timecode).end
              = WrapAdd(timecode, WrapSub(head.end, head.start))
<1>1. WrapAdd(timecode, WrapSub(head.end, head.start)) \in u64
  BY WrapAddType, WrapSubType DEF ClusterHeadType
<1> QED
  BY <1>1 DEF update_timecode, ClusterHeadType

LEMMA NewHeadFacts ==
  ASSUME NEW tc \in u64
  PROVE  /\ NewHead(tc) \in ClusterHeadType
         /\ NewHead(tc).start = tc
         /\ NewHead(tc).end = tc
<1> DEFINE z == [keyframe |-> FALSE, start |-> 0, end |-> 0]
<1>1. z \in ClusterHeadType /\ z.start = 0 /\ z.end = 0 /\ 0 \in u64
  BY U64Assumption DEF ClusterHeadType, u64
<1>2. WrapAdd(tc, WrapSub(0, 0)) = tc
  BY U64Assumption DEF WrapAdd, WrapSub, u64
<1> HIDE DEF z
<1>3. NewHead(tc) = update_timecode(z, tc)
  BY DEF NewHead, z
<1> QED
  BY <1>1, <1>2, <1>3, UpdateType

(* A block leaves the head a head: only its end moves.                     *)
LEMMA ObserveType ==
  ASSUME NEW head \in ClusterHeadType,
         NEW i \in Int, i < U64, 0 - i < U64
  PROVE  observe_simpleblock_timecode(head, i) \in ClusterHeadType
<1>1. WrapAdd(head.start, AsU64(i)) \in u64
  BY AsU64Type, WrapAddType DEF ClusterHeadType
<1> QED
  BY <1>1 DEF observe_simpleblock_timecode, ClusterHeadType

-----------------------------------------------------------------------------
(* Adding a sign-extended number gives the sum, when that is a u64.        *)
LEMMA AddSigned ==
  ASSUME NEW a \in u64, NEW i \in Int, 0 <= a + i, a + i < U64
  PROVE  WrapAdd(a, AsU64(i)) = a + i
<1>1. CASE i < 0
  BY <1>1, U64Assumption DEF WrapAdd, AsU64, u64
<1>2. CASE i >= 0
  BY <1>2, U64Assumption DEF WrapAdd, AsU64, u64
<1> QED
  BY <1>1, <1>2

(* Moving a span keeps its length.                                         *)
LEMMA MoveSpan ==
  ASSUME NEW a \in u64, NEW b \in u64, NEW d \in Nat, a + d < U64, b + d < U64
  PROVE  WrapAdd(b, WrapSub(a + d, a)) = b + d
<1>1. a \in Nat /\ b \in Nat /\ U64 \in Nat
  BY U64Assumption DEF u64
<1>2. WrapSub(a + d, a) = d
  BY <1>1 DEF WrapSub
<1> QED
  BY <1>1, <1>2 DEF WrapAdd

(* The head of a cluster with a block at time b, and where it ends when    *)
(* the block lies within the reach of u64.                                 *)
LEMMA BlockHead ==
  ASSUME NEW tc \in u64, NEW b \in Int, b < U64, 0 - b < U64, NEW key \in BOOLEAN,
         NEW head,
         head = [observe_simpleblock_timecode(NewHead(tc), b) EXCEPT !.keyframe = key]
  PROVE  /\ head \in ClusterHeadType
         /\ head.start = tc
         /\ 0 <= tc + b /\ tc + b < U64 =>
              head.end >= tc /\ head.end \in {tc, tc + b}
<1>1. AsU64(b) \in u64 /\ WrapAdd(tc, AsU64(b)) \in u64
  BY AsU64Type, WrapAddType
<1>2. /\ head \in ClusterHeadType /\ head.start = tc
      /\ head.end = tc \/ (head.end = WrapAdd(tc, AsU64(b)) /\ head.end > tc)
  BY <1>1, NewHeadFacts DEF observe_simpleblock_timecode, ClusterHeadType
<1>3. 0 <= tc + b /\ tc + b < U64 => WrapAdd(tc, AsU64(b)) = tc + b
  BY AddSigned
<1> QED
  BY <1>2, <1>3, U64Assumption DEF u64

(* Moving a cluster behind the time last, by the offset in force or, when  *)
(* it starts before last, by a new one: it starts no earlier than last and *)
(* ends after it starts, as long as nothing is near the end of u64.        *)
LEMMA MoveBehind ==
  ASSUME NEW head \in ClusterHeadType, head.start <= head.end,
         NEW last \in u64, NEW offset \in u64, offset <= last,
         NEW duration \in Nat, NEW clock \in Nat, last <= clock,
         head.start + clock + duration < U64,
         head.end + clock + duration < U64,
         NEW off, off = IF head.start < last
                        THEN WrapSub(WrapAdd(last, duration), head.start) ELSE offset,
         NEW new, new = update_timecode(head, WrapAdd(head.start, off))
  PROVE  /\ new.start \in Nat /\ new.end \in Nat /\ off \in Nat
         /\ new.start >= last
         /\ new.start >= off
         /\ new.end >= new.start
<1> DEFINE start == head.start
           end == head.end
<1>1. /\ start \in Nat /\ end \in Nat /\ start <= end
      /\ last \in Nat /\ offset \in Nat /\ U64 \in Nat
      /\ start + clock + duration < U64
      /\ end + clock + duration < U64
  BY U64Assumption DEF ClusterHeadType, u64
<1> HIDE DEF start, end
<1>2. off = IF start < last THEN last + duration - start ELSE offset
  <2>1. CASE start < last
    <3>1. WrapAdd(last, duration) = last + duration
      BY <1>1 DEF WrapAdd
    <3>2. WrapSub(last + duration, start) = last + duration - start
      BY <1>1, <2>1 DEF WrapSub
    <3> QED
      BY <2>1, <3>1, <3>2 DEF start
  <2> QED
    BY <2>1 DEF start
<1>3. off \in Nat /\ off <= clock + duration /\ start + off >= last
  <2>1. CASE start < last
    BY <1>1, <1>2, <2>1
  <2>2. CASE ~(start < last)
    BY <1>1, <1>2, <2>2
  <2> QED
    BY <2>1, <2>2
<1>4. WrapAdd(start, off) = start + off /\ start + off \in u64
  BY <1>1, <1>3 DEF WrapAdd, u64
<1>5. new.start = start + off /\ new.end = WrapAdd(start + off, WrapSub(end, start))
  BY <1>4, UpdateType DEF start, end
<1>6. new.end = start + off + (end - start)
  BY <1>1, <1>3, <1>5 DEF WrapAdd, WrapSub
<1> QED
  BY <1>1, <1>3, <1>5, <1>6

=============================================================================
