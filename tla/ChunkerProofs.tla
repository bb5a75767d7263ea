---------------------------- MODULE ChunkerProofs ----------------------------
(* Proofs about Chunker, for every sequence of elements and every limit.   *)
EXTENDS Chunks, ClusterHeadProofs, SequenceTheorems, FiniteSetTheorems,
        WellFoundedInduction, TLAPS

-----------------------------------------------------------------------------
(* The part of the state every event shares.                               *)
LEMMA EventType ==
  ASSUME TypeOK, NEW s, NEW e \in Elements, Event(s, e)
  PROVE  fed' \in Seq(Elements) /\ eof' \in BOOLEAN
<1>1. Append(fed, e) \in Seq(Elements)
  BY AppendProperties DEF TypeOK
<1> QED
  BY <1>1 DEF Event, TypeOK

LEMMA NewHeadZero == NewHead(0) \in ClusterHeadType
  BY NewHeadFacts, U64Assumption DEF u64

(* The chunks that are returned.                                           *)
LEMMA OutType ==
  ASSUME TypeOK
  PROVE  /\ Append(out, HeadersChunk(buffer)) \in Seq(ChunkType)
         /\ Append(out, ClusterChunk(head, buffer)) \in Seq(ChunkType)
<1>1. HeadersChunk(buffer) \in ChunkType /\ ClusterChunk(head, buffer) \in ChunkType
  BY NewHeadZero DEF HeadersChunk, ClusterChunk, ChunkType, TypeOK
<1> QED
  BY <1>1, AppendProperties DEF TypeOK

LEMMA WrittenType ==
  ASSUME TypeOK, NEW e
  PROVE  Written(e, Len(fed) + 1) \in Seq(Nat)
<1>1. Len(fed) + 1 \in Nat
  BY LenProperties DEF TypeOK
<1> QED
  BY <1>1 DEF Written

LEMMA EncodeType ==
  ASSUME TypeOK, NEW e \in Elements, EncodeInto(e)
  PROVE  /\ state' \in {"BuildingHeader", "BuildingCluster", "End"}
         /\ buffer' \in Seq(Nat)
         /\ len' \in Nat
         /\ failed' \in BOOLEAN
<1>1. e.size \in Nat
  BY ChunkerAssumption DEF ElementShape
<1>2. CASE Encodes(e, len)
  <2>1. buffer' = buffer \o Written(e, Len(fed) + 1) /\ len' = len + e.size
        /\ state' = state /\ failed' = failed
    BY <1>2 DEF EncodeInto
  <2>2. buffer \o Written(e, Len(fed) + 1) \in Seq(Nat)
    BY WrittenType, ConcatProperties DEF TypeOK
  <2> QED
    BY <1>1, <2>1, <2>2 DEF TypeOK
<1>3. CASE ~Encodes(e, len)
  BY <1>3, EmptySeq DEF EncodeInto
<1> QED
  BY <1>2, <1>3

LEMMA TypeStep == TypeOK /\ [Next]_vars => TypeOK'
<1> SUFFICES ASSUME TypeOK, [Next]_vars PROVE TypeOK'
  OBVIOUS
<1>0. << >> \in Seq(Nat)
  BY EmptySeq
<1>1. ASSUME NEW e \in Elements, HeaderCluster(e) PROVE TypeOK'
  BY <1>0, <1>1, EventType, OutType, NewHeadZero DEF HeaderCluster, TypeOK
<1>2. ASSUME NEW e \in Elements, HeaderElement(e) PROVE TypeOK'
  <2>1. fed' \in Seq(Elements) /\ eof' \in BOOLEAN
    BY <1>2, EventType DEF HeaderElement
  <2>2. CASE e.kind = "Stripped"
    BY <1>2, <2>1, <2>2 DEF HeaderElement, TypeOK
  <2>3. CASE e.kind # "Stripped"
    BY <1>2, <2>1, <2>3, EncodeType DEF HeaderElement, TypeOK
  <2> QED
    BY <2>2, <2>3
<1>3. CASE HeaderEof
  BY <1>3 DEF HeaderEof, TypeOK
<1>4. ASSUME NEW e \in Elements, ClusterCluster(e) PROVE TypeOK'
  BY <1>0, <1>4, EventType, OutType, NewHeadZero DEF ClusterCluster, TypeOK
<1>5. ASSUME NEW e \in Elements, ClusterFile(e) PROVE TypeOK'
  <2>1. fed' \in Seq(Elements) /\ eof' \in BOOLEAN /\ e.size \in Nat
    BY <1>5, EventType, ChunkerAssumption DEF ClusterFile, ElementShape
  <2>2. CASE Encodes(e, 0)
    BY <1>5, <2>1, <2>2, OutType, WrittenType, NewHeadZero DEF ClusterFile, TypeOK
  <2>3. CASE ~Encodes(e, 0)
    BY <1>0, <1>5, <2>1, <2>3, NewHeadZero DEF ClusterFile, TypeOK
  <2> QED
    BY <2>2, <2>3
<1>6. ASSUME NEW e \in Elements, ClusterTimecode(e) PROVE TypeOK'
  <2>1. e.time \in u64
    BY <1>6, ChunkerAssumption DEF ClusterTimecode
  <2>2. head' \in ClusterHeadType
    BY <1>6, <2>1, UpdateType DEF ClusterTimecode, TypeOK
  <2> QED
    BY <1>6, <2>2, EventType DEF ClusterTimecode, TypeOK
<1>7. ASSUME NEW e \in Elements, ClusterBlock(e) PROVE TypeOK'
  <2> DEFINE h == [head EXCEPT !.keyframe = @ \/ e.keyframe]
  <2>1. e.time \in Int /\ e.time < U64 /\ 0 - e.time < U64
    BY <1>7, ChunkerAssumption DEF ClusterBlock, ElementShape
  <2>2. h \in ClusterHeadType
    BY DEF TypeOK, ClusterHeadType
  <2>3. head' = observe_simpleblock_timecode(h, e.time)
    BY <1>7 DEF ClusterBlock
  <2> HIDE DEF h
  <2>4. head' \in ClusterHeadType
    BY <2>1, <2>2, <2>3, ObserveType
  <2> QED
    BY <1>7, <2>4, EventType, EncodeType DEF ClusterBlock, TypeOK
<1>8. ASSUME NEW e \in Elements, ClusterElement(e) PROVE TypeOK'
  <2>1. fed' \in Seq(Elements) /\ eof' \in BOOLEAN
    BY <1>8, EventType DEF ClusterElement
  <2>2. CASE e.kind = "Stripped"
    BY <1>8, <2>1, <2>2 DEF ClusterElement, TypeOK
  <2>3. CASE e.kind # "Stripped"
    BY <1>8, <2>1, <2>3, EncodeType DEF ClusterElement, TypeOK
  <2> QED
    BY <2>2, <2>3
<1>9. CASE ClusterEof
  BY <1>0, <1>9, OutType, NewHeadZero DEF ClusterEof, TypeOK
<1>10. CASE UNCHANGED vars
  BY <1>10 DEF vars, TypeOK
<1> QED
  BY <1>1, <1>2, <1>3, <1>4, <1>5, <1>6, <1>7, <1>8, <1>9, <1>10 DEF Next

(* The chunker keeps its types; the times of a cluster stay within 64 bits *)
(* whatever its blocks and timecodes are.                                  *)
THEOREM TypeCorrect == Spec => []TypeOK
<1>1. Init => TypeOK
  <2> SUFFICES ASSUME Init PROVE TypeOK
    OBVIOUS
  <2>1. eof \in BOOLEAN /\ failed \in BOOLEAN
    BY DEF Init
  <2>2. buffer \in Seq(Nat) /\ out \in Seq(ChunkType) /\ fed \in Seq(Elements)
    BY EmptySeq DEF Init
  <2> QED
    BY <2>1, <2>2, NewHeadZero DEF Init, TypeOK
<1> QED
  BY <1>1, TypeStep, PTL DEF Spec

-----------------------------------------------------------------------------
(* The state the chunker is in tells what it returned last: in the header  *)
(* nothing or a cluster, in a cluster at least the header.                 *)
Alternates ==
  /\ HeadersThenClusters
  /\ state = "BuildingHeader" /\ out # << >> => out[Len(out)].kind = "Cluster"
  /\ state = "BuildingCluster" => out # << >>

(* A chunk may be added when it is the first and a header, or no second    *)
(* header in a row.                                                        *)
LEMMA AppendAlternates ==
  ASSUME TypeOK, HeadersThenClusters, NEW c \in ChunkType,
         out = << >> => c.kind = "Headers",
         out # << >> /\ c.kind = "Headers" => out[Len(out)].kind = "Cluster",
         out' = Append(out, c)
  PROVE  HeadersThenClusters' /\ out' # << >> /\ out'[Len(out')] = c
<1>1. /\ out \in Seq(ChunkType) /\ Len(out) \in Nat
      /\ Len(out') = Len(out) + 1
      /\ out'[Len(out) + 1] = c
      /\ \A i \in 1..Len(out) : out'[i] = out[i]
      /\ out' \in Seq(ChunkType)
  BY AppendProperties, LenProperties DEF TypeOK
<1>2. c.kind \in {"Headers", "Cluster"}
  BY DEF ChunkType
<1>3. out' # << >> /\ out'[Len(out')] = c
  BY <1>1, EmptySeq
<1>4. out'[1].kind = "Headers"
  <2>1. CASE out = << >>
    <3>1. Len(out) = 0
      BY <2>1, EmptySeq
    <3> QED
      BY <1>1, <2>1, <3>1
  <2>2. CASE out # << >>
    <3>1. 1 \in 1..Len(out)
      BY <1>1, <2>2, EmptySeq
    <3> QED
      BY <1>1, <2>2, <3>1 DEF HeadersThenClusters
  <2> QED
    BY <2>1, <2>2
<1>5. ASSUME NEW i \in 1..Len(out') - 1, out'[i].kind = "Headers"
      PROVE  out'[i + 1].kind = "Cluster"
  <2>1. i \in 1..Len(out) /\ out'[i] = out[i]
    BY <1>1
  <2>2. CASE i < Len(out)
    BY <1>1, <1>5, <2>1, <2>2 DEF HeadersThenClusters
  <2>3. CASE i = Len(out)
    <3>1. out # << >>
      BY <2>1, <2>3, EmptySeq
    <3>2. c.kind # "Headers"
      BY <1>5, <2>1, <2>3, <3>1
    <3> QED
      BY <1>1, <1>2, <2>3, <3>2
  <2> QED
    BY <1>1, <2>1, <2>2, <2>3
<1> QED
  BY <1>3, <1>4, <1>5 DEF HeadersThenClusters

LEMMA AlternatesStep == TypeOK /\ Alternates /\ [Next]_vars => Alternates'
<1> SUFFICES ASSUME TypeOK, Alternates, [Next]_vars PROVE Alternates'
  OBVIOUS
<1>0. /\ HeadersChunk(buffer) \in ChunkType /\ HeadersChunk(buffer).kind = "Headers"
      /\ ClusterChunk(head, buffer) \in ChunkType
      /\ ClusterChunk(head, buffer).kind = "Cluster"
  BY NewHeadZero DEF HeadersChunk, ClusterChunk, ChunkType, TypeOK
<1>1. ASSUME NEW e \in Elements, HeaderCluster(e) PROVE Alternates'
  <2>1. /\ state = "BuildingHeader" /\ state' = "BuildingCluster"
        /\ out' = Append(out, HeadersChunk(buffer))
    BY <1>1 DEF HeaderCluster, Event
  <2>2. HeadersThenClusters' /\ out' # << >>
    BY <1>0, <2>1, AppendAlternates DEF Alternates
  <2> QED
    BY <2>1, <2>2 DEF Alternates
<1>2. ASSUME state = "BuildingCluster", out' = Append(out, ClusterChunk(head, buffer))
      PROVE  Alternates'
  <2>1. HeadersThenClusters' /\ out' # << >> /\ out'[Len(out')].kind = "Cluster"
    BY <1>0, <1>2, AppendAlternates DEF Alternates
  <2> QED
    BY <2>1 DEF Alternates
<1>3. ASSUME out' = out, state' \in {state, "End"} PROVE Alternates'
  BY <1>3 DEF Alternates, HeadersThenClusters
<1>4. ASSUME NEW e \in Elements, EncodeInto(e) PROVE state' \in {state, "End"}
  BY <1>4 DEF EncodeInto
<1>5. ASSUME NEW e \in Elements, HeaderElement(e) PROVE Alternates'
  BY <1>3, <1>4, <1>5 DEF HeaderElement
<1>6. ASSUME NEW e \in Elements, ClusterCluster(e) PROVE Alternates'
  BY <1>2, <1>6 DEF ClusterCluster, Event
<1>7. ASSUME NEW e \in Elements, ClusterFile(e) PROVE Alternates'
  BY <1>2, <1>3, <1>7 DEF ClusterFile, Event
<1>8. ASSUME NEW e \in Elements,
             ClusterTimecode(e) \/ ClusterBlock(e) \/ ClusterElement(e)
      PROVE  Alternates'
  BY <1>3, <1>4, <1>8 DEF ClusterTimecode, ClusterBlock, ClusterElement
<1>9. CASE HeaderEof
  BY <1>3, <1>9 DEF HeaderEof
<1>10. CASE ClusterEof
  BY <1>2, <1>10 DEF ClusterEof
<1>11. CASE UNCHANGED vars
  BY <1>3, <1>11 DEF vars
<1> QED
  BY <1>1, <1>5, <1>6, <1>7, <1>8, <1>9, <1>10, <1>11 DEF Next

(* What the relay's channel relies on: a stream of chunks starts with a    *)
(* Headers chunk, and no two Headers chunks follow one another.            *)
THEOREM HeadersThenClustersAlways == Spec => []HeadersThenClusters
<1>1. Init => Alternates
  BY EmptySeq DEF Init, Alternates, HeadersThenClusters
<1>2. Spec => []Alternates
  BY <1>1, TypeCorrect, AlternatesStep, PTL DEF Spec
<1> QED
  BY <1>2, PTL DEF Alternates

-----------------------------------------------------------------------------
(* A set of numbers that is not empty has a least element, since less-than *)
(* is well founded; a bounded one then has a greatest.                     *)
LEMMA LeastNumber ==
  ASSUME NEW T \in SUBSET Nat, T # {}
  PROVE  \E m \in T : \A n \in T : m <= n
<1> DEFINE R == OpToRel(<, Nat)
<1>1. IsWellFoundedOn(R, Nat)
  BY NatLessThanWellFounded
<1> HIDE DEF R
<1>2. PICK m \in T : \A n \in T : ~(<<n, m>> \in R)
  BY <1>1, WFMin
<1>3. ASSUME NEW n \in T PROVE m <= n
  <2>1. n \in Nat /\ m \in Nat
    OBVIOUS
  <2>2. n < m => <<n, m>> \in R
    BY <2>1 DEF R, OpToRel
  <2> QED
    BY <1>2, <2>1, <2>2
<1> QED
  BY <1>3

LEMMA GreatestNumber ==
  ASSUME NEW b \in Nat, NEW T \in SUBSET (0..b), T # {}
  PROVE  /\ Max(T) \in T
         /\ \A n \in T : n <= Max(T)
<1> DEFINE U == {b - n : n \in T}
<1>1. U \in SUBSET Nat /\ U # {}
  <2>1. \A n \in T : b - n \in Nat
    OBVIOUS
  <2>2. PICK n \in T : TRUE
    OBVIOUS
  <2>3. b - n \in U
    BY <2>2
  <2> QED
    BY <2>1, <2>3
<1> HIDE DEF U
<1>2. PICK d \in U : \A u \in U : d <= u
  BY <1>1, LeastNumber
<1>3. PICK m \in T : d = b - m
  BY DEF U
<1>4. ASSUME NEW n \in T PROVE m >= n
  <2>1. b - n \in U
    BY DEF U
  <2>2. b - m <= b - n
    BY <1>2, <1>3, <2>1
  <2> QED
    BY <2>2
<1>5. Max(T) \in T /\ \A n \in T : Max(T) >= n
  BY <1>4 DEF Max
<1> QED
  BY <1>5

(* The greatest of them, when it is at hand.                               *)
LEMMA MaxIs ==
  ASSUME NEW b \in Nat, NEW T \in SUBSET (0..b), NEW m \in T, \A n \in T : n <= m
  PROVE  Max(T) = m
<1>1. Max(T) \in T /\ \A n \in T : n <= Max(T)
  BY GreatestNumber
<1>2. \A n \in T : n \in Nat
  OBVIOUS
<1>3. Max(T) \in Nat /\ m \in Nat /\ m <= Max(T) /\ Max(T) <= m
  BY <1>1, <1>2
<1> QED
  BY <1>3

-----------------------------------------------------------------------------
(* How the definition of the chunks changes when an element is fed: below, *)
(* n is the number of elements before e is fed.                     *)
Feeds(e, n) == fed' = Append(fed, e) /\ n = Len(fed)

LEMMA Fed ==
  ASSUME TypeOK, NEW e \in Elements, NEW n, Feeds(e, n)
  PROVE  /\ n \in Nat /\ Len(fed) = n /\ Len(fed') = n + 1
         /\ fed'[n + 1] = e
         /\ \A i \in 1..n : fed'[i] = fed[i]
  BY AppendProperties, LenProperties DEF TypeOK, Feeds

(* The cuts so far stay, and nothing but the new element can be another.   *)
LEMMA CutsGrow ==
  ASSUME TypeOK, NEW e \in Elements, NEW n, Feeds(e, n)
  PROVE  /\ Cuts \in SUBSET (1..n) /\ Cuts' \in SUBSET (1..(n + 1))
         /\ \A i \in 1..n : i \in Cuts' <=> i \in Cuts
         /\ n + 1 \in Cuts' <=>
              \/ e.kind = "Cluster"
              \/ /\ StartsFile(e)
                 /\ \E j \in 1..n : IsCluster(j) /\
                      \A k \in j + 1..n : ~StartsFile(fed[k])
<1>1. /\ n \in Nat /\ Len(fed) = n /\ Len(fed') = n + 1 /\ fed'[n + 1] = e
      /\ \A i \in 1..n : fed'[i] = fed[i]
  BY Fed
<1>2. ASSUME NEW i \in 1..n PROVE IsCluster(i)' <=> IsCluster(i)
  BY <1>1, <1>2 DEF IsCluster
<1>3. ASSUME NEW i \in 1..n PROVE FileStartsAt(i)' <=> FileStartsAt(i)
  <2>1. \A k \in 1..i : fed'[k] = fed[k] /\ (IsCluster(k)' <=> IsCluster(k))
    BY <1>1, <1>2
  <2>2. \A j \in 1..i - 1 : \A k \in j + 1..i - 1 : k \in 1..i
    OBVIOUS
  <2> QED
    BY <2>1, <2>2, <1>1 DEF FileStartsAt
<1>4. FileStartsAt(n + 1)' <=>
        /\ StartsFile(e)
        /\ \E j \in 1..n : IsCluster(j) /\ \A k \in j + 1..n : ~StartsFile(fed[k])
  <2>1. (n + 1) - 1 = n
    BY <1>1
  <2>2. \A j \in 1..n : \A k \in j + 1..n : k \in 1..n
    BY <1>1
  <2> QED
    BY <1>1, <1>2, <2>1, <2>2 DEF FileStartsAt
<1>5. IsCluster(n + 1)' <=> e.kind = "Cluster"
  BY <1>1 DEF IsCluster
<1>6. Cuts' = {i \in 1..(n + 1) : IsCluster(i)' \/ FileStartsAt(i)'}
  BY <1>1 DEF Cuts
<1>7. Cuts = {i \in 1..n : IsCluster(i) \/ FileStartsAt(i)}
  BY <1>1 DEF Cuts
<1>8. 1..n \subseteq 1..(n + 1) /\ n + 1 \in 1..(n + 1)
  BY <1>1
<1>9. \A i \in 1..n : i \in Cuts' <=> i \in Cuts
  BY <1>2, <1>3, <1>6, <1>7, <1>8
<1>10. n + 1 \in Cuts' <=> IsCluster(n + 1)' \/ FileStartsAt(n + 1)'
  BY <1>6, <1>8
<1> QED
  BY <1>4, <1>5, <1>6, <1>7, <1>9, <1>10

(* What the definition says of a part of the stream does not change when   *)
(* more is fed behind it.                                                  *)
LEMMA PastStays ==
  ASSUME TypeOK, NEW e \in Elements, NEW n, Feeds(e, n),
         NEW i \in 0..n, NEW j \in 0..(n + 1)
  PROVE  /\ OpensCluster(i)' <=> OpensCluster(i)
         /\ Encoded(i, j)' = Encoded(i, j)
         /\ TimeOf(i, j)' = TimeOf(i, j)
         /\ DurationOf(i, j)' = DurationOf(i, j)
         /\ \A h : IsHeadOf(h, i, j)' <=> IsHeadOf(h, i, j)
<1>1. /\ n \in Nat /\ i \in Nat /\ j \in Nat
      /\ \A k \in 1..n : fed'[k] = fed[k]
  BY Fed
<1>2. OpensCluster(i)' <=> OpensCluster(i)
  BY <1>1 DEF OpensCluster, IsCluster
<1>3. \A k \in i..j - 1 : k > 0 => k \in 1..n
  BY <1>1
<1>4. \A k \in i + 1..j - 1 : k \in 1..n
  BY <1>1
<1>5. Encoded(i, j)' = Encoded(i, j)
  BY <1>1, <1>2, <1>3 DEF Encoded
<1>6. ASSUME NEW S \in SUBSET (i + 1..j - 1), S # {}
      PROVE  fed'[Max(S)] = fed[Max(S)]
  <2>1. S \in SUBSET (0..n)
    BY <1>1, <1>4
  <2>2. Max(S) \in S
    BY <1>1, <1>6, <2>1, GreatestNumber
  <2> QED
    BY <1>1, <1>4, <2>2
<1>7. TimeOf(i, j)' = TimeOf(i, j)
  <2> DEFINE S == {k \in i + 1..j - 1 : fed[k].kind = "Timecode"}
             T == {k \in i + 1..j - 1 : fed'[k].kind = "Timecode"}
  <2>1. S = T
    BY <1>1, <1>4
  <2>2. TimeOf(i, j) = IF S = {} THEN 0 ELSE fed[Max(S)].time
    BY DEF TimeOf
  <2>3. TimeOf(i, j)' = IF T = {} THEN 0 ELSE fed'[Max(T)].time
    BY DEF TimeOf
  <2>4. S \in SUBSET (i + 1..j - 1)
    OBVIOUS
  <2> HIDE DEF S, T
  <2> QED
    BY <1>6, <2>1, <2>2, <2>3, <2>4
<1>8. DurationOf(i, j)' = DurationOf(i, j)
  <2> DEFINE S == {k \in i + 1..j - 1 : fed[k].kind = "SimpleBlock" /\ fed[k].time > 0}
             T == {k \in i + 1..j - 1 : fed'[k].kind = "SimpleBlock" /\ fed'[k].time > 0}
  <2>1. S = T
    BY <1>1, <1>4
  <2>2. DurationOf(i, j) = IF S = {} THEN 0 ELSE fed[Max(S)].time
    BY DEF DurationOf
  <2>3. DurationOf(i, j)' = IF T = {} THEN 0 ELSE fed'[Max(T)].time
    BY DEF DurationOf
  <2>4. S \in SUBSET (i + 1..j - 1)
    OBVIOUS
  <2> HIDE DEF S, T
  <2> QED
    BY <1>6, <2>1, <2>2, <2>3, <2>4
<1>9. ASSUME NEW h PROVE IsHeadOf(h, i, j)' <=> IsHeadOf(h, i, j)
  BY <1>1, <1>4, <1>7 DEF IsHeadOf
<1> QED
  BY <1>2, <1>5, <1>7, <1>8, <1>9

(* The cut a chunk begins at, and its place among the chunks, are settled  *)
(* when it ends.                                                           *)
LEMMA OrderStays ==
  ASSUME TypeOK, NEW e \in Elements, NEW n, Feeds(e, n)
  PROVE  /\ \A j \in 1..(n + 1) : CutBefore(j)' = CutBefore(j) /\ CutBefore(j) \in 0..j - 1
         /\ \A j \in 1..n : Rank(j)' = Rank(j)
<1>0. n \in Nat
  BY Fed
<1>1. /\ Cuts \in SUBSET (1..n) /\ Cuts' \in SUBSET (1..(n + 1))
      /\ \A i \in 1..n : i \in Cuts' <=> i \in Cuts
  BY CutsGrow
<1>2. ASSUME NEW j \in 1..(n + 1)
      PROVE  CutBefore(j)' = CutBefore(j) /\ CutBefore(j) \in 0..j - 1
  <2> DEFINE S == {0} \cup {i \in Cuts : i < j}
             T == {0} \cup {i \in Cuts' : i < j}
  <2>1. \A i \in 1..(n + 1) : i < j => i \in 1..n
    BY <1>0
  <2>2. S = T
    BY <1>1, <2>1
  <2>3. CutBefore(j) = Max(S) /\ CutBefore(j)' = Max(T)
    BY DEF CutBefore
  <2>4. S \in SUBSET (0..j - 1) /\ S # {} /\ j - 1 \in Nat
    <3>1. j \in Nat /\ j - 1 \in Nat /\ 0 \in 0..j - 1
      BY <1>0
    <3>2. \A i \in 1..n : i < j => i \in 0..j - 1
      BY <1>0, <3>1
    <3> QED
      BY <1>1, <3>1, <3>2
  <2> HIDE DEF S
  <2>5. Max(S) \in S
    BY <2>4, GreatestNumber
  <2> QED
    BY <2>2, <2>3, <2>4, <2>5
<1>3. ASSUME NEW j \in 1..n PROVE Rank(j)' = Rank(j)
  <2>1. \A i \in 1..(n + 1) : i <= j => i \in 1..n
    BY <1>0
  <2>2. {i \in Cuts : i <= j} = {i \in Cuts' : i <= j}
    BY <1>1, <2>1
  <2> QED
    BY <2>2 DEF Rank
<1> QED
  BY <1>2, <1>3

LEMMA LastCutFacts ==
  ASSUME TypeOK
  PROVE  /\ LastCut \in 0..Len(fed)
         /\ LastCut \in {0} \cup Cuts
         /\ \A i \in Cuts : i <= LastCut
<1> DEFINE S == {0} \cup Cuts
<1>1. Len(fed) \in Nat
  BY LenProperties DEF TypeOK
<1>2. S \in SUBSET (0..Len(fed)) /\ S # {}
  BY <1>1 DEF Cuts
<1>3. LastCut = Max(S)
  BY DEF LastCut
<1> HIDE DEF S
<1>4. Max(S) \in S /\ \A i \in S : i <= Max(S)
  BY <1>1, <1>2, GreatestNumber
<1> QED
  BY <1>2, <1>3, <1>4 DEF S

LEMMA RankFacts ==
  ASSUME TypeOK
  PROVE  /\ IsFiniteSet(Cuts) /\ Cardinality(Cuts) \in Nat
         /\ \A j \in Cuts : Rank(j) \in 1..Cardinality(Cuts)
<1>1. Len(fed) \in Nat
  BY LenProperties DEF TypeOK
<1>2. Cuts \in SUBSET (1..Len(fed)) /\ IsFiniteSet(1..Len(fed))
  BY <1>1, FS_Interval DEF Cuts
<1>3. IsFiniteSet(Cuts) /\ Cardinality(Cuts) \in Nat
  BY <1>2, FS_Subset, FS_CardinalityType
<1>4. ASSUME NEW j \in Cuts PROVE Rank(j) \in 1..Cardinality(Cuts)
  <2> DEFINE S == {i \in Cuts : i <= j}
  <2>1. j \in S /\ S \in SUBSET Cuts
    BY <1>1, <1>2
  <2>2. Rank(j) = Cardinality(S)
    BY DEF Rank
  <2> HIDE DEF S
  <2>3. IsFiniteSet(S) /\ Cardinality(S) <= Cardinality(Cuts) /\ Cardinality(S) \in Nat
    BY <1>3, <2>1, FS_Subset, FS_CardinalityType
  <2>4. Cardinality(S) # 0
    BY <2>1, <2>3, FS_EmptySet
  <2> QED
    BY <1>3, <2>2, <2>3, <2>4
<1> QED
  BY <1>3, <1>4

(* An element that cuts nothing off goes into the chunk under construction.*)
LEMMA NoCut ==
  ASSUME TypeOK, NEW e \in Elements, NEW n, Feeds(e, n), n + 1 \notin Cuts'
  PROVE  Cuts' = Cuts /\ LastCut' = LastCut
<1>0. n \in Nat
  BY Fed
<1>1. /\ Cuts \in SUBSET (1..n) /\ Cuts' \in SUBSET (1..(n + 1))
      /\ \A i \in 1..n : i \in Cuts' <=> i \in Cuts
  BY CutsGrow
<1>2. \A i \in 1..(n + 1) : i \in 1..n \/ i = n + 1
  BY <1>0
<1>3. Cuts' = Cuts
  BY <1>1, <1>2
<1> QED
  BY <1>3 DEF LastCut

(* One that does is where the next chunk begins.                           *)
LEMMA NewCut ==
  ASSUME TypeOK, NEW e \in Elements, NEW n, Feeds(e, n), n + 1 \in Cuts'
  PROVE  /\ LastCut' = n + 1
         /\ CutBefore(n + 1)' = LastCut
         /\ Cardinality(Cuts)' = Cardinality(Cuts) + 1
         /\ Rank(n + 1)' = Cardinality(Cuts) + 1
<1>0. n \in Nat
  BY Fed
<1>1. /\ Cuts \in SUBSET (1..n) /\ Cuts' \in SUBSET (1..(n + 1))
      /\ \A i \in 1..n : i \in Cuts' <=> i \in Cuts
  BY CutsGrow
<1>2. \A i \in 1..(n + 1) : i \in 1..n \/ i = n + 1
  BY <1>0
<1>3. Cuts' = Cuts \cup {n + 1}
  BY <1>1, <1>2
<1>4. n + 1 \notin Cuts
  BY <1>0, <1>1
<1>5. LastCut' = n + 1
  <2> DEFINE S == {0} \cup Cuts'
  <2>1. /\ S \in SUBSET (0..(n + 1)) /\ n + 1 \in Nat /\ n + 1 \in S
        /\ \A i \in S : i <= n + 1
    BY <1>0, <1>1
  <2>2. LastCut' = Max(S)
    BY DEF LastCut
  <2> HIDE DEF S
  <2> QED
    BY <2>1, <2>2, MaxIs
<1>6. CutBefore(n + 1)' = LastCut
  <2>1. (\A i \in Cuts : i < n + 1) /\ ~(n + 1 < n + 1)
    BY <1>0, <1>1
  <2>2. {i \in Cuts' : i < n + 1} = Cuts
    BY <1>3, <2>1
  <2> QED
    BY <2>2 DEF CutBefore, LastCut
<1>7. Cardinality(Cuts)' = Cardinality(Cuts) + 1
  BY <1>3, <1>4, RankFacts, FS_AddElement
<1>8. {i \in Cuts' : i <= n + 1} = Cuts'
  <2>1. \A i \in Cuts' : i <= n + 1
    BY <1>0, <1>1
  <2> QED
    BY <2>1
<1> QED
  BY <1>5, <1>6, <1>7, <1>8 DEF Rank

-----------------------------------------------------------------------------
(* How the chunk under construction, which began at i, grows.              *)

LEMMA EncodedGrows ==
  ASSUME TypeOK, NEW e \in Elements, NEW n, Feeds(e, n), NEW i \in 0..n
  PROVE  Encoded(i, n + 2)' = Encoded(i, n + 1) \cup
           (IF /\ e.kind \notin {"Cluster", "Stripped"}
               /\ e.size > 0
               /\ ~(OpensCluster(i) /\ e.kind = "Timecode")
            THEN {n + 1} ELSE {})
<1>1. /\ n \in Nat /\ i \in Nat /\ fed'[n + 1] = e
      /\ \A k \in 1..n : fed'[k] = fed[k]
  BY Fed
<1>2. OpensCluster(i)' <=> OpensCluster(i)
  BY <1>1 DEF OpensCluster, IsCluster
<1>3. (n + 2) - 1 = n + 1 /\ (n + 1) - 1 = n /\ n + 1 > 0 /\ n + 1 \notin i..n
  BY <1>1
<1>4. \A k : k \in i..n + 1 <=> k \in i..n \/ k = n + 1
  BY <1>1
<1>5. \A k \in i..n : k > 0 => k \in 1..n
  BY <1>1
<1> QED
  BY <1>1, <1>2, <1>3, <1>4, <1>5 DEF Encoded

LEMMA EncodedBegins ==
  ASSUME TypeOK, NEW e \in Elements, NEW n, Feeds(e, n)
  PROVE  Encoded(n + 1, n + 2)' =
           (IF e.kind \notin {"Cluster", "Stripped"} /\ e.size > 0
            THEN {n + 1} ELSE {})
<1>1. n \in Nat /\ fed'[n + 1] = e
  BY Fed
<1>2. OpensCluster(n + 1)' <=> e.kind = "Cluster"
  BY <1>1 DEF OpensCluster, IsCluster
<1>3. (n + 2) - 1 = n + 1 /\ n + 1 > 0
  BY <1>1
<1>4. \A k : k \in n + 1..n + 1 <=> k = n + 1
  BY <1>1
<1> QED
  BY <1>1, <1>2, <1>3, <1>4 DEF Encoded

(* Writing an element behind the others.                                   *)
LEMMA ListsWritten ==
  ASSUME NEW n \in Nat, NEW S \in SUBSET (1..n), NEW s \in Seq(Nat), Lists(s, S),
         NEW e
  PROVE  Lists(s \o Written(e, n + 1),
               S \cup (IF e.size > 0 THEN {n + 1} ELSE {}))
<1>1. CASE e.size > 0
  <2> DEFINE m == Len(s)
             t == s \o <<n + 1>>
  <2>1. m \in Nat /\ <<n + 1>> \in Seq(Nat) /\ Len(<<n + 1>>) = 1 /\ <<n + 1>>[1] = n + 1
    BY LenProperties
  <2>2. /\ Len(t) = m + 1 /\ t[m + 1] = n + 1
        /\ \A a \in 1..m : t[a] = s[a] /\ s[a] \in 1..n
    <3>1. Len(t) = m + 1 /\ \A a \in 1..m : t[a] = s[a]
      BY <2>1, ConcatProperties
    <3>2. t[m + 1] = n + 1
      BY <2>1, ConcatProperties
    <3>3. \A a \in 1..m : s[a] \in 1..n
      BY DEF Lists
    <3> QED
      BY <3>1, <3>2, <3>3
  <2>3. S = {s[a] : a \in 1..m} /\ \A a, b \in 1..m : a < b => s[a] < s[b]
    BY DEF Lists
  <2>4. \A a : a \in 1..(m + 1) <=> a \in 1..m \/ a = m + 1
    BY <2>1
  <2> HIDE DEF m, t
  <2>5. {t[a] : a \in 1..Len(t)} = S \cup {n + 1}
    BY <2>2, <2>3, <2>4
  <2>6. ASSUME NEW a \in 1..Len(t), NEW b \in 1..Len(t), a < b PROVE t[a] < t[b]
    <3>1. a \in 1..m
      BY <2>1, <2>2, <2>6
    <3>2. CASE b \in 1..m
      BY <2>2, <2>3, <2>6, <3>1, <3>2
    <3>3. CASE b = m + 1
      BY <2>2, <3>1, <3>3
    <3> QED
      BY <2>2, <2>4, <3>2, <3>3
  <2>7. Lists(t, S \cup {n + 1})
    BY <2>5, <2>6 DEF Lists
  <2>8. t = s \o Written(e, n + 1)
    BY <1>1 DEF t, Written
  <2> QED
    BY <1>1, <2>7, <2>8
<1>2. CASE ~(e.size > 0)
  <2>1. s \o << >> = s
    BY ConcatEmptySeq
  <2>2. Written(e, n + 1) = << >>
    BY <1>2 DEF Written
  <2> QED
    BY <1>2, <2>1, <2>2
<1> QED
  BY <1>1, <1>2

LEMMA ListsNothing == Lists(<< >>, {})
  BY DEF Lists

(* The last of some elements between i and the end, when another is fed.   *)
LEMMA LastGrows ==
  ASSUME NEW n \in Nat, NEW i \in 0..n, NEW S \in SUBSET (i + 1..n)
  PROVE  /\ Max(S \cup {n + 1}) = n + 1
         /\ S # {} => Max(S) \in 1..n
<1>1. S \in SUBSET (1..n) /\ S \in SUBSET (0..n)
  OBVIOUS
<1>2. Max(S \cup {n + 1}) = n + 1
  <2> DEFINE T == S \cup {n + 1}
  <2>1. n + 1 \in Nat /\ n + 1 \in T /\ T \in SUBSET (0..(n + 1))
        /\ \A k \in T : k <= n + 1
    BY <1>1
  <2> HIDE DEF T
  <2>2. Max(T) = n + 1
    BY <2>1, MaxIs
  <2> QED
    BY <2>2 DEF T
<1>3. S # {} => Max(S) \in S
  BY <1>1, GreatestNumber
<1> QED
  BY <1>1, <1>2, <1>3

LEMMA HeadGrows ==
  ASSUME TypeOK, NEW e \in Elements, NEW n, Feeds(e, n), NEW i \in 0..n
  PROVE  /\ TimeOf(i, n + 2)'
              = IF e.kind = "Timecode" THEN e.time ELSE TimeOf(i, n + 1)
         /\ DurationOf(i, n + 2)'
              = IF e.kind = "SimpleBlock" /\ e.time > 0
                THEN e.time ELSE DurationOf(i, n + 1)
         /\ (\E k \in i + 1..(n + 2) - 1 :
               fed'[k].kind = "SimpleBlock" /\ fed'[k].keyframe)
            <=> \/ e.kind = "SimpleBlock" /\ e.keyframe
                \/ \E k \in i + 1..(n + 1) - 1 :
                     fed[k].kind = "SimpleBlock" /\ fed[k].keyframe
<1>1. /\ n \in Nat /\ i \in Nat /\ fed'[n + 1] = e
      /\ \A k \in 1..n : fed'[k] = fed[k]
  BY Fed
<1>2. (n + 2) - 1 = n + 1 /\ (n + 1) - 1 = n
  BY <1>1
<1>3. \A k : k \in i + 1..n + 1 <=> k \in i + 1..n \/ k = n + 1
  BY <1>1
<1>4. \A k \in i + 1..n : k \in 1..n
  BY <1>1
<1>5. TimeOf(i, n + 2)' = IF e.kind = "Timecode" THEN e.time ELSE TimeOf(i, n + 1)
  <2> DEFINE S == {k \in i + 1..n : fed[k].kind = "Timecode"}
             T == {k \in i + 1..n + 1 : fed'[k].kind = "Timecode"}
  <2>1. T = IF e.kind = "Timecode" THEN S \cup {n + 1} ELSE S
    BY <1>1, <1>3, <1>4
  <2>2. TimeOf(i, n + 1) = IF S = {} THEN 0 ELSE fed[Max(S)].time
    BY <1>2 DEF TimeOf
  <2>3. TimeOf(i, n + 2)' = IF T = {} THEN 0 ELSE fed'[Max(T)].time
    BY <1>2 DEF TimeOf
  <2>4. S \in SUBSET (i + 1..n)
    OBVIOUS
  <2> HIDE DEF S, T
  <2>5. Max(S \cup {n + 1}) = n + 1 /\ (S # {} => Max(S) \in 1..n)
    BY <1>1, <2>4, LastGrows
  <2>6. CASE e.kind = "Timecode"
    BY <1>1, <2>1, <2>3, <2>5, <2>6
  <2>7. CASE e.kind # "Timecode"
    BY <1>1, <2>1, <2>2, <2>3, <2>5, <2>7
  <2> QED
    BY <2>6, <2>7
<1>6. DurationOf(i, n + 2)' = IF e.kind = "SimpleBlock" /\ e.time > 0
                              THEN e.time ELSE DurationOf(i, n + 1)
  <2> DEFINE S == {k \in i + 1..n : fed[k].kind = "SimpleBlock" /\ fed[k].time > 0}
             T == {k \in i + 1..n + 1 : fed'[k].kind = "SimpleBlock" /\ fed'[k].time > 0}
  <2>1. T = IF e.kind = "SimpleBlock" /\ e.time > 0 THEN S \cup {n + 1} ELSE S
    BY <1>1, <1>3, <1>4
  <2>2. DurationOf(i, n + 1) = IF S = {} THEN 0 ELSE fed[Max(S)].time
    BY <1>2 DEF DurationOf
  <2>3. DurationOf(i, n + 2)' = IF T = {} THEN 0 ELSE fed'[Max(T)].time
    BY <1>2 DEF DurationOf
  <2>4. S \in SUBSET (i + 1..n)
    OBVIOUS
  <2> HIDE DEF S, T
  <2>5. Max(S \cup {n + 1}) = n + 1 /\ (S # {} => Max(S) \in 1..n)
    BY <1>1, <2>4, LastGrows
  <2>6. CASE e.kind = "SimpleBlock" /\ e.time > 0
    BY <1>1, <2>1, <2>3, <2>5, <2>6
  <2>7. CASE ~(e.kind = "SimpleBlock" /\ e.time > 0)
    BY <1>1, <2>1, <2>2, <2>3, <2>5, <2>7
  <2> QED
    BY <2>6, <2>7
<1>7. (\E k \in i + 1..(n + 2) - 1 :
         fed'[k].kind = "SimpleBlock" /\ fed'[k].keyframe)
      <=> \/ e.kind = "SimpleBlock" /\ e.keyframe
          \/ \E k \in i + 1..(n + 1) - 1 :
               fed[k].kind = "SimpleBlock" /\ fed[k].keyframe
  BY <1>1, <1>2, <1>3, <1>4
<1> QED
  BY <1>5, <1>6, <1>7

LEMMA HeadBegins ==
  ASSUME TypeOK, NEW e \in Elements, NEW n, Feeds(e, n)
  PROVE  /\ TimeOf(n + 1, n + 2)' = 0
         /\ DurationOf(n + 1, n + 2)' = 0
         /\ IsHeadOf(NewHead(0), n + 1, n + 2)'
<1>1. n \in Nat
  BY Fed
<1>2. (n + 1) + 1..(n + 2) - 1 = {}
  BY <1>1
<1>3. TimeOf(n + 1, n + 2)' = 0 /\ DurationOf(n + 1, n + 2)' = 0
  BY <1>2 DEF TimeOf, DurationOf
<1>4. NewHead(0).start = 0 /\ NewHead(0).keyframe = FALSE
  <2>1. 0 \in u64
    BY U64Assumption DEF u64
  <2> QED
    BY <2>1, NewHeadFacts DEF NewHead, update_timecode
<1> QED
  BY <1>2, <1>3, <1>4 DEF IsHeadOf

-----------------------------------------------------------------------------
(* The chunks returned, when nothing, or the chunk that is complete, is    *)
(* added to them.                                                          *)

LEMMA SpansStay ==
  ASSUME TypeOK, NEW e \in Elements, NEW n, Feeds(e, n),
         NEW i \in 0..n, NEW j \in 0..(n + 1), NEW c
  PROVE  /\ Spans(c, i, j) => Spans(c, i, j)'
         /\ EndsInTime(c, i, j) => EndsInTime(c, i, j)'
  BY PastStays DEF Spans, EndsInTime

(* The chunks of old cuts in what is returned, if only more is returned.   *)
LEMMA ReturnedStay ==
  ASSUME TypeOK, ChunksAsDefined, ~Flushed, NEW e \in Elements, NEW n, Feeds(e, n),
         out' = out \/ \E c \in ChunkType : out' = Append(out, c),
         NEW j \in Cuts
  PROVE  /\ j \in 1..n
         /\ out'[Rank(j)'] = out[Rank(j)]
         /\ Spans(out[Rank(j)], CutBefore(j), j)'
         /\ EndsInTime(out[Rank(j)], CutBefore(j), j) =>
              EndsInTime(out[Rank(j)], CutBefore(j), j)'
<1>1. n \in Nat /\ j \in 1..n
  BY Fed, CutsGrow
<1>2. j \in 0..(n + 1) /\ j \in 1..(n + 1)
  BY <1>1
<1>3. /\ CutBefore(j)' = CutBefore(j) /\ CutBefore(j) \in 0..j - 1
      /\ Rank(j)' = Rank(j)
  BY <1>1, <1>2, OrderStays
<1>4. Rank(j) \in 1..Len(out)
  BY RankFacts DEF ChunksAsDefined
<1>5. out'[Rank(j)] = out[Rank(j)]
  BY <1>4, AppendProperties DEF TypeOK
<1>6. PICK i \in 0..n : i = CutBefore(j)
  BY <1>1, <1>3
<1>7. PICK c : c = out[Rank(j)]
  OBVIOUS
<1>8. Spans(c, i, j)
  BY <1>6, <1>7 DEF ChunksAsDefined
<1>9. Spans(c, i, j)' /\ (EndsInTime(c, i, j) => EndsInTime(c, i, j)')
  BY <1>2, <1>8, SpansStay
<1>10. out'[Rank(j)'] = c /\ CutBefore(j)' = i
  BY <1>3, <1>5, <1>6, <1>7
<1>11. Spans(out[Rank(j)], CutBefore(j), j)'
  BY <1>9, <1>10
<1>12. EndsInTime(out[Rank(j)], CutBefore(j), j) =>
         EndsInTime(out[Rank(j)], CutBefore(j), j)'
  BY <1>6, <1>7, <1>9, <1>10
<1> QED
  BY <1>1, <1>3, <1>5, <1>11, <1>12

LEMMA ChunksWithoutCut ==
  ASSUME TypeOK, ChunksAsDefined, NEW e \in Elements, NEW n, Feeds(e, n),
         n + 1 \notin Cuts', out' = out, ~eof, ~eof'
  PROVE  ChunksAsDefined'
<1>1. ~Flushed /\ ~Flushed'
  BY DEF Flushed
<1>2. Cuts' = Cuts
  BY NoCut
<1>3. \A j \in Cuts : Spans(out[Rank(j)], CutBefore(j), j)'
  BY <1>1, ReturnedStay
<1> QED
  BY <1>1, <1>2, <1>3 DEF ChunksAsDefined

LEMMA ChunksWithCut ==
  ASSUME TypeOK, ChunksAsDefined, NEW e \in Elements, NEW n, Feeds(e, n),
         n + 1 \in Cuts', ~eof, ~eof',
         NEW c \in ChunkType, out' = Append(out, c), Spans(c, LastCut, n + 1)
  PROVE  /\ ChunksAsDefined'
         /\ out'[Rank(n + 1)'] = c
<1>1. ~Flushed /\ ~Flushed'
  BY DEF Flushed
<1>2. /\ n \in Nat /\ Len(fed) = n
      /\ Cuts' \in SUBSET (1..(n + 1))
      /\ \A j \in 1..n : j \in Cuts' <=> j \in Cuts
  BY Fed, CutsGrow
<1>3. /\ LastCut' = n + 1 /\ CutBefore(n + 1)' = LastCut
      /\ Cardinality(Cuts)' = Cardinality(Cuts) + 1
      /\ Rank(n + 1)' = Cardinality(Cuts) + 1
  BY NewCut
<1>4. Len(out) = Cardinality(Cuts) /\ Cardinality(Cuts) \in Nat
  BY <1>1, RankFacts DEF ChunksAsDefined
<1>5. Len(out') = Cardinality(Cuts) + 1 /\ out'[Cardinality(Cuts) + 1] = c
  BY <1>4, AppendProperties DEF TypeOK
<1>6. PICK i \in 0..n : i = LastCut
  BY <1>2, LastCutFacts
<1>7. Spans(c, i, n + 1)'
  <2>1. n + 1 \in 0..(n + 1)
    BY <1>2
  <2>2. Spans(c, i, n + 1)
    BY <1>6
  <2> QED
    BY <2>1, <2>2, SpansStay
<1>8. CutBefore(n + 1)' = i /\ out'[Rank(n + 1)'] = c
  BY <1>3, <1>5, <1>6
<1>9. Spans(out[Rank(n + 1)], CutBefore(n + 1), n + 1)'
  BY <1>7, <1>8
<1>10. ASSUME NEW j \in Cuts' PROVE Spans(out[Rank(j)], CutBefore(j), j)'
  <2>1. CASE j = n + 1
    BY <1>9, <2>1
  <2>2. CASE j # n + 1
    <3>1. j \in Cuts
      BY <1>2, <2>2
    <3> QED
      BY <1>1, <3>1, ReturnedStay
  <2> QED
    BY <2>1, <2>2
<1>11. Len(out') = Cardinality(Cuts)' + 0
  BY <1>3, <1>4, <1>5
<1>12. ChunksAsDefined'
  BY <1>1, <1>10, <1>11 DEF ChunksAsDefined
<1> QED
  BY <1>8, <1>12

(* The definition depends on the elements fed only.                        *)
LEMMA SameStream ==
  ASSUME fed' = fed
  PROVE  /\ Cuts' = Cuts /\ LastCut' = LastCut
         /\ OpensCluster(LastCut)' <=> OpensCluster(LastCut)
         /\ \A j \in Cuts : Rank(j)' = Rank(j) /\ CutBefore(j)' = CutBefore(j)
         /\ \A i, j : Encoded(i, j)' = Encoded(i, j) /\ TimeOf(i, j)' = TimeOf(i, j)
                      /\ DurationOf(i, j)' = DurationOf(i, j)
<1>1. Cuts' = Cuts /\ LastCut' = LastCut
  BY DEF LastCut, Cuts, FileStartsAt, IsCluster
<1>2. \A j \in Cuts : Rank(j)' = Rank(j) /\ CutBefore(j)' = CutBefore(j)
  BY <1>1 DEF Rank, CutBefore
<1>3. \A i, j : Encoded(i, j)' = Encoded(i, j) /\ TimeOf(i, j)' = TimeOf(i, j)
                /\ DurationOf(i, j)' = DurationOf(i, j)
  BY DEF Encoded, TimeOf, DurationOf, OpensCluster, IsCluster
<1> QED
  BY <1>1, <1>2, <1>3 DEF OpensCluster, IsCluster

(* The end of the source, with or without a cluster to flush.              *)
LEMMA ChunksFlushed ==
  ASSUME TypeOK, ChunksAsDefined, ~eof, OpensCluster(LastCut), eof', fed' = fed,
         NEW c \in ChunkType, out' = Append(out, c), Spans(c, LastCut, Len(fed) + 1)
  PROVE  /\ ChunksAsDefined' /\ Flushed'
         /\ out'[Len(out')] = c
         /\ \A j \in Cuts : out'[Rank(j)] = out[Rank(j)]
<1>1. ~Flushed /\ Flushed'
  BY SameStream DEF Flushed
<1>2. Len(out) = Cardinality(Cuts) /\ Cardinality(Cuts) \in Nat
      /\ \A j \in Cuts : Rank(j) \in 1..Len(out)
  BY <1>1, RankFacts DEF ChunksAsDefined
<1>3. /\ Len(out') = Cardinality(Cuts) + 1 /\ out'[Len(out')] = c
      /\ \A j \in Cuts : out'[Rank(j)] = out[Rank(j)]
  BY <1>2, AppendProperties DEF TypeOK
<1>4. ASSUME NEW d, NEW i, NEW j, Spans(d, i, j) PROVE Spans(d, i, j)'
  BY <1>4, SameStream DEF Spans, OpensCluster, IsCluster, IsHeadOf
<1>5. ASSUME NEW j \in Cuts PROVE Spans(out[Rank(j)], CutBefore(j), j)'
  <2>1. PICK d, i : d = out[Rank(j)] /\ i = CutBefore(j)
    OBVIOUS
  <2>2. Spans(d, i, j)'
    BY <1>4, <2>1 DEF ChunksAsDefined
  <2> QED
    BY <1>3, <2>1, <2>2, SameStream
<1>6. Spans(out[Len(out)], LastCut, Len(fed) + 1)'
  <2>1. PICK i, j : i = LastCut /\ j = Len(fed) + 1
    OBVIOUS
  <2>2. Spans(c, i, j)'
    BY <1>4, <2>1
  <2> QED
    BY <1>3, <2>1, <2>2, SameStream
<1> QED
  BY <1>1, <1>2, <1>3, <1>5, <1>6, SameStream DEF ChunksAsDefined

LEMMA ChunksSettled ==
  ASSUME ChunksAsDefined, UNCHANGED <<fed, out>>, Flushed' <=> Flushed
  PROVE  ChunksAsDefined'
<1>1. ASSUME NEW d, NEW i, NEW j, Spans(d, i, j) PROVE Spans(d, i, j)'
  BY <1>1, SameStream DEF Spans, OpensCluster, IsCluster, IsHeadOf
<1>2. ASSUME NEW j \in Cuts PROVE Spans(out[Rank(j)], CutBefore(j), j)'
  <2>1. PICK d, i : d = out[Rank(j)] /\ i = CutBefore(j)
    OBVIOUS
  <2>2. Spans(d, i, j)'
    BY <1>1, <2>1 DEF ChunksAsDefined
  <2> QED
    BY <2>1, <2>2, SameStream
<1>3. ASSUME Flushed PROVE Spans(out[Len(out)], LastCut, Len(fed) + 1)'
  <2>1. PICK d, i, j : d = out[Len(out)] /\ i = LastCut /\ j = Len(fed) + 1
    OBVIOUS
  <2>2. Spans(d, i, j)'
    BY <1>1, <1>3, <2>1 DEF ChunksAsDefined
  <2> QED
    BY <2>1, <2>2, SameStream
<1> QED
  BY <1>2, <1>3, SameStream DEF ChunksAsDefined

-----------------------------------------------------------------------------
(* The state of the chunker, in terms of the definition: where in the      *)
(* stream it is, and what it has of the chunk under construction.          *)
Place ==
  /\ state = "BuildingCluster" =>
       /\ ~eof
       /\ OpensCluster(LastCut)
       /\ \A k \in LastCut + 1..Len(fed) : ~StartsFile(fed[k])
  /\ state = "BuildingHeader" =>
       /\ ~OpensCluster(LastCut)
       /\ \A j \in 1..Len(fed) : IsCluster(j) =>
            \E k \in j + 1..Len(fed) : StartsFile(fed[k])
  /\ state = "End" => (eof <=> Flushed)

Content ==
  /\ state # "End" => Lists(buffer, Encoded(LastCut, Len(fed) + 1))
  /\ state = "BuildingCluster" => IsHeadOf(head, LastCut, Len(fed) + 1)

Chunking == Place /\ Content /\ ChunksAsDefined

(* The elements that cut.                                                  *)
LEMMA WhatCuts ==
  ASSUME TypeOK, Place, NEW e \in Elements, NEW n, Feeds(e, n), state # "End"
  PROVE  n + 1 \in Cuts' <=>
           e.kind = "Cluster" \/ (state = "BuildingCluster" /\ StartsFile(e))
<1>1. n \in Nat /\ Len(fed) = n
  BY Fed
<1>2. n + 1 \in Cuts' <=>
        \/ e.kind = "Cluster"
        \/ /\ StartsFile(e)
           /\ \E j \in 1..n : IsCluster(j) /\ \A k \in j + 1..n : ~StartsFile(fed[k])
  BY CutsGrow
<1>3. CASE state = "BuildingCluster"
  <2>1. LastCut \in 1..n /\ IsCluster(LastCut)
        /\ \A k \in LastCut + 1..n : ~StartsFile(fed[k])
    BY <1>1, <1>3, LastCutFacts DEF Place, OpensCluster
  <2> QED
    BY <1>2, <1>3, <2>1
<1>4. CASE state = "BuildingHeader"
  BY <1>1, <1>2, <1>4 DEF Place
<1> QED
  BY <1>3, <1>4 DEF TypeOK

LEMMA PlaceWithoutCut ==
  ASSUME TypeOK, Place, NEW e \in Elements, NEW n, Feeds(e, n), n + 1 \notin Cuts',
         state # "End", state' \in {state, "End"}, ~eof, ~eof'
  PROVE  Place'
<1>1. /\ n \in Nat /\ Len(fed) = n /\ Len(fed') = n + 1 /\ fed'[n + 1] = e
      /\ \A k \in 1..n : fed'[k] = fed[k]
  BY Fed
<1>2. LastCut' = LastCut
  BY NoCut
<1>3. e.kind # "Cluster" /\ (state = "BuildingCluster" => ~StartsFile(e))
  BY WhatCuts
<1>4. PICK i \in 0..n : i = LastCut
  BY <1>1, LastCutFacts
<1>5. OpensCluster(i)' <=> OpensCluster(i)
  BY <1>1 DEF OpensCluster, IsCluster
<1>6. OpensCluster(LastCut)' <=> OpensCluster(LastCut)
  BY <1>2, <1>4, <1>5
<1>7. ASSUME state = "BuildingCluster", NEW k \in i + 1..n + 1
      PROVE  ~StartsFile(fed'[k])
  <2>1. k \in i + 1..n \/ k = n + 1
    BY <1>1
  <2>2. k \in i + 1..n => fed'[k] = fed[k]
    BY <1>1
  <2> QED
    BY <1>1, <1>3, <1>4, <1>7, <2>1, <2>2 DEF Place
<1>8. ASSUME state = "BuildingHeader", NEW j \in 1..n + 1, IsCluster(j)'
      PROVE  \E k \in j + 1..n + 1 : StartsFile(fed'[k])
  <2>1. j \in 1..n /\ IsCluster(j)
    BY <1>1, <1>3, <1>8 DEF IsCluster
  <2>2. PICK k \in j + 1..n : StartsFile(fed[k])
    BY <1>1, <1>8, <2>1 DEF Place
  <2>3. k \in j + 1..n + 1 /\ fed'[k] = fed[k]
    BY <1>1, <2>1
  <2> QED
    BY <2>2, <2>3
<1>9. ~Flushed'
  BY DEF Flushed
<1>10. CASE state' = "End"
  BY <1>9, <1>10 DEF Place
<1>11. CASE state' = "BuildingCluster"
  <2>1. OpensCluster(LastCut)'
    BY <1>6, <1>11 DEF Place
  <2>2. \A k \in LastCut' + 1..Len(fed') : ~StartsFile(fed'[k])
    BY <1>1, <1>2, <1>4, <1>7, <1>11
  <2> QED
    BY <1>11, <2>1, <2>2 DEF Place
<1>12. CASE state' = "BuildingHeader"
  <2>1. ~OpensCluster(LastCut)'
    BY <1>6, <1>12 DEF Place
  <2> QED
    BY <1>1, <1>8, <1>12, <2>1 DEF Place
<1> QED
  BY <1>10, <1>11, <1>12 DEF TypeOK

LEMMA PlaceWithCut ==
  ASSUME TypeOK, Place, NEW e \in Elements, NEW n, Feeds(e, n), ~eof',
         \/ e.kind = "Cluster" /\ state # "End" /\ state' = "BuildingCluster"
         \/ StartsFile(e) /\ state = "BuildingCluster" /\ state' = "BuildingHeader"
  PROVE  n + 1 \in Cuts' /\ Place'
<1>1. /\ n \in Nat /\ Len(fed) = n /\ Len(fed') = n + 1 /\ fed'[n + 1] = e
      /\ \A k \in 1..n : fed'[k] = fed[k]
  BY Fed
<1>2. n + 1 \in Cuts'
  BY WhatCuts
<1>3. LastCut' = n + 1
  BY <1>2, NewCut
<1>4. OpensCluster(n + 1)' <=> e.kind = "Cluster"
  BY <1>1 DEF OpensCluster, IsCluster
<1>5. OpensCluster(LastCut)' <=> e.kind = "Cluster"
  BY <1>3, <1>4
<1>6. CASE e.kind = "Cluster" /\ state' = "BuildingCluster"
  <2>1. LastCut' + 1..Len(fed') = {}
    BY <1>1, <1>3
  <2>2. OpensCluster(LastCut)'
    BY <1>5, <1>6
  <2> QED
    BY <1>2, <1>6, <2>1, <2>2 DEF Place
<1>7. CASE StartsFile(e) /\ state' = "BuildingHeader"
  <2>1. e.kind # "Cluster"
    BY <1>7 DEF StartsFile
  <2>2. ASSUME NEW j \in 1..n + 1, IsCluster(j)'
        PROVE  \E k \in j + 1..n + 1 : StartsFile(fed'[k])
    <3>1. j # n + 1
      BY <1>1, <2>1, <2>2 DEF IsCluster
    <3>2. n + 1 \in j + 1..n + 1
      BY <1>1, <3>1
    <3> QED
      BY <1>1, <1>7, <3>2
  <2>3. \A j \in 1..Len(fed') : IsCluster(j)' =>
          \E k \in j + 1..Len(fed') : StartsFile(fed'[k])
    BY <1>1, <2>2
  <2>4. ~OpensCluster(LastCut)'
    BY <1>5, <2>1
  <2> QED
    BY <1>2, <1>7, <2>3, <2>4 DEF Place
<1> QED
  BY <1>6, <1>7

(* The buffer, when an element is written to it or left out of it.         *)
LEMMA BufferGrows ==
  ASSUME TypeOK, NEW e \in Elements, NEW n, Feeds(e, n), n + 1 \notin Cuts',
         Lists(buffer, Encoded(LastCut, n + 1)),
         \/ /\ e.kind \notin {"Cluster", "Stripped"}
            /\ ~(OpensCluster(LastCut) /\ e.kind = "Timecode")
            /\ buffer' = buffer \o Written(e, n + 1)
         \/ /\ e.kind = "Stripped" \/ (OpensCluster(LastCut) /\ e.kind = "Timecode")
            /\ buffer' = buffer
  PROVE  Lists(buffer, Encoded(LastCut, Len(fed) + 1))'
<1>1. n \in Nat /\ Len(fed) = n /\ Len(fed)' + 1 = n + 2
  BY Fed
<1>2. PICK i \in 0..n : i = LastCut /\ i = LastCut'
  BY <1>1, NoCut, LastCutFacts
<1> DEFINE S == Encoded(i, n + 1)
<1>3. Lists(buffer, S) /\ S \in SUBSET (1..n) /\ buffer \in Seq(Nat)
  <2>1. \A k \in i..(n + 1) - 1 : k > 0 => k \in 1..n
    BY <1>1
  <2> QED
    BY <1>2, <2>1 DEF Encoded, TypeOK
<1>4. Encoded(i, n + 2)' = S \cup
        (IF /\ e.kind \notin {"Cluster", "Stripped"}
            /\ e.size > 0
            /\ ~(OpensCluster(i) /\ e.kind = "Timecode")
         THEN {n + 1} ELSE {})
  BY EncodedGrows
<1> HIDE DEF S
<1>5. Lists(buffer', Encoded(i, n + 2)')
  <2>1. CASE /\ e.kind \notin {"Cluster", "Stripped"}
             /\ ~(OpensCluster(i) /\ e.kind = "Timecode")
    <3>1. buffer' = buffer \o Written(e, n + 1)
      BY <1>2, <2>1
    <3>2. Encoded(i, n + 2)' = S \cup (IF e.size > 0 THEN {n + 1} ELSE {})
      BY <1>4, <2>1
    <3> QED
      BY <1>1, <1>3, <3>1, <3>2, ListsWritten
  <2>2. CASE e.kind = "Stripped" \/ (OpensCluster(i) /\ e.kind = "Timecode")
    BY <1>2, <1>3, <1>4, <2>2
  <2> QED
    BY <1>2, <2>1, <2>2
<1>6. Lists(buffer, Encoded(i, n + 2))'
  BY <1>5 DEF Lists
<1> QED
  BY <1>1, <1>2, <1>6

LEMMA HeadIsOf ==
  ASSUME TypeOK, NEW e \in Elements, NEW n, Feeds(e, n), n + 1 \notin Cuts',
         IsHeadOf(head, LastCut, n + 1),
         head'.start = IF e.kind = "Timecode" THEN e.time ELSE head.start,
         head'.keyframe <=> head.keyframe \/ (e.kind = "SimpleBlock" /\ e.keyframe)
  PROVE  IsHeadOf(head, LastCut, Len(fed) + 1)'
<1>1. n \in Nat /\ Len(fed) = n /\ Len(fed)' + 1 = n + 2
  BY Fed
<1>2. PICK i \in 0..n : i = LastCut /\ i = LastCut'
  BY <1>1, NoCut, LastCutFacts
<1>3. /\ TimeOf(i, n + 2)' = IF e.kind = "Timecode" THEN e.time ELSE TimeOf(i, n + 1)
      /\ (\E k \in i + 1..(n + 2) - 1 :
            fed'[k].kind = "SimpleBlock" /\ fed'[k].keyframe)
         <=> \/ e.kind = "SimpleBlock" /\ e.keyframe
             \/ \E k \in i + 1..(n + 1) - 1 :
                  fed[k].kind = "SimpleBlock" /\ fed[k].keyframe
  BY HeadGrows
<1>4. /\ head.start = TimeOf(i, n + 1)
      /\ head.keyframe <=> \E k \in i + 1..(n + 1) - 1 :
                             fed[k].kind = "SimpleBlock" /\ fed[k].keyframe
  BY <1>2 DEF IsHeadOf
<1>5. head'.start = TimeOf(i, n + 2)'
  BY <1>3, <1>4
<1>6. head'.keyframe <=> \E k \in i + 1..(n + 2) - 1 :
                           fed'[k].kind = "SimpleBlock" /\ fed'[k].keyframe
  BY <1>3, <1>4
<1>7. IsHeadOf(head, i, n + 2)'
  BY <1>5, <1>6 DEF IsHeadOf
<1> QED
  BY <1>1, <1>2, <1>7

(* What a block does to the head.                                          *)
LEMMA BlockMarks ==
  ASSUME TypeOK, NEW e \in Elements, e.kind = "SimpleBlock", NEW h,
         h = observe_simpleblock_timecode(
               [head EXCEPT !.keyframe = @ \/ e.keyframe], e.time)
  PROVE  /\ h.start = head.start
         /\ h.keyframe <=> head.keyframe \/ e.keyframe
         /\ h.end = IF WrapAdd(head.start, AsU64(e.time)) > head.start
                    THEN WrapAdd(head.start, AsU64(e.time)) ELSE head.end
<1>1. head \in ClusterHeadType /\ e.keyframe \in BOOLEAN
  BY ChunkerAssumption DEF TypeOK, ElementShape
<1> QED
  BY <1>1 DEF observe_simpleblock_timecode, ClusterHeadType

(* The chunk under construction is complete wherever it is cut off.        *)
LEMMA CompleteChunk ==
  ASSUME TypeOK, Place, Content
  PROVE  /\ HeadersChunk(buffer) \in ChunkType /\ ClusterChunk(head, buffer) \in ChunkType
         /\ state = "BuildingHeader" =>
              Spans(HeadersChunk(buffer), LastCut, Len(fed) + 1)
         /\ state = "BuildingCluster" =>
              Spans(ClusterChunk(head, buffer), LastCut, Len(fed) + 1)
<1>1. HeadersChunk(buffer) \in ChunkType /\ ClusterChunk(head, buffer) \in ChunkType
  BY NewHeadZero DEF HeadersChunk, ClusterChunk, ChunkType, TypeOK
<1>2. ASSUME state = "BuildingHeader"
      PROVE  Spans(HeadersChunk(buffer), LastCut, Len(fed) + 1)
  BY <1>2 DEF Place, Content, Spans, HeadersChunk
<1>3. ASSUME state = "BuildingCluster"
      PROVE  Spans(ClusterChunk(head, buffer), LastCut, Len(fed) + 1)
  BY <1>3 DEF Place, Content, Spans, ClusterChunk
<1> QED
  BY <1>1, <1>2, <1>3

(* An element that is not a cut.                                           *)
LEMMA ElementStep ==
  ASSUME TypeOK, Chunking, NEW e \in Elements, NEW n, Feeds(e, n), ~eof, ~eof',
         state # "End", e.kind # "Cluster", state = "BuildingCluster" => ~StartsFile(e),
         out' = out,
         \/ /\ EncodeInto(e)
            /\ e.kind # "Stripped" /\ ~(OpensCluster(LastCut) /\ e.kind = "Timecode")
         \/ /\ e.kind = "Stripped" \/ (OpensCluster(LastCut) /\ e.kind = "Timecode")
            /\ UNCHANGED <<state, buffer>>,
         state = "BuildingCluster" =>
           /\ head'.start = IF e.kind = "Timecode" THEN e.time ELSE head.start
           /\ head'.keyframe <=> head.keyframe \/ (e.kind = "SimpleBlock" /\ e.keyframe)
  PROVE  Chunking' /\ n + 1 \notin Cuts'
<1>1. Place /\ Content /\ ChunksAsDefined
  BY DEF Chunking
<1>2. n + 1 \notin Cuts'
  BY <1>1, WhatCuts
<1>3. state' \in {state, "End"}
  BY DEF EncodeInto
<1>4. Place' /\ ChunksAsDefined'
  BY <1>1, <1>2, <1>3, PlaceWithoutCut, ChunksWithoutCut
<1>5. Len(fed) = n
  BY Fed
<1>6. ASSUME state' # "End" PROVE Lists(buffer, Encoded(LastCut, Len(fed) + 1))'
  <2>1. Lists(buffer, Encoded(LastCut, n + 1))
    BY <1>1, <1>5 DEF Content
  <2>2. EncodeInto(e) => buffer' = buffer \o Written(e, n + 1)
    BY <1>5, <1>6 DEF EncodeInto
  <2> QED
    BY <1>2, <2>1, <2>2, BufferGrows
<1>7. ASSUME state' = "BuildingCluster" PROVE IsHeadOf(head, LastCut, Len(fed) + 1)'
  <2>1. state = "BuildingCluster"
    BY <1>3, <1>7
  <2>2. IsHeadOf(head, LastCut, n + 1)
    BY <1>1, <1>5, <2>1 DEF Content
  <2> QED
    BY <1>2, <2>1, <2>2, HeadIsOf
<1> QED
  BY <1>2, <1>4, <1>6, <1>7 DEF Chunking, Content

(* An element that is one.                                                 *)
LEMMA CutStep ==
  ASSUME TypeOK, Chunking, NEW e \in Elements, NEW n, Feeds(e, n), ~eof, ~eof',
         \/ /\ e.kind = "Cluster" /\ state # "End" /\ state' = "BuildingCluster"
            /\ buffer' = << >> /\ head' = NewHead(0)
         \/ /\ StartsFile(e) /\ state = "BuildingCluster" /\ state' = "BuildingHeader"
            /\ buffer' = Written(e, n + 1),
         NEW c \in ChunkType, out' = Append(out, c), Spans(c, LastCut, n + 1)
  PROVE  Chunking' /\ n + 1 \in Cuts' /\ out'[Rank(n + 1)'] = c
<1>1. Place /\ Content /\ ChunksAsDefined
  BY DEF Chunking
<1>2. n + 1 \in Cuts' /\ Place'
  BY <1>1, PlaceWithCut
<1>3. ChunksAsDefined' /\ out'[Rank(n + 1)'] = c
  BY <1>1, <1>2, ChunksWithCut
<1>4. n \in Nat /\ Len(fed)' + 1 = n + 2 /\ LastCut' = n + 1
  BY <1>2, Fed, NewCut
<1>5. Lists(buffer', Encoded(n + 1, n + 2)')
  <2>1. Encoded(n + 1, n + 2)' =
          (IF e.kind \notin {"Cluster", "Stripped"} /\ e.size > 0 THEN {n + 1} ELSE {})
    BY EncodedBegins
  <2>2. CASE e.kind = "Cluster" /\ buffer' = << >>
    BY <2>1, <2>2, ListsNothing
  <2>3. CASE StartsFile(e) /\ buffer' = Written(e, n + 1)
    <3>1. Encoded(n + 1, n + 2)' = {} \cup (IF e.size > 0 THEN {n + 1} ELSE {})
      BY <2>1, <2>3 DEF StartsFile
    <3>2. << >> \in Seq(Nat) /\ {} \in SUBSET (1..n) /\ Written(e, n + 1) \in Seq(Nat)
      BY <1>4 DEF Written
    <3>3. Lists(<< >> \o Written(e, n + 1), Encoded(n + 1, n + 2)')
      BY <1>4, <3>1, <3>2, ListsNothing, ListsWritten
    <3>4. << >> \o Written(e, n + 1) = buffer'
      BY <2>3, <3>2, ConcatEmptySeq
    <3> QED
      BY <3>3, <3>4
  <2> QED
    BY <2>2, <2>3
<1>6. Lists(buffer, Encoded(n + 1, n + 2))'
  BY <1>5 DEF Lists
<1>7. Lists(buffer, Encoded(LastCut, Len(fed) + 1))'
  BY <1>4, <1>6
<1>8. ASSUME state' = "BuildingCluster" PROVE IsHeadOf(head, LastCut, Len(fed) + 1)'
  <2>1. head' = NewHead(0)
    BY <1>8
  <2>2. IsHeadOf(NewHead(0), n + 1, n + 2)'
    BY HeadBegins
  <2> QED
    BY <1>4, <2>1, <2>2
<1> QED
  BY <1>2, <1>3, <1>7, <1>8 DEF Chunking, Content

(* A file always starts: nothing is in the buffer yet, and an EBML head    *)
(* and a Segment can be encoded.                                           *)
LEMMA FileEncodes ==
  ASSUME NEW e \in Elements, StartsFile(e)
  PROVE  Encodes(e, 0) /\ e.kind # "Cluster" /\ e.kind # "SimpleBlock"
<1>1. e.kind # "SimpleBlock" /\ e.kind # "Cluster"
  BY DEF StartsFile
<1>2. e.encodable /\ 0 < BufferLimit
  BY <1>1, ChunkerAssumption
<1> QED
  BY <1>1, <1>2 DEF Encodes

(* The elements the chunker takes for a part of the chunk under            *)
(* construction, and what they do to its head.                             *)
LEMMA Parts ==
  ASSUME TypeOK, Place, NEW e \in Elements,
         \/ HeaderElement(e) \/ ClusterTimecode(e) \/ ClusterBlock(e) \/ ClusterElement(e)
  PROVE  /\ Feeds(e, Len(fed)) /\ ~eof /\ ~eof' /\ state # "End" /\ out' = out
         /\ e.kind # "Cluster" /\ (state = "BuildingCluster" => ~StartsFile(e))
         /\ \/ /\ EncodeInto(e)
               /\ e.kind # "Stripped" /\ ~(OpensCluster(LastCut) /\ e.kind = "Timecode")
            \/ /\ e.kind = "Stripped" \/ (OpensCluster(LastCut) /\ e.kind = "Timecode")
               /\ UNCHANGED <<state, buffer, len, failed>>
         /\ state = "BuildingCluster" =>
              /\ head'.start = IF e.kind = "Timecode" THEN e.time ELSE head.start
              /\ head'.keyframe <=> head.keyframe \/ (e.kind = "SimpleBlock" /\ e.keyframe)
<1>1. CASE HeaderElement(e)
  <2>1. state = "BuildingHeader" /\ ~OpensCluster(LastCut)
    BY <1>1 DEF HeaderElement, Event, Place
  <2> QED
    BY <1>1, <2>1 DEF HeaderElement, Event, Feeds
<1>2. CASE ClusterTimecode(e)
  <2>1. state = "BuildingCluster" /\ OpensCluster(LastCut) /\ e.kind = "Timecode"
    BY <1>2 DEF ClusterTimecode, Event, Place
  <2>2. head'.start = e.time /\ head'.keyframe = head.keyframe
    <3>1. e.time \in u64 /\ head \in ClusterHeadType
      BY <2>1, ChunkerAssumption DEF TypeOK
    <3> QED
      BY <1>2, <3>1, UpdateType DEF ClusterTimecode
  <2> QED
    BY <1>2, <2>1, <2>2 DEF ClusterTimecode, Event, Feeds, StartsFile
<1>3. CASE ClusterBlock(e)
  <2>1. head'.start = head.start /\ (head'.keyframe <=> head.keyframe \/ e.keyframe)
    BY <1>3, BlockMarks DEF ClusterBlock
  <2> QED
    BY <1>3, <2>1 DEF ClusterBlock, Event, Feeds, StartsFile
<1>4. CASE ClusterElement(e)
  BY <1>4 DEF ClusterElement, Event, Feeds, StartsFile
<1> QED
  BY <1>1, <1>2, <1>3, <1>4

(* The elements that complete it.                                          *)
LEMMA Completes ==
  ASSUME TypeOK, Place, Content, NEW e \in Elements,
         HeaderCluster(e) \/ ClusterCluster(e) \/ ClusterFile(e)
  PROVE  /\ Feeds(e, Len(fed)) /\ ~eof /\ ~eof' /\ failed' = failed
         /\ \/ /\ e.kind = "Cluster" /\ state # "End" /\ state' = "BuildingCluster"
               /\ buffer' = << >> /\ head' = NewHead(0) /\ len' = 0
            \/ /\ StartsFile(e) /\ state = "BuildingCluster" /\ state' = "BuildingHeader"
               /\ buffer' = Written(e, Len(fed) + 1) /\ len' = e.size
         /\ \E c \in ChunkType :
              /\ out' = Append(out, c) /\ Spans(c, LastCut, Len(fed) + 1)
              /\ state = "BuildingCluster" => c.head = head
<1>1. CASE HeaderCluster(e)
  <2>1. state = "BuildingHeader" /\ out' = Append(out, HeadersChunk(buffer))
    BY <1>1 DEF HeaderCluster, Event
  <2> QED
    BY <1>1, <2>1, CompleteChunk DEF HeaderCluster, Event, Feeds
<1>2. CASE ClusterCluster(e)
  <2>1. state = "BuildingCluster" /\ out' = Append(out, ClusterChunk(head, buffer))
        /\ ClusterChunk(head, buffer).head = head
    BY <1>2 DEF ClusterCluster, Event, ClusterChunk
  <2> QED
    BY <1>2, <2>1, CompleteChunk DEF ClusterCluster, Event, Feeds
<1>3. CASE ClusterFile(e)
  <2>1. StartsFile(e) /\ Encodes(e, 0)
    BY <1>3, FileEncodes DEF ClusterFile
  <2>2. state = "BuildingCluster" /\ out' = Append(out, ClusterChunk(head, buffer))
        /\ ClusterChunk(head, buffer).head = head
    BY <1>3, <2>1 DEF ClusterFile, Event, ClusterChunk
  <2> QED
    BY <1>3, <2>1, <2>2, CompleteChunk DEF ClusterFile, Event, Feeds
<1> QED
  BY <1>1, <1>2, <1>3

LEMMA ChunkingStep == TypeOK /\ Chunking /\ [Next]_vars => Chunking'
<1> SUFFICES ASSUME TypeOK, Chunking, [Next]_vars PROVE Chunking'
  OBVIOUS
<1>0. Place /\ Content /\ ChunksAsDefined
  BY DEF Chunking
<1>1. ASSUME NEW e \in Elements,
             \/ HeaderElement(e) \/ ClusterTimecode(e)
             \/ ClusterBlock(e) \/ ClusterElement(e)
      PROVE  Chunking'
  <2>1. PICK n : n = Len(fed)
    OBVIOUS
  <2> QED
    BY <1>0, <1>1, <2>1, Parts, ElementStep
<1>2. ASSUME NEW e \in Elements,
             HeaderCluster(e) \/ ClusterCluster(e) \/ ClusterFile(e)
      PROVE  Chunking'
  <2>1. PICK n : n = Len(fed)
    OBVIOUS
  <2>2. PICK c \in ChunkType : out' = Append(out, c) /\ Spans(c, LastCut, Len(fed) + 1)
    BY <1>0, <1>2, Completes
  <2> QED
    BY <1>0, <1>2, <2>1, <2>2, Completes, CutStep
<1>3. CASE HeaderEof
  <2>1. /\ UNCHANGED <<state, head, buffer, fed, out>> /\ state = "BuildingHeader"
        /\ ~eof /\ eof' /\ ~OpensCluster(LastCut)
    BY <1>0, <1>3 DEF HeaderEof, Place
  <2>2. ~Flushed /\ ~Flushed'
    BY <2>1, SameStream DEF Flushed
  <2>3. ChunksAsDefined'
    BY <1>0, <2>1, <2>2, ChunksSettled
  <2>4. Place'
    BY <1>0, <2>1, SameStream DEF Place, IsCluster
  <2>5. Content'
    BY <1>0, <2>1, SameStream DEF Content
  <2> QED
    BY <2>3, <2>4, <2>5 DEF Chunking
<1>4. CASE ClusterEof
  <2>1. /\ state = "BuildingCluster" /\ state' = "End" /\ fed' = fed /\ ~eof /\ eof'
        /\ out' = Append(out, ClusterChunk(head, buffer))
        /\ OpensCluster(LastCut)
    BY <1>0, <1>4 DEF ClusterEof, Place
  <2>2. ChunksAsDefined' /\ Flushed'
    BY <1>0, <2>1, CompleteChunk, ChunksFlushed
  <2> QED
    BY <2>1, <2>2 DEF Chunking, Place, Content
<1>5. CASE UNCHANGED vars
  <2>1. UNCHANGED <<state, head, buffer, fed, out, eof>>
    BY <1>5 DEF vars
  <2>2. Flushed' <=> Flushed
    BY <2>1, SameStream DEF Flushed
  <2>3. ChunksAsDefined'
    BY <1>0, <2>1, <2>2, ChunksSettled
  <2>4. Place'
    BY <1>0, <2>1, <2>2, SameStream DEF Place, IsCluster
  <2>5. Content'
    BY <1>0, <2>1, SameStream DEF Content, IsHeadOf
  <2> QED
    BY <2>3, <2>4, <2>5 DEF Chunking
<1> QED
  BY <1>1, <1>2, <1>3, <1>4, <1>5 DEF Next

LEMMA InitialCuts ==
  ASSUME Init PROVE Cuts = {} /\ LastCut = 0
<1>1. 1..Len(fed) = {}
  BY EmptySeq DEF Init
<1>2. Cuts = {}
  BY <1>1 DEF Cuts
<1>3. 0 \in Nat /\ {0} \in SUBSET (0..0) /\ 0 \in {0} /\ \A k \in {0} : k <= 0
  OBVIOUS
<1>4. Max({0}) = 0
  BY <1>3, MaxIs
<1> QED
  BY <1>2, <1>4 DEF LastCut

LEMMA ChunkingAlways == Spec => []Chunking
<1>1. Init => Chunking
  <2> SUFFICES ASSUME Init PROVE Chunking
    OBVIOUS
  <2>1. fed = << >> /\ Len(fed) = 0 /\ 1..Len(fed) = {} /\ Len(out) = 0 /\ eof = FALSE
        /\ buffer = << >> /\ state = "BuildingHeader"
    BY EmptySeq DEF Init
  <2>2. Cuts = {} /\ LastCut = 0
    BY InitialCuts
  <2>3. ~OpensCluster(LastCut) /\ ~Flushed
    BY <2>1, <2>2 DEF OpensCluster, Flushed
  <2>4. Encoded(LastCut, Len(fed) + 1) = {}
    BY <2>1, <2>2 DEF Encoded
  <2>5. ChunksAsDefined
    BY <2>1, <2>2, <2>3, FS_EmptySet DEF ChunksAsDefined
  <2> QED
    BY <2>1, <2>3, <2>4, <2>5, ListsNothing DEF Chunking, Place, Content
<1> QED
  BY <1>1, TypeCorrect, ChunkingStep, PTL DEF Spec

(* For every sequence of elements the chunks returned are those the        *)
(* definition finds in it: WebmChunker::poll_next loses, repeats and       *)
(* misplaces nothing, however the headers and clusters follow one another. *)
THEOREM ChunksAsDefinedAlways == Spec => []ChunksAsDefined
<1>1. Chunking => ChunksAsDefined
  BY DEF Chunking
<1> QED
  BY <1>1, ChunkingAlways, PTL

-----------------------------------------------------------------------------
(* The ends of the clusters, as long as no timecode and block add up to a  *)
(* time beyond u64: a block is within 2^15 of the timecode.                *)
WithinReach ==
  \A d, b \in Elements :
    d.kind = "Timecode" /\ b.kind = "SimpleBlock" => d.time + b.time < U64

Ending ==
  /\ state = "BuildingCluster" /\ NoEarlyBlock =>
       head.end = TimeOf(LastCut, Len(fed) + 1) + DurationOf(LastCut, Len(fed) + 1)
  /\ EndsAsDefined

(* The times of the chunk under construction are those of its elements.    *)
LEMMA TimesOfElements ==
  ASSUME TypeOK, NEW i \in Nat
  PROVE  /\ \/ TimeOf(i, Len(fed) + 1) = 0
            \/ \E d \in Elements :
                 d.kind = "Timecode" /\ TimeOf(i, Len(fed) + 1) = d.time
         /\ \/ DurationOf(i, Len(fed) + 1) = 0
            \/ \E b \in Elements :
                 /\ b.kind = "SimpleBlock" /\ b.time > 0
                 /\ DurationOf(i, Len(fed) + 1) = b.time
<1>1. PICK n \in Nat : n = Len(fed)
  BY LenProperties DEF TypeOK
<1>2. (n + 1) - 1 = n /\ \A k \in i + 1..n : k \in 0..n /\ k \in 1..n
  BY <1>1
<1>3. \A k \in 1..n : fed[k] \in Elements
  BY <1>1, ElementOfSeq DEF TypeOK
<1>4. ASSUME NEW S \in SUBSET (i + 1..n), S # {} PROVE Max(S) \in S
  <2>1. S \in SUBSET (0..n)
    BY <1>2
  <2> QED
    BY <1>1, <1>4, <2>1, GreatestNumber
<1>5. \/ TimeOf(i, n + 1) = 0
      \/ \E d \in Elements : d.kind = "Timecode" /\ TimeOf(i, n + 1) = d.time
  <2> DEFINE S == {k \in i + 1..n : fed[k].kind = "Timecode"}
  <2>1. TimeOf(i, n + 1) = IF S = {} THEN 0 ELSE fed[Max(S)].time
    BY <1>2 DEF TimeOf
  <2>2. S \in SUBSET (i + 1..n)
    OBVIOUS
  <2>3. S # {} => Max(S) \in S
    BY <1>4, <2>2
  <2>4. S # {} => fed[Max(S)] \in Elements /\ fed[Max(S)].kind = "Timecode"
    BY <1>2, <1>3, <2>3
  <2> QED
    BY <2>1, <2>4
<1>6. \/ DurationOf(i, n + 1) = 0
      \/ \E b \in Elements : b.kind = "SimpleBlock" /\ b.time > 0
                             /\ DurationOf(i, n + 1) = b.time
  <2> DEFINE S == {k \in i + 1..n : fed[k].kind = "SimpleBlock" /\ fed[k].time > 0}
  <2>1. DurationOf(i, n + 1) = IF S = {} THEN 0 ELSE fed[Max(S)].time
    BY <1>2 DEF DurationOf
  <2>2. S \in SUBSET (i + 1..n)
    OBVIOUS
  <2>3. S # {} => Max(S) \in S
    BY <1>4, <2>2
  <2>4. S # {} => /\ fed[Max(S)] \in Elements /\ fed[Max(S)].kind = "SimpleBlock"
                  /\ fed[Max(S)].time > 0
    BY <1>2, <1>3, <2>3
  <2> QED
    BY <2>1, <2>4
<1> QED
  BY <1>1, <1>5, <1>6

(* The next element belongs to the chunk under construction, and a prefix  *)
(* of a stream without early blocks has none either.                       *)
LEMMA EarlyBlocksStay ==
  ASSUME TypeOK, NEW e \in Elements, NEW n, Feeds(e, n), NoEarlyBlock'
  PROVE  /\ NoEarlyBlock
         /\ e.kind = "SimpleBlock" => TimeOf(LastCut, n + 1) + e.time >= 0
<1>1. /\ n \in Nat /\ Len(fed) = n /\ Len(fed') = n + 1 /\ fed'[n + 1] = e
      /\ \A k \in 1..n : fed'[k] = fed[k]
  BY Fed
<1>2. ASSUME NEW k \in 1..(n + 1)
      PROVE  TimeOf(CutBefore(k), k)' = TimeOf(CutBefore(k), k)
  <2>1. CutBefore(k)' = CutBefore(k) /\ CutBefore(k) \in 0..k - 1
    BY OrderStays
  <2>2. PICK i \in 0..n : i = CutBefore(k)
    BY <1>1, <2>1
  <2>3. k \in 0..(n + 1)
    BY <1>1
  <2>4. TimeOf(i, k)' = TimeOf(i, k)
    BY <2>3, PastStays
  <2> QED
    BY <2>1, <2>2, <2>4
<1>3. \A k \in 1..(n + 1) : fed'[k].kind = "SimpleBlock" =>
        TimeOf(CutBefore(k), k) + fed'[k].time >= 0
  BY <1>1, <1>2 DEF NoEarlyBlock
<1>4. NoEarlyBlock
  <2>1. \A k \in 1..n : k \in 1..(n + 1)
    BY <1>1
  <2> QED
    BY <1>1, <1>3, <2>1 DEF NoEarlyBlock
<1>5. CutBefore(n + 1) = LastCut
  <2>1. \A i \in Cuts : i < n + 1
    BY <1>1, CutsGrow
  <2>2. {i \in Cuts : i < n + 1} = Cuts
    BY <2>1
  <2> QED
    BY <2>2 DEF CutBefore, LastCut
<1>6. n + 1 \in 1..(n + 1)
  BY <1>1
<1> QED
  BY <1>1, <1>3, <1>4, <1>5, <1>6

(* What an element does to the end of the chunk under construction.        *)
LEMMA EndMoves ==
  ASSUME WithinReach, TypeOK, Place, Content, Ending, NEW e \in Elements, NEW n,
         Feeds(e, n), n + 1 \notin Cuts', state = "BuildingCluster", NoEarlyBlock',
         \/ ClusterTimecode(e) \/ ClusterBlock(e) \/ ClusterElement(e)
  PROVE  head'.end
           = TimeOf(LastCut, Len(fed) + 1)' + DurationOf(LastCut, Len(fed) + 1)'
<1>1. n \in Nat /\ Len(fed) = n /\ Len(fed)' + 1 = n + 2
  BY Fed
<1>2. PICK i \in 0..n : i = LastCut /\ i = LastCut'
  BY <1>1, NoCut, LastCutFacts
<1>3. PICK t, d : t = TimeOf(i, n + 1) /\ d = DurationOf(i, n + 1)
  OBVIOUS
<1>4. NoEarlyBlock /\ (e.kind = "SimpleBlock" => t + e.time >= 0)
  BY <1>2, <1>3, EarlyBlocksStay
<1>5. head.start = t /\ head.end = t + d /\ head \in ClusterHeadType
  BY <1>1, <1>2, <1>3, <1>4 DEF Content, IsHeadOf, Ending, TypeOK
<1>6. /\ t = 0 \/ \E f \in Elements : f.kind = "Timecode" /\ t = f.time
      /\ d = 0 \/ \E f \in Elements : f.kind = "SimpleBlock" /\ f.time > 0 /\ d = f.time
  BY <1>1, <1>3, TimesOfElements
<1>7. \A f \in Elements : f.time \in Int
  BY ChunkerAssumption DEF ElementShape
<1>8. \A f \in Elements : f.kind = "SimpleBlock" => f.time < U64 /\ t + f.time < U64
  <2>1. CASE t = 0
    BY <1>7, <2>1, ChunkerAssumption
  <2>2. CASE \E f \in Elements : f.kind = "Timecode" /\ t = f.time
    BY <2>2, ChunkerAssumption DEF WithinReach
  <2> QED
    BY <1>6, <2>1, <2>2
<1>9. t \in u64 /\ d \in Nat /\ t + d < U64
  <2>1. t \in u64
    BY <1>5 DEF ClusterHeadType
  <2>2. t < U64 /\ t \in Nat
    BY <2>1, U64Assumption DEF u64
  <2> QED
    BY <1>6, <1>7, <1>8, <2>1, <2>2
<1>10. /\ TimeOf(i, n + 2)' = IF e.kind = "Timecode" THEN e.time ELSE t
       /\ DurationOf(i, n + 2)' = IF e.kind = "SimpleBlock" /\ e.time > 0
                                  THEN e.time ELSE d
  BY <1>3, HeadGrows
<1>11. head'.end = TimeOf(i, n + 2)' + DurationOf(i, n + 2)'
  <2>1. CASE ClusterTimecode(e)
    <3>1. e.kind = "Timecode" /\ e.time \in u64 /\ head' = update_timecode(head, e.time)
      BY <2>1, ChunkerAssumption DEF ClusterTimecode
    <3>2. head'.end = WrapAdd(e.time, WrapSub(t + d, t))
      BY <1>5, <3>1, UpdateType
    <3>3. e.time + d < U64
      <4>1. e.time < U64 /\ e.time \in Int
        BY <3>1, U64Assumption DEF u64
      <4>2. CASE d = 0
        BY <4>1, <4>2
      <4>3. CASE \E f \in Elements : f.kind = "SimpleBlock" /\ f.time > 0 /\ d = f.time
        BY <3>1, <4>3 DEF WithinReach
      <4> QED
        BY <1>6, <4>2, <4>3
    <3>4. head'.end = e.time + d
      BY <1>9, <3>1, <3>2, <3>3, MoveSpan
    <3> QED
      BY <1>10, <3>1, <3>4
  <2>2. CASE ClusterBlock(e)
    <3>1. e.kind = "SimpleBlock" /\ e.time \in Int /\ 0 <= t + e.time /\ t + e.time < U64
      BY <1>4, <1>7, <1>8, <1>9, <2>2 DEF ClusterBlock, u64
    <3>2. WrapAdd(t, AsU64(e.time)) = t + e.time
      BY <1>9, <3>1, AddSigned
    <3>3. head'.end = IF t + e.time > t THEN t + e.time ELSE t + d
      BY <1>5, <2>2, <3>1, <3>2, BlockMarks DEF ClusterBlock
    <3>4. t + e.time > t <=> e.time > 0
      BY <1>9, <3>1 DEF u64
    <3> QED
      BY <1>10, <3>1, <3>3, <3>4
  <2>3. CASE ClusterElement(e)
    <3>1. head' = head /\ e.kind # "Timecode" /\ e.kind # "SimpleBlock"
      BY <2>3 DEF ClusterElement
    <3> QED
      BY <1>5, <1>10, <3>1
  <2> QED
    BY <2>1, <2>2, <2>3
<1> QED
  BY <1>1, <1>2, <1>11

LEMMA EndingStep ==
  ASSUME WithinReach
  PROVE  TypeOK /\ Chunking /\ Ending /\ [Next]_vars => Ending'
<1> SUFFICES ASSUME TypeOK, Chunking, Ending, [Next]_vars PROVE Ending'
  OBVIOUS
<1>0. Place /\ Content /\ ChunksAsDefined
  BY DEF Chunking
<1>1. PICK n : n = Len(fed)
  OBVIOUS
<1>2. ASSUME NEW e \in Elements, Feeds(e, n), NoEarlyBlock', ~eof,
             out' = out \/ \E c \in ChunkType : out' = Append(out, c),
             NEW j \in Cuts
      PROVE  EndsInTime(out[Rank(j)], CutBefore(j), j)'
  <2>1. NoEarlyBlock
    BY <1>2, EarlyBlocksStay
  <2>2. EndsInTime(out[Rank(j)], CutBefore(j), j)
    BY <2>1 DEF Ending, EndsAsDefined
  <2>3. ~Flushed
    BY <1>2 DEF Flushed
  <2> QED
    BY <1>0, <1>2, <2>2, <2>3, ReturnedStay
<1>3. ASSUME NEW e \in Elements,
             \/ HeaderElement(e) \/ ClusterTimecode(e)
             \/ ClusterBlock(e) \/ ClusterElement(e)
      PROVE  Ending'
  <2>1. /\ Feeds(e, n) /\ ~eof /\ ~eof' /\ state # "End" /\ out' = out
        /\ e.kind # "Cluster" /\ (state = "BuildingCluster" => ~StartsFile(e))
    BY <1>0, <1>1, <1>3, Parts
  <2>2. n + 1 \notin Cuts'
    BY <1>0, <2>1, WhatCuts
  <2>3. ASSUME state' = "BuildingCluster", NoEarlyBlock'
        PROVE  head'.end
                 = TimeOf(LastCut, Len(fed) + 1)' + DurationOf(LastCut, Len(fed) + 1)'
    <3>1. state = "BuildingCluster" /\ ~HeaderElement(e)
      BY <1>3, <2>3 DEF HeaderElement, ClusterTimecode, ClusterBlock, ClusterElement,
                        EncodeInto, Event
    <3> QED
      BY <1>0, <1>3, <2>1, <2>2, <2>3, <3>1, EndMoves
  <2>4. Cuts' = Cuts /\ ~Flushed'
    BY <2>1, <2>2, NoCut DEF Flushed
  <2>5. EndsAsDefined'
    BY <1>2, <2>1, <2>4 DEF EndsAsDefined
  <2> QED
    BY <2>3, <2>5 DEF Ending
<1>4. ASSUME NEW e \in Elements,
             HeaderCluster(e) \/ ClusterCluster(e) \/ ClusterFile(e)
      PROVE  Ending'
  <2>1. /\ Feeds(e, n) /\ ~eof /\ ~eof' /\ n \in Nat /\ Len(fed)' + 1 = n + 2
        /\ \/ /\ e.kind = "Cluster" /\ state # "End" /\ state' = "BuildingCluster"
              /\ buffer' = << >> /\ head' = NewHead(0)
           \/ /\ StartsFile(e) /\ state = "BuildingCluster" /\ state' = "BuildingHeader"
              /\ buffer' = Written(e, n + 1)
    BY <1>0, <1>1, <1>4, Completes, Fed
  <2>2. PICK c \in ChunkType :
          /\ out' = Append(out, c) /\ Spans(c, LastCut, n + 1)
          /\ state = "BuildingCluster" => c.head = head
    BY <1>0, <1>1, <1>4, Completes
  <2>3. n + 1 \in Cuts' /\ out'[Rank(n + 1)'] = c
    BY <2>1, <2>2, CutStep
  <2>4. /\ LastCut' = n + 1 /\ CutBefore(n + 1)' = LastCut
        /\ Cuts' \in SUBSET (1..(n + 1)) /\ \A j \in 1..n : j \in Cuts' <=> j \in Cuts
    BY <2>1, <2>3, NewCut, CutsGrow
  <2>5. ASSUME state' = "BuildingCluster"
        PROVE  head'.end
                 = TimeOf(LastCut, Len(fed) + 1)' + DurationOf(LastCut, Len(fed) + 1)'
    <3>1. head' = NewHead(0)
      BY <2>1, <2>5
    <3>2. NewHead(0).end = 0
      BY NewHeadFacts, U64Assumption DEF u64
    <3>3. TimeOf(n + 1, n + 2)' = 0 /\ DurationOf(n + 1, n + 2)' = 0
      BY <2>1, HeadBegins
    <3>4. TimeOf(LastCut, Len(fed) + 1)' = 0 /\ DurationOf(LastCut, Len(fed) + 1)' = 0
      BY <2>1, <2>4, <3>3
    <3> QED
      BY <3>1, <3>2, <3>4
  <2>6. ASSUME NoEarlyBlock' PROVE EndsInTime(out[Rank(n + 1)], CutBefore(n + 1), n + 1)'
    <3>1. PICK i \in 0..n : i = LastCut
      BY <1>1, LastCutFacts
    <3>2. NoEarlyBlock
      BY <2>1, <2>6, EarlyBlocksStay
    <3>3. EndsInTime(c, i, n + 1)
      <4>1. SUFFICES ASSUME OpensCluster(i)
                     PROVE  c.head.end = TimeOf(i, n + 1) + DurationOf(i, n + 1)
        BY DEF EndsInTime
      <4>2. state = "BuildingCluster"
        BY <1>0, <2>1, <3>1, <4>1 DEF Place, TypeOK
      <4> QED
        BY <1>1, <2>2, <3>1, <3>2, <4>2 DEF Ending
    <3>4. n + 1 \in 0..(n + 1)
      BY <2>1
    <3>5. EndsInTime(c, i, n + 1)'
      BY <2>1, <3>3, <3>4, SpansStay
    <3> QED
      BY <2>3, <2>4, <3>1, <3>5
  <2>7. ~Flushed'
    BY <2>1 DEF Flushed
  <2>8. EndsAsDefined'
    <3>1. ASSUME NoEarlyBlock', NEW j \in Cuts'
          PROVE  EndsInTime(out[Rank(j)], CutBefore(j), j)'
      <4>1. CASE j = n + 1
        BY <2>6, <3>1, <4>1
      <4>2. CASE j # n + 1
        <5>1. j \in Cuts
          BY <2>1, <2>4, <4>2
        <5> QED
          BY <1>2, <2>1, <2>2, <3>1, <5>1
      <4> QED
        BY <4>1, <4>2
    <3> QED
      BY <2>7, <3>1 DEF EndsAsDefined
  <2> QED
    BY <2>5, <2>8 DEF Ending
<1>5. ASSUME fed' = fed, NoEarlyBlock' PROVE NoEarlyBlock
  BY <1>5 DEF NoEarlyBlock, TimeOf, CutBefore, Cuts, FileStartsAt, IsCluster
<1>6. ASSUME fed' = fed, NEW d, NEW i, NEW j, EndsInTime(d, i, j)
      PROVE  EndsInTime(d, i, j)'
  BY <1>6, SameStream DEF EndsInTime, OpensCluster, IsCluster
<1>7. ASSUME fed' = fed, NoEarlyBlock', NEW j \in Cuts, out'[Rank(j)] = out[Rank(j)]
      PROVE  EndsInTime(out[Rank(j)], CutBefore(j), j)'
  <2>1. PICK d, i : d = out[Rank(j)] /\ i = CutBefore(j)
    OBVIOUS
  <2>2. EndsInTime(d, i, j)
    BY <1>5, <1>7, <2>1 DEF Ending, EndsAsDefined
  <2>3. EndsInTime(d, i, j)'
    BY <1>6, <1>7, <2>2
  <2> QED
    BY <1>7, <2>1, <2>3, SameStream
<1>8. CASE HeaderEof
  <2>1. UNCHANGED <<fed, out>> /\ state' = "BuildingHeader" /\ ~OpensCluster(LastCut)
    BY <1>0, <1>8 DEF HeaderEof, Place
  <2>2. ~Flushed' /\ Cuts' = Cuts
    BY <2>1, SameStream DEF Flushed
  <2> QED
    BY <1>7, <2>1, <2>2 DEF Ending, EndsAsDefined
<1>9. CASE ClusterEof
  <2>1. /\ state = "BuildingCluster" /\ state' = "End" /\ fed' = fed /\ ~eof /\ eof'
        /\ out' = Append(out, ClusterChunk(head, buffer)) /\ OpensCluster(LastCut)
        /\ ClusterChunk(head, buffer).head = head
    BY <1>0, <1>9 DEF ClusterEof, Place, ClusterChunk
  <2>2. /\ out'[Len(out')] = ClusterChunk(head, buffer)
        /\ \A j \in Cuts : out'[Rank(j)] = out[Rank(j)]
    BY <1>0, <2>1, CompleteChunk, ChunksFlushed
  <2>3. ASSUME NoEarlyBlock' PROVE EndsInTime(out[Len(out)], LastCut, Len(fed) + 1)'
    <3>1. PICK c, i, j : c = ClusterChunk(head, buffer) /\ i = LastCut /\ j = Len(fed) + 1
      OBVIOUS
    <3>2. EndsInTime(c, i, j)
      BY <1>5, <2>1, <2>3, <3>1 DEF EndsInTime, Ending
    <3>3. EndsInTime(c, i, j)'
      BY <1>6, <2>1, <3>2
    <3> QED
      BY <2>1, <2>2, <3>1, <3>3, SameStream
  <2>4. Cuts' = Cuts
    BY <2>1, SameStream
  <2> QED
    BY <1>7, <2>1, <2>2, <2>3, <2>4 DEF Ending, EndsAsDefined
<1>10. CASE UNCHANGED vars
  <2>1. UNCHANGED <<state, head, fed, out, eof>>
    BY <1>10 DEF vars
  <2>2. Cuts' = Cuts /\ LastCut' = LastCut /\ (Flushed' <=> Flushed)
    BY <2>1, SameStream DEF Flushed
  <2>3. ASSUME NoEarlyBlock', Flushed
        PROVE  EndsInTime(out[Len(out)], LastCut, Len(fed) + 1)'
    <3>1. PICK c, i, j : c = out[Len(out)] /\ i = LastCut /\ j = Len(fed) + 1
      OBVIOUS
    <3>2. EndsInTime(c, i, j)
      BY <1>5, <2>1, <2>3, <3>1 DEF Ending, EndsAsDefined
    <3>3. EndsInTime(c, i, j)'
      BY <1>6, <2>1, <3>2
    <3> QED
      BY <2>1, <2>2, <3>1, <3>3
  <2>4. EndsAsDefined'
    BY <1>7, <2>1, <2>2, <2>3 DEF EndsAsDefined
  <2>5. ASSUME state' = "BuildingCluster", NoEarlyBlock'
        PROVE  head'.end
                 = TimeOf(LastCut, Len(fed) + 1)' + DurationOf(LastCut, Len(fed) + 1)'
    BY <1>5, <2>1, <2>2, <2>5, SameStream DEF Ending
  <2> QED
    BY <2>4, <2>5 DEF Ending
<1> QED
  BY <1>3, <1>4, <1>8, <1>9, <1>10 DEF Next

(* And each cluster ends at its last block that is later than its start,   *)
(* for every stream without early blocks whose times are within u64.       *)
THEOREM EndsAsDefinedAlways ==
  ASSUME WithinReach PROVE Spec => []EndsAsDefined
<1>1. Init => Ending
  <2> SUFFICES ASSUME Init PROVE Ending
    OBVIOUS
  <2>1. state = "BuildingHeader" /\ eof = FALSE
    BY DEF Init
  <2> QED
    BY <2>1, InitialCuts DEF Ending, EndsAsDefined, Flushed
<1>2. Ending => EndsAsDefined
  BY DEF Ending
<1> QED
  BY <1>1, <1>2, TypeCorrect, ChunkingAlways, EndingStep, PTL DEF Spec

-----------------------------------------------------------------------------
(* Sums, by the least number for which something would be wrong.           *)

LEMMA SumsExist ==
  ASSUME NEW w \in [Nat -> Nat]
  PROVE  \E f \in [Nat -> Nat] : f = [n \in Nat |-> IF n = 0 THEN 0 ELSE f[n - 1] + w[n]]
<1> DEFINE Ok(g, n) == g[0] = 0 /\ \A k \in 1..n : g[k] = g[k - 1] + w[k]
<1>1. ASSUME NEW n \in Nat PROVE \E g \in [0..n -> Nat] : Ok(g, n)
  <2> DEFINE Has(m) == \E g \in [0..m -> Nat] : Ok(g, m)
             T == {m \in Nat : ~Has(m)}
  <2>1. SUFFICES ASSUME T # {} PROVE FALSE
    BY <2>1
  <2> HIDE DEF Has
  <2>2. PICK m \in T : \A k \in T : m <= k
    BY <2>1, LeastNumber
  <2>3. m \in Nat /\ ~Has(m) /\ (m # 0 => Has(m - 1))
    BY <2>2
  <2> HIDE DEF T
  <2>4. m # 0
    <3>1. [k \in 0..0 |-> 0] \in [0..0 -> Nat] /\ Ok([k \in 0..0 |-> 0], 0)
      OBVIOUS
    <3>2. Has(0)
      BY <3>1 DEF Has
    <3> QED
      BY <2>3, <3>2
  <2>5. m - 1 \in Nat /\ m - 1 \in 0..m - 1
    BY <2>3, <2>4
  <2>6. PICK g \in [0..m - 1 -> Nat] : Ok(g, m - 1)
    BY <2>3, <2>4 DEF Has
  <2> DEFINE h == [k \in 0..m |-> IF k = m THEN g[m - 1] + w[m] ELSE g[k]]
  <2>7. h \in [0..m -> Nat]
    <3>1. \A k \in 0..m : k # m => k \in 0..m - 1
      BY <2>3
    <3>2. g[m - 1] \in Nat /\ w[m] \in Nat
      BY <2>3, <2>5
    <3>3. \A a, b \in Nat : a + b \in Nat
      OBVIOUS
    <3>4. g[m - 1] + w[m] \in Nat
      BY <3>2, <3>3
    <3> QED
      BY <3>1, <3>4
  <2>8. h[0] = 0
    BY <2>3, <2>4, <2>6
  <2>9. ASSUME NEW k \in 1..m PROVE h[k] = h[k - 1] + w[k]
    <3>1. k - 1 \in 0..m /\ k - 1 # m /\ k \in 0..m
      BY <2>3
    <3>2. CASE k = m
      BY <3>1, <3>2
    <3>3. CASE k # m
      <4>1. k \in 1..m - 1
        BY <2>3, <3>3
      <4> QED
        BY <2>6, <3>1, <3>3, <4>1
    <3> QED
      BY <3>2, <3>3
  <2> HIDE DEF h
  <2>10. Ok(h, m)
    BY <2>8, <2>9
  <2> QED
    BY <2>3, <2>7, <2>10 DEF Has
<1>2. ASSUME NEW n \in Nat, NEW g, Ok(g, n), NEW h, Ok(h, n + 1)
      PROVE  g[n] = h[n]
  <2> DEFINE D == {k \in Nat : k <= n /\ g[k] # h[k]}
  <2>1. SUFFICES ASSUME D # {} PROVE FALSE
    BY <2>1
  <2>2. PICK m \in D : \A k \in D : m <= k
    BY <2>1, LeastNumber
  <2>3. m # 0
    BY <1>2, <2>2
  <2>4. m - 1 \in Nat /\ m - 1 <= n /\ m - 1 \notin D /\ m \in 1..n /\ m \in 1..n + 1
    BY <2>2, <2>3
  <2>5. g[m - 1] = h[m - 1]
    BY <2>4
  <2>6. g[m] = g[m - 1] + w[m] /\ h[m] = h[m - 1] + w[m]
    BY <1>2, <2>4
  <2> QED
    BY <2>2, <2>5, <2>6
<1> HIDE DEF Ok
<1> DEFINE G(n) == CHOOSE g \in [0..n -> Nat] : Ok(g, n)
           f == [n \in Nat |-> G(n)[n]]
<1>3. \A n \in Nat : G(n) \in [0..n -> Nat] /\ Ok(G(n), n)
  BY <1>1
<1> HIDE DEF G
<1>4. f \in [Nat -> Nat]
  <2>1. \A n \in Nat : n \in 0..n
    OBVIOUS
  <2> QED
    BY <1>3, <2>1
<1>5. ASSUME NEW n \in Nat PROVE f[n] = IF n = 0 THEN 0 ELSE f[n - 1] + w[n]
  <2>1. CASE n = 0
    BY <1>3, <2>1 DEF Ok
  <2>2. CASE n # 0
    <3>1. n - 1 \in Nat /\ n \in 1..n /\ (n - 1) + 1 = n
      BY <2>2
    <3>2. G(n)[n] = G(n)[n - 1] + w[n]
      BY <1>3, <3>1 DEF Ok
    <3>3. G(n - 1)[n - 1] = G(n)[n - 1]
      BY <1>2, <1>3, <3>1
    <3> QED
      BY <2>2, <3>1, <3>2, <3>3
  <2> QED
    BY <2>1, <2>2
<1> HIDE DEF f
<1>6. f = [n \in Nat |-> IF n = 0 THEN 0 ELSE f[n - 1] + w[n]]
  BY <1>4, <1>5
<1> QED
  BY <1>4, <1>6

LEMMA SumsFacts ==
  ASSUME NEW w \in [Nat -> Nat]
  PROVE  /\ Sums(w)[0] = 0
         /\ \A n \in Nat : Sums(w)[n] \in Nat /\ Sums(w)[n + 1] = Sums(w)[n] + w[n + 1]
<1> DEFINE f == Sums(w)
<1>1. f = [n \in Nat |-> IF n = 0 THEN 0 ELSE f[n - 1] + w[n]]
  BY SumsExist DEF Sums
<1> HIDE DEF f
<1>2. f[0] = 0
  BY <1>1
<1>3. ASSUME NEW n \in Nat PROVE f[n + 1] = f[n] + w[n + 1]
  <2>1. n + 1 \in Nat /\ n + 1 # 0 /\ (n + 1) - 1 = n
    OBVIOUS
  <2> QED
    BY <1>1, <2>1
<1>4. ASSUME NEW n \in Nat PROVE f[n] \in Nat
  <2> DEFINE T == {m \in Nat : f[m] \notin Nat}
  <2>1. SUFFICES ASSUME T # {} PROVE FALSE
    BY <2>1
  <2>2. PICK m \in T : \A k \in T : m <= k
    BY <2>1, LeastNumber
  <2>3. m # 0
    BY <1>2, <2>2
  <2>4. m - 1 \in Nat /\ m - 1 \notin T /\ (m - 1) + 1 = m /\ w[m] \in Nat
    BY <2>2, <2>3
  <2>5. f[m] = f[m - 1] + w[m] /\ f[m - 1] \in Nat
    BY <1>3, <2>4
  <2> QED
    BY <2>2, <2>4, <2>5
<1> QED
  BY <1>2, <1>3, <1>4 DEF f

(* The sum up to n depends on the first n values only.                     *)
LEMMA SumsAgree ==
  ASSUME NEW v \in [Nat -> Nat], NEW w \in [Nat -> Nat], NEW n \in Nat,
         \A k \in 1..n : v[k] = w[k]
  PROVE  Sums(v)[n] = Sums(w)[n]
<1> DEFINE D == {k \in Nat : k <= n /\ Sums(v)[k] # Sums(w)[k]}
<1>1. SUFFICES ASSUME D # {} PROVE FALSE
  BY <1>1
<1>2. PICK m \in D : \A k \in D : m <= k
  BY <1>1, LeastNumber
<1>3. m # 0
  BY <1>2, SumsFacts
<1>4. m - 1 \in Nat /\ m - 1 <= n /\ m - 1 \notin D /\ m \in 1..n /\ (m - 1) + 1 = m
  BY <1>2, <1>3
<1>5. Sums(v)[m] = Sums(v)[m - 1] + v[m] /\ Sums(w)[m] = Sums(w)[m - 1] + w[m]
  BY <1>4, SumsFacts
<1> QED
  BY <1>2, <1>4, <1>5

LEMMA SumsNothing ==
  ASSUME NEW n \in Nat PROVE Sums([k \in Nat |-> 0])[n] = 0
<1> DEFINE z == [k \in Nat |-> 0]
           D == {k \in Nat : Sums(z)[k] # 0}
<1>0. z \in [Nat -> Nat] /\ \A k \in Nat : z[k] = 0
  OBVIOUS
<1> HIDE DEF z
<1>1. SUFFICES ASSUME D # {} PROVE FALSE
  BY <1>1 DEF z
<1>2. PICK m \in D : \A k \in D : m <= k
  BY <1>1, LeastNumber
<1>3. m # 0
  BY <1>0, <1>2, SumsFacts
<1>4. m - 1 \in Nat /\ m - 1 \notin D /\ (m - 1) + 1 = m /\ m \in Nat
  BY <1>2, <1>3
<1>5. Sums(z)[m] = Sums(z)[m - 1] + z[m]
  BY <1>0, <1>4, SumsFacts
<1> QED
  BY <1>0, <1>2, <1>4, <1>5

-----------------------------------------------------------------------------
(* The limit: len is the sum of what the buffer holds, so the comparison   *)
(* in encode is one with the chunk as defined.                             *)
Refusing ==
  /\ state # "End" => len = SumOfSizes(Encoded(LastCut, Len(fed) + 1)) /\ ~failed
  /\ RefusedAtLimit

LEMMA SizesType ==
  ASSUME TypeOK, NEW S \in SUBSET (1..Len(fed))
  PROVE  [k \in Nat |-> IF k \in S THEN fed[k].size ELSE 0] \in [Nat -> Nat]
<1>1. \A k \in S : fed[k] \in Elements
  BY ElementOfSeq DEF TypeOK
<1>2. \A k \in S : fed[k].size \in Nat
  BY <1>1, ChunkerAssumption DEF ElementShape
<1> QED
  BY <1>2

(* What one more element adds to a sum of sizes.                           *)
LEMMA SizesGrow ==
  ASSUME TypeOK, NEW e \in Elements, NEW n, Feeds(e, n),
         NEW S \in SUBSET (1..n), NEW T \in SUBSET (1..(n + 1)),
         \A k \in 1..n : k \in T <=> k \in S
  PROVE  /\ SumOfSizes(S) \in Nat
         /\ SumOfSizes(T)' = SumOfSizes(S) + IF n + 1 \in T THEN e.size ELSE 0
<1>1. /\ n \in Nat /\ Len(fed) = n /\ Len(fed') = n + 1 /\ fed'[n + 1] = e
      /\ \A k \in 1..n : fed'[k] = fed[k]
  BY Fed
<1>2. e.size \in Nat
  BY ChunkerAssumption DEF ElementShape
<1> DEFINE v == [k \in Nat |-> IF k \in S THEN fed[k].size ELSE 0]
           w == [k \in Nat |-> IF k \in T THEN fed'[k].size ELSE 0]
<1>3. v \in [Nat -> Nat]
  BY <1>1, SizesType
<1>4. \A k \in 1..n : w[k] = v[k]
  BY <1>1
<1>5. w[n + 1] = IF n + 1 \in T THEN e.size ELSE 0
  BY <1>1
<1>6. w \in [Nat -> Nat]
  <2>1. \A k \in T : fed'[k].size \in Nat
    <3>1. \A k \in 1..n : k \in S => fed[k].size \in Nat
      BY <1>1, ElementOfSeq, ChunkerAssumption DEF TypeOK, ElementShape
    <3>2. \A k \in 1..(n + 1) : k \in 1..n \/ k = n + 1
      BY <1>1
    <3> QED
      BY <1>1, <1>2, <3>1, <3>2
  <2> QED
    BY <2>1
<1>7. SumOfSizes(S) = Sums(v)[n] /\ SumOfSizes(T)' = Sums(w)[n + 1]
  BY <1>1 DEF SumOfSizes
<1> HIDE DEF v, w
<1>8. Sums(w)[n + 1] = Sums(w)[n] + w[n + 1] /\ Sums(v)[n] \in Nat
  BY <1>1, <1>3, <1>6, SumsFacts
<1>9. Sums(w)[n] = Sums(v)[n]
  BY <1>1, <1>3, <1>4, <1>6, SumsAgree
<1> QED
  BY <1>5, <1>7, <1>8, <1>9

LEMMA SizesOfNothing ==
  ASSUME TypeOK PROVE SumOfSizes({}) = 0
<1>1. Len(fed) \in Nat
  BY LenProperties DEF TypeOK
<1>2. [k \in Nat |-> IF k \in {} THEN fed[k].size ELSE 0] = [k \in Nat |-> 0]
  OBVIOUS
<1> QED
  BY <1>1, <1>2, SumsNothing DEF SumOfSizes

LEMMA PartRefused ==
  ASSUME TypeOK, Chunking, Refusing, NEW e \in Elements, NEW n, n = Len(fed),
         \/ HeaderElement(e) \/ ClusterTimecode(e) \/ ClusterBlock(e) \/ ClusterElement(e)
  PROVE  Refusing'
<1>0. Place /\ Content /\ ChunksAsDefined
  BY DEF Chunking
<1>1. /\ Feeds(e, n) /\ ~eof /\ ~eof' /\ state # "End"
      /\ e.kind # "Cluster" /\ (state = "BuildingCluster" => ~StartsFile(e))
      /\ \/ /\ EncodeInto(e)
            /\ e.kind # "Stripped" /\ ~(OpensCluster(LastCut) /\ e.kind = "Timecode")
         \/ /\ e.kind = "Stripped" \/ (OpensCluster(LastCut) /\ e.kind = "Timecode")
            /\ UNCHANGED <<state, buffer, len, failed>>
  BY <1>0, Parts
<1>2. n + 1 \notin Cuts'
  BY <1>0, <1>1, WhatCuts
<1>3. n \in Nat /\ Len(fed') = n + 1 /\ Len(fed') + 1 = n + 2 /\ fed'[n + 1] = e
  BY <1>1, Fed
<1>4. PICK i \in 0..n : i = LastCut /\ i = LastCut'
  BY <1>1, <1>2, NoCut, LastCutFacts
<1>5. PICK S : S = Encoded(i, n + 1)
  OBVIOUS
<1>6. len = SumOfSizes(S) /\ ~failed
  BY <1>1, <1>4, <1>5 DEF Refusing
<1>7. S \in SUBSET (1..n)
  <2>1. \A k \in i..(n + 1) - 1 : k > 0 => k \in 1..n
    BY <1>3
  <2> QED
    BY <1>5, <2>1 DEF Encoded
<1>8. PICK T : T = Encoded(i, n + 2)'
  OBVIOUS
<1>9. T = S \cup (IF /\ e.kind \notin {"Cluster", "Stripped"} /\ e.size > 0
                     /\ ~(OpensCluster(i) /\ e.kind = "Timecode")
                  THEN {n + 1} ELSE {})
  BY <1>1, <1>5, <1>8, EncodedGrows
<1>10. (\A k \in 1..n : k \in 1..(n + 1) /\ k # n + 1) /\ n + 1 \in 1..(n + 1)
       /\ n + 1 \notin 1..n
  BY <1>3
<1>11. e.size \in Nat /\ e.encodable \in BOOLEAN /\ e.kind \in Kinds
  BY ChunkerAssumption DEF ElementShape
<1>12. ASSUME state' # "End" PROVE len' = SumOfSizes(Encoded(LastCut, Len(fed) + 1))'
  <2>1. T \in SUBSET (1..(n + 1)) /\ \A k \in 1..n : k \in T <=> k \in S
    BY <1>7, <1>9, <1>10
  <2>2. len \in Nat /\ SumOfSizes(T)' = len + IF n + 1 \in T THEN e.size ELSE 0
    BY <1>1, <1>6, <1>7, <2>1, SizesGrow
  <2>3. len' = len + IF n + 1 \in T THEN e.size ELSE 0
    <3>1. CASE EncodeInto(e) /\ e.kind # "Stripped"
               /\ ~(OpensCluster(LastCut) /\ e.kind = "Timecode")
      <4>1. len' = len + e.size
        BY <1>12, <3>1 DEF EncodeInto
      <4>2. CASE e.size > 0
        BY <1>1, <1>4, <1>9, <3>1, <4>1, <4>2
      <4>3. CASE ~(e.size > 0)
        <5>1. e.size = 0 /\ n + 1 \notin T
          BY <1>7, <1>9, <1>10, <1>11, <4>3
        <5> QED
          BY <4>1, <5>1
      <4> QED
        BY <4>2, <4>3
    <3>2. CASE /\ e.kind = "Stripped" \/ (OpensCluster(LastCut) /\ e.kind = "Timecode")
               /\ UNCHANGED <<state, buffer, len, failed>>
      <4>1. n + 1 \notin T
        BY <1>4, <1>7, <1>9, <1>10, <3>2
      <4> QED
        BY <2>2, <3>2, <4>1
    <3> QED
      BY <1>1, <3>1, <3>2
  <2>4. SumOfSizes(Encoded(LastCut, Len(fed) + 1))' = SumOfSizes(T)'
    BY <1>3, <1>4, <1>8
  <2> QED
    BY <2>2, <2>3, <2>4
<1>13. state' # "End" => ~failed'
  BY <1>1, <1>6 DEF EncodeInto
<1>14. RefusedAtLimit'
  <2>1. fed' # << >> /\ fed'[Len(fed')] = e
    BY <1>3, EmptySeq
  <2>2. Encoded(LastCut, Len(fed))' = S
    <3>1. n + 1 \in 0..(n + 1)
      BY <1>3
    <3>2. Encoded(i, n + 1)' = S
      BY <1>1, <1>5, <3>1, PastStays
    <3> QED
      BY <1>3, <1>4, <3>2
  <2>3. SumOfSizes(S)' = len /\ len \in Nat
    <3>1. S \in SUBSET (1..(n + 1)) /\ n + 1 \notin S
      BY <1>7, <1>10
    <3>2. SumOfSizes(S) \in Nat /\ SumOfSizes(S)' = SumOfSizes(S) + 0
      BY <1>1, <1>7, <3>1, SizesGrow
    <3> QED
      BY <1>6, <3>2
  <2>4. SumOfSizes(Encoded(LastCut, Len(fed)))' = len
    BY <2>2, <2>3
  <2>5. OpensCluster(LastCut)' <=> OpensCluster(LastCut)
    <3>1. OpensCluster(i)' <=> OpensCluster(i)
      <4>1. 0 \in 0..(n + 1)
        BY <1>3
      <4> QED
        BY <1>1, <4>1, PastStays
    <3> QED
      BY <1>4, <3>1
  <2>6. BufferLimit \in Nat /\ Limited \in BOOLEAN
    BY ChunkerAssumption
  <2>7. CASE EncodeInto(e) /\ e.kind # "Stripped"
             /\ ~(OpensCluster(LastCut) /\ e.kind = "Timecode")
    <3>1. failed' <=> ~Encodes(e, len)
      BY <1>6, <2>7 DEF EncodeInto
    <3>2. ~Encodes(e, len) <=> ~e.encodable \/ (Limited /\ len >= BufferLimit)
      BY <2>3, <2>6 DEF Encodes
    <3>3. e.kind \in {"EbmlHead", "Segment", "SeekHead", "Cues",
                      "Tracks", "Timecode", "SimpleBlock"}
      BY <1>1, <1>11, <2>7 DEF Kinds
    <3> QED
      BY <2>1, <2>4, <2>5, <2>7, <3>1, <3>2, <3>3 DEF RefusedAtLimit
  <2>8. CASE /\ e.kind = "Stripped" \/ (OpensCluster(LastCut) /\ e.kind = "Timecode")
             /\ UNCHANGED <<state, buffer, len, failed>>
    <3>1. ~failed'
      BY <1>6, <2>8
    <3> QED
      BY <2>1, <2>5, <2>8, <3>1 DEF RefusedAtLimit
  <2> QED
    BY <1>1, <2>7, <2>8
<1> QED
  BY <1>12, <1>13, <1>14 DEF Refusing

LEMMA CutRefused ==
  ASSUME TypeOK, Chunking, Refusing, NEW e \in Elements, NEW n, n = Len(fed),
         HeaderCluster(e) \/ ClusterCluster(e) \/ ClusterFile(e)
  PROVE  Refusing'
<1>0. Place /\ Content /\ ChunksAsDefined
  BY DEF Chunking
<1>1. /\ Feeds(e, n) /\ ~eof' /\ failed' = failed
      /\ \/ /\ e.kind = "Cluster" /\ state # "End" /\ state' = "BuildingCluster"
            /\ buffer' = << >> /\ head' = NewHead(0) /\ len' = 0
         \/ /\ StartsFile(e) /\ state = "BuildingCluster" /\ state' = "BuildingHeader"
            /\ buffer' = Written(e, n + 1) /\ len' = e.size
  BY <1>0, Completes
<1>2. n + 1 \in Cuts'
  BY <1>0, <1>1, PlaceWithCut
<1>3. LastCut' = n + 1
  BY <1>1, <1>2, NewCut
<1>4. n \in Nat /\ Len(fed') = n + 1 /\ Len(fed') + 1 = n + 2 /\ fed'[n + 1] = e
  BY <1>1, Fed
<1>5. e.size \in Nat /\ ~failed'
  BY <1>1, ChunkerAssumption DEF ElementShape, Refusing
<1>6. PICK T : T = Encoded(n + 1, n + 2)'
  OBVIOUS
<1>7. T = (IF e.kind \notin {"Cluster", "Stripped"} /\ e.size > 0 THEN {n + 1} ELSE {})
  BY <1>1, <1>6, EncodedBegins
<1>8. len' = SumOfSizes(Encoded(LastCut, Len(fed) + 1))'
  <2>1. (\A k \in 1..n : k # n + 1) /\ n + 1 \in 1..(n + 1)
    BY <1>4
  <2>2. /\ T \in SUBSET (1..(n + 1)) /\ {} \in SUBSET (1..n)
        /\ \A k \in 1..n : k \in T <=> k \in {}
    BY <1>7, <2>1
  <2>3. SumOfSizes(T)' = SumOfSizes({}) + IF n + 1 \in T THEN e.size ELSE 0
    BY <1>1, <2>2, SizesGrow
  <2>4. SumOfSizes(T)' = IF n + 1 \in T THEN e.size ELSE 0
    BY <1>5, <2>3, SizesOfNothing
  <2>5. len' = IF n + 1 \in T THEN e.size ELSE 0
    <3>1. CASE e.kind = "Cluster" /\ len' = 0
      BY <1>7, <3>1
    <3>2. CASE StartsFile(e) /\ len' = e.size
      <4>1. e.kind \notin {"Cluster", "Stripped"}
        BY <3>2 DEF StartsFile
      <4>2. CASE e.size > 0
        BY <1>7, <3>2, <4>1, <4>2
      <4>3. CASE ~(e.size > 0)
        BY <1>5, <1>7, <3>2, <4>3
      <4> QED
        BY <4>2, <4>3
    <3> QED
      BY <1>1, <3>1, <3>2
  <2> QED
    BY <1>3, <1>4, <1>6, <2>4, <2>5
<1>9. RefusedAtLimit'
  <2>1. fed'[Len(fed')] = e
    BY <1>4
  <2>2. CASE e.kind = "Cluster"
    BY <1>5, <2>1, <2>2 DEF RefusedAtLimit
  <2>3. CASE StartsFile(e)
    <3>1. e.encodable
      BY <2>3, FileEncodes DEF Encodes
    <3>2. Encoded(n + 1, n + 1)' = {}
      <4>1. n + 1..(n + 1) - 1 = {}
        BY <1>4
      <4> QED
        BY <4>1 DEF Encoded
    <3>3. SumOfSizes({})' = 0
      <4>1. {} \in SUBSET (1..n) /\ {} \in SUBSET (1..(n + 1)) /\ n + 1 \notin {}
        OBVIOUS
      <4>2. SumOfSizes({})' = SumOfSizes({}) + 0
        BY <1>1, <4>1, SizesGrow
      <4> QED
        BY <4>2, SizesOfNothing
    <3>4. SumOfSizes(Encoded(LastCut, Len(fed)))' = 0
      BY <1>3, <1>4, <3>2, <3>3
    <3>5. ~(0 >= BufferLimit)
      BY ChunkerAssumption
    <3> QED
      BY <1>5, <2>1, <3>1, <3>4, <3>5 DEF RefusedAtLimit
  <2> QED
    BY <1>1, <2>2, <2>3
<1> QED
  BY <1>5, <1>8, <1>9 DEF Refusing

LEMMA RefusingStep == TypeOK /\ Chunking /\ Refusing /\ [Next]_vars => Refusing'
<1> SUFFICES ASSUME TypeOK, Chunking, Refusing, [Next]_vars PROVE Refusing'
  OBVIOUS
<1>1. PICK n : n = Len(fed)
  OBVIOUS
<1>3. ASSUME NEW e \in Elements,
             \/ HeaderElement(e) \/ ClusterTimecode(e)
             \/ ClusterBlock(e) \/ ClusterElement(e)
      PROVE  Refusing'
  BY <1>1, <1>3, PartRefused
<1>4. ASSUME NEW e \in Elements,
             HeaderCluster(e) \/ ClusterCluster(e) \/ ClusterFile(e)
      PROVE  Refusing'
  BY <1>1, <1>4, CutRefused
<1>5. ASSUME UNCHANGED <<fed, failed>>, state' = "End" \/ UNCHANGED <<state, len>>
      PROVE  Refusing'
  <2>1. \A S : SumOfSizes(S)' = SumOfSizes(S)
    BY <1>5 DEF SumOfSizes
  <2>2. RefusedAtLimit'
    BY <1>5, <2>1, SameStream DEF Refusing, RefusedAtLimit
  <2>3. ASSUME state' # "End"
        PROVE  len' = SumOfSizes(Encoded(LastCut, Len(fed) + 1))' /\ ~failed'
    BY <1>5, <2>1, <2>3, SameStream DEF Refusing
  <2> QED
    BY <2>2, <2>3 DEF Refusing
<1>6. CASE HeaderEof \/ ClusterEof
  BY <1>5, <1>6 DEF HeaderEof, ClusterEof
<1>7. CASE UNCHANGED vars
  BY <1>5, <1>7 DEF vars
<1> QED
  BY <1>3, <1>4, <1>6, <1>7 DEF Next

(* For every stream and every limit a source is refused exactly when its   *)
(* chunk under construction held the limit already or the element has no   *)
(* encoding: encode compares with the true length of the buffer, which     *)
(* is emptied with each chunk.                                             *)
THEOREM RefusedAtLimitAlways == Spec => []RefusedAtLimit
<1>1. Init => Refusing
  <2> SUFFICES ASSUME Init PROVE Refusing
    OBVIOUS
  <2>1. fed = << >> /\ Len(fed) = 0 /\ 1..Len(fed) = {} /\ len = 0 /\ failed = FALSE
    BY EmptySeq DEF Init
  <2>2. Cuts = {} /\ LastCut = 0
    BY InitialCuts
  <2>3. Encoded(LastCut, Len(fed) + 1) = {}
    BY <2>1, <2>2 DEF Encoded
  <2>4. SumOfSizes({}) = 0
    <3>1. [k \in Nat |-> IF k \in {} THEN fed[k].size ELSE 0] = [k \in Nat |-> 0]
      OBVIOUS
    <3> QED
      BY <2>1, <3>1, SumsNothing DEF SumOfSizes
  <2> QED
    BY <2>1, <2>3, <2>4 DEF Refusing, RefusedAtLimit
<1>2. Refusing => RefusedAtLimit
  BY DEF Refusing
<1> QED
  BY <1>1, <1>2, TypeCorrect, ChunkingAlways, RefusingStep, PTL DEF Spec

=============================================================================
