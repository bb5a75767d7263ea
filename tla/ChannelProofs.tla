---------------------------- MODULE ChannelProofs ----------------------------
(* Proofs about Channel, about Broadcast as what it implements, and about  *)
(* Relay, which adds the viewers: for any number of uploaders, listeners   *)
(* and chunks and any size of the queues.                                  *)
EXTENDS Relay, SequenceTheorems, TLAPS

-----------------------------------------------------------------------------
(* Every step keeps the types, and no queue grows beyond what the library  *)
(* accepts.                                                                *)
LEMMA TypeStep == TypeOK /\ [Next]_vars => TypeOK'
<1> SUFFICES ASSUME TypeOK, [Next]_vars PROVE TypeOK'
  OBVIOUS
<1> USE ChannelAssumption
<1>0. NoChunk \in Chunk
  BY DEF NoChunk, Chunk
<1>1. ASSUME NEW t \in Transmitters, TransmitterNew(t) PROVE TypeOK'
  BY <1>1 DEF TypeOK, TransmitterNew, history
<1>2. ASSUME NEW t \in Transmitters, TransmitterDrop(t) PROVE TypeOK'
  BY <1>0, <1>2 DEF TypeOK, TransmitterDrop, history
<1>3. ASSUME NEW t \in Transmitters, NEW i \in {txInit[t], published + 1},
             SendBegin(t, [serial |-> published + 1, init |-> i])
      PROVE  TypeOK'
  <2> DEFINE c == [serial |-> published + 1, init |-> i]
  <2>1. c \in Chunk /\ c.serial = published + 1 /\ c.init \in Nat
    BY DEF TypeOK, Chunk
  <2>2. header_chunk' \in Chunk
    BY <1>3, <2>1 DEF TypeOK, SendBegin, RememberHeaders
  <2> QED
    BY <1>3, <2>1, <2>2 DEF TypeOK, SendBegin, history
<1>4. ASSUME SendEnd PROVE TypeOK'
  BY <1>0, <1>4 DEF TypeOK, SendEnd, history
<1>5. ASSUME NEW l \in Listeners, SendTo(l) PROVE TypeOK'
  <2>1. CASE StartSendOk(l)
    <3>1. queue' = [queue EXCEPT ![l] = Append(queue[l], chunk)]
      BY <1>5, <2>1 DEF SendTo
    <3>2. /\ Append(queue[l], chunk) \in Seq(Chunk)
          /\ Len(Append(queue[l], chunk)) <= MpscBuffer + 1
      BY <2>1, AppendProperties DEF TypeOK, StartSendOk
    <3> QED
      BY <1>5, <2>1, <3>1, <3>2 DEF TypeOK, SendTo, history
  <2>2. CASE ~StartSendOk(l)
    BY <1>5, <2>2 DEF TypeOK, SendTo, history
  <2> QED
    BY <2>1, <2>2
<1>6. ASSUME NEW l \in Listeners, ListenerNew(l) PROVE TypeOK'
  <2> DEFINE q == IF header_chunk = NoChunk THEN << >> ELSE <<header_chunk>>
  <2>1. q \in Seq(Chunk) /\ Len(q) <= 1
    BY DEF TypeOK
  <2>2. queue' = [queue EXCEPT ![l] = q]
    BY <1>6 DEF ListenerNew
  <2> HIDE DEF q
  <2>3. queue' \in [Listeners -> Seq(Chunk)]
    BY <2>1, <2>2 DEF TypeOK
  <2>4. \A k \in Listeners : Len(queue'[k]) <= MpscBuffer + 1
    BY <2>1, <2>2 DEF TypeOK
  <2> QED
    BY <1>6, <2>3, <2>4 DEF TypeOK, ListenerNew, txVars
<1>7. ASSUME NEW l \in Listeners, PollChunk(l) PROVE TypeOK'
  <2>1. /\ Tail(queue[l]) \in Seq(Chunk)
        /\ Len(Tail(queue[l])) <= MpscBuffer + 1
        /\ Append(seen[l], Head(queue[l])) \in Seq(Chunk)
    BY <1>7, HeadTailProperties, AppendProperties DEF TypeOK, PollChunk
  <2> QED
    BY <1>7, <2>1 DEF TypeOK, PollChunk, txVars
<1>8. ASSUME NEW l \in Listeners, PollEnd(l) PROVE TypeOK'
  BY <1>8 DEF TypeOK, PollEnd, txVars, history
<1>9. ASSUME NEW l \in Listeners, ListenerDrop(l) PROVE TypeOK'
  <2>1. << >> \in Seq(Chunk) /\ Len(<< >>) <= MpscBuffer + 1
    BY EmptySeq
  <2> QED
    BY <1>9, <2>1 DEF TypeOK, ListenerDrop, txVars, history
<1>10. CASE UNCHANGED vars
  BY <1>10 DEF TypeOK, vars
<1> QED
  BY <1>1, <1>2, <1>3, <1>4, <1>5, <1>6, <1>7, <1>8, <1>9, <1>10
  DEF Next, SendStep, Poll

(* The type invariant holds, and with it the bound of every queue: a       *)
(* listener never holds up more than MpscBuffer + 1 chunks (start_send).   *)
THEOREM TypeCorrect == Spec => []TypeOK
<1>1. Init => TypeOK
  BY ChannelAssumption, EmptySeq DEF Init, TypeOK, Chunk, NoChunk
<1> QED
  BY <1>1, TypeStep, PTL DEF Spec

-----------------------------------------------------------------------------
(* Receiving a chunk moves it from the queue to what was seen: the stream  *)
(* of the listener stays what it is.                                       *)
LEMMA PollKeepsStream ==
  ASSUME NEW S, NEW s \in Seq(S), NEW q \in Seq(S), q # << >>
  PROVE  Append(s, Head(q)) \o Tail(q) = s \o q
<1>1. /\ Head(q) \in S
      /\ Tail(q) \in Seq(S)
      /\ Len(Tail(q)) = Len(q) - 1
      /\ \A i \in 1..Len(Tail(q)) : Tail(q)[i] = q[i + 1]
      /\ Head(q) = q[1]
      /\ Len(q) \in Nat \ {0}
      /\ Len(s) \in Nat
  BY HeadTailProperties, EmptySeq, LenProperties
<1>2. /\ Append(s, Head(q)) \in Seq(S)
      /\ Len(Append(s, Head(q))) = Len(s) + 1
      /\ \A i \in 1..Len(s) : Append(s, Head(q))[i] = s[i]
      /\ Append(s, Head(q))[Len(s) + 1] = Head(q)
  BY <1>1, AppendProperties
<1> DEFINE a == Append(s, Head(q)) \o Tail(q)
           b == s \o q
<1>3. /\ a \in Seq(S)
      /\ Len(a) = Len(s) + Len(q)
      /\ \A i \in 1..Len(s) + Len(q) :
           a[i] = IF i <= Len(s) + 1 THEN Append(s, Head(q))[i]
                  ELSE Tail(q)[i - (Len(s) + 1)]
  BY <1>1, <1>2, ConcatProperties
<1>4. /\ b \in Seq(S)
      /\ Len(b) = Len(s) + Len(q)
      /\ \A i \in 1..Len(s) + Len(q) :
           b[i] = IF i <= Len(s) THEN s[i] ELSE q[i - Len(s)]
  BY ConcatProperties
<1>5. ASSUME NEW i \in 1..Len(a) PROVE a[i] = b[i]
  <2>1. CASE i <= Len(s)
    BY <1>1, <1>2, <1>3, <1>4, <2>1
  <2>2. CASE i = Len(s) + 1
    BY <1>1, <1>2, <1>3, <1>4, <2>2
  <2>3. CASE i > Len(s) + 1
    <3>1. i - (Len(s) + 1) \in 1..Len(Tail(q))
      BY <1>1, <1>3, <2>3
    <3>2. Tail(q)[i - (Len(s) + 1)] = q[i - (Len(s) + 1) + 1]
      BY <1>1, <3>1
    <3>3. i - (Len(s) + 1) + 1 = i - Len(s)
      BY <1>1
    <3> QED
      BY <1>1, <1>3, <1>4, <2>3, <3>2, <3>3
  <2> QED
    BY <1>1, <2>1, <2>2, <2>3
<1> QED
  <2> HIDE DEF a, b
  <2>1. a = b
    BY <1>3, <1>4, <1>5, SeqEqual
  <2> QED
    BY <2>1 DEF a, b

(* What a send adds to the queue it adds to the end of the stream.         *)
LEMMA SendExtendsStream ==
  ASSUME NEW S, NEW s \in Seq(S), NEW q \in Seq(S), NEW c \in S
  PROVE  /\ s \o q \in Seq(S)
         /\ s \o Append(q, c) \in Seq(S)
         /\ Len(s \o Append(q, c)) = Len(s \o q) + 1
         /\ \A i \in 1..Len(s \o q) : (s \o Append(q, c))[i] = (s \o q)[i]
         /\ (s \o Append(q, c))[Len(s \o q) + 1] = c
<1>1. /\ Append(q, c) \in Seq(S)
      /\ Len(Append(q, c)) = Len(q) + 1
      /\ \A i \in 1..Len(q) : Append(q, c)[i] = q[i]
      /\ Append(q, c)[Len(q) + 1] = c
      /\ Len(q) \in Nat /\ Len(s) \in Nat
  BY AppendProperties, LenProperties
<1> DEFINE p == Append(q, c)
<1>2. /\ s \o p \in Seq(S)
      /\ Len(s \o p) = Len(s) + Len(p)
      /\ \A i \in 1..Len(s) + Len(p) :
           (s \o p)[i] = IF i <= Len(s) THEN s[i] ELSE p[i - Len(s)]
  <2> HIDE DEF p
  <2> QED BY <1>1, ConcatProperties DEF p
<1>3. /\ s \o q \in Seq(S)
      /\ Len(s \o q) = Len(s) + Len(q)
      /\ \A i \in 1..Len(s) + Len(q) :
           (s \o q)[i] = IF i <= Len(s) THEN s[i] ELSE q[i - Len(s)]
  BY ConcatProperties
<1>4. ASSUME NEW i \in 1..Len(s \o q) PROVE (s \o p)[i] = (s \o q)[i]
  <2>1. CASE i <= Len(s)
    BY <1>1, <1>2, <1>3, <2>1
  <2>2. CASE i > Len(s)
    <3>1. i - Len(s) \in 1..Len(q)
      BY <1>1, <1>3, <2>2
    <3> QED
      BY <1>1, <1>2, <1>3, <2>2, <3>1
  <2> QED
    BY <1>1, <1>3, <2>1, <2>2
<1>5. (s \o p)[Len(s \o q) + 1] = c
  <2>1. Len(s) + Len(q) + 1 - Len(s) = Len(q) + 1
    BY <1>1
  <2> QED
    BY <1>1, <1>2, <1>3, <2>1
<1> QED
  BY <1>1, <1>2, <1>3, <1>4, <1>5

(* What is left of a stream when its queue is thrown away.                 *)
LEMMA DropKeepsPrefix ==
  ASSUME NEW S, NEW s \in Seq(S), NEW q \in Seq(S)
  PROVE  /\ s \o << >> = s
         /\ Len(s) \in Nat
         /\ Len(s) <= Len(s \o q)
         /\ \A i \in 1..Len(s) : s[i] = (s \o q)[i]
  BY ConcatEmptySeq, ConcatProperties, LenProperties

-----------------------------------------------------------------------------
(* How each action changes the streams.                                    *)
LEMMA StreamType ==
  ASSUME TypeOK, NEW l \in Listeners
  PROVE  Stream(l) \in Seq(Chunk) /\ Len(Stream(l)) \in Nat
  BY ConcatProperties, LenProperties DEF TypeOK, Stream

LEMMA StreamPoll ==
  ASSUME TypeOK, NEW l \in Listeners, PollChunk(l), NEW k \in Listeners
  PROVE  Stream(k)' = Stream(k)
<1>1. CASE k = l
  <2>1. seen[l] \in Seq(Chunk) /\ queue[l] \in Seq(Chunk) /\ queue[l] # << >>
    BY DEF TypeOK, PollChunk
  <2>2. Append(seen[l], Head(queue[l])) \o Tail(queue[l]) = seen[l] \o queue[l]
    BY <2>1, PollKeepsStream
  <2> QED
    BY <1>1, <2>2 DEF TypeOK, PollChunk, Stream
<1>2. CASE k # l
  BY <1>2 DEF TypeOK, PollChunk, Stream
<1> QED
  BY <1>1, <1>2

LEMMA StreamSendTo ==
  ASSUME TypeOK, NEW l \in Listeners, SendTo(l)
  PROVE  /\ \A k \in Listeners \ {l} : Stream(k)' = Stream(k)
         /\ ~StartSendOk(l) => Stream(l)' = Stream(l)
         /\ StartSendOk(l) =>
              /\ Len(Stream(l)') = Len(Stream(l)) + 1
              /\ \A i \in 1..Len(Stream(l)) : Stream(l)'[i] = Stream(l)[i]
              /\ Stream(l)'[Len(Stream(l)) + 1] = chunk
<1>1. \A k \in Listeners \ {l} : Stream(k)' = Stream(k)
  BY DEF TypeOK, SendTo, Stream, history
<1>2. ~StartSendOk(l) => Stream(l)' = Stream(l)
  BY DEF SendTo, Stream, history
<1>3. ASSUME StartSendOk(l)
      PROVE  /\ Len(Stream(l)') = Len(Stream(l)) + 1
             /\ \A i \in 1..Len(Stream(l)) : Stream(l)'[i] = Stream(l)[i]
             /\ Stream(l)'[Len(Stream(l)) + 1] = chunk
  <2>1. Stream(l)' = seen[l] \o Append(queue[l], chunk)
    BY <1>3 DEF TypeOK, SendTo, Stream, history
  <2> QED
    BY <2>1, SendExtendsStream DEF TypeOK, Stream
<1> QED
  BY <1>1, <1>2, <1>3

LEMMA StreamDrop ==
  ASSUME TypeOK, NEW l \in Listeners, ListenerDrop(l)
  PROVE  /\ \A k \in Listeners \ {l} : Stream(k)' = Stream(k)
         /\ Len(Stream(l)') \in Nat
         /\ Len(Stream(l)') <= Len(Stream(l))
         /\ \A i \in 1..Len(Stream(l)') : Stream(l)'[i] = Stream(l)[i]
<1>1. \A k \in Listeners \ {l} : Stream(k)' = Stream(k)
  BY DEF TypeOK, ListenerDrop, Stream, history
<1>2. Stream(l)' = seen[l] \o << >>
  BY DEF TypeOK, ListenerDrop, Stream, history
<1> QED
  <2>1. seen[l] \in Seq(Chunk) /\ queue[l] \in Seq(Chunk)
    BY DEF TypeOK
  <2>2. /\ Stream(l)' = seen[l]
        /\ Len(seen[l]) \in Nat
        /\ Len(seen[l]) <= Len(Stream(l))
        /\ \A i \in 1..Len(seen[l]) : seen[l][i] = Stream(l)[i]
    BY <1>2, <2>1, DropKeepsPrefix DEF Stream
  <2> QED
    BY <1>1, <2>2

-----------------------------------------------------------------------------
(* NoGaps and NothingMissed are not inductive by themselves. A join must   *)
(* start from an empty stream, and what a send hands round must be the     *)
(* chunk accepted last, to listeners that are one chunk behind.            *)
JoinsOnce ==
  \A l \in Listeners : status[l] = "new" =>
    l \notin listeners /\ seen[l] = << >> /\ queue[l] = << >>

HandsLastRound ==
  /\ lock = NoOne => todo = {}
  /\ lock # NoOne => chunk.serial = published

Delivery ==
  /\ JoinsOnce
  /\ HandsLastRound
  /\ \A l \in Listeners : from[l] <= published
  /\ NoGaps
  /\ NothingMissed

LEMMA DeliveryStep == TypeOK /\ Delivery /\ [Next]_vars => Delivery'
<1> SUFFICES ASSUME TypeOK, Delivery, [Next]_vars PROVE Delivery'
  OBVIOUS
<1> USE ChannelAssumption
<1>0. /\ published \in Nat
      /\ from \in [Listeners -> Nat]
      /\ hello \in [Listeners -> {0, 1}]
      /\ \A l \in Listeners : Len(Stream(l)) \in Nat
  BY StreamType DEF TypeOK
<1>1. ASSUME NEW t \in Transmitters, TransmitterNew(t) PROVE Delivery'
  BY <1>1 DEF TransmitterNew, history, Delivery, JoinsOnce, HandsLastRound,
              NoGaps, NothingMissed, Stream
<1>2. ASSUME NEW t \in Transmitters, TransmitterDrop(t) PROVE Delivery'
  BY <1>2 DEF TransmitterDrop, history, Delivery, JoinsOnce, HandsLastRound,
              NoGaps, NothingMissed, Stream
<1>3. ASSUME NEW t \in Transmitters, NEW i \in {txInit[t], published + 1},
             SendBegin(t, [serial |-> published + 1, init |-> i])
      PROVE  Delivery'
  <2>1. /\ UNCHANGED <<listeners, status, queue, seen, from, hello>>
        /\ published' = published + 1
        /\ todo = {} /\ todo' = listeners
        /\ lock' = t /\ lock' # NoOne
        /\ chunk'.serial = published + 1
    BY <1>3 DEF SendBegin, history, Delivery, HandsLastRound
  <2>2. \A l \in Listeners : Stream(l)' = Stream(l)
    BY <2>1 DEF Stream
  <2>3. JoinsOnce' /\ HandsLastRound'
    BY <2>1 DEF Delivery, JoinsOnce, HandsLastRound
  <2>4. \A l \in Listeners : from'[l] <= published'
    BY <1>0, <2>1 DEF Delivery
  <2>5. NoGaps'
    BY <2>1, <2>2 DEF Delivery, NoGaps
  <2>6. NothingMissed'
    <3> SUFFICES ASSUME NEW l \in listeners, status[l] = "open"
                 PROVE  Len(Stream(l)') + (IF l \in todo' THEN 1 ELSE 0)
                          = hello[l] + (published' - from[l])
      BY <2>1 DEF NothingMissed
    <3>1. Len(Stream(l)) + 0 = hello[l] + (published - from[l])
      BY <2>1 DEF Delivery, NothingMissed
    <3>2. l \in Listeners /\ l \in todo'
      BY <2>1 DEF TypeOK
    <3>3. Len(Stream(l)') + 1 = hello[l] + (published' - from[l])
      BY <1>0, <2>1, <2>2, <3>1, <3>2
    <3> QED
      BY <3>2, <3>3
  <2> QED
    BY <2>3, <2>4, <2>5, <2>6 DEF Delivery
<1>4. ASSUME SendEnd PROVE Delivery'
  BY <1>4 DEF SendEnd, history, Delivery, JoinsOnce, HandsLastRound,
              NoGaps, NothingMissed, Stream
<1>5. ASSUME NEW l \in Listeners, SendTo(l) PROVE Delivery'
  <2>1. /\ UNCHANGED <<lock, chunk, published, status, seen, from, hello>>
        /\ l \in todo /\ todo' = todo \ {l}
        /\ listeners' \subseteq listeners
        /\ l \in listeners
    BY <1>5 DEF SendTo, history, TypeOK
  <2>2. JoinsOnce' /\ HandsLastRound'
    <3>1. \A k \in Listeners : status[k] = "new" => queue'[k] = queue[k]
      BY <1>5 DEF SendTo, StartSendOk, TypeOK
    <3> QED
      BY <2>1, <3>1 DEF Delivery, JoinsOnce, HandsLastRound
  <2>3. chunk.serial = published
    BY <2>1 DEF Delivery, HandsLastRound
  <2>4. CASE StartSendOk(l)
    <3>1. status[l] = "open" /\ listeners' = listeners
      BY <1>5, <2>4 DEF StartSendOk, SendTo
    <3>2. Len(Stream(l)) + 1 = hello[l] + (published - from[l])
      BY <2>1, <3>1 DEF Delivery, NothingMissed
    <3>3. /\ Len(Stream(l)') = Len(Stream(l)) + 1
          /\ \A i \in 1..Len(Stream(l)) : Stream(l)'[i] = Stream(l)[i]
          /\ Stream(l)'[Len(Stream(l)) + 1] = chunk
          /\ \A k \in Listeners \ {l} : Stream(k)' = Stream(k)
      BY <1>5, <2>4, StreamSendTo
    <3>4. NoGaps'
      <4> SUFFICES ASSUME NEW k \in Listeners, NEW i \in 1..Len(Stream(k)'),
                          i > hello[k]
                   PROVE  Stream(k)'[i].serial = from[k] + (i - hello[k])
        BY <2>1 DEF NoGaps
      <4>1. CASE k # l
        BY <3>3, <4>1 DEF Delivery, NoGaps
      <4>2. CASE k = l /\ i <= Len(Stream(l))
        <5>1. i \in 1..Len(Stream(l))
          BY <1>0, <3>3, <4>2
        <5> QED
          BY <3>3, <4>2, <5>1 DEF Delivery, NoGaps
      <4>3. CASE k = l /\ i = Len(Stream(l)) + 1
        <5>1. published = from[l] + (i - hello[l])
          BY <1>0, <3>2, <4>3
        <5> QED
          BY <2>3, <3>3, <4>3, <5>1
      <4> QED
        BY <1>0, <3>3, <4>1, <4>2, <4>3
    <3>5. NothingMissed'
      <4> SUFFICES ASSUME NEW k \in listeners, status[k] = "open"
                   PROVE  Len(Stream(k)') + (IF k \in todo' THEN 1 ELSE 0)
                            = hello[k] + (published - from[k])
        BY <2>1, <3>1 DEF NothingMissed
      <4>0. k \in Listeners
        BY DEF TypeOK
      <4>1. CASE k # l
        BY <2>1, <3>3, <4>0, <4>1 DEF Delivery, NothingMissed
      <4>2. CASE k = l
        BY <1>0, <2>1, <3>2, <3>3, <4>2
      <4> QED
        BY <4>1, <4>2
    <3> QED
      BY <2>1, <2>2, <3>4, <3>5 DEF Delivery
  <2>5. CASE ~StartSendOk(l)
    <3>1. \A k \in Listeners : Stream(k)' = Stream(k)
      BY <1>5, <2>5, StreamSendTo
    <3>2. listeners' = listeners \ {l}
      BY <1>5, <2>5 DEF SendTo
    <3>3. NoGaps'
      BY <2>1, <3>1 DEF Delivery, NoGaps
    <3>4. NothingMissed'
      BY <2>1, <3>1, <3>2 DEF Delivery, NothingMissed, TypeOK
    <3> QED
      BY <2>1, <2>2, <3>3, <3>4 DEF Delivery
  <2> QED
    BY <2>4, <2>5
<1>6. ASSUME NEW l \in Listeners, ListenerNew(l) PROVE Delivery'
  <2> DEFINE q == IF header_chunk = NoChunk THEN << >> ELSE <<header_chunk>>
             h == IF header_chunk = NoChunk THEN 0 ELSE 1
  <2>1. /\ status' = [status EXCEPT ![l] = "open"]
        /\ queue' = [queue EXCEPT ![l] = q]
        /\ listeners' = listeners \cup {l}
        /\ from' = [from EXCEPT ![l] = published]
        /\ hello' = [hello EXCEPT ![l] = h]
        /\ UNCHANGED <<lock, chunk, todo, published, seen>>
        /\ todo = {} /\ seen[l] = << >>
    BY <1>6 DEF ListenerNew, txVars, Delivery, HandsLastRound, JoinsOnce
  <2>2. q \in Seq(Chunk) /\ Len(q) = h /\ << >> \o q = q
    BY ConcatEmptySeq DEF TypeOK
  <2>2a. h \in Nat
    OBVIOUS
  <2> HIDE DEF q, h
  <2>3. Stream(l)' = q /\ \A k \in Listeners \ {l} : Stream(k)' = Stream(k)
    BY <2>1, <2>2 DEF Stream, TypeOK
  <2>4. JoinsOnce' /\ HandsLastRound'
    BY <2>1 DEF Delivery, JoinsOnce, HandsLastRound, TypeOK
  <2>5. \A k \in Listeners : from'[k] <= published'
    BY <1>0, <2>1 DEF Delivery
  <2>6. NoGaps'
    <3> SUFFICES ASSUME NEW k \in Listeners, NEW i \in 1..Len(Stream(k)'),
                        i > hello'[k]
                 PROVE  Stream(k)'[i].serial = from'[k] + (i - hello'[k])
      BY DEF NoGaps
    <3>1. CASE k = l
      BY <1>0, <2>1, <2>2, <2>2a, <2>3, <3>1
    <3>2. CASE k # l
      BY <1>0, <2>1, <2>3, <3>2 DEF Delivery, NoGaps
    <3> QED
      BY <3>1, <3>2
  <2>7. NothingMissed'
    <3> SUFFICES ASSUME NEW k \in listeners', status'[k] = "open"
                 PROVE  Len(Stream(k)') = hello'[k] + (published - from'[k])
      BY <2>1, <1>0, StreamType, <2>2, <2>2a, <2>3 DEF NothingMissed, TypeOK
    <3>1. CASE k = l
      BY <1>0, <2>1, <2>2, <2>2a, <2>3, <3>1
    <3>2. CASE k # l
      <4>1. k \in listeners /\ k \in Listeners /\ status[k] = "open"
        BY <2>1, <3>2 DEF TypeOK
      <4>2. Len(Stream(k)) + 0 = hello[k] + (published - from[k])
        BY <2>1, <4>1 DEF Delivery, NothingMissed
      <4> QED
        BY <1>0, <2>1, <2>3, <3>2, <4>1, <4>2
    <3> QED
      BY <3>1, <3>2
  <2> QED
    BY <2>4, <2>5, <2>6, <2>7 DEF Delivery
<1>7. ASSUME NEW l \in Listeners, PollChunk(l) PROVE Delivery'
  <2>1. \A k \in Listeners : Stream(k)' = Stream(k)
    BY <1>7, StreamPoll
  <2>2. JoinsOnce'
    BY <1>7 DEF PollChunk, Delivery, JoinsOnce, TypeOK
  <2> QED
    BY <1>7, <2>1, <2>2
    DEF PollChunk, txVars, Delivery, HandsLastRound, NoGaps, NothingMissed, TypeOK
<1>8. ASSUME NEW l \in Listeners, PollEnd(l) PROVE Delivery'
  BY <1>8 DEF PollEnd, txVars, history, Delivery, JoinsOnce, HandsLastRound,
              NoGaps, NothingMissed, Stream, TypeOK
<1>9. ASSUME NEW l \in Listeners, ListenerDrop(l) PROVE Delivery'
  <2>1. /\ status' = [status EXCEPT ![l] = "gone"]
        /\ queue' = [queue EXCEPT ![l] = << >>]
        /\ UNCHANGED <<listeners, lock, chunk, todo, published, seen, from, hello>>
    BY <1>9 DEF ListenerDrop, txVars, history
  <2>2. /\ \A k \in Listeners \ {l} : Stream(k)' = Stream(k)
        /\ Len(Stream(l)') \in Nat
        /\ Len(Stream(l)') <= Len(Stream(l))
        /\ \A i \in 1..Len(Stream(l)') : Stream(l)'[i] = Stream(l)[i]
    BY <1>9, StreamDrop
  <2>3. JoinsOnce' /\ HandsLastRound'
    BY <2>1 DEF Delivery, JoinsOnce, HandsLastRound, TypeOK
  <2>4. NoGaps'
    <3> SUFFICES ASSUME NEW k \in Listeners, NEW i \in 1..Len(Stream(k)'),
                        i > hello[k]
                 PROVE  Stream(k)'[i].serial = from[k] + (i - hello[k])
      BY <2>1 DEF NoGaps
    <3>1. i \in 1..Len(Stream(k)) /\ Stream(k)'[i] = Stream(k)[i]
      BY <1>0, <2>2
    <3> QED
      BY <3>1 DEF Delivery, NoGaps
  <2>5. NothingMissed'
    BY <2>1, <2>2 DEF Delivery, NothingMissed, TypeOK
  <2> QED
    BY <2>1, <2>3, <2>4, <2>5 DEF Delivery
<1>10. CASE UNCHANGED vars
  BY <1>10 DEF vars, Delivery, JoinsOnce, HandsLastRound, NoGaps,
               NothingMissed, Stream
<1> QED
  BY <1>1, <1>2, <1>3, <1>4, <1>5, <1>6, <1>7, <1>8, <1>9, <1>10
  DEF Next, SendStep, Poll

LEMMA DeliveryAlways == Spec => []Delivery
<1>1. Init => Delivery
  <2> SUFFICES ASSUME Init PROVE Delivery
    OBVIOUS
  <2>1. \A l \in Listeners : Stream(l) = << >> \o << >>
    BY DEF Init, Stream
  <2>2. \A l \in Listeners : Len(Stream(l)) = 0
    BY <2>1, ConcatProperties, EmptySeq
  <2> QED
    BY <2>2 DEF Init, Delivery, JoinsOnce, HandsLastRound, NoGaps, NothingMissed
<1> QED
  BY <1>1, TypeCorrect, DeliveryStep, PTL DEF Spec

(* Every listener is handed an uninterrupted run of the accepted chunks,   *)
(* starting where it joined, however sends, joins and lags interleave.     *)
THEOREM NoGapsAlways == Spec => []NoGaps
  BY DeliveryAlways, PTL DEF Delivery

(* A listener that is still in the list has missed nothing: start_send     *)
(* either queues the chunk or costs the listener its place.                *)
THEOREM NothingMissedAlways == Spec => []NothingMissed
  BY DeliveryAlways, PTL DEF Delivery

-----------------------------------------------------------------------------
(* The header is forgotten with the Transmitter that is dropped, hence     *)
(* when nobody uploads there is none: a later listener is not greeted with *)
(* the initialization segment of a finished upload.                        *)
THEOREM ForgetsWhenIdleAlways == Spec => []ForgetsWhenIdle
<1>1. Init => ForgetsWhenIdle
  BY DEF Init, ForgetsWhenIdle
<1>2. ForgetsWhenIdle /\ [Next]_vars => ForgetsWhenIdle'
  BY DEF ForgetsWhenIdle, Next, vars, TransmitterNew, TransmitterDrop,
         SendBegin, SendStep, SendEnd, SendTo, Poll, PollChunk, PollEnd,
         ListenerNew, ListenerDrop, txVars
<1> QED
  BY <1>1, <1>2, PTL DEF Spec

(* A Sender whose client hung up outlives at most the send in progress     *)
(* (retain_mut drops it at its turn). A listener cannot leave ahead of the *)
(* chunks accepted, and nothing is to do between sends.                    *)
Departures ==
  /\ lock = NoOne => todo = {}
  /\ \A l \in Listeners : leftAt[l] <= published
  /\ DepartedForgotten

(* The first send that begins after a client hung up forgets it.           *)
THEOREM DepartedForgottenAlways == Spec => []DepartedForgotten
<1>1. Init => Departures
  BY DEF Init, Departures, DepartedForgotten
<1>2. TypeOK /\ Departures /\ [Next]_vars => Departures'
  <2> SUFFICES ASSUME TypeOK, Departures, [Next]_vars PROVE Departures'
    OBVIOUS
  <2> USE ChannelAssumption
  <2>0. published \in Nat /\ leftAt \in [Listeners -> Nat]
        /\ listeners \subseteq Listeners /\ todo \subseteq listeners
    BY DEF TypeOK
  <2>1. ASSUME NEW t \in Transmitters, TransmitterNew(t) \/ TransmitterDrop(t)
        PROVE  Departures'
    BY <2>1 DEF TransmitterNew, TransmitterDrop, history, Departures,
                DepartedForgotten
  <2>2. ASSUME NEW t \in Transmitters, NEW i \in {txInit[t], published + 1},
               SendBegin(t, [serial |-> published + 1, init |-> i])
        PROVE  Departures'
    <3>1. /\ published' = published + 1 /\ todo = {} /\ todo' = listeners
          /\ lock' # NoOne /\ UNCHANGED <<listeners, status, leftAt>>
      BY <2>2 DEF SendBegin, history, Departures
    <3>2. \A l \in Listeners : leftAt'[l] <= published'
      BY <2>0, <3>1 DEF Departures
    <3>3. \A l \in listeners : status[l] = "gone" => published' <= leftAt[l] + 1
      <4> SUFFICES ASSUME NEW l \in listeners, status[l] = "gone"
                   PROVE  published' <= leftAt[l] + 1
        OBVIOUS
      <4>1. published = leftAt[l]
        BY <3>1 DEF Departures, DepartedForgotten
      <4> QED
        BY <2>0, <3>1, <4>1
    <3>4. DepartedForgotten'
      BY <3>1, <3>3 DEF DepartedForgotten
    <3> QED
      BY <3>1, <3>2, <3>4 DEF Departures
  <2>3. ASSUME SendEnd PROVE Departures'
    BY <2>3 DEF SendEnd, history, Departures, DepartedForgotten
  <2>4. ASSUME NEW l \in Listeners, SendTo(l) PROVE Departures'
    <3>1. /\ l \in todo /\ todo' = todo \ {l} /\ listeners' \subseteq listeners
          /\ status[l] = "gone" => listeners' = listeners \ {l}
          /\ UNCHANGED <<lock, published, status, leftAt>>
      BY <2>4 DEF SendTo, StartSendOk, history
    <3>2. DepartedForgotten'
      <4> SUFFICES ASSUME NEW k \in listeners', status[k] = "gone"
                   PROVE  /\ published <= leftAt[k] + 1
                          /\ k \notin todo' => published = leftAt[k]
        BY <3>1 DEF DepartedForgotten
      <4>1. k # l
        BY <3>1
      <4> QED
        BY <3>1, <4>1 DEF Departures, DepartedForgotten
    <3> QED
      BY <3>1, <3>2 DEF Departures
  <2>5. ASSUME NEW l \in Listeners, ListenerNew(l) PROVE Departures'
    BY <2>0, <2>5 DEF ListenerNew, txVars, Departures, DepartedForgotten, TypeOK
  <2>6. ASSUME NEW l \in Listeners, PollChunk(l) PROVE Departures'
    BY <2>6 DEF PollChunk, txVars, Departures, DepartedForgotten
  <2>7. ASSUME NEW l \in Listeners, PollEnd(l) PROVE Departures'
    BY <2>0, <2>7 DEF PollEnd, txVars, history, Departures, DepartedForgotten, TypeOK
  <2>8. ASSUME NEW l \in Listeners, ListenerDrop(l) PROVE Departures'
    <3>1. /\ status' = [status EXCEPT ![l] = "gone"]
          /\ leftAt' = [leftAt EXCEPT ![l] = published]
          /\ UNCHANGED <<lock, todo, listeners, published>>
      BY <2>8 DEF ListenerDrop, txVars
    <3>2. \A k \in Listeners : leftAt'[k] <= published
      BY <2>0, <3>1 DEF Departures
    <3>3. ASSUME NEW k \in listeners, status'[k] = "gone"
          PROVE  /\ published <= leftAt'[k] + 1
                 /\ k \notin todo => published = leftAt'[k]
      <4>1. CASE k = l
        BY <2>0, <3>1, <4>1
      <4>2. CASE k # l
        BY <2>0, <3>1, <3>3, <4>2 DEF Departures, DepartedForgotten, TypeOK
      <4> QED
        BY <4>1, <4>2
    <3> QED
      BY <3>1, <3>2, <3>3 DEF Departures, DepartedForgotten
  <2>9. CASE UNCHANGED vars
    BY <2>9 DEF vars, Departures, DepartedForgotten
  <2> QED
    BY <2>1, <2>2, <2>3, <2>4, <2>5, <2>6, <2>7, <2>8, <2>9
    DEF Next, SendStep, Poll
<1>3. Departures => DepartedForgotten
  BY DEF Departures
<1> QED
  BY <1>1, <1>2, <1>3, TypeCorrect, PTL DEF Spec

-----------------------------------------------------------------------------
(* With one uploader at a time: the header remembered is that of the live  *)
(* upload, and every listener in the list has it, so that the cluster sent *)
(* next, or being handed round, continues what the listener has.           *)
OneUpload ==
  /\ \A t, u \in live : t = u
  /\ lock # NoOne => lock \in live /\ txInit[lock] = chunk.init
  /\ lock = NoOne => todo = {}
  /\ \A t \in Transmitters \ live : txInit[t] = 0

HeaderOfUpload ==
  /\ header_chunk.serial = header_chunk.init
  /\ live = {} => header_chunk.init = 0
  /\ \A t \in live : header_chunk.init = txInit[t]

(* The stream of l is not empty and its last chunk needs the header i.     *)
EndsWith(l, i) == Len(Stream(l)) > 0 /\ Stream(l)[Len(Stream(l))].init = i

ListenersInStep ==
  /\ \A l \in listeners \ todo : \A t \in live :
       status[l] = "open" /\ txInit[t] # 0 => EndsWith(l, txInit[t])
  /\ \A l \in todo :
       status[l] = "open" => IsHeaders(chunk) \/ EndsWith(l, chunk.init)

Solo ==
  /\ JoinsOnce
  /\ OneUpload
  /\ HeaderOfUpload
  /\ ListenersInStep
  /\ PlayableStream

(* What Solo says of the listeners holds after a step that changes none of *)
(* it.                                                                     *)
LEMMA SoloFrame ==
  ASSUME Solo,
         UNCHANGED <<header_chunk, listeners, lock, chunk, todo, live, txInit>>,
         \A l \in Listeners : status'[l] = "open" => status[l] = "open",
         \A l \in Listeners : status'[l] = "open" => Stream(l)' = Stream(l),
         TypeOK, JoinsOnce', PlayableStream'
  PROVE  Solo'
<1>1. OneUpload' /\ HeaderOfUpload'
  BY DEF Solo, OneUpload, HeaderOfUpload
<1>2. ListenersInStep'
  BY DEF Solo, ListenersInStep, EndsWith, IsHeaders, TypeOK
<1> QED
  BY <1>1, <1>2 DEF Solo

LEMMA SoloStep ==
  ASSUME Exclusive
  PROVE  TypeOK /\ Solo /\ [Next]_vars => Solo'
<1> SUFFICES ASSUME TypeOK, Solo, [Next]_vars PROVE Solo'
  OBVIOUS
<1> USE ChannelAssumption
<1>0. \A l \in Listeners : Len(Stream(l)) \in Nat
  BY StreamType
<1>1. ASSUME NEW t \in Transmitters, TransmitterNew(t) PROVE Solo'
  <2>1. /\ live = {} /\ live' = {t}
        /\ UNCHANGED <<header_chunk, listeners, lock, chunk, todo, txInit,
                       status, queue, seen>>
        /\ \A l \in Listeners : Stream(l)' = Stream(l)
    BY <1>1 DEF TransmitterNew, history, Stream
  <2>2. txInit[t] = 0 /\ header_chunk.init = 0 /\ lock = NoOne /\ todo = {}
    BY <2>1 DEF Solo, OneUpload, HeaderOfUpload
  <2>3. OneUpload' /\ HeaderOfUpload'
    BY <2>1, <2>2 DEF Solo, OneUpload, HeaderOfUpload
  <2>4. ListenersInStep'
    BY <2>1, <2>2 DEF ListenersInStep
  <2>5. JoinsOnce' /\ PlayableStream'
    BY <2>1 DEF Solo, JoinsOnce, PlayableStream
  <2> QED
    BY <2>3, <2>4, <2>5 DEF Solo
<1>2. ASSUME NEW t \in Transmitters, TransmitterDrop(t) PROVE Solo'
  <2>1. /\ live' = {} /\ lock = NoOne /\ lock' = NoOne /\ todo = {}
        /\ header_chunk' = NoChunk
        /\ txInit' = [txInit EXCEPT ![t] = 0]
        /\ UNCHANGED <<listeners, chunk, todo, status, queue, seen>>
        /\ \A l \in Listeners : Stream(l)' = Stream(l)
    BY <1>2 DEF TransmitterDrop, history, Solo, OneUpload, Stream
  <2>2. \A u \in Transmitters : txInit'[u] = 0
    BY <1>2, <2>1 DEF TransmitterDrop, Solo, OneUpload, TypeOK
  <2>3. OneUpload' /\ HeaderOfUpload'
    BY <2>1, <2>2 DEF OneUpload, HeaderOfUpload, NoChunk
  <2>4. ListenersInStep'
    BY <2>1 DEF ListenersInStep
  <2>5. JoinsOnce' /\ PlayableStream'
    BY <2>1 DEF Solo, JoinsOnce, PlayableStream
  <2> QED
    BY <2>3, <2>4, <2>5 DEF Solo
<1>3. ASSUME NEW t \in Transmitters, NEW i \in {txInit[t], published + 1},
             SendBegin(t, [serial |-> published + 1, init |-> i])
      PROVE  Solo'
  <2> DEFINE c == [serial |-> published + 1, init |-> i]
  <2>1. /\ t \in live /\ lock = NoOne /\ todo = {}
        /\ lock' = t /\ chunk' = c /\ todo' = listeners
        /\ txInit' = [txInit EXCEPT ![t] = c.init]
        /\ IsHeaders(c) \/ (txInit[t] # 0 /\ c.init = txInit[t])
        /\ header_chunk' = IF IsHeaders(c) THEN c ELSE header_chunk
        /\ UNCHANGED <<listeners, live, status, queue, seen>>
        /\ \A l \in Listeners : Stream(l)' = Stream(l)
    BY <1>3 DEF SendBegin, RememberHeaders, history, Solo, OneUpload, Stream
  <2> HIDE DEF c
  <2>2. OneUpload'
    BY <2>1 DEF Solo, OneUpload, TypeOK
  <2>3. HeaderOfUpload'
    BY <2>1 DEF Solo, OneUpload, HeaderOfUpload, IsHeaders, TypeOK
  <2>4. ListenersInStep'
    <3>1. listeners' \ todo' = {}
      BY <2>1
    <3>2. ASSUME NEW l \in listeners, status[l] = "open", ~IsHeaders(c)
          PROVE  EndsWith(l, chunk.init)'
      <4>1. EndsWith(l, txInit[t]) /\ l \in Listeners
        BY <2>1, <3>2 DEF Solo, ListenersInStep, TypeOK
      <4>2. chunk'.init = txInit[t] /\ Stream(l)' = Stream(l)
        BY <2>1, <3>2, <4>1
      <4> QED
        BY <4>1, <4>2 DEF EndsWith
    <3> QED
      BY <2>1, <3>1, <3>2 DEF ListenersInStep, IsHeaders, EndsWith
  <2>5. JoinsOnce' /\ PlayableStream'
    BY <2>1 DEF Solo, JoinsOnce, PlayableStream
  <2> QED
    BY <2>2, <2>3, <2>4, <2>5 DEF Solo
<1>4. ASSUME SendEnd PROVE Solo'
  BY <1>4 DEF SendEnd, history, Solo, JoinsOnce, OneUpload, HeaderOfUpload,
              ListenersInStep, EndsWith, PlayableStream, Stream
<1>5. ASSUME NEW l \in Listeners, SendTo(l) PROVE Solo'
  <2>1. /\ l \in todo /\ todo' = todo \ {l} /\ l \in listeners
        /\ UNCHANGED <<header_chunk, lock, chunk, live, txInit, status, seen>>
        /\ listeners' \subseteq listeners
        /\ lock # NoOne
    BY <1>5 DEF SendTo, history, Solo, OneUpload, TypeOK
  <2>2. OneUpload' /\ HeaderOfUpload'
    BY <2>1 DEF Solo, OneUpload, HeaderOfUpload
  <2>3. JoinsOnce'
    <3>1. \A k \in Listeners : status[k] = "new" => queue'[k] = queue[k]
      BY <1>5 DEF SendTo, StartSendOk, TypeOK
    <3> QED
      BY <2>1, <3>1 DEF Solo, JoinsOnce
  <2>4. \A t \in live : txInit[t] = chunk.init
    BY <2>1 DEF Solo, OneUpload
  <2>5. CASE StartSendOk(l)
    <3>1. /\ listeners' = listeners /\ status[l] = "open"
          /\ Len(Stream(l)') = Len(Stream(l)) + 1
          /\ \A j \in 1..Len(Stream(l)) : Stream(l)'[j] = Stream(l)[j]
          /\ Stream(l)'[Len(Stream(l)) + 1] = chunk
          /\ \A k \in Listeners \ {l} : Stream(k)' = Stream(k)
      BY <1>5, <2>5, StreamSendTo DEF SendTo, StartSendOk
    <3>2. EndsWith(l, chunk.init)'
      BY <1>0, <2>1, <3>1 DEF EndsWith
    <3>3. ListenersInStep'
      <4>1. ASSUME NEW k \in listeners \ todo', NEW t \in live,
                   status[k] = "open", txInit[t] # 0
            PROVE  EndsWith(k, txInit[t])'
        <5>1. CASE k = l
          BY <2>1, <2>4, <3>2, <5>1 DEF EndsWith
        <5>2. CASE k # l
          <6>1. EndsWith(k, txInit[t]) /\ k \in Listeners
            BY <2>1, <4>1, <5>2 DEF Solo, ListenersInStep, TypeOK
          <6> QED
            BY <2>1, <3>1, <5>2, <6>1 DEF EndsWith
        <5> QED
          BY <5>1, <5>2
      <4>2. ASSUME NEW k \in todo', status[k] = "open", ~IsHeaders(chunk)
            PROVE  EndsWith(k, chunk.init)'
        <5>1. EndsWith(k, chunk.init) /\ k \in Listeners /\ k # l
          BY <2>1, <4>2 DEF Solo, ListenersInStep, TypeOK
        <5> QED
          BY <2>1, <3>1, <5>1 DEF EndsWith
      <4> QED
        BY <2>1, <3>1, <4>1, <4>2 DEF ListenersInStep, IsHeaders, EndsWith
    <3>4. PlayableStream'
      <4> SUFFICES ASSUME NEW k \in Listeners, NEW j \in 1..Len(Stream(k)')
                   PROVE  \/ IsHeaders(Stream(k)'[j])
                          \/ j > 1 /\ Stream(k)'[j].init = Stream(k)'[j - 1].init
        BY DEF PlayableStream, IsHeaders
      <4>1. CASE k # l
        BY <3>1, <4>1 DEF Solo, PlayableStream
      <4>2. CASE k = l /\ j <= Len(Stream(l))
        <5>1. j \in 1..Len(Stream(l)) /\ (j > 1 => j - 1 \in 1..Len(Stream(l)))
          BY <1>0, <3>1, <4>2
        <5> QED
          BY <3>1, <4>2, <5>1 DEF Solo, PlayableStream
      <4>3. CASE k = l /\ j = Len(Stream(l)) + 1
        <5>1. IsHeaders(chunk) \/ EndsWith(l, chunk.init)
          BY <2>1, <3>1 DEF Solo, ListenersInStep
        <5>2. CASE IsHeaders(chunk)
          BY <3>1, <4>3, <5>2
        <5>3. CASE EndsWith(l, chunk.init)
          <6>1. j > 1 /\ j - 1 = Len(Stream(l)) /\ j - 1 \in 1..Len(Stream(l))
            BY <1>0, <4>3, <5>3 DEF EndsWith
          <6>2. Stream(l)'[j - 1].init = chunk.init
            BY <3>1, <5>3, <6>1 DEF EndsWith
          <6>3. Stream(l)'[j] = chunk
            BY <3>1, <4>3
          <6> QED
            BY <4>3, <6>1, <6>2, <6>3
        <5> QED
          BY <5>1, <5>2, <5>3
      <4> QED
        BY <1>0, <3>1, <4>1, <4>2, <4>3
    <3> QED
      BY <2>2, <2>3, <3>3, <3>4 DEF Solo
  <2>6. CASE ~StartSendOk(l)
    <3>1. listeners' = listeners \ {l} /\ \A k \in Listeners : Stream(k)' = Stream(k)
      BY <1>5, <2>6, StreamSendTo DEF SendTo
    <3>2. ListenersInStep'
      <4>1. listeners \subseteq Listeners /\ todo \subseteq listeners
        BY DEF TypeOK
      <4> QED
        BY <2>1, <3>1, <4>1 DEF Solo, ListenersInStep, EndsWith, IsHeaders
    <3>3. PlayableStream'
      BY <3>1 DEF Solo, PlayableStream
    <3> QED
      BY <2>2, <2>3, <3>2, <3>3 DEF Solo
  <2> QED
    BY <2>5, <2>6
<1>6. ASSUME NEW l \in Listeners, ListenerNew(l) PROVE Solo'
  <2> DEFINE q == IF header_chunk = NoChunk THEN << >> ELSE <<header_chunk>>
  <2>1. /\ lock = NoOne /\ todo = {}
        /\ status' = [status EXCEPT ![l] = "open"]
        /\ queue' = [queue EXCEPT ![l] = q]
        /\ listeners' = listeners \cup {l}
        /\ UNCHANGED <<header_chunk, lock, chunk, todo, live, txInit, seen>>
        /\ seen[l] = << >>
    BY <1>6 DEF ListenerNew, txVars, Solo, OneUpload, JoinsOnce
  <2>2. /\ q \in Seq(Chunk) /\ << >> \o q = q /\ Len(q) \in 0..1
        /\ header_chunk # NoChunk => Len(q) = 1 /\ q[1] = header_chunk
        /\ Len(q) = 1 => q[1] = header_chunk
    BY ConcatEmptySeq DEF TypeOK
  <2> HIDE DEF q
  <2>3. Stream(l)' = q /\ \A k \in Listeners \ {l} : Stream(k)' = Stream(k)
    BY <2>1, <2>2 DEF Stream, TypeOK
  <2>4. JoinsOnce' /\ OneUpload' /\ HeaderOfUpload'
    BY <2>1 DEF Solo, JoinsOnce, OneUpload, HeaderOfUpload, TypeOK
  <2>5. ListenersInStep'
    <3> SUFFICES ASSUME NEW k \in listeners', NEW t \in live,
                        status'[k] = "open", txInit[t] # 0
                 PROVE  EndsWith(k, txInit[t])'
      BY <2>1 DEF ListenersInStep, EndsWith
    <3>1. CASE k = l
      <4>1. header_chunk.init = txInit[t] /\ header_chunk # NoChunk
        BY DEF Solo, HeaderOfUpload, NoChunk
      <4>2. Stream(k)' = q /\ Len(q) = 1 /\ q[1].init = txInit[t] /\ txInit' = txInit
        BY <2>1, <2>2, <2>3, <3>1, <4>1
      <4> QED
        BY <4>2 DEF EndsWith
    <3>2. CASE k # l
      <4>1. k \in Listeners /\ EndsWith(k, txInit[t])
        BY <2>1, <3>2 DEF Solo, ListenersInStep, TypeOK
      <4> QED
        BY <2>1, <2>3, <3>2, <4>1 DEF EndsWith
    <3> QED
      BY <3>1, <3>2
  <2>6. PlayableStream'
    <3>1. \A j \in 1..Len(q) : IsHeaders(q[j])
      BY <2>2 DEF IsHeaders, Solo, HeaderOfUpload
    <3> QED
      BY <2>3, <3>1 DEF Solo, PlayableStream, IsHeaders
  <2> QED
    BY <2>4, <2>5, <2>6 DEF Solo
<1>7. ASSUME NEW l \in Listeners, PollChunk(l) PROVE Solo'
  <2>1. \A k \in Listeners : Stream(k)' = Stream(k)
    BY <1>7, StreamPoll
  <2>2. JoinsOnce'
    BY <1>7 DEF PollChunk, Solo, JoinsOnce, TypeOK
  <2>3. PlayableStream'
    BY <2>1 DEF Solo, PlayableStream
  <2> QED
    BY <1>7, <2>1, <2>2, <2>3, SoloFrame DEF PollChunk, txVars
<1>8. ASSUME NEW l \in Listeners, PollEnd(l) PROVE Solo'
  <2>1. \A k \in Listeners : Stream(k)' = Stream(k)
    BY <1>8 DEF PollEnd, history, Stream
  <2>2. JoinsOnce' /\ PlayableStream'
    BY <1>8, <2>1 DEF PollEnd, history, Solo, JoinsOnce, PlayableStream, TypeOK
  <2> QED
    BY <1>8, <2>1, <2>2, SoloFrame DEF PollEnd, txVars, TypeOK
<1>9. ASSUME NEW l \in Listeners, ListenerDrop(l) PROVE Solo'
  <2>1. /\ \A k \in Listeners \ {l} : Stream(k)' = Stream(k)
        /\ Len(Stream(l)') \in Nat
        /\ Len(Stream(l)') <= Len(Stream(l))
        /\ \A j \in 1..Len(Stream(l)') : Stream(l)'[j] = Stream(l)[j]
    BY <1>9, StreamDrop
  <2>2. JoinsOnce'
    BY <1>9 DEF ListenerDrop, history, Solo, JoinsOnce, TypeOK
  <2>3. PlayableStream'
    <3> SUFFICES ASSUME NEW k \in Listeners, NEW j \in 1..Len(Stream(k)')
                 PROVE  \/ IsHeaders(Stream(k)'[j])
                        \/ j > 1 /\ Stream(k)'[j].init = Stream(k)'[j - 1].init
      BY DEF PlayableStream, IsHeaders
    <3>1. /\ j \in 1..Len(Stream(k)) /\ Stream(k)'[j] = Stream(k)[j]
          /\ j > 1 => Stream(k)'[j - 1] = Stream(k)[j - 1]
      BY <1>0, <2>1
    <3> QED
      BY <3>1 DEF Solo, PlayableStream
  <2> QED
    BY <1>9, <2>1, <2>2, <2>3, SoloFrame DEF ListenerDrop, txVars, TypeOK
<1>10. CASE UNCHANGED vars
  BY <1>10 DEF vars, Solo, JoinsOnce, OneUpload, HeaderOfUpload,
               ListenersInStep, EndsWith, IsHeaders, PlayableStream, Stream
<1> QED
  BY <1>1, <1>2, <1>3, <1>4, <1>5, <1>6, <1>7, <1>8, <1>9, <1>10
  DEF Next, SendStep, Poll

LEMMA SoloAlways == ASSUME Exclusive PROVE Spec => []Solo
<1>1. Init => Solo
  <2> SUFFICES ASSUME Init PROVE Solo
    OBVIOUS
  <2>1. \A l \in Listeners : Stream(l) = << >> \o << >>
    BY DEF Init, Stream
  <2>2. \A l \in Listeners : Len(Stream(l)) = 0
    BY <2>1, ConcatProperties, EmptySeq
  <2> QED
    BY <2>2 DEF Init, Solo, JoinsOnce, OneUpload, HeaderOfUpload,
                ListenersInStep, PlayableStream, NoChunk
<1> QED
  BY <1>1, TypeCorrect, SoloStep, PTL DEF Spec

(* While uploads do not overlap, every listener gets a playable stream:    *)
(* each cluster after the initialization segment of its own upload.        *)
THEOREM PlayableStreamAlways == ASSUME Exclusive PROVE Spec => []PlayableStream
  BY SoloAlways, PTL DEF Solo

(* While uploads do not overlap, a viewer can join mid-stream: as long as  *)
(* the uploader that sent its header is connected, a header is remembered. *)
THEOREM RemembersWhileLiveAlways ==
  ASSUME Exclusive PROVE Spec => []RemembersWhileLive
<1>1. Solo => RemembersWhileLive
  BY DEF Solo, HeaderOfUpload, RemembersWhileLive, NoChunk
<1> QED
  BY <1>1, SoloAlways, PTL

-----------------------------------------------------------------------------
(* Nobody is handed, or has queued, more than was accepted since it came.  *)
NotAhead ==
  \A l \in Listeners : Len(Stream(l)) <= hello[l] + (published - from[l])

LEMMA NotAheadStep ==
  TypeOK /\ Delivery /\ NotAhead /\ [Next]_vars => NotAhead'
<1> SUFFICES ASSUME TypeOK, Delivery, NotAhead, [Next]_vars PROVE NotAhead'
  OBVIOUS
<1> USE ChannelAssumption
<1>0. /\ published \in Nat
      /\ from \in [Listeners -> Nat]
      /\ hello \in [Listeners -> {0, 1}]
      /\ \A l \in Listeners : Len(Stream(l)) \in Nat
  BY StreamType DEF TypeOK
<1>1. ASSUME NEW t \in Transmitters, TransmitterNew(t) \/ TransmitterDrop(t)
      PROVE  NotAhead'
  BY <1>1 DEF TransmitterNew, TransmitterDrop, history, NotAhead, Stream
<1>2. ASSUME NEW t \in Transmitters, NEW i \in {txInit[t], published + 1},
             SendBegin(t, [serial |-> published + 1, init |-> i])
      PROVE  NotAhead'
  <2>1. published' = published + 1 /\ UNCHANGED <<queue, seen, from, hello>>
    BY <1>2 DEF SendBegin, history
  <2>2. \A l \in Listeners : Stream(l)' = Stream(l)
    BY <2>1 DEF Stream
  <2> QED
    BY <1>0, <2>1, <2>2 DEF NotAhead
<1>3. ASSUME SendEnd PROVE NotAhead'
  BY <1>3 DEF SendEnd, history, NotAhead, Stream
<1>4. ASSUME NEW l \in Listeners, SendTo(l) PROVE NotAhead'
  <2>1. /\ UNCHANGED <<published, from, hello>>
        /\ l \in todo /\ l \in listeners
        /\ \A k \in Listeners \ {l} : Stream(k)' = Stream(k)
    BY <1>4, StreamSendTo DEF SendTo, history, TypeOK
  <2>2. Len(Stream(l)') <= hello[l] + (published - from[l])
    <3>1. CASE StartSendOk(l)
      <4>1. Len(Stream(l)) + 1 = hello[l] + (published - from[l])
        BY <2>1, <3>1 DEF Delivery, NothingMissed, StartSendOk
      <4> QED
        BY <1>0, <1>4, <3>1, <4>1, StreamSendTo
    <3>2. CASE ~StartSendOk(l)
      BY <1>4, <3>2, StreamSendTo DEF NotAhead
    <3> QED
      BY <3>1, <3>2
  <2> QED
    BY <2>1, <2>2 DEF NotAhead
<1>5. ASSUME NEW l \in Listeners, ListenerNew(l) PROVE NotAhead'
  <2> DEFINE q == IF header_chunk = NoChunk THEN << >> ELSE <<header_chunk>>
             h == IF header_chunk = NoChunk THEN 0 ELSE 1
  <2>1. /\ queue' = [queue EXCEPT ![l] = q]
        /\ from' = [from EXCEPT ![l] = published]
        /\ hello' = [hello EXCEPT ![l] = h]
        /\ UNCHANGED <<published, seen>>
        /\ seen[l] = << >>
    BY <1>5 DEF ListenerNew, txVars, Delivery, JoinsOnce
  <2>2. q \in Seq(Chunk) /\ Len(q) = h /\ << >> \o q = q
    BY ConcatEmptySeq DEF TypeOK
  <2>3. h \in Nat
    OBVIOUS
  <2> HIDE DEF q, h
  <2>4. Stream(l)' = q /\ \A k \in Listeners \ {l} : Stream(k)' = Stream(k)
    BY <2>1, <2>2 DEF Stream, TypeOK
  <2> QED
    BY <1>0, <2>1, <2>2, <2>3, <2>4 DEF NotAhead
<1>6. ASSUME NEW l \in Listeners, PollChunk(l) PROVE NotAhead'
  BY <1>6, StreamPoll DEF PollChunk, txVars, NotAhead
<1>7. ASSUME NEW l \in Listeners, PollEnd(l) PROVE NotAhead'
  BY <1>7 DEF PollEnd, txVars, history, NotAhead, Stream
<1>8. ASSUME NEW l \in Listeners, ListenerDrop(l) PROVE NotAhead'
  <2>1. UNCHANGED <<published, from, hello>>
    BY <1>8 DEF ListenerDrop, txVars
  <2>2. /\ Len(Stream(l)') \in Nat /\ Len(Stream(l)') <= Len(Stream(l))
        /\ \A k \in Listeners \ {l} : Stream(k)' = Stream(k)
    BY <1>8, StreamDrop
  <2> QED
    BY <1>0, <2>1, <2>2 DEF NotAhead
<1>9. CASE UNCHANGED vars
  BY <1>9 DEF vars, NotAhead, Stream
<1> QED
  BY <1>1, <1>2, <1>3, <1>4, <1>5, <1>6, <1>7, <1>8, <1>9
  DEF Next, SendStep, Poll

-----------------------------------------------------------------------------
(* The chunk handed over last is where the run of the listener has got to. *)
LEMMA LastPosition ==
  ASSUME TypeOK, NoGaps, NEW l \in Listeners
  PROVE  BroadcastLast[l] = IF Len(seen[l]) > hello[l]
                            THEN from[l] + (Len(seen[l]) - hello[l])
                            ELSE from[l]
<1>1. CASE Len(seen[l]) > hello[l]
  <2> DEFINE n == Len(seen[l])
  <2>0. n \in Nat /\ seen[l] \in Seq(Chunk) /\ queue[l] \in Seq(Chunk)
        /\ hello[l] \in {0, 1}
    BY LenProperties DEF TypeOK
  <2>1. n \in 1..Len(Stream(l)) /\ Stream(l)[n] = seen[l][n]
    <3>1. n \in 1..n /\ Len(queue[l]) \in Nat
      BY <1>1, <2>0, LenProperties
    <3>2. /\ Len(Stream(l)) = n + Len(queue[l])
          /\ \A i \in 1..n + Len(queue[l]) : i <= n => Stream(l)[i] = seen[l][i]
      BY <2>0, ConcatProperties DEF Stream
    <3> HIDE DEF n
    <3>3. n \in 1..(n + Len(queue[l])) /\ n <= n
      BY <2>0, <3>1
    <3> QED
      BY <3>2, <3>3
  <2>2. Stream(l)[n].serial = from[l] + (n - hello[l])
    BY <1>1, <2>1 DEF NoGaps
  <2> QED
    BY <1>1, <2>1, <2>2 DEF BroadcastLast
<1>2. CASE ~(Len(seen[l]) > hello[l])
  BY <1>2 DEF BroadcastLast
<1> QED
  BY <1>1, <1>2

(* Receiving either hands over the greeting, which the broadcast does not  *)
(* see, or the chunk that follows the last one.                            *)
LEMMA PollDelivers ==
  ASSUME TypeOK, Delivery, NotAhead, NEW l \in Listeners, PollChunk(l)
  PROVE  B!Deliver(l) \/ UNCHANGED <<published, BroadcastState, BroadcastLast>>
<1> USE ChannelAssumption
<1> DEFINE n == Len(seen[l])
<1>0. /\ published \in Nat /\ from[l] \in Nat /\ hello[l] \in {0, 1}
      /\ n \in Nat /\ seen[l] \in Seq(Chunk) /\ queue[l] \in Seq(Chunk)
      /\ seen \in [Listeners -> Seq(Chunk)]
      /\ queue[l] # << >> /\ status[l] = "open"
      /\ Len(Stream(l)) \in Nat
  BY StreamType, LenProperties DEF TypeOK, PollChunk
<1>1. /\ seen' = [seen EXCEPT ![l] = Append(@, Head(queue[l]))]
      /\ UNCHANGED <<published, listeners, status, from, hello>>
  BY DEF PollChunk, txVars
<1>2. /\ Len(Stream(l)) = n + Len(queue[l]) /\ Len(queue[l]) \in Nat \ {0}
      /\ Stream(l)[n + 1] = Head(queue[l]) /\ Head(queue[l]) \in Chunk
  BY <1>0, ConcatProperties, LenProperties, HeadTailProperties, EmptySeq DEF Stream
<1>3. /\ seen'[l] \in Seq(Chunk)
      /\ Len(seen'[l]) = n + 1 /\ seen'[l][n + 1] = Head(queue[l])
      /\ \A k \in Listeners \ {l} : seen'[k] = seen[k]
  BY <1>0, <1>1, <1>2, AppendProperties
<1>4. BroadcastState' = BroadcastState
  BY <1>1 DEF BroadcastState
<1>5. \A k \in Listeners \ {l} : BroadcastLast'[k] = BroadcastLast[k]
  BY <1>1, <1>3 DEF BroadcastLast
<1>6. CASE n + 1 > hello[l]
  <2>1. BroadcastLast[l] = from[l] + (n - hello[l])
    <3>1. CASE n > hello[l]
      BY <3>1, LastPosition DEF Delivery
    <3>2. CASE ~(n > hello[l])
      <4>1. n = hello[l]
        BY <1>0, <1>6, <3>2
      <4> QED
        BY <1>0, <3>2, <4>1, LastPosition DEF Delivery
    <3> QED
      BY <3>1, <3>2
  <2>2. n + 1 \in 1..Len(Stream(l))
    BY <1>0, <1>2
  <2>3. Head(queue[l]).serial = from[l] + (n + 1 - hello[l])
    <3>1. Stream(l)[n + 1].serial = from[l] + (n + 1 - hello[l])
      <4> HIDE DEF n
      <4> QED
        BY <1>0, <1>6, <2>2 DEF Delivery, NoGaps
    <3> QED
      BY <1>2, <3>1
  <2>4. BroadcastLast'[l] = Head(queue[l]).serial
    <3>1. Len(seen'[l]) > hello'[l] /\ seen'[l][Len(seen'[l])] = Head(queue[l])
      BY <1>1, <1>3, <1>6
    <3> QED
      BY <3>1 DEF BroadcastLast
  <2>5. BroadcastLast'[l] = BroadcastLast[l] + 1
    BY <1>0, <2>1, <2>3, <2>4
  <2>6. BroadcastLast[l] < published
    <3>1. n + 1 <= hello[l] + (published - from[l])
      BY <1>0, <1>2 DEF NotAhead
    <3> QED
      BY <1>0, <2>1, <3>1
  <2>7. BroadcastLast' = [BroadcastLast EXCEPT ![l] = @ + 1]
    <3> DEFINE f == BroadcastLast
               g == BroadcastLast'
    <3>1. f = [k \in Listeners |-> f[k]] /\ g = [k \in Listeners |-> g[k]]
      BY DEF BroadcastLast
    <3> HIDE DEF f, g
    <3>2. g = [f EXCEPT ![l] = @ + 1]
      BY <1>5, <2>5, <3>1 DEF f, g
    <3> QED
      BY <3>2 DEF f, g
  <2>8. BroadcastState[l] \in {"open", "cut"}
    BY <1>0 DEF BroadcastState
  <2> QED
    BY <1>1, <1>4, <2>6, <2>7, <2>8 DEF B!Deliver
<1>7. CASE ~(n + 1 > hello[l])
  <2>1. BroadcastLast'[l] = from[l] /\ BroadcastLast[l] = from[l]
    <3>1. ~(n > hello[l])
      BY <1>0, <1>7
    <3> QED
      BY <1>0, <1>1, <1>3, <1>7, <3>1 DEF BroadcastLast
  <2>2. BroadcastLast' = BroadcastLast
    <3> DEFINE f == BroadcastLast
               g == BroadcastLast'
    <3>1. f = [k \in Listeners |-> f[k]] /\ g = [k \in Listeners |-> g[k]]
      BY DEF BroadcastLast
    <3> HIDE DEF f, g
    <3>2. g = f
      BY <1>5, <2>1, <3>1 DEF f, g
    <3> QED
      BY <3>2 DEF f, g
  <2> QED
    BY <1>1, <1>4, <2>2
<1> QED
  BY <1>6, <1>7

(* A listener that has to go without the chunk handed round lags by more   *)
(* than the buffer: its queue is full, and that chunk is missing too.      *)
LEMMA RefusedLags ==
  ASSUME TypeOK, Delivery, NEW l \in Listeners, l \in todo,
         status[l] = "open", ~StartSendOk(l)
  PROVE  published - BroadcastLast[l] > MpscBuffer
<1> USE ChannelAssumption
<1> DEFINE n == Len(seen[l])
           m == Len(queue[l])
<1>1. /\ published \in Nat /\ from[l] \in Nat /\ hello[l] \in {0, 1}
      /\ n \in Nat /\ m \in Nat /\ m > MpscBuffer /\ l \in listeners
  BY LenProperties DEF TypeOK, StartSendOk
<1>2. Len(Stream(l)) = n + m
  BY ConcatProperties DEF Stream, TypeOK
<1>3. n + m + 1 = hello[l] + (published - from[l])
  BY <1>1, <1>2 DEF Delivery, NothingMissed
<1>4. BroadcastLast[l] = IF n > hello[l] THEN from[l] + (n - hello[l]) ELSE from[l]
  BY LastPosition DEF Delivery
<1> HIDE DEF n, m
<1>5. CASE n > hello[l]
  BY <1>1, <1>3, <1>4, <1>5
<1>6. CASE ~(n > hello[l])
  BY <1>1, <1>3, <1>4, <1>6
<1> QED
  BY <1>5, <1>6

(* Every step of the channel is a step of the broadcast or is invisible.   *)
LEMMA BroadcastStep ==
  TypeOK /\ Delivery /\ NotAhead /\ [Next]_vars => [B!Next]_(B!vars)
<1> SUFFICES ASSUME TypeOK, Delivery, NotAhead, [Next]_vars
             PROVE  B!Next \/ UNCHANGED <<published, BroadcastState, BroadcastLast>>
  BY DEF B!vars
<1>1. ASSUME NEW t \in Transmitters, TransmitterNew(t) \/ TransmitterDrop(t)
      PROVE  UNCHANGED <<published, BroadcastState, BroadcastLast>>
  BY <1>1 DEF TransmitterNew, TransmitterDrop, history, BroadcastState, BroadcastLast
<1>2. ASSUME NEW t \in Transmitters, NEW i \in {txInit[t], published + 1},
             SendBegin(t, [serial |-> published + 1, init |-> i])
      PROVE  B!Accept
  BY <1>2 DEF SendBegin, history, BroadcastState, BroadcastLast, B!Accept
<1>3. ASSUME SendEnd
      PROVE  UNCHANGED <<published, BroadcastState, BroadcastLast>>
  BY <1>3 DEF SendEnd, history, BroadcastState, BroadcastLast
<1>4. ASSUME NEW l \in Listeners, SendTo(l)
      PROVE  B!CutOff(l) \/ UNCHANGED <<published, BroadcastState, BroadcastLast>>
  <2>1. /\ UNCHANGED <<published, status, seen, from, hello>>
        /\ l \in todo /\ l \in listeners
    BY <1>4 DEF SendTo, history, TypeOK
  <2>2. BroadcastLast' = BroadcastLast
    BY <2>1 DEF BroadcastLast
  <2>3. CASE StartSendOk(l) \/ status[l] # "open"
    <3>1. \A k \in Listeners : status[k] = "open" =>
            (k \in listeners' <=> k \in listeners)
      BY <1>4, <2>3 DEF SendTo, StartSendOk
    <3>2. BroadcastState' = BroadcastState
      BY <2>1, <3>1 DEF BroadcastState
    <3> QED
      BY <2>1, <2>2, <3>2
  <2>4. CASE ~StartSendOk(l) /\ status[l] = "open"
    <3>1. listeners' = listeners \ {l}
      BY <1>4, <2>4 DEF SendTo
    <3>2. BroadcastState[l] = "open"
      BY <2>1, <2>4 DEF BroadcastState
    <3>3. BroadcastState' = [BroadcastState EXCEPT ![l] = "cut"]
      BY <2>1, <2>4, <3>1 DEF BroadcastState
    <3>4. published - BroadcastLast[l] > MpscBuffer
      BY <2>1, <2>4, RefusedLags
    <3> QED
      BY <2>1, <2>2, <3>2, <3>3, <3>4 DEF B!CutOff
  <2> QED
    BY <2>3, <2>4
<1>5. ASSUME NEW l \in Listeners, ListenerNew(l) PROVE B!Join(l)
  <2>1. /\ status[l] = "new" /\ status' = [status EXCEPT ![l] = "open"]
        /\ listeners' = listeners \cup {l}
        /\ from' = [from EXCEPT ![l] = published]
        /\ \A k \in Listeners \ {l} : hello'[k] = hello[k]
        /\ hello'[l] \in {0, 1}
        /\ UNCHANGED <<published, seen>>
        /\ seen[l] = << >> /\ Len(seen[l]) = 0
    BY <1>5 DEF ListenerNew, txVars, Delivery, JoinsOnce, TypeOK
  <2>2. BroadcastState[l] = "new"
    BY <2>1 DEF BroadcastState
  <2>3. BroadcastState' = [BroadcastState EXCEPT ![l] = "open"]
    BY <2>1 DEF BroadcastState, TypeOK
  <2>4. BroadcastLast' = [BroadcastLast EXCEPT ![l] = published]
    <3>1. ~(Len(seen[l]) > hello'[l]) /\ from'[l] = published
      BY <2>1 DEF TypeOK
    <3>2. \A k \in Listeners \ {l} : from'[k] = from[k]
      BY <2>1 DEF TypeOK
    <3> QED
      BY <2>1, <3>1, <3>2 DEF BroadcastLast
  <2> QED
    BY <2>1, <2>2, <2>3, <2>4 DEF B!Join
<1>6. ASSUME NEW l \in Listeners, PollChunk(l)
      PROVE  B!Deliver(l) \/ UNCHANGED <<published, BroadcastState, BroadcastLast>>
  BY <1>6, PollDelivers
<1>7. ASSUME NEW l \in Listeners, PollEnd(l) \/ ListenerDrop(l) PROVE B!Leave(l)
  <2>1. /\ status[l] = "open" /\ status' = [status EXCEPT ![l] = "gone"]
        /\ UNCHANGED <<published, listeners, seen, from, hello>>
    BY <1>7 DEF PollEnd, ListenerDrop, txVars, history
  <2>2. BroadcastState[l] \in {"open", "cut"}
    BY <2>1 DEF BroadcastState
  <2>3. BroadcastState' = [BroadcastState EXCEPT ![l] = "gone"]
    BY <2>1 DEF BroadcastState, TypeOK
  <2>4. BroadcastLast' = BroadcastLast
    BY <2>1 DEF BroadcastLast
  <2> QED
    BY <2>1, <2>2, <2>3, <2>4 DEF B!Leave
<1>8. CASE UNCHANGED vars
  BY <1>8 DEF vars, BroadcastState, BroadcastLast
<1> QED
  BY <1>1, <1>2, <1>3, <1>4, <1>5, <1>6, <1>7, <1>8
  DEF Next, SendStep, Poll, B!Next

(* The channel of src/channel.rs implements the broadcast: listeners get   *)
(* the accepted chunks one by one in order from where they joined, and are *)
(* cut off only when they lag by more than the buffer, although the code   *)
(* hands a chunk round in many steps while queues are read and dropped.    *)
THEOREM ChannelImplementsBroadcast == Spec => ImplementsBroadcast
<1>1. Init => NotAhead
  <2> SUFFICES ASSUME Init, NEW l \in Listeners
               PROVE  Len(Stream(l)) <= hello[l] + (published - from[l])
    BY DEF NotAhead
  <2>1. Stream(l) = << >> \o << >>
    BY DEF Init, Stream
  <2>2. Len(Stream(l)) = 0
    BY <2>1, ConcatProperties, EmptySeq
  <2> QED
    BY <2>2 DEF Init
<1>2. Init => B!Init
  BY DEF Init, B!Init, BroadcastState, BroadcastLast
<1> QED
  BY <1>1, <1>2, TypeCorrect, DeliveryAlways, NotAheadStep, BroadcastStep, PTL
  DEF Spec, ImplementsBroadcast, B!Spec

-----------------------------------------------------------------------------
(* The viewers of get_stream only watch the channel: what they add to a    *)
(* step leaves its effect on the channel what it is.                       *)
THEOREM RelayImplementsChannel == RelaySpec => Spec
<1>1. RelayInit => Init
  BY DEF RelayInit
<1>2. [RelayNext]_relayVars => [Next]_vars
  BY DEF RelayNext, relayVars, Connections, RelaySend, RelaySendStep,
         ViewerPoll, Next, Poll
<1> QED
  BY <1>1, <1>2, PTL DEF RelaySpec, Spec

RelayTypes ==
  /\ seen_header \in [Listeners -> BOOLEAN]
  /\ seen_keyframe \in [Listeners -> BOOLEAN]
  /\ sent \in [Listeners -> Seq(Chunk)]

(* How far the StartingPointFinder of a listener is: it starts with the    *)
(* first chunk the listener is handed, which is then the first it sends,   *)
(* and while it is past a keyframe what it sent last, a cluster, is what   *)
(* the listener was handed last.                                           *)
FinderState ==
  \A l \in Listeners :
    /\ seen[l] = << >> => /\ sent[l] = << >>
                          /\ ~seen_header[l] /\ ~seen_keyframe[l]
    /\ seen[l] # << >> => seen_header[l]
    /\ seen_header[l] => Len(sent[l]) > 0
    /\ seen_keyframe[l] => /\ Len(sent[l]) > 1
                           /\ sent[l][Len(sent[l])] = seen[l][Len(seen[l])]

Viewers == RelayTypes /\ FinderState /\ PlayableAtClient

(* The chunk a listener is handed next continues the one it was handed     *)
(* last, unless one of the two is a Headers chunk: the same upload, and    *)
(* the next chunk of it.                                                   *)
LEMMA HandedInOrder ==
  ASSUME TypeOK, NoGaps, PlayableStream, NEW l \in Listeners, PollChunk(l),
         ~IsHeaders(Head(queue[l]))
  PROVE  /\ seen[l] # << >>
         /\ LET p == seen[l][Len(seen[l])] IN
              ~IsHeaders(p) => /\ Head(queue[l]).serial = p.serial + 1
                               /\ Head(queue[l]).init = p.init
<1> DEFINE n == Len(seen[l])
           s == Stream(l)
<1>1. /\ seen[l] \in Seq(Chunk) /\ queue[l] \in Seq(Chunk) /\ queue[l] # << >>
      /\ hello[l] \in {0, 1}
  BY DEF TypeOK, PollChunk
<1>2. /\ n \in Nat /\ Len(queue[l]) \in Nat \ {0}
      /\ Head(queue[l]) = queue[l][1]
      /\ n = 0 <=> seen[l] = << >>
  BY <1>1, EmptySeq, LenProperties, HeadTailProperties
<1>3. /\ Len(s) = n + Len(queue[l])
      /\ \A i \in 1..(n + Len(queue[l])) :
           s[i] = IF i <= n THEN seen[l][i] ELSE queue[l][i - n]
  BY <1>1, ConcatProperties DEF Stream
<1>0. \A i \in 1..Len(s) :
        /\ IsHeaders(s[i]) \/ (i > 1 /\ s[i].init = s[i - 1].init)
        /\ i > hello[l] => s[i].serial = from[l] + (i - hello[l])
  BY DEF PlayableStream, NoGaps
<1> HIDE DEF n, s
<1>4. n + 1 \in 1..Len(s) /\ s[n + 1] = Head(queue[l])
  <2>1. n + 1 \in 1..(n + Len(queue[l])) /\ ~(n + 1 <= n) /\ (n + 1) - n = 1
    BY <1>2
  <2> QED
    BY <1>2, <1>3, <2>1
<1>5. n > 0 /\ s[n + 1].init = s[n].init
  <2>1. (n + 1) - 1 = n
    BY <1>2
  <2> QED
    BY <1>2, <1>4, <1>0, <2>1
<1>6. n \in 1..Len(s) /\ s[n] = seen[l][n]
  <2>1. n \in 1..(n + Len(queue[l])) /\ n <= n
    BY <1>2, <1>5
  <2> QED
    BY <1>3, <2>1
<1>7. ASSUME ~IsHeaders(s[n]) PROVE s[n + 1].serial = s[n].serial + 1
  <2>1. n > 1
    BY <1>2, <1>6, <1>7, <1>0
  <2>2. n > hello[l] /\ n + 1 > hello[l]
    BY <1>1, <1>2, <2>1
  <2>0. hello[l] \in Nat /\ from[l] \in Nat
    BY <1>1 DEF TypeOK
  <2>3. s[n].serial = from[l] + (n - hello[l])
    BY <1>6, <1>0, <2>2
  <2>4. s[n + 1].serial = from[l] + ((n + 1) - hello[l])
    BY <1>4, <1>0, <2>2
  <2>5. from[l] + ((n + 1) - hello[l]) = (from[l] + (n - hello[l])) + 1
    BY <1>2, <2>0
  <2> QED
    BY <2>3, <2>4, <2>5
<1> QED
  BY <1>2, <1>4, <1>5, <1>6, <1>7 DEF n

(* What the finder does with a chunk keeps the client's stream playable.   *)
LEMMA ViewerPollStep ==
  ASSUME TypeOK, NoGaps, PlayableStream, Viewers,
         NEW l \in Listeners, PollChunk(l), UNCHANGED keyed,
         FindInHeaders(l, Head(queue[l])) \/ FindInCluster(l, Head(queue[l]))
  PROVE  Viewers'
<1> DEFINE c == Head(queue[l])
<1>1. /\ c \in Chunk
      /\ seen' = [seen EXCEPT ![l] = Append(seen[l], c)]
      /\ Append(seen[l], c) # << >>
      /\ Len(Append(seen[l], c)) = Len(seen[l]) + 1
      /\ Append(seen[l], c)[Len(seen[l]) + 1] = c
      /\ seen \in [Listeners -> Seq(Chunk)]
      /\ seen[l] \in Seq(Chunk) /\ Len(seen[l]) \in Nat
  <2>1. seen[l] \in Seq(Chunk) /\ c \in Chunk
    BY HeadTailProperties DEF TypeOK, PollChunk
  <2> QED
    BY <2>1, AppendProperties, LenProperties, EmptySeq DEF PollChunk, TypeOK
<1>2. /\ seen'[l] # << >> /\ seen'[l][Len(seen'[l])] = c
      /\ \A k \in Listeners \ {l} : seen'[k] = seen[k]
  BY <1>1
<1>3. /\ sent[l] \in Seq(Chunk) /\ Len(sent[l]) \in Nat
      /\ Append(sent[l], c) \in Seq(Chunk)
      /\ Len(Append(sent[l], c)) = Len(sent[l]) + 1
      /\ \A i \in 1..Len(sent[l]) : Append(sent[l], c)[i] = sent[l][i]
      /\ Append(sent[l], c)[Len(sent[l]) + 1] = c
  <2>1. sent[l] \in Seq(Chunk)
    BY DEF Viewers, RelayTypes
  <2> QED
    BY <1>1, <2>1, AppendProperties, LenProperties
<1>4. ASSUME NEW q \in Seq(Chunk),
             seen_header' = [seen_header EXCEPT ![l] = TRUE],
             sent' = [sent EXCEPT ![l] = q],
             Playable(q), Len(q) > 0,
             \/ seen_keyframe' = [seen_keyframe EXCEPT ![l] = FALSE]
             \/ /\ seen_keyframe' = [seen_keyframe EXCEPT ![l] = TRUE]
                /\ Len(q) > 1 /\ q[Len(q)] = c
      PROVE  Viewers'
  <2>1. RelayTypes'
    BY <1>4 DEF Viewers, RelayTypes
  <2>2. /\ seen_header'[l] /\ sent'[l] = q
        /\ seen_keyframe'[l] => Len(q) > 1 /\ q[Len(q)] = c
        /\ \A k \in Listeners \ {l} : /\ seen_header'[k] = seen_header[k]
                                      /\ seen_keyframe'[k] = seen_keyframe[k]
                                      /\ sent'[k] = sent[k]
    BY <1>4 DEF Viewers, RelayTypes
  <2>3. FinderState'
    BY <1>2, <1>4, <2>2 DEF Viewers, FinderState
  <2>4. PlayableAtClient'
    <3>1. \A k \in Listeners : Playable(sent'[k])
      BY <1>4, <2>2 DEF Viewers, PlayableAtClient
    <3> QED
      BY <3>1 DEF PlayableAtClient, Playable
  <2> QED
    BY <2>1, <2>3, <2>4 DEF Viewers
<1>5. CASE FindInHeaders(l, c) /\ seen_header[l]
  <2>1. /\ seen_header' = [seen_header EXCEPT ![l] = TRUE]
        /\ seen_keyframe' = [seen_keyframe EXCEPT ![l] = FALSE]
        /\ sent' = [sent EXCEPT ![l] = sent[l]]
    BY <1>5 DEF FindInHeaders, Viewers, RelayTypes
  <2>2. Len(sent[l]) > 0
    BY <1>5 DEF Viewers, FinderState
  <2> QED
    BY <1>3, <1>4, <2>1, <2>2 DEF Viewers, PlayableAtClient
<1>6. CASE FindInHeaders(l, c) /\ ~seen_header[l]
  <2>1. /\ seen[l] = << >> /\ sent[l] = << >> /\ ~seen_keyframe[l]
    BY <1>6 DEF Viewers, FinderState
  <2>2. /\ seen_header' = [seen_header EXCEPT ![l] = TRUE]
        /\ seen_keyframe' = [seen_keyframe EXCEPT ![l] = FALSE]
        /\ sent' = [sent EXCEPT ![l] = Append(sent[l], c)]
        /\ IsHeaders(c)
    BY <1>6, <2>1 DEF FindInHeaders, Viewers, RelayTypes
  <2>3. Len(Append(sent[l], c)) = 1 /\ Append(sent[l], c)[1] = c
    BY <1>3, <2>1
  <2>4. Playable(Append(sent[l], c)) /\ Len(Append(sent[l], c)) > 0
    BY <2>2, <2>3 DEF Playable
  <2> QED
    BY <1>3, <1>4, <2>2, <2>4
<1>7. CASE FindInCluster(l, c)
  <2>1. /\ ~IsHeaders(c) /\ seen[l] # << >> /\ seen_header[l] /\ Len(sent[l]) > 0
        /\ seen_header' = [seen_header EXCEPT ![l] = TRUE]
        /\ seen_keyframe' = [seen_keyframe EXCEPT ![l] = Passes(l, c)]
        /\ Passes(l, c) \in BOOLEAN
    BY <1>7, HandedInOrder DEF FindInCluster, Viewers, FinderState, RelayTypes, Passes
  <2>2. CASE ~Passes(l, c)
    <3>1. /\ seen_keyframe' = [seen_keyframe EXCEPT ![l] = FALSE]
          /\ sent' = [sent EXCEPT ![l] = sent[l]]
      BY <1>7, <2>1, <2>2 DEF FindInCluster, Viewers, RelayTypes
    <3> QED
      BY <1>3, <1>4, <2>1, <3>1 DEF Viewers, PlayableAtClient
  <2>3. CASE Passes(l, c)
    <3> DEFINE q == Append(sent[l], c)
               n == Len(sent[l]) + 1
    <3>1. /\ seen_keyframe' = [seen_keyframe EXCEPT ![l] = TRUE]
          /\ sent' = [sent EXCEPT ![l] = q]
      BY <1>7, <2>1, <2>3 DEF FindInCluster
    <3>2. \/ c.serial \in keyed
          \/ /\ n > 2
             /\ c.serial = q[n - 1].serial + 1
             /\ c.init = q[n - 1].init
      <4>1. CASE c.serial \in keyed
        BY <4>1
      <4>2. CASE seen_keyframe[l]
        <5>1. /\ Len(sent[l]) > 1
              /\ sent[l][Len(sent[l])] = seen[l][Len(seen[l])]
          BY <4>2 DEF Viewers, FinderState
        <5>2. ~IsHeaders(sent[l][Len(sent[l])])
          BY <1>3, <5>1 DEF Viewers, PlayableAtClient, Playable
        <5>3. n - 1 = Len(sent[l]) /\ n > 2 /\ q[n - 1] = sent[l][Len(sent[l])]
          BY <1>3, <5>1
        <5> QED
          BY <2>1, <5>1, <5>2, <5>3, HandedInOrder
      <4> QED
        BY <2>3, <4>1, <4>2 DEF Passes
    <3>3. Playable(q)
      <4> SUFFICES ASSUME NEW i \in 1..Len(q)
                   PROVE  IF i = 1 THEN IsHeaders(q[1])
                          ELSE /\ ~IsHeaders(q[i])
                               /\ \/ q[i].serial \in keyed
                                  \/ /\ i > 2
                                     /\ q[i].serial = q[i - 1].serial + 1
                                     /\ q[i].init = q[i - 1].init
        BY DEF Playable
      <4>1. CASE i = n
        BY <1>3, <2>1, <3>2, <4>1
      <4>2. CASE i # n
        <5>1. i \in 1..Len(sent[l]) /\ (i > 2 => i - 1 \in 1..Len(sent[l]))
          BY <1>3, <4>2
        <5>2. q[i] = sent[l][i] /\ (i > 2 => q[i - 1] = sent[l][i - 1])
          BY <1>3, <5>1
        <5> QED
          BY <5>1, <5>2 DEF Viewers, PlayableAtClient, Playable
      <4> QED
        BY <4>1, <4>2
    <3>4. q \in Seq(Chunk) /\ Len(q) > 0 /\ Len(q) > 1 /\ q[Len(q)] = c
      BY <1>3, <2>1
    <3> HIDE DEF q
    <3> QED
      BY <1>4, <2>1, <3>1, <3>3, <3>4
  <2> QED
    BY <2>2, <2>3
<1> QED
  BY <1>5, <1>6, <1>7

LEMMA ViewersStep ==
  TypeOK /\ NoGaps /\ PlayableStream /\ Viewers /\ [RelayNext]_relayVars => Viewers'
<1> SUFFICES ASSUME TypeOK, NoGaps, PlayableStream, Viewers, [RelayNext]_relayVars
             PROVE  Viewers'
  OBVIOUS
<1>1. ASSUME keyed \subseteq keyed', UNCHANGED <<seen, seen_header, seen_keyframe, sent>>
      PROVE  Viewers'
  BY <1>1 DEF Viewers, RelayTypes, FinderState, PlayableAtClient, Playable, IsHeaders
<1>2. CASE Connections
  BY <1>1, <1>2 DEF Connections, viewerVars, TransmitterNew, TransmitterDrop,
                    ListenerNew, ListenerDrop, txVars, history
<1>3. ASSUME NEW t \in Transmitters, NEW i \in {txInit[t], published + 1},
             RelaySend(t, [serial |-> published + 1, init |-> i])
      PROVE  Viewers'
  BY <1>1, <1>3 DEF RelaySend, SendBegin, history
<1>4. CASE RelaySendStep
  BY <1>1, <1>4 DEF RelaySendStep, viewerVars, SendStep, SendEnd, SendTo, history
<1>5. ASSUME NEW l \in Listeners, ViewerPoll(l) PROVE Viewers'
  <2>1. CASE PollEnd(l) /\ UNCHANGED viewerVars
    BY <1>1, <2>1 DEF PollEnd, viewerVars, history
  <2> QED
    BY <1>5, <2>1, ViewerPollStep DEF ViewerPoll
<1>6. CASE UNCHANGED relayVars
  BY <1>1, <1>6 DEF relayVars, viewerVars, vars
<1> QED
  BY <1>2, <1>3, <1>4, <1>5, <1>6 DEF RelayNext

(* While uploads do not overlap every client is sent something it can      *)
(* play, whenever it joined and however many uploads it lives to see: the  *)
(* mutex, the queues and the finder of src/channel.rs and src/fixers.rs    *)
(* together.                                                               *)
THEOREM PlayableAtClientAlways ==
  ASSUME Exclusive PROVE RelaySpec => []PlayableAtClient
<1>1. RelayInit => Viewers
  <2> SUFFICES ASSUME RelayInit PROVE Viewers
    OBVIOUS
  <2> QED
    BY EmptySeq DEF RelayInit, Init, Viewers, RelayTypes, FinderState, PlayableAtClient, Playable
<1>2. Delivery => NoGaps
  BY DEF Delivery
<1>3. Viewers => PlayableAtClient
  BY DEF Viewers
<1> QED
  BY <1>1, <1>2, <1>3, RelayImplementsChannel, TypeCorrect, DeliveryAlways,
     PlayableStreamAlways, ViewersStep, PTL DEF RelaySpec

=============================================================================
