------------------------------- MODULE Channel -------------------------------
(***************************************************************************)
(* One relay channel (src/channel.rs): the Transmitters that upload to it, *)
(* the Listeners that download from it, and the Mutex<Channel> they share. *)
(*                                                                         *)
(* Transmitter::send holds the mutex while it walks the listener list, but *)
(* the receiving ends of the listeners' queues are polled and dropped by   *)
(* other tasks without the mutex. A send is therefore several steps here:  *)
(* SendBegin, one SendTo per listener, SendEnd. Listener::new and the Drop *)
(* of a Transmitter touch only what the mutex protects, so each is one     *)
(* step that needs the mutex to be free.                                   *)
(*                                                                         *)
(* A chunk is identified by its position in the order in which the channel *)
(* accepted chunks (serial). It also names the initialization segment its  *)
(* data needs (init): a Headers chunk is its own, a Cluster needs the last *)
(* Headers its transmitter sent.                                           *)
(***************************************************************************)
EXTENDS Naturals, Sequences

CONSTANTS
  Transmitters, \* upload connections (a connection may be made again)
  Listeners,    \* download connections, each made at most once
  NoOne,        \* the holder of a free mutex
  MpscBuffer,   \* the argument of mpsc_channel: 5 in the code
  Exclusive,    \* TRUE: uploaders never overlap, which the code hopes for
  MaxChunks     \* bound: chunks accepted by the channel

ASSUME ChannelAssumption ==
  /\ NoOne \notin Transmitters
  /\ MpscBuffer \in Nat
  /\ Exclusive \in BOOLEAN
  /\ MaxChunks \in Nat

VARIABLES
  header_chunk, \* Channel.header_chunk; NoChunk is None
  listeners,    \* Channel.listeners: whose Sender the list still holds
  lock,         \* who holds the Mutex<Channel>
  chunk,        \* the argument of the send in progress, else NoChunk
  todo,         \* the listeners retain_mut has not visited yet
  live,         \* the Transmitters that exist
  txInit,       \* serial of the last Headers of each transmitter, 0 if none
  published,    \* number of chunks accepted so far
  status,       \* of each Listener value: new, open (it exists), gone
  queue,        \* messages in each listener's mpsc queue
  seen,         \* history: what each listener has been handed
  from,         \* history: value of published when the listener joined
  hello,        \* history: header chunks queued when it joined, 0 or 1
  leftAt        \* history: value of published when its client hung up

txVars  == <<header_chunk, lock, chunk, todo, live, txInit, published>>
history == <<seen, from, hello, leftAt>>
vars    == <<header_chunk, listeners, lock, chunk, todo, live, txInit,
             published, status, queue, seen, from, hello, leftAt>>

Chunk     == [serial : Nat, init : Nat]
NoChunk   == [serial |-> 0, init |-> 0]
IsHeaders(c) == c.serial = c.init

-----------------------------------------------------------------------------
(* Channel::new: no header is known and nobody listens.                    *)
Init ==
  /\ header_chunk = NoChunk
  /\ listeners = {}
  /\ lock = NoOne
  /\ chunk = NoChunk
  /\ todo = {}
  /\ live = {}
  /\ txInit = [t \in Transmitters |-> 0]
  /\ published = 0
  /\ status = [l \in Listeners |-> "new"]
  /\ queue = [l \in Listeners |-> << >>]
  /\ seen = [l \in Listeners |-> << >>]
  /\ from = [l \in Listeners |-> 0]
  /\ hello = [l \in Listeners |-> 0]
  /\ leftAt = [l \in Listeners |-> 0]

(* An uploader connects. Nothing in the server refuses a second one while  *)
(* a first is still connected; Exclusive restricts the environment.        *)
TransmitterNew(t) ==
  /\ t \notin live
  /\ Exclusive => live = {}
  /\ live' = live \cup {t}
  /\ UNCHANGED <<header_chunk, listeners, lock, chunk, todo, txInit,
                 published, status, queue, history>>

(* Mutant: the header is remembered only the first time.                   *)
RememberFirst(c) ==
  header_chunk' = IF IsHeaders(c) /\ header_chunk = NoChunk
                  THEN c ELSE header_chunk

(* A Headers chunk becomes the one future listeners are greeted with.      *)
RememberHeaders(c) ==
  header_chunk' = IF IsHeaders(c) THEN c ELSE header_chunk

(* Transmitter::send up to the first listener. What t sends first is a     *)
(* Headers chunk: the chunker emits one before any cluster.                *)
SendBegin(t, c) ==
  /\ t \in live
  /\ lock = NoOne
  /\ published < MaxChunks
  /\ c.serial = published + 1
  /\ IsHeaders(c) \/ (txInit[t] # 0 /\ c.init = txInit[t])
  /\ lock' = t
  /\ chunk' = c
  /\ RememberHeaders(c)
  /\ todo' = listeners
  /\ txInit' = [txInit EXCEPT ![t] = c.init]
  /\ published' = c.serial
  /\ UNCHANGED <<listeners, live, status, queue, history>>

(* Mutant: a listener that lags is waited for (a blocking send).           *)
SendToWaits(l) ==
  /\ l \in todo
  /\ status[l] = "open" => Len(queue[l]) <= MpscBuffer
  /\ todo' = todo \ {l}
  /\ IF status[l] = "open"
     THEN /\ queue' = [queue EXCEPT ![l] = Append(@, chunk)]
          /\ UNCHANGED listeners
     ELSE /\ listeners' = listeners \ {l}
          /\ UNCHANGED queue
  /\ UNCHANGED <<header_chunk, lock, chunk, live, txInit, published, status,
                 history>>

(* Mutant: a listener that lags misses this chunk but stays in the list.   *)
SendToSkips(l) ==
  /\ l \in todo
  /\ todo' = todo \ {l}
  /\ queue' = IF status[l] = "open" /\ Len(queue[l]) <= MpscBuffer
              THEN [queue EXCEPT ![l] = Append(@, chunk)] ELSE queue
  /\ UNCHANGED <<header_chunk, listeners, lock, chunk, live, txInit,
                 published, status, history>>

(* Mutant: an unbounded queue.                                             *)
StartSendUnbounded(l) == status[l] = "open"

(* Mutant: the queue takes one message less than its buffer.               *)
StartSendTight(l) == status[l] = "open" /\ Len(queue[l]) < MpscBuffer

(* The library's bounded channel with one sender: a message is refused     *)
(* once the receiver is gone, or while the sender is parked. The sender    *)
(* parks when a send makes the queue longer than the buffer and is         *)
(* unparked by the next receive, so one message more than the buffer fits. *)
StartSendOk(l) == status[l] = "open" /\ Len(queue[l]) <= MpscBuffer

(* One turn of retain_mut: hand the chunk over or forget the listener. The *)
(* order of the list is left open, since nothing depends on it.            *)
SendTo(l) ==
  /\ l \in todo
  /\ todo' = todo \ {l}
  /\ IF StartSendOk(l)
     THEN /\ queue' = [queue EXCEPT ![l] = Append(@, chunk)]
          /\ UNCHANGED listeners
     ELSE /\ listeners' = listeners \ {l}
          /\ UNCHANGED queue
  /\ UNCHANGED <<header_chunk, lock, chunk, live, txInit, published, status,
                 history>>

(* The guard of the mutex goes out of scope.                               *)
SendEnd ==
  /\ lock # NoOne
  /\ todo = {}
  /\ lock' = NoOne
  /\ chunk' = NoChunk
  /\ UNCHANGED <<header_chunk, listeners, todo, live, txInit, published,
                 status, queue, history>>

(* Mutant: the disconnecting uploader leaves its header behind.            *)
TransmitterDropKeeps(t) ==
  /\ t \in live
  /\ lock = NoOne
  /\ live' = live \ {t}
  /\ txInit' = [txInit EXCEPT ![t] = 0]
  /\ UNCHANGED <<header_chunk, listeners, lock, chunk, todo, published,
                 status, queue, history>>

(* The uploader's request ends: its Transmitter is dropped.                *)
TransmitterDrop(t) ==
  /\ t \in live
  /\ lock = NoOne
  /\ header_chunk' = NoChunk
  /\ live' = live \ {t}
  /\ txInit' = [txInit EXCEPT ![t] = 0]
  /\ UNCHANGED <<listeners, lock, chunk, todo, published, status, queue,
                 history>>

(* Mutant: Listener::new does not take the mutex, and may read the header  *)
(* and join the list in the middle of a send.                              *)
ListenerNewUnlocked(l) ==
  /\ status[l] = "new"
  /\ status' = [status EXCEPT ![l] = "open"]
  /\ queue' = [queue EXCEPT ![l] =
                 IF header_chunk = NoChunk THEN << >> ELSE <<header_chunk>>]
  /\ listeners' = listeners \cup {l}
  /\ todo' = IF lock = NoOne THEN todo ELSE todo \cup {l}
  /\ from' = [from EXCEPT ![l] = published]
  /\ hello' = [hello EXCEPT ![l] = IF header_chunk = NoChunk THEN 0 ELSE 1]
  /\ UNCHANGED <<header_chunk, lock, chunk, live, txInit, published, seen,
                 leftAt>>

(* Mutant: the greeting takes the header out of the channel.               *)
ListenerNewTakes(l) ==
  /\ status[l] = "new"
  /\ lock = NoOne
  /\ status' = [status EXCEPT ![l] = "open"]
  /\ queue' = [queue EXCEPT ![l] =
                 IF header_chunk = NoChunk THEN << >> ELSE <<header_chunk>>]
  /\ listeners' = listeners \cup {l}
  /\ from' = [from EXCEPT ![l] = published]
  /\ hello' = [hello EXCEPT ![l] = IF header_chunk = NoChunk THEN 0 ELSE 1]
  /\ header_chunk' = NoChunk
  /\ UNCHANGED <<lock, chunk, todo, live, txInit, published, seen, leftAt>>

(* Listener::new: greet with the remembered header and join the list.      *)
ListenerNew(l) ==
  /\ status[l] = "new"
  /\ lock = NoOne
  /\ status' = [status EXCEPT ![l] = "open"]
  /\ queue' = [queue EXCEPT ![l] =
                 IF header_chunk = NoChunk THEN << >> ELSE <<header_chunk>>]
  /\ listeners' = listeners \cup {l}
  /\ from' = [from EXCEPT ![l] = published]
  /\ hello' = [hello EXCEPT ![l] = IF header_chunk = NoChunk THEN 0 ELSE 1]
  /\ UNCHANGED <<txVars, seen, leftAt>>

(* Listener::poll_next with a message waiting.                             *)
PollChunk(l) ==
  /\ status[l] = "open"
  /\ queue[l] # << >>
  /\ queue' = [queue EXCEPT ![l] = Tail(@)]
  /\ seen' = [seen EXCEPT ![l] = Append(@, Head(queue[l]))]
  /\ UNCHANGED <<txVars, listeners, status, from, hello, leftAt>>

(* Mutant: a listener whose sender is gone keeps waiting for more.         *)
PollEndNever(l) == FALSE /\ UNCHANGED vars

(* Listener::poll_next on a drained queue whose Sender was dropped: the    *)
(* stream is over, the response body ends and the Listener goes with it.   *)
PollEnd(l) ==
  /\ status[l] = "open"
  /\ queue[l] = << >>
  /\ l \notin listeners
  /\ status' = [status EXCEPT ![l] = "gone"]
  /\ UNCHANGED <<txVars, listeners, queue, history>>

(* The client disconnects: the Listener is dropped with what its queue     *)
(* held. Its Sender stays in the list until the next send finds out.       *)
ListenerDrop(l) ==
  /\ status[l] = "open"
  /\ status' = [status EXCEPT ![l] = "gone"]
  /\ queue' = [queue EXCEPT ![l] = << >>]
  /\ leftAt' = [leftAt EXCEPT ![l] = published]
  /\ UNCHANGED <<txVars, listeners, seen, from, hello>>

SendStep == SendEnd \/ \E l \in Listeners : SendTo(l)
Poll(l)  == PollChunk(l) \/ PollEnd(l)

Next ==
  \/ \E t \in Transmitters : TransmitterNew(t) \/ TransmitterDrop(t)
  \/ \E t \in Transmitters : \E i \in {txInit[t], published + 1} :
       SendBegin(t, [serial |-> published + 1, init |-> i])
  \/ SendStep
  \/ \E l \in Listeners : ListenerNew(l) \/ Poll(l) \/ ListenerDrop(l)

Spec == Init /\ [][Next]_vars

-----------------------------------------------------------------------------
(* What a listener has been handed and what waits for it, oldest first.    *)
Stream(l) == seen[l] \o queue[l]

TypeOK ==
  /\ header_chunk \in Chunk
  /\ listeners \subseteq Listeners
  /\ lock \in Transmitters \cup {NoOne}
  /\ chunk \in Chunk
  /\ todo \subseteq listeners
  /\ live \subseteq Transmitters
  /\ txInit \in [Transmitters -> Nat]
  /\ published \in 0..MaxChunks
  /\ status \in [Listeners -> {"new", "open", "gone"}]
  /\ queue \in [Listeners -> Seq(Chunk)]
  /\ \A l \in Listeners : Len(queue[l]) <= MpscBuffer + 1
  /\ seen \in [Listeners -> Seq(Chunk)]
  /\ from \in [Listeners -> Nat]
  /\ hello \in [Listeners -> {0, 1}]
  /\ leftAt \in [Listeners -> Nat]

(* After its greeting a listener is handed an uninterrupted run of what    *)
(* the channel accepted, starting at the first chunk after it joined:      *)
(* nothing twice, nothing out of order, nothing left out in the middle,    *)
(* whatever other listeners, uploaders and its own lag do (send, retain).  *)
NoGaps ==
  \A l \in Listeners : \A i \in 1..Len(Stream(l)) :
    i > hello[l] => Stream(l)[i].serial = from[l] + (i - hello[l])

(* A listener still in the list has every chunk accepted since it joined,  *)
(* in its hands or in its queue (but for the one being handed round): the  *)
(* only way to lose a chunk is to lose the connection.                     *)
NothingMissed ==
  \A l \in listeners : status[l] = "open" =>
    Len(Stream(l)) + (IF l \in todo THEN 1 ELSE 0)
      = hello[l] + (published - from[l])

(* When nobody uploads, no initialization segment is remembered: the next  *)
(* listener is not greeted with one of a finished upload (Transmitter's    *)
(* Drop, and its comment).                                                 *)
ForgetsWhenIdle == live = {} => header_chunk = NoChunk

(* While an uploader that has sent its initialization segment is connected *)
(* a segment is remembered, "so that viewers can join mid-stream" (README; *)
(* the changelog: forgotten "when no transmitter is active").              *)
RemembersWhileLive ==
  (\E t \in live : txInit[t] # 0) => header_chunk # NoChunk

(* Every cluster a listener gets comes after the initialization segment of *)
(* the same upload, with no other in between: the stream starts with a     *)
(* Headers chunk and a cluster needs the same one as its predecessor.      *)
PlayableStream ==
  \A l \in Listeners : \A i \in 1..Len(Stream(l)) :
    \/ IsHeaders(Stream(l)[i])
    \/ i > 1 /\ Stream(l)[i].init = Stream(l)[i - 1].init

(* A client that hung up is not carried along: the first send that begins  *)
(* after it left takes its Sender off the list, and only until then (on a  *)
(* channel nobody uploads to: as long as that lasts) is it still there.    *)
DepartedForgotten ==
  \A l \in listeners : status[l] = "gone" =>
    /\ published <= leftAt[l] + 1
    /\ l \notin todo => published = leftAt[l]

-----------------------------------------------------------------------------
(* The channel seen as a broadcast: what waits in a queue is not handed    *)
(* over yet, and a listener is cut off when its Sender is dropped.         *)
BroadcastState ==
  [l \in Listeners |->
     IF status[l] = "open" /\ l \notin listeners THEN "cut" ELSE status[l]]

BroadcastLast ==
  [l \in Listeners |-> IF Len(seen[l]) > hello[l]
                       THEN seen[l][Len(seen[l])].serial ELSE from[l]]

B == INSTANCE Broadcast WITH
       accepted <- published, state <- BroadcastState, last <- BroadcastLast

(* The channel implements Broadcast: mutex, list, queues and evictions     *)
(* never show in what a listener gets, and only one that lags by more than *)
(* the buffer is ever dropped (Transmitter::send, Listener::poll_next).    *)
ImplementsBroadcast == B!Spec

=============================================================================
