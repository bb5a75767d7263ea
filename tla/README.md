# webmetro in TLA+

`webmetro` relays a WebM stream from one uploader to many viewers over HTTP.
This directory models the parts of it that keep state or compute, checks the
models with TLC on small instances, and proves their main properties with TLAPS
for all instances. Paths below are relative to the repository; modules are named
after the code they model.

## The system

An upload (`POST`/`PUT /live/NAME`) passes through

    HTTP body -> EbmlStreamingParser -> WebmChunker -> Transmitter::send -> Channel

and a download (`GET /live/NAME`) through

    Channel -> mpsc queue -> Listener -> ChunkTimecodeFixer -> StartingPointFinder
-> HTTP body

Every upload and every download is a task of its own; they meet only in the
`Channel`, behind a mutex, and in the queues of the listeners, which the tasks
read without the mutex. They find their `Channel` by its name in a map of weak
references, behind a mutex of its own. The commands `filter` and `send` run

    stdin -> EbmlStreamingParser -> WebmChunker -> ChunkTimecodeFixer ->
Chunk::overlaps -> (Throttle) -> Chunk::next -> output

in a single task.

| Component | State | Operations | Modelled by |
|---|---|---|---|
| channel (`src/channel.rs`) | remembered header, list of `Sender`s; a bounded queue per listener | `Transmitter::send`, drop; `Listener::new`, `poll_next`, drop | `Channel`; its promise, `Broadcast` |
| cluster head (`src/chunk.rs`) | keyframe mark, start, end (u64) | `new`, `update_timecode`, `observe_simpleblock_timecode` | `ClusterHead` |
| viewer pipeline (`src/fixers.rs`, `get_stream` in `src/commands/relay.rs`) | time offset, last time seen; header and keyframe seen | `process`, `poll_next` | `TimecodeFixer`, `Viewer`; with the channel, `Relay` |
| chunker (`src/chunk.rs`) | `ChunkerState`: header or cluster under construction | `poll_next` | `Chunker`; what it should return, `Chunks` |
| streaming parser (`src/stream_parser.rs`, `src/iterator.rs`) | byte buffer | `poll_event`, `next` | `StreamParser` |
| EBML and WebM codecs (`src/ebml.rs`, `src/webm.rs`) | none | varints, tags, elements, blocks | `Ebml`, `Webm`, `Wire`, `Arrival`; their outcomes in `StreamParser` and `Chunker` |
| relay server (`src/commands/relay.rs`) | weak map of channels by name, its mutex | routes, lookup or creation of a channel; `get_stream`, `post_stream` | `Registry`, `Relay` |
| throttle (`src/fixers.rs`) | start of the clock, timer | `new`, `poll_next` | `Throttle` |
| filter, send (`src/commands`), chunk iterator (`src/chunk.rs`) | window of times; the rest of a `Chunk` | `overlaps`, `Chunk::next`, writing | `Filter` |
| dump, command line, errors | none | printing, parsing arguments | no: input and output only |

What is hard about it, and hard to test:

* a send walks the list while the clients it sends to read, lag, disconnect and
  join: who gets what, in which order, and who may hold up whom;
* uploads follow one another or overlap on one channel, so that the header that
  is remembered may be the wrong one or missing;
* a viewer's stream is spliced together from several files whose timecodes start
  again at 0, in unsigned arithmetic that wraps;
* channels are made by the first request of a name and die with the last, while
  every request looks its name up once for each route it is tried on;
* a throttled task sleeps on a timer or on its input, and must be woken by the
  right one; its deadlines must not drift;
* the chunker and the parser are loops with early returns, whose state must be
  right for elements in any order and bytes cut at any place;
* soft limits that are compared before the write.

`PROJECT.json` lists these hazards at their lines with the properties that would
catch them.

## The modules

### Channel

One step is one of: `TransmitterNew` / `TransmitterDrop` (an upload's request
starts, ends), `SendBegin`, `SendTo(l)`, `SendEnd` (a send takes the mutex and
stores the header; hands the chunk to one listener, or forgets the listener;
releases the mutex), `ListenerNew` (mutex, greeting, push), `PollChunk` and
`PollEnd` (what a client's read of its queue finds), `ListenerDrop` (the client
goes). The send is split because the receivers act between two turns of
`retain_mut`; joins and drops of transmitters touch only what the mutex protects
and are one step.

A chunk is its `serial` in the order of acceptance and the serial `init` of the
Headers chunk its data needs. The history variables `seen`, `from`, `hello`
record what each listener was handed and what it was greeted with, `leftAt` how
many chunks had been accepted when it left.

`StartSendOk` models the bounded queue of the `futures` crate, as the code uses
it: one `Sender`, so a message is refused when the receiver is gone, or when the
queue holds more than the buffer (the sender is parked after the message that
exceeds the buffer and unparked by the next receive). The library counts and
parks in two steps, and a receive that falls between them leaves the sender
parked with one message less in the queue until the receive after it; the model
leaves this earlier refusal out. The invariants and their proofs do not
depend on when a lagging listener is refused. `ImplementsBroadcast` does, and
would hold of the earlier refusal too: a receive has then already taken the
chunk or greeting in front, and the refused listener still lags by the buffer
and the chunk being handed round. `Exclusive` restricts the
environment, not the code: TRUE means uploads do not overlap.

Properties: `NoGaps`, `NothingMissed`, `ForgetsWhenIdle`, `DepartedForgotten`
with overlapping uploads; `RemembersWhileLive`, `PlayableStream` without;
`SendsComplete`, `ReadersServed`, `EvictedEnd` under fairness (`MCChannel`).

### Broadcast

The abstract specification of a channel: a count of accepted chunks and, for each
listener, the position of the last one it was handed. A listener is handed the
next chunk or none, and the channel may give it up (`CutOff`) only if it lags by
more than the buffer. `Channel` maps onto it by `BroadcastState` (a listener that
is open but not in the list any more is cut off) and `BroadcastLast` (the serial
of what it saw last, past the greeting); `ImplementsBroadcast` is the refinement.

### Registry

One step of a request is: it arrives; `Find` takes the mutex of the map and
upgrades the weak reference; `OrInsertWith` makes a channel if there was none and
releases the mutex; `Serve` or `Reject` is the method filter of the route. A
request that is rejected drops its handle and goes through the lookup again on
the next route, so a `PUT` makes or finds a channel three times. The lookup is two
steps because handles are dropped without the mutex. Listeners and transmitters
hold their handle until `Close`. A channel is a number, in the order of creation;
it is alive while some request has a handle of it (`Upgrade`).

Properties: `OneChannelPerName`; `RequestsAnswered` under fairness. That a dead
channel is not found again is how the weak map of the library is modelled, not
something shown.

### Relay

`Channel` with a `StartingPointFinder` behind every listener: the composition of
an upload's chunks, the channel with its evictions, and the finder whose flags
persist through them. `RelaySend` chooses whether a cluster has a keyframe.
`PlayableAtClient` says what a client is sent, `KeyframesReachClient` what it is
sent eventually. The chunks have no times here; those are `Viewer`'s.

### ClusterHead, TimecodeFixer, Viewer

`ClusterHead` is the u64 arithmetic of `ClusterHead` in the release build (which
wraps) with the width `U64` as a constant. `TimecodeFixer` is the
`ChunkTimecodeFixer`, which `Viewer` and `Filter` share (`MCFixer` instantiates
both: one fixer, and the first chunk decides whose). `Viewer` feeds chunks, one
per step, to the `ChunkTimecodeFixer` and the `StartingPointFinder`:
`FeedHeaders`, `FeedCluster(head)`. The clusters are what the chunker can build
from the `Timecodes` and `BlockTimes` of the instance, with the Timecode before
the blocks (`HeadOf`) or after them (`LateHeadOf`); `EarlyBlocks` says whether a
block may lie before time 0, given the time its cluster has when the block comes.
`FixerAssumption` keeps an instance without early blocks away from the end of u64:
the code reads any u64 as a Timecode, and the sums of the fixer would wrap for one
near 2^64 too, as they do for the clusters of the second finding. `lastOut` is the
last cluster forwarded, with its place in the input.

Properties: `OneHeaderFirst`, `ResumesAtKeyframe`, `NoSkips` (the finder),
`NoOverlap` and the weaker `MonotonicStarts` (the fixer).

### Throttle

A clock (`Tick`), a wrapped stream that has its next chunk at any time (`Arrive`),
and one action per outcome of `poll_next`. `wakes` says who will wake the task:
polling the `Sleep` registers it with the timer only, a Pending stream with the
stream only, and a chunk handed on leaves it awake, since its consumer asks for
the next one. `start_time` may lie before the start of the program, as an
`Instant` mostly may (see below). Properties: `NoDrift`, `RealTime`;
`AllForwarded` under fairness.

### Filter

The chunks of the input go through the fixer and the window (`FilterHeaders`,
`FilterCluster`), and what is let through is written slice by slice (`WriteSlice`);
input and output may fail between any two steps. `filter` and `send` are the same
pipeline, `send` writing into the body of a request. Headers chunks are always let
through, so skipping a whole file leaves its header in front of the next one's;
and past the end of the window the input is still read to its end.
`OnePiece` supposes that no block is early (see the second finding).

### Chunker

One action per arm of the two matches in `WebmChunker::poll_next`. An element is
its kind, time, keyframe flag, encoded size and whether it can be encoded; a
chunk's bytes are the positions of the elements encoded in it. `Chunks` holds the
definition the result is compared with, which reads the chunks off the whole
sequence: where the cuts are (`Cuts`), which elements lie between them, the last
timecode (`Spans`), the last later block (`EndsInTime`). `ChunksAsDefined`
compares everything but the ends of the clusters, `EndsAsDefined` also those,
where no block is early; `RefusedAtLimit` says exactly when a source is refused:
when its chunk already holds the limit, equality included. That is less than the
repository promises, see `DroppedOnlyAboveLimit` and the third finding.
`HeadersThenClusters` is what `Channel` takes for granted of an upload.

### StreamParser

One step is one turn of the loop that `poll_event` and `next` share. The stream
is a sequence of elements with their header and body lengths; bytes are counted.
A header may be invalid from some byte on, a payload may fail to decode, the
source may end or fail whenever it is asked. The stream is over after an error,
as its users give it up then. `ParsesAsIterator` compares the events with what
`EbmlIterator` yields from the same bytes at once.

### Ebml, Webm, Wire, Arrival

`Ebml` and `Webm` are the two codecs as operators over sequences of bytes, under
the names of the functions. A byte has `ByteBits` bits; the code's 8 is also the
number of bytes of a u64 and of the longest varint, and so is `ByteBits`, so an
instance with 4 bits has all the forms of the code within TLC's integers. The
loops are written by what they find (the shortest size whose flag exceeds the
value, the highest bit of the first byte); powers of two and the big-endian value
of bytes are recursive functions, which proofs can unfold. `encode_element` keeps
its order: unknown length, content, patch.

`Wire` writes elements, transmits and reads them: `ReadsBack`, `NothingLeftOver`.
Its elements are any values of `WebmElement` whose payload a length field can
describe (`Fits`: less than 2^56 bytes in the code). `Arrival` lets arbitrary
bytes arrive one by one and asks what the decoder makes of them:
`VarintsReadBack`, `VarintsMinimal`, `RewrittenTheSame` (the relay writes again
what it reads), `VerdictFinal` (`StreamParser` relies on it: an element found in a
prefix is the element found in the whole). `MCCodec` runs the two side by side.

## The runs

| Run | Instance | Shows |
|---|---|---|
| `channel` | 2 uploaders (overlapping), 2 listeners, buffer 1, 4 chunks | gapless and complete delivery, forgotten headers and clients; `Channel` implements `Broadcast` |
| `channel_live` | 1 uploader, 2 listeners of which 1 reads, fair | slow clients hold up nobody |
| `channel_overlap` | 2 uploaders, 1 listener | **violated**: a drop erases a live upload's header |
| `relay` | 2 uploaders one after the other, 1 client that reads or leaves, 5 chunks, fair | remembered headers, playable streams, at the listener and at the client; keyframes arrive |
| `registry` | 3 requests of any method for 2 names, fair | one channel per name, all requests answered |
| `throttle` | 4 chunks with ends 0, 2, 3, 5 or none, time up to 12, fair | output at the speed of the timestamps, no lost wake-up |
| `fixer` | u64 of 6 bits, 4 timecodes, 5 block times; a viewer fed 8 chunks, or 7 chunks of input and windows of 3 times | the spliced stream at the client; one piece, whole chunks out of `filter` and `send` |
| `fixer_early` | the same with early blocks, up to 5 chunks | **violated**: time runs backwards |
| `chunker` | 11 elements of all kinds, sequences up to 6, limit 3 | the chunks are those defined, a source is refused exactly at the limit |
| `chunker_limit` | the same, sequences up to 4 | **violated**: a chunk as large as the limit is given up |
| `parser` | 5 shapes of elements, streams up to 3, pieces up to 4, limit 4 | the events are those of the iterator |
| `codec` | bytes of 4 bits: 13 elements, written in sequences up to 3; any 4 bytes; up to 7 bytes out of 7 | what is written is read back; varints are inverse and minimal; elements are found once and for all and rewritten unchanged |

Bounds. With a buffer of 1 a queue holds 0, 1 or 2 chunks: empty, filling and
parked, so four chunks are enough to lag, be evicted and drain while another
listener goes on; five leave room for two uploads with a header and clusters
each. Two listeners are enough since a listener's fate depends on no other. Eight
chunks are three uploads with skipped clusters in a viewer's stream. Six elements
contain a header, two clusters and the start of a next file. Three elements of
up to five bytes are cut in every way into pieces that hold parts of one or two.
Four bytes are the longest varint of the instance, so `codec` sees every value
and every way to write it; seven bytes hold a block whose length and track take
the shortest and a longer form. The ends of the numbers' ranges and lengths on
both sides of one byte are among the elements written.
Three requests are one that lets a channel die, one that looks it up meanwhile
and one that makes the next. Four chunks and twelve units of time let a chunk come
before, at and after the deadline of the one before it, and an end fall back; the
guard of `Arrive` keeps deadlines within the clock, so that `AllForwarded` does not
hang on its bound. Seven chunks are two files with clusters before, in and behind
the window.
The proofs below do not depend on these bounds.

Deadlock is checked in the runs of `Channel` and `Relay`. The other models process
a bounded or ending input and then stop (in `Registry` every request is made once),
so it is not checked there.

Fairness. `channel_live`: a send in progress goes on, because no step of it waits
(`start_send` returns at once), and the server polls the response of a client
that reads; nothing is assumed of uploaders or of clients that do not read.
`relay`: the same, of the viewer's whole pipeline. `registry`: the server works
on every request it has accepted. Weak fairness is enough for the mutex because
each request takes it at most three times; nothing is assumed of when streams end.
`throttle`: time passes and a task that was woken is polled; nothing is assumed of
when the stream has its chunks.
`parser`: the task that polls runs until the parser must wait for the source;
nothing is assumed of the source.

The three violations are recorded under `findings` in `PROJECT.json`.

* `channel_overlap`: `Drop for Transmitter` clears the header whichever
  transmitter stored it. The changelog says it is forgotten "when no transmitter
  is active".
* `fixer_early`: for a block before time 0, `start + (timecode as u64)` does not
  wrap back below `start`. If the Timecode came before the block, the cluster seems
  to end at the end of time, and the next one is moved to `end + 33`, which wraps;
  if it comes after, the cluster ends before it starts, and the next one is not
  moved though it starts earlier. The README says timestamps "are rewritten to be
  monotonic".
* `chunker_limit`: `encode` compares with `<=`, so that a chunk of exactly the limit
  followed by an element of no bytes (`SeekHead`, `Cues`) ends the stream. The
  comment on `with_soft_limit` says "if a chunk buffer exceeds this size", the
  README that chunks "can't individually be more than 2M".

Type invariants are proved wherever a module has a proof (below); only that of
`Channel`, with its bound of the queues, is checked by a run as well.

Each property of a passing run has a mutant in `PROJECT.json`: a plausible
mistake in a definition (marked `Mutant` in the modules) that violates it.

## The proofs

`ChannelProofs` (the channel, its refinement, the relay), `RegistryProofs`,
`ThrottleProofs`, `ClusterHeadProofs`, `FixerProofs` (the viewer and the filter),
`ChunkerProofs` and `ParsingProofs` (the codecs and the streaming parser) hold for
all values of the constants that satisfy the modules' assumptions. Every safety
property a passing run checks is proved.

* Channel. `TypeCorrect` includes the bound of the queues. `NoGaps` and
  `NothingMissed` rest on the invariant `Delivery`: they are not inductive
  alone, since a join must start from an empty stream (`JoinsOnce`) and what is
  handed round must be the chunk accepted last (`HandsLastRound`), to listeners
  that are exactly one chunk behind. Three lemmas say what a receive, a send and
  a drop do to the concatenation of `seen` and `queue`. `PlayableStream` and
  `RemembersWhileLive` are proved for `Exclusive` from the invariant `Solo`: at
  most one upload is live, the remembered header is its header, and the last
  chunk of every listener not yet served needs the same header as the chunk that
  is handed round. `DepartedForgotten` is strengthened to `Departures`, which says
  of a send in progress that whoever left before it and is still in the list has
  its turn to come.
* Broadcast. `ChannelImplementsBroadcast`: every step of `Channel` is a step of
  `Broadcast` or a stutter. It rests on the delivery invariants above and on
  `NotAhead` (nobody was handed more than was accepted). `PollDelivers`: a receive
  takes a greeting, and nothing changes, or the chunk after the last one.
  `RefusedLags`: who is refused while open has more chunks than the buffer holds
  between it and the channel.
* Relay. `RelayImplementsChannel`: a step of the relay is a step of its channel, so
  all that is proved of the channel holds in the relay. `PlayableAtClient`, for
  `Exclusive`, follows from that and from `Viewers`, which relates the flags of
  each listener's finder to what its client was sent last.
* Registry. `OneChannelPerName` is not inductive, since a lookup is two steps.
  `RegistryInv` adds that the request between them holds the mutex (`OneInside`),
  that every handle is of the channel the map has under its name (`Registered`),
  and that a request that found nothing leaves no owner to be found
  (`VacantIsDead`).
* Throttle. `Clock`: once the clock runs, its start is the time of the first
  cluster minus that cluster's end, and the deadline the start plus the last end.
* Viewer. `Finding` relates the finder's flags to what was forwarded last; it
  gives `OneHeaderFirst`, `ResumesAtKeyframe`, `NoSkips`. `Timely`, for
  `~EarlyBlocks`: the offset never exceeds the last time seen, hence neither sum
  of the fixer overflows before `MaxClock`, and every cluster starts where the
  last ended or later (`NoOverlap`).
* Filter. `BodyDue`: after the head of a cluster its body is the next slice, which
  gives `WholeClusters`. `Window`, for `~EarlyBlocks`: fixed times never fall, so
  that once a cluster lies behind the window all later ones do (`OnePiece`).
* Chunker. `Alternates` says what was returned last in each state, which gives
  `HeadersThenClusters`. `ChunksAsDefined` needs to know, in the middle of the
  input, what the whole input will be cut into: `Chunking` says that the chunks
  returned are those of the elements read, and that the chunk under construction
  holds the elements since the last cut (`Place`, `Content`). `Ending` adds the end
  of the cluster under construction. It supposes `WithinReach`, that no timecode
  and block time add up to 2^64 or more: block times are below 2^15, so a stream
  would have to be at the last 33 seconds that a u64 of milliseconds can tell.
  `Refusing`, for `RefusedAtLimit`, counts the bytes of that chunk.
* StreamParser. `Parsing` adds to the properties that no more was delivered than
  there is, so that behind the last element the buffer is empty and the limit
  cannot be hit there. `Reported`: the elements split off are those that lie wholly
  in what was delivered and consumed, which gives `ParsesAsIterator`.
* Codec, reading. A varint is determined by its first bytes (`VarintExtends`), hence
  so is a header, and so is an element (`ElementExtends`): `VerdictFinal`.
* Codec, varints. `PutUint` writes the digits of a number to base 2^`ByteBits` and
  `ReadUint` reads them (`ReadPut`). The flag of a size is a bit of the first byte,
  and the highest one set (`VarintSizeIs`), so that the decoder finds the size the
  encoder chose (`VarintWritten`): `VarintsReadBack`, `VarintsMinimal`.
* Codec, elements. For every kind of element there are bytes that are appended
  whatever was written before (`Appends`), and that the decoder reads as that
  element and no more (`Reads`); `WritesHead` is where the length is patched.
  What the decoder returns is an element that can be written again (`ElementType`),
  which gives `RewrittenTheSame`.
* Codec, the wire. `WireInv`: the output is divided by positions between which there
  is one element each (`Ends`), and the decoder is at one of these. What it finds
  there (`FoundNext`) is the next element if that has arrived, and nothing if only
  a part of it has: if it found something in a part it would find the same in the
  whole, which is longer. `ReadsBack` and `NothingLeftOver` follow.

The theorems of the library for induction over data cannot be used here, as they
take an operator as a parameter. Where induction is needed (powers, digits,
positions in a sequence), the proofs take the least number for which the claim
fails (`LeastNumber`, from the well-foundedness of the natural numbers).

Only model-checked: the liveness properties `SendsComplete`, `ReadersServed`,
`EvictedEnd`, `KeyframesReachClient`, `RequestsAnswered`, `AllForwarded` and
`DeliveredIsReported`, since fairness is out of the provers' reach.

## Not modelled

* `dump` and the command line: printing, argument parsing, logging and conversions
  of errors, without state.
* Sockets, the HTTP server and client, stdin and stdout: they appear as the steps
  of the environment (a request arrives, a write fails, a source ends).
* A panic while a mutex is held, after which every `lock().unwrap()` panics too: no
  code under the two mutexes panics (the one `expect` is on the greeting, which is
  sent into a new queue whose receiver the caller still holds).
* Builds with overflow checks; the models wrap as the release build does.
* The panic of `Instant::now() - offset` in the throttle, on platforms whose
  `Instant` cannot lie before its origin, for an input whose first cluster ends
  later than the machine has run: the model's clock is an integer.
* Timecodes near 2^64 in the fixer (see `FixerAssumption` above).

## What could follow

A composition of `StreamParser` with the bytes of `Wire` and of `Chunker`, so that
one specification goes from an upload's bytes to a chunk; today they meet in
`VerdictFinal`, which is what the parser assumes of the codec, and in
`HeadersThenClusters`, which is what the channel assumes of the chunker.
