---------------------------- MODULE TimecodeFixer ----------------------------
(***************************************************************************)
(* The ChunkTimecodeFixer of src/fixers.rs, which the viewers of a relay   *)
(* and the filter and send commands put their clusters through, and the    *)
(* clusters it is fed.                                                     *)
(***************************************************************************)
EXTENDS ClusterHead

CONSTANTS
  AssumedDuration, \* ChunkTimecodeFixer.assumed_duration: 33 in the code
  Timecodes,       \* the values of the clusters' Timecode elements
  BlockTimes,      \* the i16 times of blocks, relative to their cluster
  EarlyBlocks,     \* TRUE: a block may lie before time 0 of its file
  MaxClock         \* bound: no cluster is fed beyond this (output) time

(* The code reads any u64 from a Timecode. Its sums would wrap as well for *)
(* timecodes near 2^64, more than 500 million years into a stream; without *)
(* early blocks the instances stay clear of that: nothing that is fed      *)
(* before MaxClock comes near the end of u64.                              *)
ASSUME FixerAssumption ==
  /\ AssumedDuration \in u64
  /\ Timecodes \subseteq Nat
  /\ BlockTimes \subseteq Int
  /\ EarlyBlocks \in BOOLEAN
  /\ MaxClock \in Nat
  /\ \A b \in BlockTimes : b < U64 /\ 0 - b < U64
  /\ \A tc \in Timecodes : tc < U64
  /\ ~EarlyBlocks => \A tc \in Timecodes : \A b \in BlockTimes :
       /\ tc + MaxClock + AssumedDuration < U64
       /\ tc + MaxClock + AssumedDuration + b < U64

VARIABLES current_offset, last_observed_timecode

(* The heads the chunker builds. end only depends on the last block that   *)
(* moved it, so one block stands for any number (b = 0: none moved it).    *)
(* The Timecode comes before that block, as encoders write it, or after.   *)
HeadOf(tc, b, key) ==
  [observe_simpleblock_timecode(NewHead(tc), b) EXCEPT !.keyframe = key]

LateHeadOf(tc, b, key) ==
  [update_timecode(observe_simpleblock_timecode(NewHead(0), b), tc)
     EXCEPT !.keyframe = key]

(* A block is early that lies before time 0, given the time its cluster    *)
(* has when the block comes.                                               *)
Allowed(time, b) == EarlyBlocks \/ time + b >= 0

Clusters == Timecodes \X BlockTimes \X BOOLEAN

ClusterHeads ==
  {HeadOf(x[1], x[2], x[3]) : x \in {y \in Clusters : Allowed(y[1], y[2])}}
    \cup
  {LateHeadOf(x[1], x[2], x[3]) : x \in {y \in Clusters : Allowed(0, y[2])}}

-----------------------------------------------------------------------------
(* Mutant: only the first restart of the clock is corrected.               *)
NextOffsetOnce(start) ==
  IF start < last_observed_timecode /\ current_offset = 0
  THEN WrapSub(WrapAdd(last_observed_timecode, AssumedDuration), start)
  ELSE current_offset

(* The offset ChunkTimecodeFixer::process applies to a cluster: a new one  *)
(* when the cluster starts before the end of what was sent already.        *)
NextOffset(start) ==
  IF start < last_observed_timecode
  THEN WrapSub(WrapAdd(last_observed_timecode, AssumedDuration), start)
  ELSE current_offset

(* The cluster as ChunkTimecodeFixer::process rewrites it.                 *)
Process(head) == update_timecode(head, WrapAdd(head.start, NextOffset(head.start)))

=============================================================================
