---------------------------- MODULE ThrottleProofs ----------------------------
(* Proofs about Throttle, for clusters with any ends and any bounds.       *)
EXTENDS Throttle, TLAPS

-----------------------------------------------------------------------------
(* The clock was started when the first cluster was forwarded, as if the   *)
(* stream had begun firstEnd earlier, and the sleep ends where the last    *)
(* cluster does.                                                           *)
Clock ==
  start_time # None =>
    /\ start_time = firstAt - firstEnd
    /\ sleep = start_time + lastEnd
    /\ firstAt <= now

ThrottleInv == TypeOK /\ Clock

LEMMA ThrottleStep == ThrottleInv /\ [Next]_vars => ThrottleInv'
<1> SUFFICES ASSUME TypeOK, Clock, [Next]_vars PROVE TypeOK' /\ Clock'
  BY DEF ThrottleInv
<1> USE ThrottleAssumption
<1>1. CASE Tick
  BY <1>1 DEF Tick, history, TypeOK, Clock
<1>2. ASSUME NEW c \in Ends \cup {Other}, Arrive(c) PROVE TypeOK' /\ Clock'
  BY <1>2 DEF Arrive, history, TypeOK, Clock
<1>3. CASE PollSleeping
  BY <1>3 DEF PollSleeping, Snoozes, history, TypeOK, Clock
<1>4. CASE PollPending
  BY <1>4 DEF PollPending, history, TypeOK, Clock
<1>5. CASE PollOther
  BY <1>5 DEF PollOther, history, TypeOK, Clock
<1>6. CASE PollCluster
  <2>0. /\ now \in 0..MaxTime /\ ready \in Nat /\ ready <= Horizon
        /\ firstAt \in Nat /\ firstEnd \in Nat
    BY <1>6 DEF PollCluster, TypeOK
  <2>1. /\ start_time' = StartTime(ready)
        /\ sleep' = start_time' + ready
        /\ ready' = None /\ lastEnd' = ready
        /\ UNCHANGED <<now, arrived, wakes>>
    BY <1>6 DEF PollCluster
  <2>2. CASE start_time = None
    <3>1. /\ start_time' = now - ready /\ sleep' = now
          /\ firstAt' = now /\ firstEnd' = ready
      BY <1>6, <2>0, <2>1, <2>2 DEF PollCluster, StartTime
    <3> QED
      BY <2>0, <2>1, <3>1 DEF TypeOK, Clock
  <2>3. CASE start_time # None
    <3>1. start_time' = start_time /\ UNCHANGED <<firstAt, firstEnd>>
      BY <1>6, <2>1, <2>3 DEF PollCluster, StartTime
    <3>2. start_time = firstAt - firstEnd /\ firstAt <= now
      BY <2>3 DEF Clock
    <3>3. sleep' \in Int /\ sleep' <= now + Horizon
      BY <2>0, <2>1, <3>1, <3>2
    <3> QED
      BY <2>0, <2>1, <3>1, <3>2, <3>3 DEF TypeOK, Clock
  <2> QED
    BY <2>2, <2>3
<1>7. CASE UNCHANGED vars
  BY <1>7 DEF vars, TypeOK, Clock
<1> QED
  BY <1>1, <1>2, <1>3, <1>4, <1>5, <1>6, <1>7 DEF Next, Poll

LEMMA ThrottleAlways == Spec => []ThrottleInv
<1>1. Init => ThrottleInv
  BY ThrottleAssumption DEF Init, ThrottleInv, TypeOK, Clock
<1> QED
  BY <1>1, ThrottleStep, PTL DEF Spec

(* The type invariant holds: with it, no sleep is longer than the time the *)
(* longest cluster reaches into the stream.                                *)
THEOREM TypeCorrect == Spec => []TypeOK
  BY ThrottleAlways, PTL DEF ThrottleInv

(* The deadline is that of a clock started once, with the first cluster:   *)
(* delays of the source or of the polling task do not add up.              *)
THEOREM NoDriftAlways == Spec => []NoDrift
<1>1. ThrottleInv => NoDrift
  BY DEF ThrottleInv, TypeOK, Clock, NoDrift
<1> QED
  BY <1>1, ThrottleAlways, PTL

(* The output is never ahead of real time by more than one cluster.        *)
THEOREM RealTimeAlways == Spec => RealTime
<1> DEFINE P == start_time # None /\ ready # None /\ ready' = None
                  => now - firstAt >= lastEnd - firstEnd
<1>1. ThrottleInv /\ [Next]_vars => P \/ UNCHANGED vars
  <2> SUFFICES ASSUME TypeOK, Clock, Next,
                      start_time # None, ready # None, ready' = None
               PROVE  now - firstAt >= lastEnd - firstEnd
    BY DEF ThrottleInv
  <2>1. SleepOver
    BY ThrottleAssumption
    DEF Next, Poll, Tick, Arrive, PollSleeping, PollPending, PollOther, PollCluster
  <2> QED
    BY <2>1 DEF SleepOver, TypeOK, Clock
<1> QED
  BY <1>1, ThrottleAlways, PTL DEF Spec, RealTime

=============================================================================
