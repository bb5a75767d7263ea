------------------------------- MODULE Throttle -------------------------------
(***************************************************************************)
(* The Throttle of src/fixers.rs: it forwards the chunks of a stream, and  *)
(* after each cluster sleeps until as much time has passed as the cluster  *)
(* reaches into the stream. The task that polls it runs only when somebody *)
(* wakes it: the stream when it has something, or the timer when the Sleep *)
(* is over, each only if the last poll registered the task there.          *)
(*                                                                         *)
(* Times are in milliseconds; an Instant may lie before the program's      *)
(* start (start_time is the past moment at which the stream's time was 0). *)
(***************************************************************************)
EXTENDS Integers

CONSTANTS
  Ends,      \* the values of ClusterHead.end
  None,      \* no value: of start_time, or no chunk ready
  Other,     \* anything but a cluster: Headers, an error, the stream's end
  Horizon,   \* bound: no smaller than any of Ends
  MaxTime,   \* bound: the clock stops here
  MaxChunks  \* bound: chunks the stream has

ASSUME ThrottleAssumption ==
  /\ Ends \subseteq Nat
  /\ \A e \in Ends : e <= Horizon
  /\ None \notin Int /\ Other \notin Int /\ None # Other
  /\ Horizon \in Nat /\ MaxTime \in Nat /\ MaxChunks \in Nat

VARIABLES
  start_time, \* Throttle.start_time
  sleep,      \* the deadline of Throttle.sleep
  now,        \* Instant::now()
  ready,      \* what the wrapped stream has ready
  arrived,    \* chunks it has had so far
  wakes,      \* who will wake the task: nobody (it is awake), timer, stream
  firstAt,    \* history: when the first cluster was forwarded
  firstEnd,   \* history: its end
  lastEnd     \* history: the end of the last cluster forwarded

history == <<firstAt, firstEnd, lastEnd>>
vars == <<start_time, sleep, now, ready, arrived, wakes, firstAt, firstEnd, lastEnd>>

(* Throttle::new, in a task about to poll it; sleep_until(now) is over at  *)
(* once.                                                                   *)
Init ==
  /\ start_time = None
  /\ now = 0
  /\ sleep = now
  /\ ready = None
  /\ arrived = 0
  /\ wakes = "awake"
  /\ firstAt = 0 /\ firstEnd = 0 /\ lastEnd = 0

-----------------------------------------------------------------------------
(* Time passes; the timer wakes a task that waits for it.                  *)
Tick ==
  /\ now < MaxTime
  /\ now' = now + 1
  /\ wakes' = IF wakes = "timer" /\ now' >= sleep THEN "awake" ELSE wakes
  /\ UNCHANGED <<start_time, sleep, ready, arrived, history>>

(* The wrapped stream has its next chunk.                                  *)
Arrive(c) ==
  /\ ready = None
  /\ arrived < MaxChunks
  /\ now + Horizon <= MaxTime
  /\ ready' = c
  /\ arrived' = arrived + 1
  /\ wakes' = IF wakes = "stream" THEN "awake" ELSE wakes
  /\ UNCHANGED <<start_time, sleep, now, history>>

(* Mutant: the sleep is not consulted.                                     *)
SleepOverIgnored == TRUE

SleepOver == now >= sleep

(* Mutant: a Pending sleep leaves the task registered with the stream.     *)
SnoozesOnStream == "stream"

(* Who wakes a task that was told to sleep: polling the Sleep registered   *)
(* it with the timer, and the stream was not polled.                       *)
Snoozes == "timer"

(* Mutant: the clock starts with the first cluster, wherever that lies.    *)
StartTimeNow(offset) == IF start_time = None THEN now ELSE start_time

(* start_time.get_or_insert_with. The difference may lie before the start  *)
(* of the program; a platform whose Instant cannot lie before its origin   *)
(* would panic here, which is not modelled.                                *)
StartTime(offset) == IF start_time = None THEN now - offset ELSE start_time

(* poll_next before the deadline: Pending.                                 *)
PollSleeping ==
  /\ wakes = "awake"
  /\ ~SleepOver
  /\ wakes' = Snoozes
  /\ UNCHANGED <<start_time, sleep, now, ready, arrived, history>>

(* poll_next when the stream is Pending: that registered the task with it. *)
PollPending ==
  /\ wakes = "awake"
  /\ SleepOver
  /\ ready = None
  /\ wakes' = "stream"
  /\ UNCHANGED <<start_time, sleep, now, ready, arrived, history>>

(* poll_next with a chunk that carries no time: it is handed on as it is.  *)
PollOther ==
  /\ wakes = "awake"
  /\ SleepOver
  /\ ready = Other
  /\ ready' = None
  /\ UNCHANGED <<start_time, sleep, now, arrived, wakes, history>>

(* poll_next with a cluster: it is handed on, and the sleep reset.         *)
PollCluster ==
  /\ wakes = "awake"
  /\ SleepOver
  /\ ready \in Ends
  /\ start_time' = StartTime(ready)
  /\ sleep' = start_time' + ready
  /\ ready' = None
  /\ lastEnd' = ready
  /\ IF start_time = None
     THEN firstAt' = now /\ firstEnd' = ready
     ELSE UNCHANGED <<firstAt, firstEnd>>
  /\ UNCHANGED <<now, arrived, wakes>>

Poll == PollSleeping \/ PollPending \/ PollOther \/ PollCluster

Next == Tick \/ Poll \/ \E c \in Ends \cup {Other} : Arrive(c)

Spec == Init /\ [][Next]_vars

(* Time goes on, and a task that was woken is polled.                      *)
FairSpec == Spec /\ WF_vars(Tick) /\ WF_vars(Poll)

-----------------------------------------------------------------------------
TypeOK ==
  /\ start_time \in Int \cup {None}
  /\ now \in 0..MaxTime
  /\ sleep \in Int /\ sleep <= now + Horizon
  /\ ready \in Ends \cup {None, Other}
  /\ arrived \in 0..MaxChunks
  /\ wakes \in {"awake", "timer", "stream"}
  /\ firstAt \in 0..MaxTime
  /\ firstEnd \in Nat
  /\ lastEnd \in Nat

(* "Slow down output to real time speed as determined by the timestamps"   *)
(* (the option's help): nothing leaves before as much time has passed      *)
(* since the first cluster as separates the end of the last one from its   *)
(* end. The output runs ahead of the clock by one cluster and no more.     *)
RealTime ==
  [][start_time # None /\ ready # None /\ ready' = None
       => now - firstAt >= lastEnd - firstEnd]_vars

(* Nor is it slower than that: the deadline never drifts, however late     *)
(* the chunks come or the task is polled, and the first cluster costs no   *)
(* delay even "if the first chunk happens to start after zero" (comment).  *)
NoDrift ==
  start_time # None => sleep - firstAt = lastEnd - firstEnd

(* Nothing gets stuck: whatever the stream has is handed on in the end, so *)
(* no wake-up is lost between the timer and the stream.                    *)
AllForwarded == ready # None ~> ready = None

=============================================================================
