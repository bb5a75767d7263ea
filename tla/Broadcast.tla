------------------------------ MODULE Broadcast ------------------------------
(***************************************************************************)
(* What a channel promises, without its mutex, its list, its queues and    *)
(* its header: chunks are accepted one after the other, and each listener  *)
(* is handed the chunks that follow its arrival one by one, in the order   *)
(* of acceptance, until it leaves. The channel may stop serving a listener *)
(* only if that listener has fallen more than MpscBuffer chunks behind.    *)
(* Channel is shown to implement this specification.                       *)
(***************************************************************************)
EXTENDS Naturals

CONSTANTS Listeners, MpscBuffer

VARIABLES
  accepted, \* number of chunks accepted so far
  state,    \* of each listener: new, open, cut (off, but still reading), gone
  last      \* position of the last chunk each listener has been handed

vars == <<accepted, state, last>>

Init ==
  /\ accepted = 0
  /\ state = [l \in Listeners |-> "new"]
  /\ last = [l \in Listeners |-> 0]

Accept ==
  /\ accepted' = accepted + 1
  /\ UNCHANGED <<state, last>>

Join(l) ==
  /\ state[l] = "new"
  /\ state' = [state EXCEPT ![l] = "open"]
  /\ last' = [last EXCEPT ![l] = accepted]
  /\ UNCHANGED accepted

(* Accepting never waits for this: a listener reads at its own pace.       *)
Deliver(l) ==
  /\ state[l] \in {"open", "cut"}
  /\ last[l] < accepted
  /\ last' = [last EXCEPT ![l] = @ + 1]
  /\ UNCHANGED <<accepted, state>>

CutOff(l) ==
  /\ state[l] = "open"
  /\ accepted - last[l] > MpscBuffer
  /\ state' = [state EXCEPT ![l] = "cut"]
  /\ UNCHANGED <<accepted, last>>

Leave(l) ==
  /\ state[l] \in {"open", "cut"}
  /\ state' = [state EXCEPT ![l] = "gone"]
  /\ UNCHANGED <<accepted, last>>

Next ==
  \/ Accept
  \/ \E l \in Listeners : Join(l) \/ Deliver(l) \/ CutOff(l) \/ Leave(l)

Spec == Init /\ [][Next]_vars

=============================================================================
