------------------------------ MODULE MCChannel ------------------------------
(* Model checking instances of Channel: fairness, the liveness properties  *)
(* and the symmetry of the connections.                                    *)
EXTENDS Channel, TLC

CONSTANT Readers  \* the listeners whose clients keep reading

ASSUME ReadersAssumption == Readers \subseteq Listeners

Symmetry == Permutations(Transmitters) \cup Permutations(Listeners)

(* A send runs to its end without waiting for anyone, because start_send   *)
(* never waits; the server polls the response of a client that reads.      *)
Fairness ==
  /\ WF_vars(SendStep)
  /\ \A l \in Readers : WF_vars(Poll(l))

FairSpec == Spec /\ Fairness

(* The mutex is always released, however slow the listeners are: nobody    *)
(* who reads or joins can be held up by a client that does not read.       *)
SendsComplete == lock # NoOne ~> lock = NoOne

(* Every chunk accepted while a reading client is connected reaches it,    *)
(* unless its connection ends first; clients that do not read change       *)
(* nothing about that.                                                     *)
ReadersServed ==
  \A l \in Readers : \A n \in 1..MaxChunks :
    (status[l] = "open" /\ from[l] < n /\ n <= published)
      ~> (status[l] = "gone" \/ \E i \in 1..Len(seen[l]) : seen[l][i].serial = n)

(* A client dropped from the list is not left hanging: once it has read    *)
(* what was queued its response ends.                                      *)
EvictedEnd ==
  \A l \in Readers :
    (status[l] = "open" /\ l \notin listeners) ~> status[l] = "gone"

=============================================================================
