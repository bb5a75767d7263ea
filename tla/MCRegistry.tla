------------------------------ MODULE MCRegistry ------------------------------
(* Model checking instance of Registry. The requests and the names are     *)
(* interchangeable, so it is enough to start with the requests in an order *)
(* of their names and methods, the first name the one asked for most (the  *)
(* symmetry reduction of TLC is not sound for liveness).                   *)
EXTENDS Registry, FiniteSetsExt

ASSUME NumberedAssumption == Requests \subseteq Nat /\ Names \subseteq Nat

MethodRank ==
  [HEAD |-> 1, GET |-> 2, POST |-> 3, PUT |-> 4, DELETE |-> 5]

Ordered ==
  /\ \A n \in Names : Quantify(Requests, LAMBDA r : name[r] = n)
                     <= Quantify(Requests, LAMBDA r : name[r] = 1)
  /\ \A r, s \in Requests : r < s =>
       \/ name[r] < name[s]
       \/ name[r] = name[s] /\ MethodRank[method[r]] <= MethodRank[method[s]]

MCInit == Init /\ Ordered

MCSpec == MCInit /\ [][Next]_vars /\ Fairness

=============================================================================
