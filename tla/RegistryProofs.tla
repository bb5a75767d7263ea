---------------------------- MODULE RegistryProofs ----------------------------
(* Proofs about Registry, for any number of requests and names.            *)
EXTENDS Registry, TLAPS

-----------------------------------------------------------------------------
LEMMA TypeStep == TypeOK /\ [Next]_vars => TypeOK'
<1> SUFFICES ASSUME TypeOK, [Next]_vars PROVE TypeOK'
  OBVIOUS
<1>1. ASSUME NEW r \in Requests, Arrive(r) PROVE TypeOK'
  BY <1>1 DEF TypeOK, Arrive, request
<1>2. ASSUME NEW r \in Requests, Find(r) PROVE TypeOK'
  <2>1. Upgrade(name[r]) \in Nat
    BY DEF TypeOK, Upgrade
  <2> QED
    BY <1>2, <2>1 DEF TypeOK, Find, request
<1>3. ASSUME NEW r \in Requests, OrInsertWith(r) PROVE TypeOK'
  BY <1>3 DEF TypeOK, OrInsertWith, Unlock, request
<1>4. ASSUME NEW r \in Requests, Serve(r) PROVE TypeOK'
  BY <1>4 DEF TypeOK, Serve, request
<1>5. ASSUME NEW r \in Requests, Reject(r) PROVE TypeOK'
  <2>1. Len(routes) = 3
    BY DEF routes
  <2>2. NextRouteExists(r) => route[r] + 1 \in 1..3
    BY <2>1 DEF TypeOK, NextRouteExists
  <2> QED
    BY <1>5, <2>2 DEF TypeOK, Reject, request
<1>6. ASSUME NEW r \in Requests, Close(r) PROVE TypeOK'
  BY <1>6 DEF TypeOK, Close, request
<1>7. CASE UNCHANGED vars
  BY <1>7 DEF TypeOK, vars
<1> QED
  BY <1>1, <1>2, <1>3, <1>4, <1>5, <1>6, <1>7 DEF Next, Answer

(* The type invariant holds; in particular no request falls off the end of *)
(* the routes.                                                             *)
THEOREM TypeCorrect == Spec => []TypeOK
<1>1. Init => TypeOK
  BY DEF Init, TypeOK
<1> QED
  BY <1>1, TypeStep, PTL DEF Spec

-----------------------------------------------------------------------------
(* OneChannelPerName is not inductive. A handle is always of the channel   *)
(* the map has for the name, no two names have the same, only the holder   *)
(* of the mutex is between its two steps, and if it found no channel then  *)
(* nobody owns one of that name: owners only go away meanwhile.            *)
OneInside ==
  \A r \in Requests :
    /\ pc[r] = "entry" <=> lock = r
    /\ handle[r] # 0 => pc[r] \in {"entry", "route", "open"}

Registered ==
  /\ \A r \in Requests : handle[r] # 0 => handle[r] = channel_map[name[r]]
  /\ \A n \in Names : channel_map[n] <= made
  /\ \A n, m \in Names : channel_map[n] = channel_map[m] /\ channel_map[n] # 0
                         => n = m

VacantIsDead ==
  \A r \in Requests : pc[r] = "entry" /\ handle[r] = 0 =>
    \A s \in Requests : name[s] = name[r] => handle[s] = 0

RegistryInv == OneInside /\ Registered /\ VacantIsDead

(* What is found is the channel of the map, unless no owner is left.       *)
LEMMA UpgradeFinds ==
  ASSUME TypeOK, Registered, NEW n \in Names
  PROVE  /\ Upgrade(n) # 0 => Upgrade(n) = channel_map[n]
         /\ Upgrade(n) = 0 => \A s \in Requests : name[s] = n => handle[s] = 0
  BY DEF Upgrade, Registered

(* A step in which requests only drop handles and the map stays.           *)
LEMMA RegistryFrame ==
  ASSUME TypeOK, RegistryInv, OneInside',
         UNCHANGED <<name, channel_map, made>>,
         \A r \in Requests : handle'[r] \in {0, handle[r]},
         \A r \in Requests : pc'[r] = "entry" => pc[r] = "entry" /\ handle'[r] = handle[r]
  PROVE  RegistryInv'
<1>1. Registered'
  BY DEF RegistryInv, Registered
<1>2. VacantIsDead'
  BY DEF RegistryInv, VacantIsDead
<1> QED
  BY <1>1, <1>2 DEF RegistryInv

LEMMA RegistryStep == TypeOK /\ RegistryInv /\ [Next]_vars => RegistryInv'
<1> SUFFICES ASSUME TypeOK, RegistryInv, [Next]_vars PROVE RegistryInv'
  OBVIOUS
<1> USE RegistryAssumption
<1>1. ASSUME NEW r \in Requests, Arrive(r) PROVE RegistryInv'
  <2>1. OneInside'
    BY <1>1 DEF Arrive, RegistryInv, OneInside, TypeOK
  <2> QED
    BY <1>1, <2>1, RegistryFrame DEF Arrive, request, TypeOK
<1>2. ASSUME NEW r \in Requests, Find(r) PROVE RegistryInv'
  <2> DEFINE c == Upgrade(name[r])
  <2>1. /\ lock = NoOne /\ lock' = r /\ pc[r] = "lookup"
        /\ pc' = [pc EXCEPT ![r] = "entry"]
        /\ handle' = [handle EXCEPT ![r] = c]
        /\ UNCHANGED <<name, channel_map, made>>
    BY <1>2 DEF Find, MapFree, request
  <2>2. /\ c # 0 => c = channel_map[name[r]]
        /\ c = 0 => \A s \in Requests : name[s] = name[r] => handle[s] = 0
    BY UpgradeFinds DEF RegistryInv, TypeOK
  <2> HIDE DEF c
  <2>3. OneInside'
    BY <2>1 DEF RegistryInv, OneInside, TypeOK
  <2>4. Registered'
    BY <2>1, <2>2 DEF RegistryInv, Registered, TypeOK
  <2>5. VacantIsDead'
    BY <2>1, <2>2 DEF RegistryInv, OneInside, VacantIsDead, TypeOK
  <2> QED
    BY <2>3, <2>4, <2>5 DEF RegistryInv
<1>3. ASSUME NEW r \in Requests, OrInsertWith(r) PROVE RegistryInv'
  <2>1. /\ pc[r] = "entry" /\ pc' = [pc EXCEPT ![r] = "route"]
        /\ lock' = NoOne /\ UNCHANGED name
    BY <1>3 DEF OrInsertWith, Unlock, request
  <2>2. \A s \in Requests : pc'[s] # "entry"
    BY <2>1 DEF RegistryInv, OneInside, TypeOK
  <2>3. VacantIsDead'
    BY <2>2 DEF VacantIsDead
  <2>4. OneInside'
    <3>1. \A s \in Requests \ {r} : handle'[s] = handle[s] /\ pc'[s] = pc[s]
      BY <1>3, <2>1 DEF OrInsertWith, TypeOK
    <3> QED
      BY <2>1, <2>2, <3>1 DEF RegistryInv, OneInside, TypeOK
  <2>5. CASE handle[r] # 0
    <3>1. UNCHANGED <<channel_map, made, handle>>
      BY <1>3, <2>5 DEF OrInsertWith
    <3> QED
      BY <2>1, <2>3, <2>4, <3>1 DEF RegistryInv, Registered
  <2>6. CASE handle[r] = 0
    <3>1. /\ made' = made + 1
          /\ channel_map' = [channel_map EXCEPT ![name[r]] = made + 1]
          /\ handle' = [handle EXCEPT ![r] = made + 1]
      BY <1>3, <2>6 DEF OrInsertWith
    <3>2. \A s \in Requests : name[s] = name[r] => handle[s] = 0
      BY <2>1, <2>6 DEF RegistryInv, VacantIsDead
    <3>3. /\ made \in Nat /\ channel_map \in [Names -> Nat]
          /\ name \in [Requests -> Names] /\ handle \in [Requests -> Nat]
      BY DEF TypeOK
    <3>4. \A s \in Requests : handle'[s] # 0 => handle'[s] = channel_map'[name'[s]]
      BY <2>1, <3>1, <3>2, <3>3 DEF RegistryInv, Registered
    <3>5. \A n \in Names : channel_map'[n] <= made'
      BY <3>1, <3>3 DEF RegistryInv, Registered
    <3>6. \A n, m \in Names :
            channel_map'[n] = channel_map'[m] /\ channel_map'[n] # 0 => n = m
      BY <3>1, <3>3 DEF RegistryInv, Registered
    <3> QED
      BY <2>3, <2>4, <3>4, <3>5, <3>6 DEF RegistryInv, Registered
  <2> QED
    BY <2>5, <2>6
<1>4. ASSUME NEW r \in Requests, Serve(r) PROVE RegistryInv'
  <2>1. OneInside'
    BY <1>4 DEF Serve, RegistryInv, OneInside, TypeOK
  <2> QED
    BY <1>4, <2>1, RegistryFrame DEF Serve, request, TypeOK
<1>5. ASSUME NEW r \in Requests, Reject(r) PROVE RegistryInv'
  <2>1. OneInside'
    BY <1>5 DEF Reject, RegistryInv, OneInside, TypeOK
  <2> QED
    BY <1>5, <2>1, RegistryFrame DEF Reject, request, TypeOK
<1>6. ASSUME NEW r \in Requests, Close(r) PROVE RegistryInv'
  <2>1. OneInside'
    BY <1>6 DEF Close, RegistryInv, OneInside, TypeOK
  <2> QED
    BY <1>6, <2>1, RegistryFrame DEF Close, request, TypeOK
<1>7. CASE UNCHANGED vars
  BY <1>7 DEF vars, RegistryInv, OneInside, Registered, VacantIsDead
<1> QED
  BY <1>1, <1>2, <1>3, <1>4, <1>5, <1>6, <1>7 DEF Next, Answer

LEMMA RegistryAlways == Spec => []RegistryInv
<1>1. Init => RegistryInv
  BY RegistryAssumption DEF Init, RegistryInv, OneInside, Registered, VacantIsDead
<1> QED
  BY <1>1, TypeCorrect, RegistryStep, PTL DEF Spec

(* All requests for one name share one channel, and those for another have *)
(* another one, whatever races with the drop of the last handle.           *)
THEOREM OneChannelPerNameAlways == Spec => []OneChannelPerName
<1>1. TypeOK /\ RegistryInv => OneChannelPerName
  BY DEF TypeOK, RegistryInv, Registered, OneChannelPerName
<1> QED
  BY <1>1, TypeCorrect, RegistryAlways, PTL

=============================================================================
