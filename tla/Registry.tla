------------------------------- MODULE Registry -------------------------------
(***************************************************************************)
(* How the requests of a relay (src/commands/relay.rs) come by their       *)
(* channel: routes is head.or(get).or(post_put), and each of the three     *)
(* looks the name up in channel_map before it tests the method, so that a  *)
(* request may take and drop a handle up to three times. channel_map only  *)
(* holds weak references: a channel lives as long as some request owns a   *)
(* handle, and handles are dropped without the mutex of the map. A lookup  *)
(* is therefore two steps, between which owners may go away.               *)
(*                                                                         *)
(* A channel is identified by the order of its creation; 0 is none.        *)
(***************************************************************************)
EXTENDS Naturals, Sequences

CONSTANTS
  Requests, \* requests to /live/<name>, each made at most once
  Names,    \* the names they ask for
  NoOne     \* the holder of a free mutex

ASSUME RegistryAssumption == NoOne \notin Requests

VARIABLES
  name, method, \* of each request
  channel_map,  \* for each name the channel its weak reference points to
  lock,         \* who holds the Mutex around channel_map
  made,         \* number of channels created so far
  pc,           \* new, lookup, entry (mutex held), route, open, done
  route,        \* position in routes of the filter being tried
  handle        \* the channel each request owns a handle of

vars == <<name, method, channel_map, lock, made, pc, route, handle>>
request == <<name, method>>

Methods == {"HEAD", "GET", "POST", "PUT", "DELETE"}

(* The method filters of head, get and post_put.                           *)
routes == <<{"HEAD"}, {"GET"}, {"POST", "PUT"}>>

Init ==
  /\ name \in [Requests -> Names]
  /\ method \in [Requests -> Methods]
  /\ channel_map = [n \in Names |-> 0]
  /\ lock = NoOne
  /\ made = 0
  /\ pc = [r \in Requests |-> "new"]
  /\ route = [r \in Requests |-> 1]
  /\ handle = [r \in Requests |-> 0]

Arrive(r) ==
  /\ pc[r] = "new"
  /\ pc' = [pc EXCEPT ![r] = "lookup"]
  /\ UNCHANGED <<request, channel_map, lock, made, route, handle>>

(* The table's lookup: a reference whose channel is dead counts as none.   *)
Upgrade(n) ==
  IF \E r \in Requests : handle[r] = channel_map[n] THEN channel_map[n] ELSE 0

(* Mutant: the map is searched before the mutex is taken.                  *)
MapFreeIgnored == TRUE

MapFree == lock = NoOne

(* channel_map.lock().unwrap().entry(name)                                 *)
Find(r) ==
  /\ pc[r] = "lookup"
  /\ MapFree
  /\ lock' = r
  /\ pc' = [pc EXCEPT ![r] = "entry"]
  /\ handle' = [handle EXCEPT ![r] = Upgrade(name[r])]
  /\ UNCHANGED <<request, channel_map, made, route>>

(* Mutant: the guard of the mutex outlives a lookup that found nothing.    *)
UnlockIfFound(r) == lock' = IF handle[r] # 0 THEN NoOne ELSE lock

Unlock(r) == lock' = NoOne

(* .or_insert_with(Channel::new), and the end of the mutex's guard.        *)
OrInsertWith(r) ==
  /\ pc[r] = "entry"
  /\ pc' = [pc EXCEPT ![r] = "route"]
  /\ Unlock(r)
  /\ IF handle[r] # 0
     THEN UNCHANGED <<channel_map, made, handle>>
     ELSE /\ made' = made + 1
          /\ channel_map' = [channel_map EXCEPT ![name[r]] = made']
          /\ handle' = [handle EXCEPT ![r] = made']
  /\ UNCHANGED <<request, route>>

(* The method fits. HEAD answers at once and drops its handle; GET gives   *)
(* it to a Listener, POST and PUT to a Transmitter, for the whole stream.  *)
Serve(r) ==
  /\ pc[r] = "route"
  /\ method[r] \in routes[route[r]]
  /\ IF route[r] = 1
     THEN /\ pc' = [pc EXCEPT ![r] = "done"]
          /\ handle' = [handle EXCEPT ![r] = 0]
     ELSE /\ pc' = [pc EXCEPT ![r] = "open"]
          /\ UNCHANGED handle
  /\ UNCHANGED <<request, channel_map, lock, made, route>>

NextRouteExists(r) == route[r] < Len(routes)

(* It does not: the handle is dropped and the next route, if there is one, *)
(* looks the name up again.                                                *)
Reject(r) ==
  /\ pc[r] = "route"
  /\ method[r] \notin routes[route[r]]
  /\ handle' = [handle EXCEPT ![r] = 0]
  /\ IF NextRouteExists(r)
     THEN /\ route' = [route EXCEPT ![r] = @ + 1]
          /\ pc' = [pc EXCEPT ![r] = "lookup"]
     ELSE /\ pc' = [pc EXCEPT ![r] = "done"]
          /\ UNCHANGED route
  /\ UNCHANGED <<request, channel_map, lock, made>>

(* The stream of a viewer or an uploader is over.                          *)
Close(r) ==
  /\ pc[r] = "open"
  /\ pc' = [pc EXCEPT ![r] = "done"]
  /\ handle' = [handle EXCEPT ![r] = 0]
  /\ UNCHANGED <<request, channel_map, lock, made, route>>

Answer(r) == Find(r) \/ OrInsertWith(r) \/ Serve(r) \/ Reject(r)

Next == \E r \in Requests : Arrive(r) \/ Answer(r) \/ Close(r)

Spec == Init /\ [][Next]_vars

(* The server works on every request it has accepted.                      *)
Fairness == \A r \in Requests : WF_vars(Answer(r))

-----------------------------------------------------------------------------
TypeOK ==
  /\ name \in [Requests -> Names]
  /\ method \in [Requests -> Methods]
  /\ channel_map \in [Names -> Nat]
  /\ lock \in Requests \cup {NoOne}
  /\ made \in Nat
  /\ pc \in [Requests -> {"new", "lookup", "entry", "route", "open", "done"}]
  /\ route \in [Requests -> 1..3]
  /\ handle \in [Requests -> Nat]

(* Viewers and uploaders of one name are never parted, those of different  *)
(* names never joined: all handles of a name are of one channel, however   *)
(* its lookups race with the last owner going away (channel, in run).      *)
OneChannelPerName ==
  \A r, s \in Requests : handle[r] # 0 /\ handle[s] # 0 =>
    (handle[r] = handle[s] <=> name[r] = name[s])

(* Every request is answered: the lookups wait only for each other, and    *)
(* no viewer or uploader, however long it stays, holds up the mutex.       *)
RequestsAnswered ==
  \A r \in Requests : pc[r] = "lookup" ~> pc[r] \in {"open", "done"}

=============================================================================
