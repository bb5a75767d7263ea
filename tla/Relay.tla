-------------------------------- MODULE Relay --------------------------------
(***************************************************************************)
(* A channel with its viewers (get_stream in src/commands/relay.rs): what  *)
(* each Listener is handed goes through a StartingPointFinder of its own   *)
(* (src/fixers.rs) before it reaches the client. The chunks, the uploads   *)
(* and the evictions are those of Channel; times, and with them the        *)
(* ChunkTimecodeFixer in between, are the subject of Viewer.               *)
(***************************************************************************)
EXTENDS Channel

CONSTANT Readers  \* the listeners whose clients keep reading

ASSUME ReadersAssumption == Readers \subseteq Listeners

VARIABLES
  keyed,         \* serials of the clusters that contain a keyframe
  seen_header,   \* the StartingPointFinder of each listener
  seen_keyframe,
  sent           \* what each client has been sent

viewerVars == <<keyed, seen_header, seen_keyframe, sent>>
relayVars  == <<vars, viewerVars>>

RelayInit ==
  /\ Init
  /\ keyed = {}
  /\ seen_header = [l \in Listeners |-> FALSE]
  /\ seen_keyframe = [l \in Listeners |-> FALSE]
  /\ sent = [l \in Listeners |-> << >>]

(* Mutant: any cluster will do for a start.                                *)
PassesAlways(l, c) == seen_header[l]

(* Mutant: a keyframe does not make the viewer start.                      *)
PassesNever(l, c) == seen_keyframe[l]

(* A cluster is forwarded if it has a keyframe or follows one that has.    *)
Passes(l, c) == seen_keyframe[l] \/ c.serial \in keyed

(* StartingPointFinder::poll_next on a Headers chunk, and on a cluster.    *)
FindInHeaders(l, c) ==
  /\ IsHeaders(c)
  /\ IF seen_header[l]
     THEN /\ seen_keyframe' = [seen_keyframe EXCEPT ![l] = FALSE]
          /\ UNCHANGED <<seen_header, sent>>
     ELSE /\ seen_header' = [seen_header EXCEPT ![l] = TRUE]
          /\ sent' = [sent EXCEPT ![l] = Append(@, c)]
          /\ UNCHANGED seen_keyframe

FindInCluster(l, c) ==
  /\ ~IsHeaders(c)
  /\ seen_keyframe' = [seen_keyframe EXCEPT ![l] = Passes(l, c)]
  /\ sent' = IF Passes(l, c) THEN [sent EXCEPT ![l] = Append(@, c)] ELSE sent
  /\ UNCHANGED seen_header

(* The client's response is polled: the Listener, then the finder.         *)
ViewerPoll(l) ==
  \/ /\ PollChunk(l)
     /\ FindInHeaders(l, Head(queue[l])) \/ FindInCluster(l, Head(queue[l]))
     /\ UNCHANGED keyed
  \/ PollEnd(l) /\ UNCHANGED viewerVars

(* An uploader sends a chunk; a cluster may contain a keyframe.            *)
RelaySend(t, c) ==
  /\ SendBegin(t, c)
  /\ keyed' \in {keyed} \cup {keyed \cup {n} : n \in {c.serial} \ {c.init}}
  /\ UNCHANGED <<seen_header, seen_keyframe, sent>>

RelaySendStep == SendStep /\ UNCHANGED viewerVars

Connections ==
  /\ \/ \E t \in Transmitters : TransmitterNew(t) \/ TransmitterDrop(t)
     \/ \E l \in Listeners : ListenerNew(l) \/ ListenerDrop(l)
  /\ UNCHANGED viewerVars

RelayNext ==
  \/ Connections
  \/ \E t \in Transmitters : \E i \in {txInit[t], published + 1} :
       RelaySend(t, [serial |-> published + 1, init |-> i])
  \/ RelaySendStep
  \/ \E l \in Listeners : ViewerPoll(l)

RelayFairness ==
  /\ WF_relayVars(RelaySendStep)
  /\ \A l \in Readers : WF_relayVars(ViewerPoll(l))

RelaySpec == RelayInit /\ [][RelayNext]_relayVars /\ RelayFairness

-----------------------------------------------------------------------------
(* One initialization segment, at the front; then clusters of which each   *)
(* has a keyframe or continues the one before it, of the same upload.      *)
Playable(s) ==
  \A i \in 1..Len(s) :
    IF i = 1 THEN IsHeaders(s[1])
    ELSE /\ ~IsHeaders(s[i])
         /\ \/ s[i].serial \in keyed
            \/ /\ i > 2
               /\ s[i].serial = s[i - 1].serial + 1
               /\ s[i].init = s[i - 1].init

(* What a client gets can be played, while uploads do not overlap: joining *)
(* in mid-stream, evictions and any succession of uploads included         *)
(* (Transmitter::send, Listener::new, StartingPointFinder::poll_next).     *)
PlayableAtClient == \A l \in Listeners : Playable(sent[l])

(* A client that keeps reading gets every cluster with a keyframe accepted *)
(* after it joined, unless its connection ends: waiting for a safe spot to *)
(* resume never lasts beyond the next one.                                 *)
KeyframesReachClient ==
  \A l \in Readers : \A n \in 1..MaxChunks :
    (status[l] = "open" /\ from[l] < n /\ n <= published /\ n \in keyed)
      ~> (status[l] = "gone" \/ \E i \in 1..Len(sent[l]) : sent[l][i].serial = n)

=============================================================================
