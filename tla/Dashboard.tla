----------------------------- MODULE Dashboard -----------------------------
(***************************************************************************)
(* One dashboard (RealtimeContext) fed by RealtimeGateway: buffers of      *)
(* 250 ms, rooms, snapshots on joining, a socket that keeps its order and  *)
(* may break, a backend that may restart, purges and the simulation.       *)
(*                                                                         *)
(* A message stands for its Protobuf and its JSON form, sent one after the *)
(* other, and for the batches of all zones of a flush: applying one twice  *)
(* changes nothing here.  A node is a node in a zone, which is how entries *)
(* are found.  It has one sensor; its value is the number of the reading.  *)
(* A map of entries is a function on the nodes it has.  Of predictions it  *)
(* counts here only which nodes have one.                                  *)
(***************************************************************************)
EXTENDS Naturals, Sequences

CONSTANTS
  Node,
  Zone,
  ZoneOf,        (* the zone of each node                                  *)
  SimNode,       (* the nodes of the built-in simulation                   *)
  DemoNode,      (* nodes the demo buttons predict, in the zone they take  *)
  MaxReadings,   (* bound: readings, all nodes together                    *)
  MaxPredictions, (* bound: predictions of the backend                     *)
  MaxOutages,    (* bound: announcements that are not due to a reading     *)
  MaxDrops,      (* bound: how often the connection breaks                 *)
  MaxClicks,     (* bound: purges and switches of the simulation           *)
  MaxUpsets      (* bound: predictions, outages, drops, clicks together    *)

ASSUME DashboardAssumption ==
  /\ ZoneOf \in [Node -> Zone]
  /\ SimNode \subseteq Node
  /\ DemoNode \subseteq Node
  /\ "get_zones" \notin Zone    \* a request of its own
  /\ {MaxReadings, MaxPredictions, MaxOutages, MaxDrops, MaxClicks, MaxUpsets} \subseteq Nat

VARIABLES
  (* The backend. *)
  snapshot,        (* the latest reading of each node                      *)
  statusSnapshot,  (* the status of each node announced so far             *)
  shadowPredictions, (* the nodes it has a prediction of                   *)
  updates,         (* updateSubject's buffer: the last reading of each     *)
  statusUpdates,   (* statusSubject's buffer: the nodes' own records       *)
  (* The socket. *)
  rooms,           (* rooms the client's socket is in                      *)
  requests,        (* from the client                                      *)
  messages,        (* to the client, in order                              *)
  connected,
  (* The dashboard. *)
  joined,          (* joinedZonesRef                                       *)
  activeZones,
  readings,
  nodeStatuses,
  mlPredictions,   (* the nodes it has a prediction of                     *)
  simulating,      (* isSimulationActive                                   *)
  (* Histories. *)
  made,            (* readings processed                                   *)
  predicted,       (* predictions of the backend                           *)
  outages, drops, clicks,
  touched          (* entries the dashboard removed or made up by itself   *)
                   (* since the backend last sent them                     *)

backend == <<snapshot, statusSnapshot, shadowPredictions, updates, statusUpdates>>
socket == <<rooms, requests, messages, connected>>
client == <<joined, activeZones, readings, nodeStatuses, mlPredictions, simulating>>
counts == <<made, predicted, outages, drops, clicks>>
vars == <<backend, socket, client, counts, touched>>

Simulated == 0    \* a value of the simulation; readings count from 1
Empty == <<>>     \* a map without entries

\* The entries of new, and those of old that new does not replace.
Merged(new, old) ==
  [n \in DOMAIN new \cup DOMAIN old |-> IF n \in DOMAIN new THEN new[n] ELSE old[n]]
Single(n, value) == [m \in {n} |-> value]
Only(map, nodes) == [n \in DOMAIN map \cap nodes |-> map[n]]
InZones(zones) == {n \in Node : ZoneOf[n] \in zones}
SimZones == {ZoneOf[n] : n \in SimNode}
ZonesOf(map) == {ZoneOf[n] : n \in DOMAIN map}

Entry == Node \X {"reading", "status"}
Entries(map, kind) == (DOMAIN map) \X {kind}

MayUpset == predicted + outages + drops + clicks < MaxUpsets

Init ==
  /\ snapshot = Empty
  /\ statusSnapshot = Empty
  /\ shadowPredictions = {}
  /\ updates = Empty
  /\ statusUpdates = {}
  /\ rooms = {}
  /\ requests = {}
  /\ messages = <<>>
  /\ connected = FALSE
  /\ joined = {}
  /\ activeZones = {}
  /\ readings = Empty
  /\ nodeStatuses = Empty
  /\ mlPredictions = {}
  /\ simulating = FALSE
  /\ made = 0
  /\ predicted = 0
  /\ outages = 0
  /\ drops = 0
  /\ clicks = 0
  /\ touched = {}

-----------------------------------------------------------------------------
(***************************************************************************)
(* The backend: events in, batches out.                                    *)
(***************************************************************************)
\* Mutation: the buffer keeps the first of several readings of a node.
BufferedFirst(n, value) == Merged(updates, Single(n, value))
Buffered(n, value) == Merged(Single(n, value), updates)

\* ProcessingService announces a node that comes back, not one that is new.
HandleDedupedReading(n) ==
  /\ made < MaxReadings
  /\ made' = made + 1
  /\ snapshot' = Merged(Single(n, made'), snapshot)
  /\ updates' = Buffered(n, made')
  /\ IF n \in DOMAIN statusSnapshot /\ statusSnapshot[n] = "offline"
     THEN /\ statusSnapshot' = [statusSnapshot EXCEPT ![n] = "online"]
          /\ statusUpdates' = statusUpdates \cup {n}
     ELSE UNCHANGED <<statusSnapshot, statusUpdates>>
  /\ UNCHANGED <<shadowPredictions, socket, client, predicted, outages, drops, clicks, touched>>

\* The watchdog, a gap, a node's own message, its last will.
HandleNodeStatusChanged(n, status) ==
  /\ MayUpset /\ outages < MaxOutages
  /\ outages' = outages + 1
  /\ statusSnapshot' = Merged(Single(n, status), statusSnapshot)
  /\ statusUpdates' = statusUpdates \cup {n}
  /\ UNCHANGED <<snapshot, shadowPredictions, updates, socket, client, made, predicted, drops, clicks, touched>>

\* Protobuf and JSON handlers of readings and statuses take the same maps; the
\* JSON copy of what just came as protobuf is ignored.
Message(zones, r, s, p) == [zones |-> zones, readings |-> r, statuses |-> s, predictions |-> p]

\* A node's window has readings.  Its prediction goes to every client.
HandleMlPrediction(n) ==
  /\ MayUpset /\ predicted < MaxPredictions
  /\ n \in DOMAIN snapshot
  /\ predicted' = predicted + 1
  /\ shadowPredictions' = shadowPredictions \cup {n}
  /\ messages' = IF connected THEN Append(messages, Message({}, Empty, Empty, {n})) ELSE messages
  /\ UNCHANGED <<snapshot, statusSnapshot, updates, statusUpdates, rooms, requests, connected, client,
                 made, outages, drops, clicks, touched>>

\* To the client, if it is in the rooms of these nodes.
Broadcast(r, s) ==
  LET mine == InZones(rooms)
      message == Message(ZonesOf(Only(r, mine)) \cup ZonesOf(Only(s, mine)), Only(r, mine), Only(s, mine), {})
  IN messages' = IF message.zones = {} THEN messages ELSE Append(messages, message)

FlushUpdates ==
  /\ updates # Empty
  /\ updates' = Empty
  /\ Broadcast(updates, Empty)
  /\ UNCHANGED <<snapshot, statusSnapshot, shadowPredictions, statusUpdates, rooms, requests, connected, client, counts, touched>>

FlushStatusUpdates ==
  /\ statusUpdates # {}
  /\ statusUpdates' = {}
  /\ Broadcast(Empty, Only(statusSnapshot, statusUpdates))
  /\ UNCHANGED <<snapshot, statusSnapshot, shadowPredictions, updates, rooms, requests, connected, client, counts, touched>>

KnownZones == ZonesOf(snapshot) \cup ZonesOf(statusSnapshot) \cup {ZoneOf[n] : n \in shadowPredictions}

HandleGetZones ==
  /\ "get_zones" \in requests
  /\ requests' = requests \ {"get_zones"}
  /\ messages' = Append(messages, Message(KnownZones, Empty, Empty, {}))
  /\ UNCHANGED <<backend, rooms, connected, client, counts, touched>>

SnapshotForZone(z) ==
  Message({z}, Only(snapshot, InZones({z})), Only(statusSnapshot, InZones({z})),
          shadowPredictions \cap InZones({z}))

HandleJoinZone(z) ==
  /\ z \in requests
  /\ requests' = requests \ {z}
  /\ rooms' = rooms \cup {z}
  /\ messages' = Append(messages, SnapshotForZone(z))
  /\ UNCHANGED <<backend, connected, client, counts, touched>>

-----------------------------------------------------------------------------
(***************************************************************************)
(* The connection.                                                         *)
(***************************************************************************)
HandleConnect ==
  /\ ~ connected
  /\ connected' = TRUE
  /\ requests' = {"get_zones"}
  /\ UNCHANGED <<backend, rooms, messages, client, counts, touched>>

\* The interval of two seconds; bound: the one before was answered.
Poll ==
  /\ connected
  /\ requests = {}
  /\ messages = <<>>
  /\ requests' = {"get_zones"}
  /\ UNCHANGED <<backend, rooms, messages, connected, client, counts, touched>>

\* Mutation: the client still thinks it is in its rooms.
JoinedAfterDropKept == joined
JoinedAfterDrop == {}

Disconnected ==
  /\ MayUpset /\ drops < MaxDrops
  /\ drops' = drops + 1
  /\ connected' = FALSE
  /\ rooms' = {}
  /\ requests' = {}
  /\ messages' = <<>>
  /\ joined' = JoinedAfterDrop
  /\ UNCHANGED <<activeZones, readings, nodeStatuses, mlPredictions, simulating, made, predicted, outages,
                 clicks, touched>>

\* The transport breaks, or the operator clicks reconnect.
HandleDisconnect ==
  /\ connected
  /\ Disconnected
  /\ UNCHANGED backend

\* The backend keeps nothing of this.
BackendRestarts ==
  /\ Disconnected
  /\ snapshot' = Empty
  /\ statusSnapshot' = Empty
  /\ shadowPredictions' = {}
  /\ updates' = Empty
  /\ statusUpdates' = {}

-----------------------------------------------------------------------------
(***************************************************************************)
(* Messages at the dashboard: active_zones, snapshots, readings, statuses  *)
(* and predictions differ in what they carry.                              *)
(***************************************************************************)
\* Every message joins the zones it names, once for each connection.
HearOf(zones) ==
  /\ activeZones' = activeZones \cup zones
  /\ requests' = requests \cup (zones \ joined)
  /\ joined' = joined \cup zones

Receive ==
  LET message == Head(messages) IN
  /\ messages # <<>>
  /\ messages' = Tail(messages)
  /\ HearOf(message.zones)
  /\ readings' = Merged(message.readings, readings)
  /\ nodeStatuses' = Merged(message.statuses, nodeStatuses)
  /\ mlPredictions' = mlPredictions \cup message.predictions
  /\ touched' = touched \ (Entries(message.readings, "reading") \cup Entries(message.statuses, "status"))
  /\ UNCHANGED <<backend, rooms, connected, simulating, counts>>

-----------------------------------------------------------------------------
(***************************************************************************)
(* What the dashboard does to its own state.                               *)
(***************************************************************************)
\* The interval of 30 s: a node not online for five minutes, if there is one.
PurgeStale(n) ==
  /\ n \in DOMAIN nodeStatuses
  /\ nodeStatuses[n] # "online"
  /\ nodeStatuses' = Only(nodeStatuses, Node \ {n})
  /\ touched' = touched \cup {<<n, "status">>}
  /\ UNCHANGED <<backend, socket, joined, activeZones, readings, mlPredictions, simulating, counts>>

Click == MayUpset /\ clicks < MaxClicks /\ clicks' = clicks + 1

\* The predictions stay.  So do the joined zones: the answer to get_zones
\* brings no snapshot.
ClearCache ==
  /\ Click
  /\ readings' = Empty
  /\ nodeStatuses' = Empty
  /\ simulating' = FALSE
  /\ requests' = IF connected THEN requests \cup {"get_zones"} ELSE requests
  /\ touched' = Entry
  /\ UNCHANGED <<backend, rooms, messages, connected, joined, activeZones, mlPredictions, made, predicted,
                 outages, drops>>

\* What was simulated stays when the simulation is switched off.
ToggleSimulation ==
  /\ Click
  /\ simulating' = ~ simulating
  /\ IF simulating
     THEN UNCHANGED <<readings, nodeStatuses, mlPredictions, activeZones, touched>>
     ELSE /\ readings' = Empty
          /\ nodeStatuses' = Empty
          /\ mlPredictions' = {}
          /\ activeZones' = SimZones
          /\ touched' = Entry
  /\ UNCHANGED <<backend, socket, joined, made, predicted, outages, drops>>

\* A node the buttons name, known or not.
TriggerDemoMlEvent(n) ==
  /\ Click
  /\ mlPredictions' = mlPredictions \cup {n}
  /\ UNCHANGED <<backend, socket, joined, activeZones, readings, nodeStatuses, simulating, made, predicted,
                 outages, drops, touched>>

\* Values for all sensors of the nodes, risk in one zone and calm in the other;
\* the predictions replace those of their zones.
SimReadings == [n \in SimNode |-> Simulated]

GenerateSimBatch ==
  /\ simulating
  /\ readings' = Merged(SimReadings, readings)
  /\ nodeStatuses' = Merged([n \in SimNode |-> "online"], nodeStatuses)
  /\ mlPredictions' = (mlPredictions \ InZones(SimZones)) \cup SimNode
  /\ touched' = touched \cup (SimNode \X {"reading", "status"})
  /\ UNCHANGED <<backend, socket, joined, activeZones, simulating, counts>>

Next ==
  \/ \E n \in Node : HandleDedupedReading(n) \/ HandleMlPrediction(n) \/ PurgeStale(n)
  \/ \E n \in Node, status \in {"online", "offline"} : HandleNodeStatusChanged(n, status)
  \/ FlushUpdates
  \/ FlushStatusUpdates
  \/ HandleGetZones
  \/ \E z \in Zone : HandleJoinZone(z)
  \/ HandleConnect
  \/ Poll
  \/ HandleDisconnect
  \/ BackendRestarts
  \/ Receive
  \/ ClearCache
  \/ ToggleSimulation
  \/ \E n \in DemoNode : TriggerDemoMlEvent(n)
  \/ GenerateSimBatch

\* Timers of the backend, the socket, and the dashboard's poll.
Fairness ==
  /\ WF_vars(FlushUpdates)
  /\ WF_vars(FlushStatusUpdates)
  /\ WF_vars(HandleGetZones)
  /\ \A z \in Zone : WF_vars(HandleJoinZone(z))
  /\ WF_vars(HandleConnect)
  /\ WF_vars(Poll)
  /\ WF_vars(Receive)

Spec == Init /\ [][Next]_vars /\ Fairness

-----------------------------------------------------------------------------
MapOf(values) == UNION {[nodes -> values] : nodes \in SUBSET Node}
Status == {"online", "offline"}
MessageType == [zones : SUBSET Zone, readings : MapOf(Nat), statuses : MapOf(Status),
                predictions : SUBSET Node]

ServiceOK ==
  /\ snapshot \in MapOf(1 .. made)
  /\ updates \in MapOf(1 .. made)
  /\ statusSnapshot \in MapOf(Status)
  /\ statusUpdates \subseteq DOMAIN statusSnapshot
  /\ shadowPredictions \subseteq DOMAIN snapshot

SocketOK ==
  /\ connected \in BOOLEAN
  /\ rooms \subseteq Zone
  /\ requests \subseteq Zone \cup {"get_zones"}
  /\ messages \in Seq(MessageType)

ScreenOK ==
  /\ joined \subseteq Zone
  /\ activeZones \subseteq Zone
  /\ readings \in MapOf(0 .. made)
  /\ nodeStatuses \in MapOf(Status)
  /\ mlPredictions \subseteq Node
  /\ simulating \in BOOLEAN
  /\ touched \subseteq Entry

TypeOK ==
  /\ made \in Nat /\ predicted \in Nat /\ outages \in Nat /\ drops \in Nat /\ clicks \in Nat
  /\ ServiceOK
  /\ SocketOK
  /\ ScreenOK

(***************************************************************************)
(* A zone the dashboard thinks it joined sends it updates, or is about to: *)
(* it asks for a zone once only (joinedZonesRef 1007-1017, 1002-1005;      *)
(* handleJoinZone).                                                        *)
(***************************************************************************)
JoinedIsServed ==
  connected => joined \subseteq rooms \cup requests

(***************************************************************************)
(* A reading on the screen is never replaced by an older one, although a   *)
(* snapshot may overtake the batch that holds the same reading (handleJoin *)
(* Zone 69-86, flushUpdates 190-213, handleSnapshot 1019-1079).            *)
(***************************************************************************)
NeverOlder ==
  [][\A n \in DOMAIN readings \cap DOMAIN readings' :
       readings'[n] # Simulated => readings'[n] >= readings[n]]_vars

=============================================================================
