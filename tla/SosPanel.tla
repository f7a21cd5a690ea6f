------------------------------ MODULE SosPanel ------------------------------
(***************************************************************************)
(* The SOS buttons of one node on one dashboard: a command is shown before *)
(* the backend knows of it, and without a connection or in the simulation  *)
(* its acknowledgement is made up.                                         *)
(***************************************************************************)
EXTENDS Naturals, Sequences

CONSTANTS
  Level,           (* EdgeAlertLevel                                       *)
  None,
  MaxToggles,      (* bound: switches of the simulation                    *)
  MaxClicks,       (* bound: SOS buttons clicked                           *)
  MaxOther,        (* bound: commands of other dashboards                  *)
  MaxDrops,        (* bound: how often the connection breaks               *)
  MaxLosses        (* bound: how often the backend loses the broker        *)

ASSUME SosPanelAssumption ==
  /\ None \notin Level
  /\ {MaxToggles, MaxClicks, MaxOther, MaxDrops, MaxLosses} \subseteq Nat

VARIABLES
  connected,
  simulating,      (* isSimulationActive                                   *)
  toggles,
  dispatching,     (* the button that says Sending                         *)
  sendingTimers,   (* timers that will end it                              *)
  ackTimers,       (* commands whose acknowledgement will be simulated     *)
  actuator,        (* edgeActuatorStates of the node                       *)
  clicked,         (* commands of this dashboard                           *)
  pretended,       (* history: those with a simulated acknowledgement      *)
  onTheirWay,      (* of them, to the backend                              *)
  others,          (* commands of other dashboards                         *)
  recorded,        (* the backend's latest command, 0 for none             *)
  waiting,         (* those it is still publishing, to be announced then   *)
  overtaken,       (* history: the latest was announced past older ones    *)
  acked,           (* commands the node acknowledged                       *)
  events,          (* on their way to the dashboard, in order              *)
  drops,
  broker,          (* isBrokerConnected                                    *)
  losses

panel == <<dispatching, sendingTimers, ackTimers, actuator, clicked, pretended>>
commands == <<others, recorded, waiting, overtaken, acked>>
service == <<onTheirWay, commands, events>>
link == <<broker, losses>>
vars == <<connected, simulating, toggles, panel, service, drops, link>>

NoState == [origin |-> "none", command |-> 0, acked |-> FALSE]

Init ==
  /\ connected = FALSE
  /\ simulating = FALSE
  /\ toggles = 0
  /\ dispatching = None
  /\ sendingTimers = 0
  /\ ackTimers = {}
  /\ actuator = NoState
  /\ clicked = 0
  /\ pretended = {}
  /\ onTheirWay = <<>>
  /\ others = 0
  /\ recorded = 0
  /\ waiting = {}
  /\ overtaken = FALSE
  /\ acked = {}
  /\ events = <<>>
  /\ drops = 0
  /\ broker = FALSE
  /\ losses = 0

-----------------------------------------------------------------------------
(***************************************************************************)
(* The SOS buttons.                                                        *)
(***************************************************************************)
Command(origin, c, isAcked) == [origin |-> origin, command |-> c, acked |-> isAcked]

\* The badge above the buttons.
Header ==
  IF actuator.origin = "none" THEN "no state" ELSE IF actuator.acked THEN "ACK" ELSE "Pending"

\* Only the button of the level being sent is disabled, and says so.
IsDispatching(level) == dispatching = level

\* Shown at once, under a number of the dashboard's own; sent if there is a
\* connection.
DispatchEdgeAlert(c) ==
  /\ actuator' = Command("local", c, FALSE)
  /\ onTheirWay' = IF connected THEN Append(onTheirWay, c) ELSE onTheirWay
  /\ IF simulating \/ ~ connected
     THEN ackTimers' = ackTimers \cup {c} /\ pretended' = pretended \cup {c}
     ELSE UNCHANGED <<ackTimers, pretended>>

HandleClick(level) ==
  /\ ~ IsDispatching(level)
  /\ clicked < MaxClicks
  /\ clicked' = clicked + 1
  /\ dispatching' = level
  /\ sendingTimers' = sendingTimers + 1
  /\ DispatchEdgeAlert(clicked')
  /\ UNCHANGED <<connected, simulating, toggles, commands, events, drops, link>>

\* 1.5 s after a click, whichever level is being sent by then.
SendingEnds ==
  /\ sendingTimers > 0
  /\ sendingTimers' = sendingTimers - 1
  /\ dispatching' = None
  /\ UNCHANGED <<connected, simulating, toggles, ackTimers, actuator, clicked, pretended, service, drops, link>>

\* Mutation: the command shown is acknowledged, whichever it is.
AcknowledgedAny(c) == [actuator EXCEPT !.acked = TRUE]
Acknowledged(c) ==
  IF actuator.origin = "local" /\ actuator.command = c
  THEN [actuator EXCEPT !.acked = TRUE]
  ELSE actuator

SimulateAck(c) ==
  /\ c \in ackTimers
  /\ ackTimers' = ackTimers \ {c}
  /\ actuator' = Acknowledged(c)
  /\ UNCHANGED <<connected, simulating, toggles, dispatching, sendingTimers, clicked, pretended, service, drops, link>>

\* Started and stopped by its button, stopped by a purge of the caches; of
\* the SOS state neither clears anything.
ToggleSimulation ==
  /\ toggles < MaxToggles
  /\ toggles' = toggles + 1
  /\ simulating' = ~ simulating
  /\ UNCHANGED <<connected, panel, service, drops, link>>

-----------------------------------------------------------------------------
(***************************************************************************)
(* EdgeAlertService as a dashboard sees it (module EdgeAlert).  A dispatch *)
(* is announced when both its publishes have their PUBACK, and they come   *)
(* in the order of the dispatches.  Without the broker it is announced at  *)
(* once, past those that wait for the broker to return.                    *)
(***************************************************************************)
Tell(c, isAcked) ==
  events' = IF connected THEN Append(events, Command("backend", c, isAcked)) ELSE events

RecordDispatch ==
  /\ recorded' = recorded + 1
  /\ overtaken' = (~ broker /\ waiting # {})
  /\ IF broker
     THEN waiting' = waiting \cup {recorded'} /\ UNCHANGED events
     ELSE Tell(recorded', FALSE) /\ UNCHANGED waiting

\* Another dashboard's command.
OtherDispatch ==
  /\ others < MaxOther
  /\ others' = others + 1
  /\ RecordDispatch
  /\ UNCHANGED <<connected, simulating, toggles, panel, onTheirWay, acked, drops, link>>

HandleDispatch ==
  /\ onTheirWay # <<>>
  /\ onTheirWay' = Tail(onTheirWay)
  /\ RecordDispatch
  /\ UNCHANGED <<connected, simulating, toggles, panel, others, acked, drops, link>>

IsOldest(c) == c \in waiting /\ \A d \in waiting : c <= d

AnnounceDispatch ==
  /\ broker
  /\ \E c \in waiting :
       /\ IsOldest(c)
       /\ waiting' = waiting \ {c}
       /\ Tell(c, c \in acked)
  /\ UNCHANGED <<connected, simulating, toggles, panel, onTheirWay, others, recorded, overtaken, acked, drops, link>>

BrokerConnect ==
  /\ ~ broker
  /\ broker' = TRUE
  /\ UNCHANGED <<connected, simulating, toggles, panel, service, drops, losses>>

BrokerLost ==
  /\ broker
  /\ losses < MaxLosses
  /\ losses' = losses + 1
  /\ broker' = FALSE
  /\ UNCHANGED <<connected, simulating, toggles, panel, service, drops>>

\* An acknowledgement of an older command changes nothing.  That the command
\* was sent at all is left to module EdgeAlert.
HandleAlertAck ==
  /\ broker
  /\ recorded > 0
  /\ recorded \notin acked
  /\ acked' = acked \cup {recorded}
  /\ Tell(recorded, TRUE)
  /\ UNCHANGED <<connected, simulating, toggles, panel, onTheirWay, others, recorded, waiting, overtaken, drops, link>>

ReceiveEvent ==
  /\ events # <<>>
  /\ events' = Tail(events)
  /\ actuator' = Head(events)
  /\ UNCHANGED <<connected, simulating, toggles, dispatching, sendingTimers, ackTimers, clicked, pretended,
                 onTheirWay, commands, drops, link>>

\* edge_alert:state_batch.  Mutation: not sent.
StateBatchNone == <<>>
StateBatch ==
  IF recorded = 0 THEN <<>> ELSE <<Command("backend", recorded, recorded \in acked)>>

HandleConnection ==
  /\ ~ connected
  /\ connected' = TRUE
  /\ events' = StateBatch
  /\ UNCHANGED <<simulating, toggles, panel, onTheirWay, commands, drops, link>>

HandleDisconnect ==
  /\ connected
  /\ drops < MaxDrops
  /\ drops' = drops + 1
  /\ connected' = FALSE
  /\ onTheirWay' = <<>>
  /\ events' = <<>>
  /\ UNCHANGED <<simulating, toggles, panel, commands, link>>

-----------------------------------------------------------------------------
Next ==
  \/ ToggleSimulation
  \/ \E level \in Level : HandleClick(level)
  \/ SendingEnds
  \/ \E c \in ackTimers : SimulateAck(c)
  \/ HandleDispatch
  \/ OtherDispatch
  \/ AnnounceDispatch
  \/ BrokerConnect
  \/ BrokerLost
  \/ HandleAlertAck
  \/ ReceiveEvent
  \/ HandleConnection
  \/ HandleDisconnect

\* What the event loops do with what has arrived, and PUBACKs while there is
\* a broker; the socket reconnects.
Fairness ==
  /\ WF_vars(HandleDispatch)
  /\ WF_vars(AnnounceDispatch)
  /\ WF_vars(ReceiveEvent)
  /\ WF_vars(HandleConnection)

Spec == Init /\ [][Next]_vars /\ Fairness

-----------------------------------------------------------------------------
Actuator == {NoState} \cup [origin : {"local", "backend"}, command : Nat \ {0}, acked : BOOLEAN]

FlagsOK ==
  /\ connected \in BOOLEAN
  /\ simulating \in BOOLEAN
  /\ broker \in BOOLEAN
  /\ overtaken \in BOOLEAN

QueuesOK ==
  /\ onTheirWay \in Seq(1 .. clicked)
  /\ events \in Seq(Actuator)

\* Types; a state is of some command, nothing is heard of a node without one.
TypeOK ==
  /\ FlagsOK
  /\ dispatching \in Level \cup {None}
  /\ sendingTimers \in Nat /\ toggles \in Nat /\ drops \in Nat /\ losses \in Nat
  /\ clicked \in Nat /\ recorded \in Nat
  /\ ackTimers \subseteq pretended
  /\ pretended \subseteq 1 .. clicked
  /\ actuator \in Actuator
  /\ waiting \subseteq 1 .. recorded
  /\ acked \subseteq 1 .. recorded
  /\ QueuesOK

(***************************************************************************)
(* A command shown as acknowledged was acknowledged by the node, unless it *)
(* was given without a connection or in the simulation, which pretends     *)
(* (dispatchEdgeAlert, 1492-1560).                                         *)
(***************************************************************************)
AckShownIsReal ==
  Header = "ACK" =>
    actuator.command \in IF actuator.origin = "local" THEN pretended ELSE acked

(***************************************************************************)
(* Once its connection and the backend's to the broker hold, the dashboard *)
(* comes to show the command the backend has on record, whatever it showed *)
(* meanwhile, unless that command was dispatched without the broker while  *)
(* older ones waited for it: these are announced after it, and one of them *)
(* may stay on the panel (1308-1324; edge-alert.service.ts 98-117;         *)
(* realtime.gateway.ts 46-51, 170-187).                                    *)
(***************************************************************************)
ShowsRecord ==
  recorded # 0 =>
    /\ actuator.origin = "backend"
    /\ actuator.command = recorded
    /\ Header = IF recorded \in acked THEN "ACK" ELSE "Pending"

PanelCatchesUp == <>[] (connected /\ broker /\ ~ overtaken) => <>[] ShowsRecord

=============================================================================
