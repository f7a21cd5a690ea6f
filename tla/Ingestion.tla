------------------------------ MODULE Ingestion ------------------------------
(***************************************************************************)
(* How the IngestionService decides whether the LoRa gateway is there.     *)
(*                                                                         *)
(* Four sources disagree with one another: LoRa packets, the gateway's own *)
(* status and last-will messages, the broker's count of connected clients  *)
(* ($SYS), and silence, which a watchdog samples every second.  Every      *)
(* handler is one atomic step of the event loop.                           *)
(*                                                                         *)
(* Readings and statuses on mine/# topics pass through to Processing       *)
(* unchanged and touch nothing here.  A LoRa packet also carries readings; *)
(* only the 'node.status.received' events are kept, in told.               *)
(***************************************************************************)
EXTENDS Naturals, Sequences, SequencesExt

CONSTANTS
  LoraNode,        (* nodeIds of LoRa nodes                                *)
  DefaultNode,     (* 'NODE_01', used when no node is known                *)
  GhostNode,       (* the nodeId decoded from text of 54 bytes or more     *)
  PacketTimeout    (* seconds a packet proves the gateway present (30)     *)

ASSUME IngestionAssumption ==
  /\ DefaultNode \in LoraNode
  /\ GhostNode \notin LoraNode
  /\ PacketTimeout \in Nat \ {0}

VARIABLES
  brokerConnected,   (* isBrokerConnected                                  *)
  clientConnected,   (* isGatewayClientConnected                           *)
  seenActivity,      (* hasSeenAnyGatewayActivity                          *)
  explicitOffline,   (* isGatewayExplicitlyOffline                         *)
  packetAge,         (* seconds since lastLoraPacketAt, PacketTimeout if   *)
                     (* longer or never                                    *)
  activeNodes,       (* activeLoraNodes, in insertion order                *)
  lastKnownStatus,   (* what the watchdog last saw                         *)
  checkDue,          (* the one-second watchdog is due                     *)
  announcedStatus,   (* status in the latest 'gateway.status.changed',     *)
                     (* which RealtimeService serves to every dashboard    *)
  told,              (* status in the latest 'node.status.received'        *)
  singled,           (* history: an offline report named a single node, and *)
                     (* they have not been told together since              *)
  overridden         (* history: a client count lifted an explicit offline *)
                     (* and the gateway has not been heard since           *)

gateway == <<clientConnected, seenActivity, explicitOffline, packetAge, activeNodes>>
watchdog == <<lastKnownStatus, checkDue>>
history == <<singled, overridden>>
ingestionVars == <<brokerConnected, gateway, watchdog, announcedStatus, told, history>>

AnyNode == LoraNode \cup {GhostNode}

IngestionInit ==
  /\ brokerConnected = FALSE
  /\ clientConnected = FALSE
  /\ seenActivity = FALSE
  /\ explicitOffline = FALSE
  /\ packetAge = PacketTimeout
  /\ activeNodes = <<>>
  /\ lastKnownStatus = "standby"
  /\ checkDue = FALSE
  /\ announcedStatus = "standby"
  /\ told = [n \in AnyNode |-> "nothing"]
  /\ singled = FALSE
  /\ overridden = FALSE

-----------------------------------------------------------------------------
\* getGatewayStatus().
GatewayConnected ==
  /\ clientConnected \/ packetAge < PacketTimeout
  /\ ~ explicitOffline

Status ==
  IF GatewayConnected THEN "online"
  ELSE IF seenActivity \/ explicitOffline THEN "offline"
  ELSE "standby"

\* emitGatewayStatus(), after every assignment of the step.  Mutation: before
\* them.
EmitGatewayStatusBefore == announcedStatus' = Status
EmitGatewayStatus == announcedStatus' = Status'

Tell(nodes, s) == told' = [n \in AnyNode |-> IF n \in nodes THEN s ELSE told[n]]

TellActive == Tell(Range(activeNodes), "offline") /\ singled' = FALSE

AddNode(n) == IF Contains(activeNodes, n) THEN activeNodes ELSE Append(activeNodes, n)

RecordLoraGatewayActivity(n) ==
  /\ clientConnected' = TRUE
  /\ seenActivity' = TRUE
  /\ explicitOffline' = FALSE
  /\ packetAge' = 0
  /\ activeNodes' = AddNode(n)
  /\ overridden' = FALSE
  /\ EmitGatewayStatus

-----------------------------------------------------------------------------
(***************************************************************************)
(* The broker connection.                                                  *)
(***************************************************************************)
BrokerConnect ==
  /\ ~ brokerConnected
  /\ brokerConnected' = TRUE
  /\ UNCHANGED gateway
  /\ EmitGatewayStatus
  /\ UNCHANGED <<watchdog, told, history>>

BrokerLost ==
  /\ brokerConnected
  /\ brokerConnected' = FALSE
  /\ UNCHANGED gateway
  /\ EmitGatewayStatus
  /\ UNCHANGED <<watchdog, told, history>>

(***************************************************************************)
(* Messages.                                                               *)
(***************************************************************************)
\* $SYS/broker/clients/connected: the backend is one client; any other one
\* counts as a gateway.
ClientCount(others) ==
  /\ brokerConnected
  /\ clientConnected' = others
  /\ seenActivity' = (seenActivity \/ others)
  /\ explicitOffline' = (explicitOffline /\ ~ others)
  /\ overridden' = (overridden \/ (others /\ explicitOffline))
  /\ UNCHANGED <<packetAge, activeNodes>>
  /\ IF clientConnected # others THEN EmitGatewayStatus ELSE UNCHANGED announcedStatus
  /\ UNCHANGED <<brokerConnected, watchdog, told, singled>>

\* A status or last-will message on a gateway topic.
GatewayOffline ==
  /\ brokerConnected
  /\ explicitOffline' = TRUE
  /\ UNCHANGED <<clientConnected, seenActivity, packetAge, activeNodes>>
  /\ EmitGatewayStatus
  /\ TellActive
  /\ UNCHANGED <<brokerConnected, watchdog, overridden>>

GatewayOnline ==
  /\ brokerConnected
  /\ RecordLoraGatewayActivity(IF activeNodes = <<>> THEN DefaultNode ELSE Head(activeNodes))
  /\ UNCHANGED <<brokerConnected, watchdog, told, singled>>

\* A struct, or a JSON reading short enough not to be taken for one.
LoraPacket(n) ==
  /\ brokerConnected
  /\ RecordLoraGatewayActivity(n)
  /\ Tell({n}, "online")
  /\ UNCHANGED <<brokerConnected, watchdog, singled>>

\* A short JSON message that says offline, with or without a node's name.
LoraOffline ==
  /\ brokerConnected
  /\ explicitOffline' = TRUE
  /\ UNCHANGED <<clientConnected, seenActivity, packetAge, activeNodes>>
  /\ EmitGatewayStatus
  /\ \/ \E n \in LoraNode : Tell({n}, "offline") /\ singled' = TRUE
     \/ activeNodes = <<>> /\ Tell({DefaultNode}, "offline") /\ UNCHANGED singled
     \/ activeNodes # <<>> /\ TellActive
  /\ UNCHANGED <<brokerConnected, watchdog, overridden>>

\* Text of 54 bytes or more under sensors/lora is decoded as a struct.  The
\* backend's own commands on sensors/lora/downlink come back to it this way.
TextAsStruct ==
  /\ brokerConnected
  /\ RecordLoraGatewayActivity(GhostNode)
  /\ Tell({GhostNode}, "online")
  /\ UNCHANGED <<brokerConnected, watchdog, singled>>

-----------------------------------------------------------------------------
Older(age) == IF age < PacketTimeout THEN age + 1 ELSE age

SecondPasses ==
  /\ ~ checkDue
  /\ checkDue' = TRUE
  /\ packetAge' = Older(packetAge)
  /\ UNCHANGED <<brokerConnected, clientConnected, seenActivity, explicitOffline,
                 activeNodes, lastKnownStatus, announcedStatus, told, history>>

SeesChange == Status # lastKnownStatus

\* Mutation: the wrong edge.
SeesReturn == lastKnownStatus = "offline" /\ Status = "online"
SeesLoss == lastKnownStatus = "online" /\ Status = "offline"

WatchdogCheck ==
  /\ checkDue
  /\ checkDue' = FALSE
  /\ lastKnownStatus' = Status
  /\ UNCHANGED gateway
  /\ IF SeesChange THEN EmitGatewayStatus ELSE UNCHANGED announcedStatus
  /\ IF SeesLoss THEN TellActive ELSE UNCHANGED <<told, singled>>
  /\ UNCHANGED <<brokerConnected, overridden>>

IngestionNext ==
  \/ BrokerConnect \/ BrokerLost
  \/ \E others \in BOOLEAN : ClientCount(others)
  \/ GatewayOffline \/ GatewayOnline
  \/ \E n \in LoraNode : LoraPacket(n)
  \/ LoraOffline
  \/ TextAsStruct
  \/ SecondPasses \/ WatchdogCheck

\* Both timers belong to the event loop, which never stops serving them.
Fairness == WF_ingestionVars(SecondPasses) /\ WF_ingestionVars(WatchdogCheck)

IngestionSpec == IngestionInit /\ [][IngestionNext]_ingestionVars /\ Fairness

-----------------------------------------------------------------------------
IngestionTypeOK ==
  /\ brokerConnected \in BOOLEAN
  /\ clientConnected \in BOOLEAN
  /\ seenActivity \in BOOLEAN
  /\ explicitOffline \in BOOLEAN
  /\ packetAge \in 0 .. PacketTimeout
  /\ activeNodes \in Seq(AnyNode)
  /\ lastKnownStatus \in {"online", "offline", "standby"}
  /\ announcedStatus \in {"online", "offline", "standby"}
  /\ checkDue \in BOOLEAN
  /\ told \in [AnyNode -> {"nothing", "online", "offline"}]
  /\ singled \in BOOLEAN
  /\ overridden \in BOOLEAN

(***************************************************************************)
(* Dashboards are given the latest announcement (RealtimeService caches    *)
(* it), never getGatewayStatus itself.  Once the watchdog has sampled the  *)
(* current status it has been announced, whichever handlers, counts and    *)
(* timeouts came in between -- unless a client count lifted an explicit    *)
(* offline, which changes the status without announcing it and can hide    *)
(* two changes between two samples (295-312, 217-238).                     *)
(***************************************************************************)
AnnouncedIsCurrent == lastKnownStatus = Status /\ ~ overridden => announcedStatus = Status

GatewayGone == ~ clientConnected /\ packetAge = PacketTimeout

(***************************************************************************)
(* The nodes of a gateway that stays silent and uncounted do not stay      *)
(* online either, but for a report naming a single one (217-238, 374-382). *)
(***************************************************************************)
LossReachesNodes ==
  <>[](GatewayGone /\ ~ singled) => <>[](\A n \in Range(activeNodes) : told[n] # "online")

=============================================================================
