---------------------------- MODULE GatewayBadge ----------------------------
(***************************************************************************)
(* The gateway's badge on a dashboard, on top of Ingestion.                *)
(*                                                                         *)
(* Three hands move it: the status announced by the backend, pushed and    *)
(* asked for again every two seconds; every batch of readings, from LoRa   *)
(* or not; and the dashboard's own watchdog of 25 s.  A push and the       *)
(* answer to a poll are one step here, and take over what was announced    *)
(* last.                                                                   *)
(***************************************************************************)
EXTENDS Ingestion

CONSTANTS
  BadgeTimeout,    (* seconds without a packet that put the badge out (25) *)
  MaxBatches       (* bound: batches of readings at the dashboard          *)

ASSUME GatewayBadgeAssumption ==
  /\ BadgeTimeout \in 1 .. PacketTimeout
  /\ MaxBatches \in Nat

VARIABLES
  everHeard,       (* the backend's lastLoraPacketAt is not null           *)
  connected,       (* the dashboard's socket                               *)
  loraGatewayConnected,
  lastHeard,       (* is lastLoraPacketAt known to the dashboard, and its  *)
                   (* age in seconds up to BadgeTimeout                    *)
  batches

badge == <<loraGatewayConnected, lastHeard>>
badgeVars == <<ingestionVars, everHeard, connected, badge, batches>>

BadgeInit ==
  /\ IngestionInit
  /\ everHeard = FALSE
  /\ connected = FALSE
  /\ loraGatewayConnected = FALSE
  /\ lastHeard = [known |-> FALSE, age |-> BadgeTimeout]
  /\ batches = 0

UpTo(bound, age) == IF age < bound THEN age ELSE bound

IngestionStep ==
  /\ IngestionNext
  /\ everHeard' = (everHeard \/ packetAge' = 0)
  /\ lastHeard' = IF checkDue' /\ ~ checkDue
                  THEN [lastHeard EXCEPT !.age = UpTo(BadgeTimeout, @ + 1)]
                  ELSE lastHeard
  /\ UNCHANGED <<connected, loraGatewayConnected, batches>>

SocketChanges ==
  /\ connected' = ~ connected
  /\ UNCHANGED <<ingestionVars, everHeard, badge, batches>>

\* Mutation: the badge is only ever lit.
TakenOverIfOnline == loraGatewayConnected \/ announcedStatus = "online"
TakenOver == announcedStatus = "online"

\* The whole status replaces the dashboard's, its time of the last packet too.
HandleGatewayStatus ==
  /\ connected
  /\ loraGatewayConnected' = TakenOver
  /\ lastHeard' = [known |-> everHeard, age |-> UpTo(BadgeTimeout, packetAge)]
  /\ UNCHANGED <<ingestionVars, everHeard, connected, batches>>

ProcessSensorUpdates ==
  /\ connected
  /\ batches < MaxBatches
  /\ batches' = batches + 1
  /\ loraGatewayConnected' = TRUE
  /\ lastHeard' = [known |-> TRUE, age |-> 0]
  /\ UNCHANGED <<ingestionVars, everHeard, connected>>

\* It needs a time: a gateway known from the client count alone has none.
GwWatchdog ==
  /\ lastHeard = [known |-> TRUE, age |-> BadgeTimeout]
  /\ loraGatewayConnected
  /\ loraGatewayConnected' = FALSE
  /\ UNCHANGED <<ingestionVars, everHeard, connected, lastHeard, batches>>

BadgeNext ==
  \/ IngestionStep
  \/ SocketChanges
  \/ HandleGatewayStatus
  \/ ProcessSensorUpdates
  \/ GwWatchdog

BadgeSpec ==
  /\ BadgeInit
  /\ [][BadgeNext]_badgeVars
  /\ Fairness
  /\ WF_badgeVars(HandleGatewayStatus)
  /\ WF_badgeVars(GwWatchdog)

-----------------------------------------------------------------------------
\* A simulation that streams lights the card as well.
GatewayCard(simStreaming) ==
  IF loraGatewayConnected \/ simStreaming THEN "Gateway Connected" ELSE "Not Connected"

(***************************************************************************)
(* ingestion.service.ts:217, "1-second watchdog to quickly detect physical *)
(* LoRa gateway timeout/disconnect": a gateway that stays silent, and that *)
(* the broker does not count, does not stay online: neither in the latest  *)
(* announcement nor on the card of a dashboard that is connected, though   *)
(* readings of other sources light it in between -- unless a client count  *)
(* lifted an explicit offline (217-238; RealtimeContext 211-227,           *)
(* 1101-1108, 1284-1290, 1332-1337).                                       *)
(***************************************************************************)
LossIsSeen ==
  <>[](GatewayGone /\ ~ overridden /\ connected) =>
    <>[](announcedStatus # "online" /\ GatewayCard(FALSE) = "Not Connected")

=============================================================================
