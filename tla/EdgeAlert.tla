------------------------------ MODULE EdgeAlert ------------------------------
(***************************************************************************)
(* SOS commands from the operator to the nodes and back.                   *)
(*                                                                         *)
(* EdgeAlertService.dispatchEdgeAlert records the command, then awaits two *)
(* QoS 1 publishes, then emits 'edge.alert.dispatched'.  The second one    *)
(* goes to the LoRa gateway, which broadcasts it to every node; a node     *)
(* applies it and acknowledges it.  Broadcasts and acknowledgements may be *)
(* lost; a publish is repeated when the broker connection is lost before   *)
(* its PUBACK.                                                             *)
(*                                                                         *)
(* Commands are numbered in the order of their dispatch.  The dispatch     *)
(* history (the latest 50 of them) is a suffix of issued and not kept      *)
(* separately.                                                             *)
(***************************************************************************)
EXTENDS Naturals, Sequences

CONSTANTS
  Node,          (* nodeIds, all within reach of the gateway               *)
  Level,         (* alert levels; a node boots in "NORMAL"                 *)
  MaxCommands,   (* bound: commands dispatched                             *)
  MaxLosses,     (* bound: losses of the backend's broker connection       *)
  MaxRestarts    (* bound: restarts of nodes and of the backend            *)

ASSUME EdgeAlertAssumption ==
  /\ "NORMAL" \in Level
  /\ MaxCommands \in Nat
  /\ MaxLosses \in Nat
  /\ MaxRestarts \in Nat

VARIABLES
  issued,      (* commands dispatched: their node and level                *)
  recorded,    (* nodeActuatorStates: latest command of each node, or 0    *)
  acked,       (* commands whose state object has acknowledged = true      *)
  connected,   (* isBrokerConnected                                        *)
  outgoing,    (* publishes without a PUBACK, in order                     *)
  received,    (* how many of those the broker has on this connection      *)
  view,        (* command in each node's latest event to dashboards, or 0  *)
  shownAcked,  (* nodes whose latest event says acknowledged               *)
  gatewayUp,   (* the gateway is subscribed at the broker                  *)
  radio,       (* command in each node's receiver, or 0                    *)
  physical,    (* command each node's actuators follow, 0 after its boot   *)
  applied,     (* history: commands each node has applied                  *)
  acks,        (* acknowledgements on their way                            *)
  losses,      (* broker connections lost so far                           *)
  restarts     (* restarts so far                                          *)

shown == <<view, shownAcked>>
backend == <<issued, recorded, acked, shown>>
link == <<connected, outgoing, received, losses>>
field == <<gatewayUp, radio, physical, applied>>
vars == <<backend, link, field, acks, restarts>>

Command == 1 .. MaxCommands

Order == [node : Node, level : Level]

Publication == [cmd : Nat, topic : {"alert", "downlink"}]

Init ==
  /\ issued = <<>>
  /\ recorded = [n \in Node |-> 0]
  /\ acked = {}
  /\ connected = FALSE
  /\ outgoing = <<>>
  /\ received = 0
  /\ view = [n \in Node |-> 0]
  /\ shownAcked = {}
  /\ gatewayUp = FALSE
  /\ radio = [n \in Node |-> 0]
  /\ physical = [n \in Node |-> 0]
  /\ applied = [n \in Node |-> {}]
  /\ acks = {}
  /\ losses = 0
  /\ restarts = 0

-----------------------------------------------------------------------------
(***************************************************************************)
(* The backend.                                                            *)
(***************************************************************************)
\* Mutation: put in front of the publishes that wait already.
PublishFirst(queue, c, topic) == <<[cmd |-> c, topic |-> topic]>> \o queue
Publish(queue, c, topic) == Append(queue, [cmd |-> c, topic |-> topic])

\* An event shows a node's state object to every dashboard.
Show(n, c, isAcked) ==
  /\ view' = [view EXCEPT ![n] = c]
  /\ shownAcked' = IF isAcked THEN shownAcked \cup {n} ELSE shownAcked \ {n}

\* 'edge.alert.dispatched' carries the object made at dispatch, with whatever
\* an acknowledgement has changed in it since.
EmitDispatched(c) == Show(issued'[c].node, c, c \in acked)

\* The synchronous part of dispatchEdgeAlert.  Without a connection both
\* publishes reject at once, and the call runs to its end.
Dispatch(n, level) ==
  LET c == Len(issued) + 1
  IN
  /\ Len(issued) < MaxCommands
  /\ issued' = Append(issued, [node |-> n, level |-> level])
  /\ recorded' = [recorded EXCEPT ![n] = c]
  /\ IF connected
     THEN /\ outgoing' = Publish(outgoing, c, "alert")
          /\ UNCHANGED shown
     ELSE /\ EmitDispatched(c)
          /\ UNCHANGED outgoing
  /\ UNCHANGED <<acked, connected, received, losses, field, acks, restarts>>

\* Mutation: published again after every PUBACK.
HasNextAlways(m) == TRUE
HasNext(m) == m.topic = "alert"

\* A PUBACK resolves the oldest publish: the dispatch goes on with its second
\* publish, or ends.
Puback ==
  LET m == Head(outgoing)
  IN
  /\ connected
  /\ received > 0
  /\ received' = received - 1
  /\ IF HasNext(m)
     THEN /\ outgoing' = Publish(Tail(outgoing), m.cmd, "downlink")
          /\ UNCHANGED <<issued, shown>>
     ELSE /\ outgoing' = Tail(outgoing)
          /\ UNCHANGED issued
          /\ EmitDispatched(m.cmd)
  /\ UNCHANGED <<recorded, acked, connected, losses, field, acks, restarts>>

\* Mutation: the command of an acknowledgement is not compared.
ConfirmsAny(n, c) == recorded[n] # 0
Confirms(n, c) == recorded[n] # 0 /\ recorded[n] = c

\* The acknowledgement matches two subscriptions and may come twice.
HandleAlertAck(n, c) ==
  /\ connected
  /\ <<n, c>> \in acks
  /\ acks' \in {acks, acks \ {<<n, c>>}}
  /\ IF Confirms(n, c)
     THEN /\ acked' = acked \cup {recorded[n]}
          /\ Show(n, recorded[n], TRUE)
     ELSE UNCHANGED <<acked, shown>>
  /\ UNCHANGED <<issued, recorded, link, field, restarts>>

\* What the broker had received of the session is void.
SessionLost == received' = 0

\* States, history and publishes are kept in memory; a dashboard merges the
\* empty batch it is sent into what it has.
BackendRestart ==
  /\ restarts < MaxRestarts
  /\ restarts' = restarts + 1
  /\ recorded' = [n \in Node |-> 0]
  /\ connected' = FALSE
  /\ outgoing' = <<>>
  /\ SessionLost
  /\ UNCHANGED <<issued, acked, shown, losses, field, acks>>

-----------------------------------------------------------------------------
(***************************************************************************)
(* Broker and gateway.                                                     *)
(***************************************************************************)
BrokerConnect ==
  /\ ~ connected
  /\ connected' = TRUE
  /\ UNCHANGED <<backend, outgoing, received, losses, field, acks, restarts>>

\* What has no PUBACK will be sent again.
BrokerLost ==
  /\ connected
  /\ losses < MaxLosses
  /\ losses' = losses + 1
  /\ connected' = FALSE
  /\ SessionLost
  /\ UNCHANGED <<backend, outgoing, field, acks, restarts>>

\* mqttCallback broadcasts; each node hears it or not.
Broadcast(c) ==
  \E heard \in SUBSET Node :
    radio' = [n \in Node |-> IF n \in heard THEN c ELSE radio[n]]

BrokerReceive ==
  LET m == outgoing[received + 1]
  IN
  /\ connected
  /\ received < Len(outgoing)
  /\ received' = received + 1
  /\ IF m.topic = "downlink" /\ gatewayUp
     THEN Broadcast(m.cmd)
     ELSE UNCHANGED radio
  /\ UNCHANGED <<backend, connected, outgoing, losses, gatewayUp, physical,
                 applied, acks, restarts>>

GatewayChange ==
  /\ gatewayUp' = ~ gatewayUp
  /\ UNCHANGED <<backend, link, radio, physical, applied, acks, restarts>>

-----------------------------------------------------------------------------
(***************************************************************************)
(* Nodes.                                                                  *)
(***************************************************************************)
\* The LoRa task: the command is for "ALL", so it is for this node; the
\* acknowledgement is lost or not.
NodeApply(n) ==
  LET c == radio[n]
  IN
  /\ c # 0
  /\ radio' = [radio EXCEPT ![n] = 0]
  /\ physical' = [physical EXCEPT ![n] = c]
  /\ applied' = [applied EXCEPT ![n] = @ \cup {c}]
  /\ acks' \in {acks, acks \cup {<<n, c>>}}
  /\ UNCHANGED <<backend, link, gatewayUp, restarts>>

NodeReboot(n) ==
  /\ restarts < MaxRestarts
  /\ restarts' = restarts + 1
  /\ radio' = [radio EXCEPT ![n] = 0]
  /\ physical' = [physical EXCEPT ![n] = 0]
  /\ UNCHANGED <<backend, link, gatewayUp, applied, acks>>

Next ==
  \/ \E n \in Node, level \in Level : Dispatch(n, level)
  \/ Puback
  \/ \E n \in Node, c \in Command : HandleAlertAck(n, c)
  \/ BackendRestart
  \/ BrokerConnect \/ BrokerLost \/ BrokerReceive \/ GatewayChange
  \/ \E n \in Node : NodeApply(n) \/ NodeReboot(n)

\* The MQTT client reconnects by itself, and the broker answers.
Fairness == WF_vars(BrokerConnect) /\ WF_vars(BrokerReceive) /\ WF_vars(Puback)

Spec == Init /\ [][Next]_vars /\ Fairness

-----------------------------------------------------------------------------
TypeOK ==
  /\ issued \in Seq(Order)
  /\ recorded \in [Node -> Nat]
  /\ acked \subseteq Nat
  /\ connected \in BOOLEAN
  /\ outgoing \in Seq(Publication)
  /\ received \in 0 .. Len(outgoing)
  /\ view \in [Node -> Nat]
  /\ shownAcked \subseteq Node
  /\ gatewayUp \in BOOLEAN
  /\ radio \in [Node -> Nat]
  /\ physical \in [Node -> Nat]
  /\ applied \in [Node -> SUBSET Nat]
  /\ acks \subseteq Node \X Nat
  /\ losses \in Nat
  /\ restarts \in Nat

(***************************************************************************)
(* An acknowledged state means the node has carried out that very command, *)
(* whatever was lost, repeated or overtaken (handleAlertAck, 123-139).     *)
(***************************************************************************)
AckMeansApplied ==
  \A n \in Node : recorded[n] \in acked => recorded[n] \in applied[n]

(***************************************************************************)
(* An acknowledgement that comes before its dispatch has ended is not      *)
(* undone for dashboards by the event that ends it: the same object is     *)
(* sent both times (61-73, 115, 129-137).                                  *)
(***************************************************************************)
ViewKeepsAck ==
  \A n \in Node : n \in shownAcked <=> view[n] \in acked

Idle(n) == \A i \in 1 .. Len(outgoing) : issued[outgoing[i].cmd].node # n

Undisturbed == losses = 0 /\ restarts = 0

(***************************************************************************)
(* As long as no connection is lost and nothing restarts, concurrent       *)
(* dispatches end in the order they were made: with none under way,        *)
(* dashboards show the command on record.                                  *)
(***************************************************************************)
ViewFollowsRecord ==
  Undisturbed => \A n \in Node : Idle(n) => view[n] = recorded[n]

(***************************************************************************)
(* Nor does a node go back to an older command.                            *)
(***************************************************************************)
NodeNeverGoesBack ==
  [][Undisturbed' => \A n \in Node : physical'[n] >= physical[n]]_vars

(***************************************************************************)
(* Every dispatch ends, however often the connection was lost meanwhile.   *)
(***************************************************************************)
UnderWay(c) == \E i \in DOMAIN outgoing : outgoing[i].cmd = c

DispatchEnds == \A c \in Command : UnderWay(c) ~> ~ UnderWay(c)

(***************************************************************************)
(* The abstract register of SosRegister, with the network hidden.          *)
(***************************************************************************)
Register == INSTANCE SosRegister WITH
  count <- Len(issued), ordered <- recorded,
  carriedOut <- applied, confirmed <- acked

ImplementsRegister == Register!Spec

=============================================================================
