------------------------------ MODULE Telemetry ------------------------------
(***************************************************************************)
(* Nodes, the at-least-once MQTT path and the processing service.          *)
(*                                                                         *)
(* A node numbers its packets from 1 after every boot; a packet carries    *)
(* one reading per channel, each published with QoS 1.  A message may be   *)
(* lost before it reaches the broker, delayed past later ones, and         *)
(* delivered again while the publisher or the broker has not seen its      *)
(* acknowledgement.  How long that can be is the constant                  *)
(* RedeliveryWindow, counted in readings of the node stored meanwhile.     *)
(***************************************************************************)
EXTENDS Processing, FiniteSets, SequencesExt

CONSTANTS
  MaxSeq,            (* bound: packets of one boot                         *)
  MaxBoots,          (* bound: boots of one node                           *)
  RedeliveryWindow   (* readings stored before a redelivery at the latest  *)

ASSUME TelemetryAssumption ==
  /\ MaxSeq \in Nat
  /\ MaxBoots \in Nat \ {0}
  /\ RedeliveryWindow \in Nat
  /\ 1 .. MaxSeq \subseteq SeqNum

VARIABLES
  boot,      (* boot each node is in                                       *)
  nextSeq,   (* number of each node's next packet                          *)
  network,   (* messages that may still be delivered                       *)
  arrived,   (* messages handed to handleSensorReading at least once       *)
  origin     (* the message behind each stored reading, parallel to it     *)

linkVars == <<boot, nextSeq, network, arrived, origin>>
allVars == <<vars, linkVars>>

Message == [node : Node, boot : 1 .. MaxBoots, sensor : Sensor, seq : 1 .. MaxSeq]

TelemetryInit ==
  /\ Init
  /\ boot = [n \in Node |-> 1]
  /\ nextSeq = [n \in Node |-> 1]
  /\ network = {}
  /\ arrived = {}
  /\ origin = [n \in Node |-> <<>>]

Transmit(n) ==
  /\ nextSeq[n] <= MaxSeq
  /\ network' = network \cup
       [node : {n}, boot : {boot[n]}, sensor : Sensor, seq : {nextSeq[n]}]
  /\ nextSeq' = [nextSeq EXCEPT ![n] = @ + 1]
  /\ UNCHANGED <<vars, boot, arrived, origin>>

Reboot(n) ==
  /\ boot[n] < MaxBoots
  /\ boot' = [boot EXCEPT ![n] = @ + 1]
  /\ nextSeq' = [nextSeq EXCEPT ![n] = 1]
  /\ UNCHANGED <<vars, network, arrived, origin>>

Lose(m) ==
  /\ network' = network \ {m}
  /\ UNCHANGED <<vars, boot, nextSeq, arrived, origin>>

IsRedeliverable(m) ==
  LET stored == origin[m.node]
  IN  \A i \in DOMAIN stored : stored[i] = m => Len(stored) - i <= RedeliveryWindow

\* The handler runs on m; the message may stay deliverable (its PUBACK was
\* lost) or not.
Deliver(m) ==
  LET r == [node |-> m.node, zone |-> zone[m.node], sensor |-> m.sensor, seq |-> m.seq]
  IN
  /\ IsRedeliverable(m)
  /\ HandleSensorReading(r)
  /\ network' \in {network, network \ {m}}
  /\ arrived' = arrived \cup {m}
  /\ origin' = IF readings'[m.node] # readings[m.node]
               THEN [origin EXCEPT ![m.node] = Append(@, m)]
               ELSE origin
  /\ UNCHANGED <<boot, nextSeq>>

\* Status messages, the watchdog and time, with all of this going on.
NodeStatus == (\E u \in StatusUpdate : HandleNodeStatus(u)) /\ UNCHANGED linkVars
Watchdog == CheckStaleNodes /\ UNCHANGED linkVars
TimePasses == Tick /\ UNCHANGED linkVars

TelemetryNext ==
  \/ \E n \in Node : Transmit(n) \/ Reboot(n)
  \/ \E m \in network : Lose(m) \/ Deliver(m)
  \/ NodeStatus
  \/ Watchdog
  \/ TimePasses

TelemetrySpec == TelemetryInit /\ [][TelemetryNext]_allVars

-----------------------------------------------------------------------------
(***************************************************************************)
(* No transmitted reading is stored twice (docs/Rules.md:17,               *)
(* docs/PRD.md:21).  Holds while redeliveries come before SeenCap other    *)
(* readings of the node; beyond that the key has been evicted.             *)
(***************************************************************************)
StoredOnce == \A n \in Node : IsInjective(origin[n])

(***************************************************************************)
(* Every reading that reached the backend is stored: deduplication only    *)
(* drops copies (docs/PRD.md:18, "without the backend dropping or silently *)
(* losing readings").                                                      *)
(***************************************************************************)
StoresAllOf(n) == {m \in arrived : m.node = n} \subseteq Range(origin[n])

ArrivedIsStoredWithinBoot == \A n \in Node : boot[n] = 1 => StoresAllOf(n)

(***************************************************************************)
(* gapCount against the truth: the packets of which nothing arrived,       *)
(* numbered between the first one stored and any later one that arrived.   *)
(***************************************************************************)
ArrivedSeqs(n) == {m.seq : m \in {x \in arrived : x.node = n}}

Lost(n) ==
  {q \in 1 .. MaxSeq \ ArrivedSeqs(n) :
     \E above \in ArrivedSeqs(n) : origin[n][1].seq < q /\ q < above}

(***************************************************************************)
(* No gap goes unrecorded (docs/Rules.md:18): before a reboot, gapCount is *)
(* never less than the packets lost, whatever was reordered or repeated.   *)
(***************************************************************************)
GapCountCoversLoss ==
  \A n \in Node : boot[n] = 1 => gapCount[n] >= Cardinality(Lost(n))

=============================================================================
