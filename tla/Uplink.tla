------------------------------- MODULE Uplink -------------------------------
(***************************************************************************)
(* From the sensors of one LoRa node to the readings of the backend.       *)
(*                                                                         *)
(* The node runs three things at once: the loop on core 1, which shows the *)
(* alert and samples the sensors; the LoRa task on core 0, which applies   *)
(* downlinks and transmits what the loop queued; and the ESP-NOW callback, *)
(* which notes that a miner's beacon is near.  The gateway forwards frames *)
(* over MQTT with QoS 0; the backend decodes them and holds the last value *)
(* of a sensor without a plausible one.                                    *)
(*                                                                         *)
(* A sample is named by the packet it was taken for, a MAC address by the  *)
(* beacon that brought it, and a field of the alert by the command that    *)
(* wrote it.  Nothing is assumed of the speed of the three.                *)
(***************************************************************************)
EXTENDS Naturals, Sequences

CONSTANTS
  QueueLength,   (* xQueueCreate(5, ...)                                   *)
  SeqLimit,      (* numbers above it are read as 16 bits, 50000000         *)
  SeqWidth,      (* 2^16                                                   *)
  None,
  Ack,           (* the frame that acknowledges a command                  *)
  Substitute,    (* 25.0 degrees and 65.0 per cent                         *)
  Samples,       (* bound: for each boot and each of its packets, how the  *)
                 (* sensors may do                                         *)
  MaxBeacons,    (* bound: ESP-NOW beacons                                 *)
  MaxCommands,   (* bound: downlinks for the node                          *)
  MaxBreaks      (* bound: connections the gateway loses                   *)

\* The accelerometer, for all that is held when it fails, and the DHT22.
NodeSensor == {"motion", "climate"}

\* A sensor gives a value, an implausible one, or none.
SensorStates == [NodeSensor -> {"good", "implausible", "failed"}]

ASSUME UplinkAssumption ==
  /\ QueueLength \in Nat \ {0}
  /\ SeqLimit \in Nat
  /\ SeqWidth \in Nat \ {0}
  /\ Samples \in Seq(Seq(SUBSET SensorStates)) /\ Samples # <<>>
  /\ {MaxBeacons, MaxCommands, MaxBreaks} \subseteq Nat
  /\ None # Ack

VARIABLES
  (* The node. *)
  boots,         (* boots so far                                           *)
  packetSent,
  loopAt,        (* what the loop does next                                *)
  payload,       (* the packet it is making                                *)
  queue,         (* sensorQueue                                            *)
  lastMac,       (* last_mac: the latest beacon, 0 for none                *)
  hasNewEspNow,  (* hasNewEspNowData                                       *)
  callbackAt,    (* "idle", or "stored" between address and flag           *)
  alert,         (* alertColor, alertBuzzerMode, alertLedPattern           *)
  shown,         (* what LED and buzzer do                                 *)
  taskAt,        (* what the LoRa task does next                           *)
  command,       (* the downlink it applies                                *)
  stateMutex,    (* held by the LoRa task                                  *)
  (* Between node and backend. *)
  radio,         (* the frame the gateway's radio holds                    *)
  mqtt,          (* "up", "stale" while only the gateway believes it, "down" *)
  inFlight,      (* packets published and not yet handled                  *)
  (* The backend. *)
  lastKnown,     (* lastKnownReadings: the sample held of each sensor, or None *)
  received,      (* history: the readings, one entry per packet            *)
  (* History and bounds. *)
  dropped,       (* packets lost on the way, <<boot, number>>               *)
  beacons,
  breaks

core1 == <<packetSent, loopAt, payload, shown>>
espNow == <<lastMac, hasNewEspNow, callbackAt, beacons>>
core0 == <<alert, taskAt, command, stateMutex>>
path == <<radio, mqtt, breaks>>
backend == <<inFlight, lastKnown, received>>
uplinkVars == <<boots, core1, queue, espNow, core0, path, backend, dropped>>

AlertOf(c) == [color |-> c, buzzer |-> c, pattern |-> c]

\* What setup() leaves, at every boot.
Setup ==
  [sent |-> 0, at |-> "alarms", payload |-> None, queue |-> <<>>, mac |-> 0, flag |-> FALSE,
   callback |-> "idle", alert |-> AlertOf(0), task |-> "poll", mutex |-> FALSE]

UplinkInit ==
  /\ boots = 1
  /\ packetSent = Setup.sent
  /\ loopAt = Setup.at
  /\ payload = Setup.payload
  /\ queue = Setup.queue
  /\ lastMac = Setup.mac
  /\ hasNewEspNow = Setup.flag
  /\ callbackAt = Setup.callback
  /\ alert = Setup.alert
  /\ shown = Setup.alert
  /\ taskAt = Setup.task
  /\ command = 0
  /\ stateMutex = Setup.mutex
  /\ radio = None
  /\ mqtt = "down"
  /\ inFlight = <<>>
  /\ lastKnown = [s \in NodeSensor |-> None]
  /\ received = <<>>
  /\ dropped = {}
  /\ beacons = 0
  /\ breaks = 0

Id(p) == <<p.boot, p.number>>

-----------------------------------------------------------------------------
(***************************************************************************)
(* loop(), core 1.                                                         *)
(***************************************************************************)
\* Mutation: the strings are read without the mutex.
AlertIsReadableAlways == TRUE
AlertIsReadable == ~ stateMutex

\* Shows the alert; once a second, sampling follows.
HandleAlarms ==
  /\ loopAt = "alarms"
  /\ AlertIsReadable
  /\ shown' = alert
  /\ loopAt' \in {"alarms", "sample"}
  /\ UNCHANGED <<boots, packetSent, payload, queue, espNow, core0, path, backend, dropped>>

\* Samples the sensors, any of which may fail, takes the next number and
\* tests the flag of the callback.
ReadSensors ==
  /\ loopAt = "sample"
  /\ packetSent < Len(Samples[boots])
  /\ packetSent' = packetSent + 1
  /\ \E sensors \in Samples[boots][packetSent + 1] :
       payload' = [boot |-> boots, number |-> packetSent', sensors |-> sensors, mac |-> 0]
  /\ loopAt' = IF hasNewEspNow THEN "copy" ELSE "send"
  /\ UNCHANGED <<boots, shown, queue, espNow, core0, path, backend, dropped>>

CopyMac ==
  /\ loopAt = "copy"
  /\ payload' = [payload EXCEPT !.mac = lastMac]
  /\ loopAt' = "clear"
  /\ UNCHANGED <<boots, packetSent, shown, queue, espNow, core0, path, backend, dropped>>

\* Mutation: left set.
FlagAfterCopyKept == hasNewEspNow
FlagAfterCopy == FALSE

ClearFlag ==
  /\ loopAt = "clear"
  /\ hasNewEspNow' = FlagAfterCopy
  /\ loopAt' = "send"
  /\ UNCHANGED <<boots, packetSent, payload, shown, queue, lastMac, callbackAt, beacons, core0, path, backend, dropped>>

\* Mutation: ahead of those that wait.
EnqueuedFirst(p) == <<p>> \o queue
Enqueued(p) == Append(queue, p)

HasRoom == Len(queue) < QueueLength

\* xQueueSend without waiting: a full queue drops the packet, not its number.
QueuePacket ==
  /\ loopAt = "send"
  /\ loopAt' = "alarms"
  /\ IF HasRoom
     THEN queue' = Enqueued(payload) /\ UNCHANGED dropped
     ELSE dropped' = dropped \cup {Id(payload)} /\ UNCHANGED queue
  /\ payload' = None
  /\ UNCHANGED <<boots, packetSent, shown, espNow, core0, path, backend>>

-----------------------------------------------------------------------------
(***************************************************************************)
(* OnEspNowDataRecv, in the Wi-Fi task: the address, then the flag.        *)
(***************************************************************************)
StoreMac ==
  /\ callbackAt = "idle"
  /\ beacons < MaxBeacons
  /\ beacons' = beacons + 1
  /\ lastMac' = beacons'
  /\ callbackAt' = "stored"
  /\ UNCHANGED <<boots, core1, queue, hasNewEspNow, core0, path, backend, dropped>>

SetFlag ==
  /\ callbackAt = "stored"
  /\ callbackAt' = "idle"
  /\ hasNewEspNow' = TRUE
  /\ UNCHANGED <<boots, core1, queue, lastMac, beacons, core0, path, backend, dropped>>

-----------------------------------------------------------------------------
(***************************************************************************)
(* loraTaskCode, core 0.  A downlink for another node, or one that does    *)
(* not parse, changes nothing.                                             *)
(***************************************************************************)
\* What endPacket sends may be lost; so is what finds the gateway's radio
\* still holding a frame.
SendFrame(frame) == radio' = frame /\ radio = None
LostInTheAir == UNCHANGED radio

ReceiveDownlink ==
  /\ taskAt = "poll"
  /\ command < MaxCommands
  /\ command' = command + 1
  /\ taskAt' = "color"
  /\ stateMutex' = TRUE
  /\ UNCHANGED <<boots, core1, queue, espNow, alert, path, backend, dropped>>

ApplyColor ==
  /\ taskAt = "color"
  /\ alert' = [alert EXCEPT !.color = command]
  /\ taskAt' = "buzzer"
  /\ UNCHANGED <<boots, core1, queue, espNow, command, stateMutex, path, backend, dropped>>

ApplyBuzzer ==
  /\ taskAt = "buzzer"
  /\ alert' = [alert EXCEPT !.buzzer = command]
  /\ taskAt' = "pattern"
  /\ UNCHANGED <<boots, core1, queue, espNow, command, stateMutex, path, backend, dropped>>

ApplyPattern ==
  /\ taskAt = "pattern"
  /\ alert' = [alert EXCEPT !.pattern = command]
  /\ taskAt' = "ack"
  /\ stateMutex' = FALSE
  /\ UNCHANGED <<boots, core1, queue, espNow, command, path, backend, dropped>>

\* After a random delay of 10 to 50 ms.
SendAck ==
  /\ taskAt = "ack"
  /\ taskAt' = "queue"
  /\ SendFrame(Ack) \/ LostInTheAir
  /\ UNCHANGED <<boots, core1, queue, espNow, alert, command, stateMutex, mqtt, breaks, backend, dropped>>

TransmitQueued ==
  /\ taskAt \in {"poll", "queue"}
  /\ queue # <<>>
  /\ taskAt' = "poll"
  /\ queue' = Tail(queue)
  /\ \/ SendFrame(Head(queue)) /\ UNCHANGED dropped
     \/ LostInTheAir /\ dropped' = dropped \cup {Id(Head(queue))}
  /\ UNCHANGED <<boots, core1, espNow, alert, command, stateMutex, mqtt, breaks, backend>>

NothingQueued ==
  /\ taskAt = "queue"
  /\ queue = <<>>
  /\ taskAt' = "poll"
  /\ UNCHANGED <<boots, core1, queue, espNow, alert, command, stateMutex, path, backend, dropped>>

\* Numbers start over; what was queued, and in the making, is gone.
NodeRestarts ==
  /\ boots < Len(Samples)
  /\ boots' = boots + 1
  /\ dropped' = dropped \cup {Id(queue[i]) : i \in DOMAIN queue}
                        \cup (IF payload = None THEN {} ELSE {Id(payload)})
  /\ packetSent' = Setup.sent
  /\ loopAt' = Setup.at
  /\ payload' = Setup.payload
  /\ queue' = Setup.queue
  /\ lastMac' = Setup.mac
  /\ hasNewEspNow' = Setup.flag
  /\ callbackAt' = Setup.callback
  /\ alert' = Setup.alert
  /\ shown' = Setup.alert
  /\ taskAt' = Setup.task
  /\ stateMutex' = Setup.mutex
  /\ UNCHANGED <<command, beacons, path, backend>>

-----------------------------------------------------------------------------
(***************************************************************************)
(* The gateway.                                                            *)
(***************************************************************************)
\* A packet is published if the client believes in its connection, and is
\* gone if that is broken; acknowledgements take the same way, to the
\* service of module EdgeAlert.
ForwardFrame ==
  /\ radio # None
  /\ radio' = None
  /\ IF radio = Ack THEN UNCHANGED <<inFlight, dropped>>
     ELSE IF mqtt = "up" THEN inFlight' = Append(inFlight, radio) /\ UNCHANGED dropped
     ELSE dropped' = dropped \cup {Id(radio)} /\ UNCHANGED inFlight
  /\ UNCHANGED <<boots, core1, queue, espNow, core0, mqtt, breaks, lastKnown, received>>

\* What was sent last may not have got through; QoS 0 does not repeat it.
ConnectionBreaks ==
  /\ mqtt = "up"
  /\ breaks < MaxBreaks
  /\ breaks' = breaks + 1
  /\ mqtt' = "stale"
  /\ \E through \in 0 .. Len(inFlight) :
       /\ inFlight' = SubSeq(inFlight, 1, through)
       /\ dropped' = dropped \cup {Id(inFlight[i]) : i \in through + 1 .. Len(inFlight)}
  /\ UNCHANGED <<boots, core1, queue, espNow, core0, radio, lastKnown, received>>

NoticeBreak ==
  /\ mqtt = "stale"
  /\ mqtt' = "down"
  /\ UNCHANGED <<boots, core1, queue, espNow, core0, radio, breaks, backend, dropped>>

ReconnectMQTT ==
  /\ mqtt = "down"
  /\ mqtt' = "up"
  /\ UNCHANGED <<boots, core1, queue, espNow, core0, radio, breaks, backend, dropped>>

-----------------------------------------------------------------------------
(***************************************************************************)
(* The backend: handleLoraBinary and dispatchHardwareReadings.             *)
(***************************************************************************)
DecodedSeq(n) == IF n > SeqLimit /\ n % SeqWidth > 0 THEN n % SeqWidth ELSE n

\* A DHT22 that failed is sent as -999, which the decoder makes 25.0 and
\* 65.0; an accelerometer that failed is sent as zeros and remains so.
DecodedSample(p, s) ==
  CASE p.sensors[s] = "good" -> Id(p)
    [] p.sensors[s] = "failed" /\ s = "climate" -> Substitute
    [] OTHER -> None

\* Mutation: nothing is held.
GoodSampleOnly(p, s) == DecodedSample(p, s)
GoodSample(p, s) == IF DecodedSample(p, s) # None THEN DecodedSample(p, s) ELSE lastKnown[s]

HandleLoraBinary ==
  /\ inFlight # <<>>
  /\ inFlight' = Tail(inFlight)
  /\ LET p == Head(inFlight)
     IN /\ lastKnown' = [s \in NodeSensor |-> GoodSample(p, s)]
        /\ received' = Append(received, [packet |-> p, seq |-> DecodedSeq(p.number), sample |-> lastKnown'])
  /\ UNCHANGED <<boots, core1, queue, espNow, core0, path, dropped>>

UplinkNext ==
  \/ HandleAlarms \/ ReadSensors \/ CopyMac \/ ClearFlag \/ QueuePacket
  \/ StoreMac \/ SetFlag
  \/ ReceiveDownlink \/ ApplyColor \/ ApplyBuzzer \/ ApplyPattern \/ SendAck
  \/ TransmitQueued \/ NothingQueued
  \/ NodeRestarts
  \/ ForwardFrame \/ ConnectionBreaks \/ NoticeBreak \/ ReconnectMQTT
  \/ HandleLoraBinary

UplinkSpec == UplinkInit /\ [][UplinkNext]_uplinkVars

-----------------------------------------------------------------------------
Packet == [boot : Nat, number : Nat, sensors : SensorStates, mac : Nat]

ASSUME PacketAssumption == None \notin Packet /\ Ack \notin Packet

Sample == Nat \X Nat

ASSUME SampleAssumption == None \notin Sample \cup {Substitute}

HeldSamples == [NodeSensor -> Sample \cup {None, Substitute}]

NodeOK ==
  /\ boots \in 1 .. Len(Samples)
  /\ packetSent \in Nat
  /\ loopAt \in {"alarms", "sample", "copy", "clear", "send"}
  /\ payload \in Packet \cup {None}
  /\ queue \in Seq(Packet) /\ Len(queue) <= QueueLength
  /\ {lastMac, beacons} \subseteq Nat
  /\ hasNewEspNow \in BOOLEAN
  /\ callbackAt \in {"idle", "stored"}
  /\ alert \in [color : Nat, buzzer : Nat, pattern : Nat]
  /\ taskAt \in {"poll", "color", "buzzer", "pattern", "ack", "queue"}
  /\ command \in Nat

PathOK ==
  /\ radio \in Packet \cup {None, Ack}
  /\ mqtt \in {"up", "stale", "down"}
  /\ inFlight \in Seq(Packet)
  /\ lastKnown \in HeldSamples
  /\ received \in Seq([packet : Packet, seq : Nat, sample : HeldSamples])
  /\ dropped \subseteq Sample
  /\ breaks \in Nat

UplinkTypeOK == NodeOK /\ PathOK

(***************************************************************************)
(* What the LED shows and the buzzer sounds belongs to one command, never  *)
(* to the halves of two ("Protect String mutation with Mutex", 208-221,    *)
(* 326-331).                                                               *)
(***************************************************************************)
ShownIsOneCommand == \E c \in 0 .. command : shown = AlertOf(c)

(***************************************************************************)
(* Packets of one boot come out of the backend in the order of their       *)
(* numbers, and a number that is missing between two of them was lost on   *)
(* the way: what the backend counts as a gap never comes later, as long as *)
(* numbers are read whole (375-427, 245-252; gateway 126-200; ingestion    *)
(* 502-509).                                                               *)
(***************************************************************************)
GapsAreLosses ==
  \A i, j \in DOMAIN received :
    LET b == received[i].packet.boot
    IN i < j /\ b = received[j].packet.boot /\ received[j].packet.number <= SeqLimit =>
         /\ received[i].seq < received[j].seq
         /\ \A n \in received[i].seq + 1 .. received[j].seq - 1 :
              \/ <<b, n>> \in dropped
              \/ \E k \in i .. j : Id(received[k].packet) = <<b, n>>

(***************************************************************************)
(* The reading of a beacon is sent at most twice: the flag is cleared, but *)
(* a callback that comes while the loop copies sets it again (102-108,     *)
(* 414-419).                                                               *)
(***************************************************************************)
BeaconAtMostTwice ==
  \A b \in 1 .. beacons :
    ~ \E i, j, k \in DOMAIN received :
        i < j /\ j < k /\ \A r \in {i, j, k} : received[r].packet.mac = b

(***************************************************************************)
(* What a reading gives of a sensor is the latest value the backend has    *)
(* received and taken for good, across failures, losses and reboots of the *)
(* node.  For the accelerometer that is one it measured.  Not so for the   *)
(* DHT22: a failed one is not held, although the code means to ("hold      *)
(* steady state if DHT22 read dropped or timed out", 758 of                *)
(* ingestion.service.ts): 25.0 and 65.0 take the place of what it measured *)
(* before, and are what is held from then on (522-523, 689-773).           *)
(***************************************************************************)
TakenForGood(p, s) == p.sensors[s] = "good" \/ (p.sensors[s] = "failed" /\ s = "climate")
TakenValue(p, s) == IF p.sensors[s] = "good" THEN Id(p) ELSE Substitute

HeldIsLatestGood ==
  \A i \in DOMAIN received, s \in NodeSensor :
    LET good == {k \in 1 .. i : TakenForGood(received[k].packet, s)}
    IN IF good = {} THEN received[i].sample[s] = None
       ELSE \E k \in good : /\ received[i].sample[s] = TakenValue(received[k].packet, s)
                            /\ \A m \in good : m <= k

=============================================================================
