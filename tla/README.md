# M.I.N.E.-M.E.S.H. verification project

TLA+ models, TLC configurations and TLAPS proofs for the mine-monitoring
system in this repository: ESP32 edge nodes that send sensor packets over LoRa,
a LoRa-to-MQTT gateway, a NestJS backend that deduplicates, judges and
broadcasts the readings, an ML inference service in shadow mode, and a Next.js
dashboard. Paths below are relative to the repository root.

## 1. Inventory

| component | code | state it keeps | operations |
|---|---|---|---|
| Edge node firmware | `firmware/esp32_edge_node_sos.ino` | alert state under a mutex, telemetry queue of 5, ESP-NOW flag and MAC, packet counter | ESP-NOW callback, LoRa task (core 0: downlink, ACK, uplink), loop (core 1: sense, enqueue, alarms) |
| LoRa gateway firmware | `firmware/esp32_lora_mqtt_gateway.ino` | Wi-Fi/MQTT connection, LWT | downlink broadcast, uplink publish (dropped while disconnected), ACK publish, reconnects |
| Ingestion | `backend/src/ingestion/ingestion.service.ts` | broker and gateway connectivity flags, time of last LoRa packet, set of active LoRa nodes, last known readings | connect/error/offline callbacks, message routing, binary/JSON decoding, gateway watchdog |
| Processing | `backend/src/processing/` | recent keys, highest sequence number and status of each node, filter windows | reading, status message, stale-node watchdog |
| Storage | `backend/src/storage/memory-storage.service.ts` | append-only array of readings | append on `sensor.reading.deduped` |
| Alerts | `backend/src/alerts/alerts.service.ts` | cooldown times, ring of the latest 100 alerts | node status, reading and prediction handlers, resolve |
| Edge alerts (SOS) | `backend/src/alerts/edge-alert.service.ts` | recorded actuator state of each node, command history | dispatch (publish twice, then emit), acknowledgement |
| Realtime | `backend/src/realtime/` | latest readings, statuses, predictions; two 250 ms buffers; rooms | join, snapshot, flush, broadcast |
| ML inference (backend side) | `backend/src/ml/ml-window-buffer.service.ts`, `ml-inference.service.ts` | window per node, pending prediction per node, circuit breaker | add reading, debounce, call, timeout, node offline |
| ML prediction store | `backend/src/ml/ml-prediction-store.service.ts` | write queue, SQLite table | enqueue, periodic drain, batch insert with rollback, labels |
| ML server | `ML-Server/inference-service/` | drift window and counters, loaded checkpoint | load, predict, drift evaluation in threads |
| ML training | `ML-Server/models/`, `ML-Server/data/` | data set, split, registry of checkpoints and statistics | export with labels, split and audit, train with early stopping, save, evaluate |
| Dashboard state | `dashboard/src/context/RealtimeContext.tsx` | readings, statuses, predictions, alerts, gateway badge, optimistic SOS state | socket handlers, poll, watchdog, purge, simulation |
| Dashboard pages | `dashboard/src/app/`, `dashboard/src/components/` | filters; otherwise computed from the context | filters, counts, danger, alert stream, SOS buttons, label confirmation, drift bar |

Components interact through MQTT topics (gateway and simulator to ingestion),
synchronous EventEmitter2 events inside the backend (`sensor.reading.received`,
`node.status.received`, `sensor.reading.deduped`, `node.status.changed`,
`ml.prediction.generated`, `edge.alert.*`), HTTP (backend to ML server) and
socket.io rooms (backend to dashboard).

The backend is one Node.js process. A handler and every listener of the events
it emits run to their end before anything else does, so such a call is one
action of a module; an `await`, a timer or a network callback is where actions
interleave.

What makes each component hard, and what makes it correct:

| component | hard behaviour | correct when |
|---|---|---|
| Processing, Storage | copies and late packets, reboots, a bounded memory of keys, three sources of a node's status | a reading is stored once within the horizon of the memory; losses are counted and announced; a silent node does not stay online; nothing from before a reset is averaged in |
| Ingestion | four sources of the gateway's status that disagree, sampled every second | what dashboards were told is the current status; nodes go offline with their gateway |
| Edge alerts and firmware downlink | a dispatch that awaits twice; loss, repetition and late acknowledgements; restarts | an acknowledged command was carried out, and is shown so; concurrent commands end in order; every dispatch ends |
| Alerts | cooldowns, a bounded record, three kinds of cause | no storm and no silence |
| ML inference (backend) | debounce timer, flush, circuit breaker, overlapping calls, windows rebuilt reading by reading | each packet evaluated once, with a whole window; a failing service is spared |
| ML prediction store | queue, periodic and forced drains, rollback, shutdown, crash | a prediction acknowledged to a reader stays; labels survive |
| Realtime, Dashboard | 250 ms buffers, aliasing of status objects, joins between buffering and flush, watchdog against polls, optimistic state | a dashboard converges to the backend's state |
| Edge node firmware | two cores, a queue of five, flags shared with a callback | packet numbers tell what was lost; alarms follow the latest command |
| Gateway badge | pushes, polls, readings and a watchdog of its own move one flag | a lost gateway does not stay lit |
| Dashboard SOS panel | shows a command before the backend has it; makes up acknowledgements without a connection | an acknowledgement shown is the node's, or known to be pretended; the panel converges |
| Alert list and pages | each prediction comes twice; a bounded list; danger is judged anew in every component | one alert per prediction; a danger is listed and seen on every page |
| Prediction review | fetches and confirmations overtake one another | a label shown or stored was chosen for that prediction |
| ML server | windows of predictions for drift, changed by threads without a lock | no evaluation is missed; the bar shows a verdict |
| ML training | crashes between files, rows dropped from one of two parallel lists, a NaN loss | labels stay with their windows; the best weights are kept and served with their own statistics |

PROJECT.json lists every component with its state of modelling, and every
hazard at its line with the properties that cover it.

## 2. Modules

| module | models | status |
|---|---|---|
| `Processing` | ProcessingService with the filter it resets and feeds, and the store it appends to | complete, proved |
| `Telemetry` (extends `Processing`) | nodes that number packets and reboot, and the at-least-once MQTT path in front of it | complete for the core, proved |
| `Ingestion` | the gateway status of IngestionService, its messages and its watchdog | complete, proved but for liveness |
| `GatewayBadge` (extends `Ingestion`) | the gateway's badge on a dashboard: pushes, polls, readings, watchdog | complete |
| `Uplink` | an edge node's two cores and callback, its queue, the gateway, the backend's decoder and its held values | complete but for data, proved |
| `EdgeAlert` | SOS commands: dispatch, MQTT client, gateway broadcast, nodes, acknowledgements, restarts | complete, proved but for liveness |
| `SosRegister` | abstract specification of `EdgeAlert`: a register per node that is confirmed honestly | complete |
| `SosPanel` | the SOS buttons of one node on one dashboard | complete, proved |
| `Alerts` | AlertsService: rule table, cooldowns, bounded record | complete, proved |
| `AlertFeed` | predictions and the alert list in the dashboard's context, with its simulation | complete but for alerts of readings, see section 7; proved |
| `AlertPages` (extends `AlertFeed`) | what the alerts page, the emergency banner and the fleet bar show of it | complete, proved |
| `MlInference` | window buffer, debounce, circuit breaker, calls under way | complete, proved but for liveness |
| `PredictionStore` | write queue, drains, transactions with rollback, labels, shutdown, crash | complete, proved |
| `PredictionLog` | abstract specification of `PredictionStore`: a prediction waits, then is stored or lost | complete |
| `PredictionReview` (extends `PredictionStore`) | studio, inspector and exporter that label predictions | complete, proved but for liveness |
| `Dashboard` | realtime gateway (buffers, rooms, snapshots), socket, and one dashboard's state | complete for one sensor a node, proved but for convergence |
| `Monitoring` (extends `Dashboard`) | filters, counts, averages and directory of the monitoring and nodes pages | crack gauge only; proved |
| `Console` (extends `Monitoring`) | header, menu, status bar, digital twin and analytics page: what they count and say | no rendering; proved |
| `DriftMonitor` | the server's drift window in several threads, and the bar that polls it | complete, proved but for liveness |
| `Training` | data split, labelled examples, training loop, saving, evaluation, loading | arithmetic left out; proved |
| `*_proofs` | the theorems | see section 6 |
| `MC*` | values of the constants for TLC | |

How state and actions correspond to the code (the map in PROJECT.json gives the
lines of every definition):

**Processing.** One action per way through `handleSensorReading`
(`DropDuplicate`, `AcceptReading`), one for `handleNodeStatus`, one for
`checkStaleNodes`, and `Tick` for the clock. `seen` is the insertion-ordered Set
of 200 keys, `lastSeq` the highest number of each node, `status`, `zone`,
`reportedSeq` and `gapCount` the fields of `nodeStatuses`, `fill` the lengths of
the filter windows, `readings` the in-memory store, `announced` what listeners of
`node.status.changed` last heard. A reading is stamped in the call that handles
it, so only the time since then matters (`silence`, saturating). The values of a
reading, and with them the filter's average, are abstracted.

**Telemetry.** A node numbers packets from 1 after each boot. `network` holds the
messages that may still be delivered: a delivery may leave its message there (a
lost PUBACK), any message may overtake any other, or be lost. `Deliver` is
Processing's whole handler. `origin` remembers which transmission is behind each
stored reading. Status messages, seconds and the watchdog are actions beside it.

**Ingestion, GatewayBadge.** The five fields behind `getGatewayStatus` and
`activeNodes` are variables; `announcedStatus` is the latest `gateway.status.changed`,
`told` the latest status message of each node. Messages are the actions
`ClientCount` (`$SYS`), `GatewayOffline`/`GatewayOnline` (status and last-will
topics), `LoraPacket`, `LoraOffline` and `TextAsStruct` (text of 54 bytes or more
under `sensors/lora/#`, decoded as a packed struct). `SecondPasses` and `WatchdogCheck`
are the clock and the one-second interval. `singled`, `overridden` and
`transmitted` are history variables. The badge adds one dashboard's
`loraGatewayConnected` and `lastLoraPacketAt`, moved by four handlers of its own.

**Uplink.** `loopAt` and `taskAt` are the program counters of the two cores; a step
of theirs ends where the other core or the callback can see what it wrote: at the
mutex, at the queue, at each shared flag. A sample carries the number of its packet,
an address that of its beacon, a field of the alert that of its command, so that "of
one command" and "of the latest packet that measured it" can be said.
`DecodedSeq` is the decoder's choice between 32 and 16 bits of the number. Two sensors
stand for all: `motion` (the accelerometer), whose last good value is held when it fails,
and `climate` (the DHT22), for which the decoder puts `Substitute`, 25.0 and 65.0, before
anything can be held.

**EdgeAlert.** Commands are numbered in dispatch order. `outgoing` is the MQTT
client's queue of publishes without a PUBACK, `received` how many of them the
broker has on this connection: a lost connection makes all of them be sent again.
A PUBACK resumes the dispatch it belongs to (`Puback`): the second publish, or
the final event. `acked` marks the *object* made at dispatch, because the event
that ends a dispatch carries that object and shows an acknowledgement that came
before. `radio`, `physical` and `applied` are the receivers, the actuators and a
history of what was carried out.

**SosPanel.** `actuator` is the state the buttons show, with whose command it is.
A click shows a command at once; `ackTimers` are the timers that make up its
acknowledgement when it was clicked without a connection or in the simulation.
`pretended` remembers those. The backend is reduced to a record, commands `waiting` to
be announced, an event queue and a node that may acknowledge. A dispatch announces its
command once the broker has taken it: with the broker, in order; without it, at once, as
both publishes are refused, past older commands that still wait for theirs (`overtaken`).

**Alerts.** The handlers of the three events, the whole table of 17 rules, the
cooldown of each `nodeId:ruleId`, and the record of the latest alerts. `called`
is a history: when each cause last asked for an alert.

**AlertFeed, AlertPages.** A prediction is emitted to the zone's room and then to
all, so it arrives twice (`secondCopy`); what is listed depends on a window of five
seconds. Class and severity of a prediction do not depend on each other, as
in the ML server; its level follows from the severity alone. A zone joined brings the
predictions of its snapshot, without an alert (`HandleSnapshot`). Simulated batches are
numbered modulo 20, the period of what they do. The pages are operators on the context's state, one for each place that decides for
itself what a danger is.

**MlInference.** A value is represented by the number of the packet it came in,
so that a row "free of values of other packets" can be said. `pending` is the
debounced prediction of each node, `inFlight`/`answered` the calls at their first
and second await. `WholePackets` says whether a packet's readings come in one
message handled in one loop (the LoRa path) or one message per channel (the MQTT
path of the simulator).

**PredictionStore, PredictionReview.** Predictions are emitted, queued, then stored
or lost; `rows` is the table. A drain is one synchronous call, which may fail at any
statement. The review adds requests and answers under way (`fetches`, `replies`,
`patches`), what the studio shows, and the one inspector all predictions share. In the
place of no records, or of a failed fetch, the studio shows made-up ones (`MadeUp`), some
of them with a label (`Prelabelled`).
`chosen` is a history of what operators clicked.

**Dashboard, Monitoring, Console.** `updates` and `statusUpdates` are the two buffers;
`messages` the socket's ordered queue; `joined` and `activeZones` what the dashboard
asked for; readings are numbered in the order the backend takes them. A flush sends to
the rooms the client is in by then. The pages are operators of the screen's state
and of the filter (`Monitoring`), and so are the header, the menu, the status bar, the
map's markers, lines and popups, and the points and bars of the charts (`Console`): one
operator for each place of the code that computes the figure for itself.

**DriftMonitor.** `at` and `read` are each thread's position in
`add_prediction`/`evaluate` and what it read there; a step ends where CPython may
switch. The distribution is the share of one class.

**Training.** One action per stage of a run; `Crash` may follow any of them and
leaves broken the file that was being written. An evaluation reads split, baseline and hybrid in steps of its own, so that a run may
save in between. Weights are named by the epoch that made them, statistics by the confirmed rows that went into them, so that a pair that
does not belong together can be told.

## 3. Runs

Every run holds.

| run | module | shows |
|---|---|---|
| `telemetry` | MCTelemetry | behind a lossy, reordering, repeating path and across a reboot nothing is stored twice; within a boot all that arrives is stored and every loss counted; no silent node stays online; a reset starts afresh |
| `ingestion` | MCIngestion | what the gateway status guarantees to dashboards and nodes, and that a dashboard's badge goes out |
| `edge_alert` | MCEdgeAlert | honest acknowledgements, order, progress, refinement of `SosRegister` |
| `alerts` | MCAlerts | no storm, no silence |
| `ml_inference` | MCMlInference | once per packet, whole windows, breaker, progress, for packets that come whole |
| `predictions` | PredictionReview | labels were chosen, but for those of made-up records; refinement of `PredictionLog`; every prediction settles |
| `dashboard` | MCDashboard | all pages give the same figures, but for nodes known by a prediction only; no reading replaced by an older one; an undisturbed screen catches up with the backend |
| `alert_feed` | AlertPages | one alert per prediction; a danger is listed unless a snapshot brought it, and seen by each component but for what one card leaves out |
| `sos_panel` | SosPanel | an acknowledgement shown is the node's unless pretended; the panel catches up unless the broker was lost between commands |
| `uplink` | MCUplink | the alert shown is of one command; gaps are losses; a beacon is reported at most twice; what a reading gives of a sensor is the latest value taken for good, which a failed DHT22's substitute is |
| `drift_monitor` | MCDriftMonitor | no evaluation is missed between threads; the bar ends with a verdict |
| `training` | MCTraining | the split is clean; labels, best weights and statistics stay together |

## 4. Bounds, and why they are enough

The constants of the code are shrunk with their order kept.

* `Telemetry`: one node (the service keeps everything per node), one filtered
  channel, 3 keys instead of 200, a reordering span of 1, a stale timeout of 2 s with
  a watchdog every 2 s (both phases occur), at most 5 readings stored; redelivery
  while at most 2 readings were stored since; 3 packets per boot and two boots,
  enough for a packet to be overtaken, lost, repeated and numbered again.
* `Ingestion`: two LoRa nodes (one told, one forgotten), a packet timeout of 2 s
  instead of 30, a badge timeout of 1 s instead of 25, one batch of readings.
  Everything else is finite by itself: the run is exhaustive.
* `EdgeAlert`: two nodes, two commands, one lost connection and one restart, and a
  single level, since no property of the run distinguishes levels. Two commands
  are the least that can overtake each other.
* `Alerts`: one node, the tilt channel (both severities, and the 80 degree
  offset), a cooldown of 2 and a record of as many alerts as there are causes
  (the case `CauseIsOnRecord` needs), time up to 6.
* `MlInference`: one node (state is per node but for the breaker), two channels,
  four packets, windows of two. Five packets were also checked once (367 000
  states) without a difference.
* `PredictionReview`: two predictions, two labels, one end of the process, one fetch
  of the log: an answer can be overtaken by two confirmations and by a drain. One made-up
  record, labelled in advance.
* `Dashboard`: two nodes in two zones, one of them simulated, two readings, one
  outage, one prediction (`MaxPredictions`), one drop of the connection or restart of the
  backend, one click (a purge, the simulation, a demo prediction), of these at most two
  together (`MaxUpsets`): enough for a prediction that outlives a purge; three settings of
  the filter. Two readings are the least of which one is older. 314 260 states, two
  minutes and a half.
* `AlertFeed`: one live node beside the simulation's, two predictions of any class with
  a severity of 10, 60 or 91 (calm, on the cards' threshold, dangerous), a list of two
  alerts instead of 50, one broken connection, two switches of the simulation, whose cycle
  of 20 batches is complete. 1 505 003 states.
* `SosPanel`: two levels, two clicks, one command from elsewhere, one drop, one loss of
  the broker, one switch of the simulation. Two commands and one loss are what it takes
  to announce the older one last.
* `Uplink`: three packets and a reboot with one more, a queue of two instead of
  five, two beacons, one command, one broken connection. A second beacon is what makes a
  report of the first repeat: its flag lets the loop copy the address before it is
  replaced. The two sensors fail side by side (`MCSamples`): both good or both failed first,
  then nothing to hold, then both good, and one more of each kind after the reboot.
  2.29 million states. Numbers that would be read as
  16 bits start above the bound; below 50 000 000 the code reads them whole.
* `DriftMonitor`: two threads, a window of three, an evaluation every two predictions,
  four predictions, one poll given up.
* `Training`: the split is the real one (15 nodes of 960 readings); two losses and
  NaN, three epochs with a patience of two, two rows, two runs.

Runs that end because a bound is used up (all commands dispatched, the clock at
its last value, all packets sent or handled) say `CHECK_DEADLOCK FALSE`; `ingestion`
does not need to, its clock goes on for ever.

## 5. Fairness

* `Ingestion`, `GatewayBadge`: weak fairness of the clock, of the one-second interval,
  of the dashboard taking over the announced status and of its watchdog; event loops serve timers as long as
  the process runs. Nothing is assumed of messages.
* `EdgeAlert`: weak fairness of the reconnect, of the broker's reception and of
  its PUBACK. The client (mqtt.js, external) reconnects by itself and resends; the
  number of lost connections is bounded, so weak fairness is enough. Nothing is
  assumed of gateway, radio, nodes or acknowledgements.
* `MlInference`: weak fairness of each node's debounce timer and of the
  continuation of a synchronous loop. Nothing is assumed of the inference service.
* `PredictionStore`: weak fairness of the asynchronous listener, of the drain (a
  timer) and of the exit of a process that closed its database.
* `Dashboard`: weak fairness of the two flush timers, the poll, the server's handlers and
  the client's reception; socket.io reconnects by itself and the drops are bounded.
* `SosPanel`: weak fairness of the server's two steps, of reception and of reconnecting.
  An announcement waits for the broker, whose return is not assumed: `PanelCatchesUp` speaks
  of behaviours in which it holds in the end. No fairness for the node.
* `DriftMonitor`: weak fairness of each thread's steps and of the poll (a timer);
  time-outs are bounded.
* `Telemetry`, `Alerts`, `AlertFeed`, `Uplink`, `Training`: safety only.

## 6. Proofs

Proved for every value of the constants, from the named assumptions of the
modules only:

* `Telemetry_proofs`, of `Processing`. `TypeCorrect`; `SeenIsRecent`: the remembered keys are
  exactly the latest readings stored; `DedupWithinHorizon`: equal stored readings
  are more than `SeenCap` apart. The latter is not inductive alone: that a key is
  *not* among the remembered ones says something about the store only because the
  remembered ones are its suffix, so the invariant is the conjunction of both.
  `OnlineMeansFresh` is strengthened with the phase of the watchdog (a node that is
  past its timeout is met by the watchdog before another period is over).
  `AnnouncementsCurrent`, `FilterAfresh`, `ReportedTrails` are inductive with the
  types. `ResetsAreClean` is the action property `ResetStartsAfresh`, step by step
  from the types.
* `Telemetry_proofs`, of `Telemetry`. `TelemetryImplementsProcessing`: each step of the
  path is one of `Processing`, whose theorems hold there without being proved again.
  `StoresOnce` needs that a packet which may still be repeated was stored so recently that
  its key is remembered (`OriginDiffers`); `ArrivedIsStored` that a stored reading is what
  its transmission sent (`OriginOK`). `GapsAreCounted` counts: the numbers between the old
  and the new highest are finitely many, and the counter grew by as many
  (`IntervalCount`, `LastIsArrived`).
* `Telemetry_proofs`, of `Uplink`. One invariant, `UplinkInv`: packets stand in line from
  the loop over queue, radio and gateway to the backend (`InLine`), a number that was
  taken is on the way or lost (`Complete`), the three parts of the alert differ only while
  the mutex is held (`Applied`), and a beacon whose flag is still to be cleared is in one
  packet at most (`BeaconsCounted`). What is held of each sensor is what the newest packet
  left (`Held`). The properties follow from one part each. Most steps
  move one packet one place on; the lemmas `MovesAlong` and `Elsewhere` say once what
  that leaves.
* `Telemetry_proofs`, of `Ingestion` with `GatewayBadge`. `StatusIsAnnounced` from what
  holds between two samples (`BetweenChecks`) and while one is due (`CheckDue`): the only
  thing not announced is a silence that has just become too long.
* `EdgeAlert_proofs`. `IInv` adds to `AckMeansApplied` and `ViewKeepsAck` that every
  number in a queue, record or receiver was issued, that a node's record and view
  name its own commands, and that an acknowledgement on its way was sent by a
  node that applied the command: an acknowledgement can be honest when it is
  handled only if it was when it was sent. `Implements` shows that every step
  maps to a step or a stutter of `SosRegister`, from `AcksApplied` again for the
  step that confirms. `ViewFollows` and `NodesNeverGoBack` need the whole queue in
  order (`OrderInv`): publishes wait in the order of their commands, the record is of the
  latest command, dashboards show it or its last event is still to come, and what is to be
  broadcast is newer than what any node has heard. This speaks of the time before the
  first lost connection or restart only, as the properties do.
* `EdgeAlert_proofs`, of `AlertFeed` and `AlertPages`. `FeedInv`: alerts of live
  predictions are numbered, those not sent are of one simulated batch (`OneRound`), and the
  alert of a prediction's first copy keeps the second from being raised
  (`CopyIsCovered`). `DangerSeen` is then a matter of the classes and levels the pages tell
  apart, for any class with any severity: the greatest severity is some node's
  (`GreatestOf`), and the analytics card weighs no node less than that (`RiskIsWeighed`).
  `DangerListed` takes a snapshot's predictions aside (`SnapshotBrings`), and is then a matter of the place a new alert takes in the bounded list (`ListedAtOnce`).
* `Alerts_proofs`. `NoStorm` speaks of the record alone, and needs
  `CooldownIsLatest`: no alert on record is later than the cooldown of its key. The
  lemma `PushKeeps` says what putting an alert in front and dropping the oldest
  does to a sequence. `NoSilence` needs the record in order (`NewestFirst`) and the alert of
  every cooldown that runs on it (`CoolingIsOnRecord`). One that fell out of a full record
  would be older than `MAX_ALERTS` alerts of keys that cool down too, and different from
  its own, a pigeonhole over the keys (`KeyFinite`).
* `MlInference_proofs`. `PacketsCalledOnce` needs that a pending packet was not called yet,
  and that a failure finds it complete (`PendingIsNext`): else its remaining readings would
  make it pending again. `WindowsWhole` adds that rows are of different packets and current
  (`RowsAreCurrent`, `RowsDiffer`), and all but the last complete (`IsSound`);
  `FailingServiceSpared` only counts what a node has pending (`SparedInv`).
* `PredictionReview_proofs`. `AllAccounted`: what was generated is emitted, queued,
  stored or lost, in one of them only; from it `LabelsStayOn` (an insert that
  replaces a row never meets a labelled one) and `Implements`, the refinement of
  `PredictionLog`. `LabelsWereChosen` needs `RInv`: the label was chosen wherever it is
  on its way, in the table, in an answer, in a confirmation and in the list, where a
  made-up record may also have the one it came with.
* `Dashboard_proofs`. `NeverReplacedByOlder` is inductive only with the whole way of a
  reading: the screen is not newer than any message, messages are in order, the
  buffer is not older than the last message nor newer than the snapshot (`InOrder`).
  `JoinedZonesAreServed` needs `Rooms`: whatever the dashboard thinks joined is a room,
  or a request that will be, on this connection. `ScreensAgree` holds in every state of these
  types; of the past it needs only that zones joined are known until the operator purges
  (`JoinedAreKnown`). Nodes known by predictions only have a place of their own in it
  (`Listed`): the filter's zones are the others' with these added. That the zones' figures add up is not shown by induction: a sum is the
  number of pairs (`SumOf`), nodes of different zones differ, and each zone's are numbered
  (`CountedImage`, `SumOfParts`). `MonitoringAssumption` asks for finitely many nodes.
* `SosPanel_proofs`. `ShownAckIsReal` from `EventsAreReal`: an event on its way that
  carries an acknowledgement is of a command the node acknowledged, and comes from
  the backend.
* `MlServer_proofs`, of `DriftMonitor`. `EvaluationsAreNotMissed` from `CountsWhatIsThere`: a thread about to
  count has put its prediction into the window, which is then never empty again, so
  that an evaluation is not left out for want of samples.
* `MlServer_proofs`, of `Training`. `TrainingInv`. `LabelsAreKept`: every confirmed row in
  the log is whole, so that none is dropped from one of the two parallel lists
  (`RowsAreWhole`, `JobIsLabelled`). `BestStaysKept`: the loop remembers the first of the best
  epochs, and its patience counts the epochs since (`IsProgress`). `StatsStayWithWeights`:
  numbers of runs are in order, and what is saved or served is of an earlier run until
  this one saves (`RunsAreOrdered`, `SplitIsOfLastRun`); what an evaluation has read so far
  is what there is, unless a run saves meanwhile (`EvaluationIsCurrent`). `SplitStaysClean` is arithmetic over
  the real split.

Some theorems have a hypothesis beside the assumptions of the modules:

| theorem | hypothesis | in the code |
|---|---|---|
| `StoresOnce` | `RedeliveryWindow < SeenCap`: fewer readings of a node are stored while a packet may be repeated than keys are remembered | 200 keys; the broker repeats within seconds |
| `GapsAreCounted` | `[]JumpsAreShort`: no packet of a boot is so far ahead that it is taken for a new numbering | 10 000 numbers, a longer loss is taken for a reset and not counted; `GapsOfShortBootsAreCounted` has no condition on the run but `MaxSeq <= ForwardSpan + 2` |
| `StatusIsAnnounced` | `PacketTimeout > 1`: a packet proves the gateway for longer than the sample's period | 30 s against 1 s |
| `NoSilence` (in `CauseIsOnRecord`) | the record has room for one alert of each cause | 100 alerts; with more causes at once the oldest is lost |
| `PacketsCalledOnce`, `WindowsWhole` | `WholePackets`: a packet's readings come in one message | the LoRa path; the simulator's path does not, see section 7 |
| `WindowsWhole` | `~ AllowWarmup`: windows are not padded | the default of `ML_ALLOW_WARMUP` |
| `OneEntryEach` (in `OneAlertPerPrediction`) | `ClocksAgree`: a prediction arrives within 5 s of its timestamp | server's and browser's clocks, not compared by the code |

Every invariant and every action property of the runs is proved. Only model-checked are the
liveness properties `DispatchEnds`, `LossIsSeen`, `LossReachesNodes`,
`PendingIsEvaluated`, `Settles`, `ScreenCatchesUp`, `PanelCatchesUp` and `BarShowsVerdict`:
fairness and ENABLED are out of the prover's reach. So are facts about recursive definitions
over all inputs; where a property counts, the proofs number the elements instead.

## 7. What the code does that no run is spent on

Met while modelling. Some are behaviours of the models, none is hidden by one: where
a property leaves a case out, it says so.

Backend:

* PROJECT_OVERVIEW.md:74 and :242 speak of a watchdog of 8 s;
  `processing.service.ts:23` has 30 s. A constant, not a behaviour.
* After a reboot within the reordering span, fresh readings are dropped as copies
  (`processing.service.ts:74`; docs/PRD.md:18). A redelivery after 200 other readings
  of the node is stored again (`DedupHorizon` and `RedeliveryWindow` say so).
* `gapCount` is never corrected when a packet counted as lost arrives late:
  `GapCountCoversLoss` is an inequality for this reason.
* The first reading of a new node announces no status: its record is created online
  before the comparison (`processing.service.ts:131`), so a dashboard shows readings of
  a node it calls "Offline / LWT".
* A client count lifts an explicit offline without a word (`ingestion.service.ts:217`
  against 300). `isGatewayClientConnected`, set by a packet, outlives it until the next
  client count (153).
* The backend takes its own downlink command for telemetry of a node "comman" (473, 396).
* A packet number above 50 000 000 is read as its lower 16 bits (504). A held value is
  stamped with the new packet's number and time (678). A failed DHT22 is not held, though
  the comment at 758 says so: 25.0 and 65.0 come first (522-523) and are held from then
  on. `HeldIsLatestGood` says this of the two. A beacon whose address looks
  like signal strengths in bytes 54 to 59 is not reported (541-562).
* Offline reports that name one node leave the other nodes online, and
  dashboards' view of them with it: `LossReachesNodes` names the exception.
* A command for one node is broadcast to all; the others' recorded state stays
  (`edge-alert.service.ts:90`, alert.interface.ts:63).
* Both publishes of a dispatch can fail and the operator is told it succeeded (100). Such a
  dispatch is announced at once, while one begun before the broker was lost waits for it
  (98-117): the older command is announced last, and dashboards stay on it.
  `PanelCatchesUp` and `ViewFollowsRecord` name the exception.
* A critical value may be raised as a warning while the critical rule cools down
  (`alerts.service.ts:242`, 259); one cooldown covers predictions of all levels (275).
* Packets whose readings interleave are evaluated more than once
  (`ml-inference.service.ts:102`; ML_WORKFLOW.md:308-310). `isCalling` (32) is never
  read: calls of one node overlap, and an older answer that comes late replaces the
  newer one. The 2.5 s timeout of a call is stopped when the head of the answer comes.
* `main.ts` enables no shutdown hooks, so the promise of
  `ml-prediction-store.service.ts:72` to drain before shutdown does not hold for SIGTERM.

Dashboard:

* Alerts of readings never reach the list: `newAlerts` is filled inside a state updater
  and tested right after (`RealtimeContext.tsx` 1098-1177).
* Without a connection a dispatch is not sent, yet acknowledged by a timer (1546).
* "Complete Cache Purge" (1471) keeps predictions, zones and SOS states; zones stay in
  `joinedZonesRef`, so no snapshot comes and live nodes show offline. The simulation's
  data stay after it stops.
* The gateway's badge flaps between the 25 s watchdog and the polls, and without
  a known last packet the watchdog never acts. `LossIsSeen` asks for the end state of
  a connected dashboard only.
* Predictions of a zone's snapshot are shown and raise no alert (1067-1078):
  `DangerIsListed` names them.
* The ML server derives class and severity apart (`app.py` 172-178). The analytics card goes
  by the severity alone and may show a success for a node in danger by its class
  (`AnalyticsKpiCards.tsx` 98-142, 307-314); a severity rounded to 60 draws its red line
  while the level is still YELLOW. `DangerIsSeen` says so.
* The monitoring page's filter counts zones and nodes known only by a prediction
  (`useZoneFilter.ts` 69, 87), which a purge keeps and a demo button makes up; statistics,
  status bar and directory do not. `PagesAgree` gives the difference.
* A calmer ML alert less than 5 s old suppresses a critical one (270).
* Simulated breaches may be raised for values below the quoted threshold (849-914).
* Statistics (1361-1410) count nodes with readings alone as online, node cards as
  offline. With no node under the hardware filter the fleet's figures are shown under
  the filter's label (`monitoring/page.tsx` 54).
* A raw potentiometer among tripwires switches the crack card from counting to averaging,
  and it may say "SECURE" with a wire broken (`ZoneContainer.tsx` 194,
  `GlobalZoneAverages.tsx` 179). `ScreenCatchesUp` leaves such readings out.
* The banner takes any critical alert, however old, for a recent one
  (`SosEmergencyBanner.tsx` 45). Timers of one click re-enable the buttons of another.
  "Dispatch Safety Crew" changes local state only.
* With unannounced nodes, the header and the menu's badge count more nodes online than cards
  and directory do; a popup then says "Active". `PagesAgree` says by which nodes.
* The fleet comparison chart draws every node with a reading, whatever the hardware filter
  (`NodeFleetComparisonChart.tsx` 43); a click on such a bar selects a node the page does not
  offer, and the selection jumps back. The fleet's averages (`GlobalZoneAverages.tsx` 258)
  do not list `onlyOpPp` among what they are recomputed for.
* "Rooms" in the status bar are zones known, not zones joined. The twin's probe dot
  ignores the crack gauge, and its "100% Online" is constant; a pinging marker may be of a node that
  is offline.
* The scenarios for gas and water announce an ORANGE alert (`SimulationScenarioPanel.tsx` 69),
  their buttons send a YELLOW one.
* `MlFleetStatusBar`'s counters of normal and noise leave out dangerous nodes, its
  filters do not.
* The inspector confirms labels at port 3001 of localhost, where docker-compose runs the
  dashboard; the prediction inspected on a card may change between reading and clicking.
  The studio's 20 made-up records (`MlValidationStudio.tsx` 85-112), a quarter of them with a
  label nobody chose, are not marked as such in its table or file: `LabelWasChosen` excepts
  them by name.
* The analytics page draws 15 made-up frames (257-277), mixes series after another node is
  chosen, and drops readings of other nodes while its node's first one is unchanged.

ML:

* An older drift evaluation may overwrite a newer one; `BarShowsVerdict` speaks of the end.
* Of two models trained on the same split, the other is judged and served with foreign
  statistics if asked for by name (`evaluate.py` 7, 216; ML_WORKFLOW.md:47);
  `StatsBelongToWeights` says which pairs do belong together.
* Validation begins where training of a node ends and is not audited against it.
  Confirmed rows keep the predicted severity (`train.py` 198), an unknown label trains as
  normal (197), confirmed rows go to training although ML_WORKFLOW.md:224-225 speaks of
  testing. Files are written in place.

## 8. Not modelled

* The content of readings, the struct layout, JSON, seeding of missing ML channels from
  related ones, and the numbers a filter or a network computes.
* `dashboard/src/lib` (socket client, decoders, voice alerts, reports) is not in the
  repository.
* The drawing of charts and of the map, the analytics page's rolling buffer of frames (15
  made-up ones first, 60 at most), landing and architecture pages: rendering without a
  protocol. What charts and map say of a node is in `Console`.
* The averages of sensors other than the crack gauge on the monitoring page.
* REST controllers that delegate, modules, protobuf encoding, startup: pure conversion.
* The gateway's OLED; synthetic data and the network itself.
* `resolveAlert`, `clearNode`, `joinZone` of the context and the purge of offline
  nodes only have no callers and are no actions.

## 9. Plan

What is left, in the order of its worth:

1. The safety parts of the liveness properties as theorems: what a state that can go no
   further looks like (`Settles`, `ScreenCatchesUp`, `PanelCatchesUp`, `BarShowsVerdict`).
2. `Uplink` put in front of `Processing`, so that a full queue shows up as a gap there.
3. The averages of all sensors on the monitoring page over bounded inputs, and the
   filter's average against its window.
4. The analytics page's series, once a statement of the repository says what they promise.

## 10. Running

    tlc -workers 2 -config Dashboard.cfg MCDashboard
    tlapm Dashboard_proofs.tla

A configuration `X.cfg` goes with `MCX` if there is one, `Ingestion.cfg` with
`MCIngestion` (module `GatewayBadge`), `AlertFeed.cfg` with `AlertPages`, and
`PredictionReview.cfg` and `SosPanel.cfg` with the module of their name.
