----------------------------- MODULE AlertFeed -----------------------------
(***************************************************************************)
(* ML predictions and the alert list as RealtimeContext keeps them, filled *)
(* by the backend or by the dashboard's own simulation.                    *)
(*                                                                         *)
(* Severities and ramps are in hundredths, times relative: an alert is     *)
(* fresh for five seconds.  Threshold alerts of readings are absent: their *)
(* list is tested before the state updater that fills it runs.             *)
(***************************************************************************)
EXTENDS Naturals, FiniteSets, SequencesExt

CONSTANTS
  LiveNode,        (* nodes the backend sends predictions of               *)
  LiveSeverity,    (* what the server makes of their windows               *)
  None,
  ClocksAgree,     (* a prediction arrives within 5 s of its timestamp     *)
  MaxAlerts,       (* length of the alert list, 50                         *)
  MaxPredictions,  (* bound: predictions of the backend                    *)
  MaxToggles,      (* bound: switches of the simulation                    *)
  MaxDrops         (* bound: how often the connection breaks               *)

\* The simulation's nodes; the first three are in its first zone.
SimNode == <<"NODE_01", "NODE_02", "NODE_03", "NODE_04", "NODE_05", "NODE_06">>

ASSUME AlertFeedAssumption ==
  /\ LiveNode \subseteq Range(SimNode)
  /\ LiveSeverity \subseteq 0 .. 100
  /\ ClocksAgree \in BOOLEAN
  /\ MaxAlerts \in Nat \ {0}
  /\ {MaxPredictions, MaxToggles, MaxDrops} \subseteq Nat

VARIABLES
  simulating,      (* isSimulationActive                                   *)
  toggles,
  batchRound,      (* batches of this simulation so far, modulo 20         *)
  mlPredictions,   (* the latest prediction of each node                   *)
  alerts,          (* newest first                                         *)
  predicted,       (* predictions so far                                   *)
  secondCopy,      (* a prediction sent to the room, and now to all        *)
  shadowPredictions, (* the backend's latest prediction of each node       *)
  socketUp,
  joinedZones,     (* zones whose room was joined, and snapshot received   *)
  drops

socket == <<socketUp, joinedZones, drops>>
feedVars == <<simulating, toggles, batchRound, mlPredictions, alerts, predicted, secondCopy, shadowPredictions, socket>>

FeedInit ==
  /\ simulating = FALSE
  /\ toggles = 0
  /\ batchRound = 0
  /\ mlPredictions = <<>>
  /\ alerts = <<>>
  /\ predicted = 0
  /\ secondCopy = None
  /\ shadowPredictions = <<>>
  /\ socketUp = FALSE
  /\ joinedZones = {}
  /\ drops = 0

-----------------------------------------------------------------------------
(***************************************************************************)
(* Predictions and the alert list.                                         *)
(***************************************************************************)
Prediction(class, level, severity) == [class |-> class, level |-> level, severity |-> severity]

IsAlarming(p) == p.level # "GREEN" \/ p.class = "subsidence_risk" \/ p.severity >= 20
IsCritical(p) == p.level = "RED" \/ p.severity >= 60

Alert(id, n, critical, isMl, isFresh) ==
  [id |-> id, node |-> n, critical |-> critical, ml |-> isMl, fresh |-> isFresh]

\* Mutations: nothing is recent; any node's alert counts.
IsRecentNever(n) == FALSE
IsRecentOfAny(n) == \E i \in DOMAIN alerts : alerts[i].ml /\ alerts[i].fresh
IsRecent(n) ==
  \E i \in DOMAIN alerts : alerts[i].node = n /\ alerts[i].ml /\ alerts[i].fresh

Cut(list) == SubSeq(list, 1, IF Len(list) > MaxAlerts THEN MaxAlerts ELSE Len(list))

Only(n, p) == [m \in {n} |-> p]
Replaced(old, new) ==
  [n \in DOMAIN old \cup DOMAIN new |-> IF n \in DOMAIN new THEN new[n] ELSE old[n]]

DispatchMlPrediction(id, n, p, isFresh) ==
  /\ mlPredictions' = Replaced(mlPredictions, Only(n, p))
  /\ alerts' =
       IF IsAlarming(p) /\ ~ IsRecent(n)
       THEN Cut(<<Alert(<<"live", id>>, n, IsCritical(p), TRUE, isFresh)>> \o alerts)
       ELSE alerts

Class == {"normal", "equipment_noise", "subsidence_risk"}

\* The server's level is of the severity before it is rounded; the class is
\* found apart from both.
LevelOf(severity) ==
  CASE severity < 20 -> "GREEN"
    [] severity \in 20 .. 59 -> "YELLOW"
    [] severity \in 60 .. 79 -> "ORANGE"
    [] severity >= 80 -> "RED"
LevelsOf(severity) ==
  {LevelOf(severity)} \cup {LevelOf(below - 1) : below \in {20, 60, 80} \cap {severity}}

LivePrediction ==
  UNION {{Prediction(class, level, severity) : class \in Class, level \in LevelsOf(severity)} :
           severity \in LiveSeverity}

ZoneOf(n) == IF n \in {SimNode[1], SimNode[2], SimNode[3]} THEN 1 ELSE 2

\* updateShadowPrediction.
Generate(n, p) ==
  /\ predicted < MaxPredictions
  /\ predicted' = predicted + 1
  /\ shadowPredictions' = Replaced(shadowPredictions, Only(n, p))

\* handleMlPrediction emits to the zone's room and then to everyone.
ReceivePrediction(n, p, isFresh) ==
  /\ socketUp
  /\ secondCopy = None
  /\ ClocksAgree => isFresh
  /\ Generate(n, p)
  /\ DispatchMlPrediction(predicted', n, p, isFresh)
  /\ secondCopy' = IF ZoneOf(n) \in joinedZones THEN [node |-> n, prediction |-> p, fresh |-> isFresh] ELSE None
  /\ UNCHANGED <<simulating, toggles, batchRound, socket>>

\* Nobody is there to hear it.
MissPrediction(n, p) ==
  /\ ~ socketUp
  /\ Generate(n, p)
  /\ UNCHANGED <<simulating, toggles, batchRound, mlPredictions, alerts, secondCopy, socket>>

HandleConnect ==
  /\ ~ socketUp
  /\ socketUp' = TRUE
  /\ UNCHANGED <<simulating, toggles, batchRound, mlPredictions, alerts, predicted, secondCopy,
                 shadowPredictions, joinedZones, drops>>

\* The backend may be the one that ended, and forgets.
HandleDisconnect ==
  /\ socketUp
  /\ drops < MaxDrops
  /\ drops' = drops + 1
  /\ socketUp' = FALSE
  /\ joinedZones' = {}
  /\ secondCopy' = None
  /\ shadowPredictions' \in {shadowPredictions, <<>>}
  /\ UNCHANGED <<simulating, toggles, batchRound, mlPredictions, alerts, predicted>>

\* After the zone's room was joined: the predictions are stored, and raise no
\* alert.
HandleSnapshot(zone) ==
  /\ socketUp
  /\ secondCopy = None
  /\ zone \notin joinedZones
  /\ joinedZones' = joinedZones \cup {zone}
  /\ mlPredictions' =
       Replaced(mlPredictions, Restrict(shadowPredictions, {n \in DOMAIN shadowPredictions : ZoneOf(n) = zone}))
  /\ UNCHANGED <<simulating, toggles, batchRound, alerts, predicted, secondCopy, shadowPredictions, socketUp, drops>>

ReceiveSecondCopy ==
  /\ secondCopy # None
  /\ DispatchMlPrediction(predicted, secondCopy.node, secondCopy.prediction, secondCopy.fresh)
  /\ secondCopy' = None
  /\ UNCHANGED <<simulating, toggles, batchRound, predicted, shadowPredictions, socket>>

\* The buttons of several pages make a prediction up.
DemoPrediction ==
  [subsidence_risk |-> Prediction("subsidence_risk", "RED", 91),
   equipment_noise |-> Prediction("equipment_noise", "YELLOW", 24),
   normal |-> Prediction("normal", "GREEN", 2)]

TriggerDemoMlEvent(n, class) ==
  /\ predicted < MaxPredictions
  /\ secondCopy = None
  /\ predicted' = predicted + 1
  /\ DispatchMlPrediction(predicted', n, DemoPrediction[class], TRUE)
  /\ UNCHANGED <<simulating, toggles, batchRound, secondCopy, shadowPredictions, socket>>

\* Five seconds pass; the copies of one prediction are not that far apart.
AlertsAge ==
  /\ secondCopy = None
  /\ \E i \in DOMAIN alerts : alerts[i].fresh
  /\ alerts' = [i \in DOMAIN alerts |-> [alerts[i] EXCEPT !.fresh = FALSE]]
  /\ UNCHANGED <<simulating, toggles, batchRound, mlPredictions, predicted, secondCopy, shadowPredictions, socket>>

ClearAlerts ==
  /\ alerts # <<>>
  /\ alerts' = <<>>
  /\ UNCHANGED <<simulating, toggles, batchRound, mlPredictions, predicted, secondCopy, shadowPredictions, socket>>

\* Of this module's state a purge clears the alerts and ends the simulation.
ClearCache ==
  /\ toggles < MaxToggles
  /\ toggles' = toggles + 1
  /\ alerts' = <<>>
  /\ simulating' = FALSE
  /\ UNCHANGED <<batchRound, mlPredictions, predicted, secondCopy, shadowPredictions, socket>>

-----------------------------------------------------------------------------
(***************************************************************************)
(* The simulation: ten batches of risk in one zone, then ten in the other. *)
(***************************************************************************)
RoundsPerPhase == 10
Ramp == <<25, 45, 68, 85, 100, 95, 80, 55, 30, 12>>

IsPhaseA(round) == (round \div RoundsPerPhase) % 2 = 0

RampOf(round) == Ramp[(round % RoundsPerPhase) + 1]

\* low + ramp * gain, rounded.
Severity(low, gain, ramp) == (100 * low + gain * ramp + 50) \div 100

\* NODE_03 and NODE_06, each in its phase.
Subsiding(ramp, gain) ==
  Prediction(IF ramp >= 40 THEN "subsidence_risk" ELSE "normal",
             IF ramp >= 65 THEN "RED" ELSE IF ramp >= 40 THEN "ORANGE" ELSE "YELLOW",
             Severity(12, gain, ramp))

Quiet == Prediction("normal", "GREEN", 2)

PhaseA(n, ramp) ==
  CASE n = "NODE_01" -> Prediction("normal", "GREEN", Severity(5, 15, ramp))
    [] n = "NODE_02" -> Prediction("equipment_noise", "YELLOW", Severity(14, 14, ramp))
    [] n = "NODE_03" -> Subsiding(ramp, 81)
    [] OTHER -> Quiet

PhaseB(n, ramp) ==
  CASE n = "NODE_04" -> Prediction("equipment_noise", IF ramp >= 60 THEN "ORANGE" ELSE "YELLOW", Severity(20, 58, ramp))
    [] n = "NODE_05" -> Prediction("normal", IF ramp >= 60 THEN "ORANGE" ELSE "GREEN", Severity(15, 55, ramp))
    [] n = "NODE_06" -> Subsiding(ramp, 80)
    [] OTHER -> Quiet

SimPrediction(n, round) ==
  IF IsPhaseA(round) THEN PhaseA(n, RampOf(round)) ELSE PhaseB(n, RampOf(round))

SimMlAlerts(round) ==
  {Alert(<<"ml", n>>, n, IsCritical(SimPrediction(n, round)), TRUE, TRUE) :
     n \in {m \in Range(SimNode) : IsAlarming(SimPrediction(m, round))}}

\* Threshold breaches, in the words of the simulation, whether or not the
\* value of this batch is beyond the threshold.
SimHwAlerts(round) ==
  LET breach(sensor, n, critical) == Alert(<<sensor, n>>, n, critical, FALSE, FALSE)
      ramp == RampOf(round)
  IN IF IsPhaseA(round)
     THEN {breach("tilt", "NODE_03", ramp >= 65), breach("displacement", "NODE_03", ramp >= 65)}
     ELSE {breach("gas", "NODE_04", ramp >= 60), breach("water", "NODE_05", FALSE), breach("tilt", "NODE_06", ramp >= 65)}

\* The n-th smallest of some numbers.
Nth(numbers, n) == CHOOSE k \in numbers : Cardinality({j \in numbers : j <= k}) = n

WithoutSimulated(list) ==
  LET kept == {i \in DOMAIN list : list[i].id[1] = "live"}
  IN [n \in 1 .. Cardinality(kept) |-> list[Nth(kept, n)]]

GenerateSimBatch ==
  /\ simulating
  /\ batchRound' = (batchRound + 1) % (2 * RoundsPerPhase)
  /\ mlPredictions' = Replaced(mlPredictions, [n \in Range(SimNode) |-> SimPrediction(n, batchRound)])
  /\ alerts' = SetToSeq(SimMlAlerts(batchRound)) \o SetToSeq(SimHwAlerts(batchRound)) \o WithoutSimulated(alerts)
  /\ UNCHANGED <<simulating, toggles, predicted, secondCopy, shadowPredictions, socket>>

\* Starting clears what was shown; stopping leaves what was simulated.
ToggleSimulation ==
  /\ toggles < MaxToggles
  /\ toggles' = toggles + 1
  /\ simulating' = ~ simulating
  /\ IF simulating
     THEN UNCHANGED <<batchRound, mlPredictions, alerts>>
     ELSE /\ batchRound' = 0
          /\ mlPredictions' = <<>>
          /\ alerts' = <<>>
  /\ UNCHANGED <<predicted, secondCopy, shadowPredictions, socket>>

\* The scenarios of the analytics page.  What the gas and the water scenario
\* expect, an orange alert, is not what their buttons send.
ScenarioEvent ==
  {[node |-> "NODE_01", class |-> "normal"], [node |-> "NODE_02", class |-> "equipment_noise"],
   [node |-> "NODE_03", class |-> "subsidence_risk"], [node |-> "NODE_04", class |-> "equipment_noise"]}

\* The start of the simulation, which forgets everything, and the event.
StartWith(event) ==
  LET p == DemoPrediction[event.class] IN
  /\ toggles < MaxToggles
  /\ predicted < MaxPredictions
  /\ secondCopy = None
  /\ toggles' = toggles + 1
  /\ predicted' = predicted + 1
  /\ simulating' = TRUE
  /\ batchRound' = 0
  /\ mlPredictions' = Only(event.node, p)
  /\ alerts' =
       IF IsAlarming(p) THEN <<Alert(<<"live", predicted'>>, event.node, IsCritical(p), TRUE, TRUE)>>
       ELSE <<>>
  /\ UNCHANGED <<secondCopy, shadowPredictions, socket>>

QuickScenario(event) ==
  \/ simulating /\ TriggerDemoMlEvent(event.node, event.class)
  \/ ~ simulating /\ StartWith(event)

-----------------------------------------------------------------------------
FeedNext ==
  \/ \E n \in LiveNode, p \in LivePrediction, isFresh \in BOOLEAN : ReceivePrediction(n, p, isFresh)
  \/ \E n \in LiveNode, p \in LivePrediction : MissPrediction(n, p)
  \/ ReceiveSecondCopy
  \/ HandleConnect
  \/ HandleDisconnect
  \/ \E zone \in {ZoneOf(n) : n \in LiveNode} : HandleSnapshot(zone)
  \/ \E n \in LiveNode, class \in DOMAIN DemoPrediction : TriggerDemoMlEvent(n, class)
  \/ \E event \in ScenarioEvent : QuickScenario(event)
  \/ AlertsAge
  \/ ClearAlerts
  \/ ClearCache
  \/ GenerateSimBatch
  \/ ToggleSimulation

FeedSpec == FeedInit /\ [][FeedNext]_feedVars

-----------------------------------------------------------------------------
PredictionType ==
  [class : Class,
   level : {"GREEN", "YELLOW", "ORANGE", "RED"}, severity : 0 .. 100]

AlertId == ({"live"} \X Nat) \cup ({"ml", "tilt", "displacement", "gas", "water"} \X Range(SimNode))

AlertType ==
  [id : AlertId, node : Range(SimNode), critical : BOOLEAN, ml : BOOLEAN, fresh : BOOLEAN]

SocketTypeOK ==
  /\ DOMAIN shadowPredictions \subseteq LiveNode
  /\ \A n \in DOMAIN shadowPredictions : shadowPredictions[n] \in LivePrediction
  /\ socketUp \in BOOLEAN
  /\ joinedZones \subseteq {1, 2}
  /\ drops \in Nat

FeedTypeOK ==
  /\ simulating \in BOOLEAN
  /\ toggles \in Nat
  /\ batchRound \in 0 .. (2 * RoundsPerPhase - 1)
  /\ DOMAIN mlPredictions \subseteq Range(SimNode)
  /\ \A n \in DOMAIN mlPredictions : mlPredictions[n] \in PredictionType
  /\ alerts \in Seq(AlertType)
  /\ predicted \in Nat
  /\ secondCopy # None => secondCopy \in [node : LiveNode, prediction : LivePrediction, fresh : BOOLEAN]
  /\ SocketTypeOK

(***************************************************************************)
(* A prediction makes at most one entry in the alert list, although it is  *)
(* sent to the room of its zone and again to everyone, and lists are keyed *)
(* by id (268-278; realtime.gateway.ts 153-161).                           *)
(***************************************************************************)
OneAlertPerPrediction ==
  ClocksAgree => \A i, j \in DOMAIN alerts : alerts[i].id = alerts[j].id => i = j

=============================================================================
