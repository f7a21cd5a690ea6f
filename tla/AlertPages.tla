----------------------------- MODULE AlertPages -----------------------------
(***************************************************************************)
(* What the alerts page, the emergency banner and the fleet bar make of    *)
(* the predictions and alerts the context keeps.  Each works out for       *)
(* itself which nodes are in danger, and shows it in its own form.         *)
(***************************************************************************)
EXTENDS AlertFeed

Predicted == DOMAIN mlPredictions

\* Written out in each component.
IsDanger(p) == p.class = "subsidence_risk" \/ p.level \in {"RED", "ORANGE"}

-----------------------------------------------------------------------------
(***************************************************************************)
(* The alerts page.                                                        *)
(***************************************************************************)
\* activeMlPredictions of the page's urgent box.
CriticalMlPredictions == {n \in Predicted : IsDanger(mlPredictions[n])}

\* A node's card: danger comes before noise.
CardKind(p) ==
  IF IsDanger(p) THEN "danger"
  ELSE IF p.class = "equipment_noise" THEN "noise"
  ELSE "normal"

\* Some of the list, by their places in it.
CriticalAlerts == {i \in DOMAIN alerts : alerts[i].critical}

Severities ==
  [critical |-> Cardinality(CriticalAlerts),
   warning |-> Cardinality({i \in DOMAIN alerts : ~ alerts[i].critical})]

\* The page's header.
AlertsHeader == [mayClear |-> alerts # <<>>, active |-> Severities]

\* The badge in the header of every page and in the menu.
CriticalBadge == IF Severities.critical > 0 THEN {Severities.critical} ELSE {}

DisplayedAlerts(tab) ==
  {i \in DOMAIN alerts : tab = "all" \/ (alerts[i].ml <=> tab = "ml")}

\* A row is red if critical, whatever it came from; the badge of an ML alert
\* does not say how severe it is.
RowOf(alert) ==
  [icon |-> IF alert.critical THEN "shield" ELSE IF alert.ml THEN "brain" ELSE "triangle",
   badge |-> IF alert.ml THEN "AI/ML Warning" ELSE IF alert.critical THEN "critical" ELSE "warning"]

Stream(tab) == [i \in DisplayedAlerts(tab) |-> RowOf(alerts[i])]

\* Up if there is a node to name; its button opens the first of them.
UrgentBox == [up |-> CriticalMlPredictions # {}, names |-> CriticalMlPredictions]

\* The number on each tab, and the mark on the one for ML alerts.
Tabs ==
  [count |-> [tab \in {"all", "ml", "hardware"} |-> Cardinality(DisplayedAlerts(tab))],
   marked |-> CriticalMlPredictions # {}]

\* The grid of cards, left out for threshold breaches.
CardGrid(tab) ==
  [n \in {m \in Predicted : tab # "hardware"} |-> CardKind(mlPredictions[n])]

-----------------------------------------------------------------------------
(***************************************************************************)
(* The ML part of a node's card on the monitoring page: the class makes    *)
(* the dot, the level the badge, the severity the bar.                     *)
(***************************************************************************)
NodeCardMl(p) ==
  [dot |-> CASE p.class = "subsidence_risk" -> "red"
             [] p.class = "equipment_noise" -> "amber"
             [] OTHER -> "emerald",
   badge |-> p.level,
   bar |-> IF p.severity > 60 THEN "red" ELSE IF p.severity > 20 THEN "amber" ELSE "emerald"]

\* "Buffering window" until there is a prediction.
NodeCards == [n \in Predicted |-> NodeCardMl(mlPredictions[n])]

-----------------------------------------------------------------------------
(***************************************************************************)
(* The banner above it, which has room for one node.                       *)
(***************************************************************************)
\* Mutation: the colour is not looked at.
AtRiskByClass == {n \in Predicted : mlPredictions[n].class = "subsidence_risk"}
AtRiskNodes == {n \in Predicted : IsDanger(mlPredictions[n])}

\* The first in the map's order; else the newest critical alert, however old.
EmergencyNodes ==
  IF AtRiskNodes # {} THEN [node : AtRiskNodes, source : {"ml"}]
  ELSE {[node |-> alerts[i].node, source |-> "threshold"] :
          i \in {j \in CriticalAlerts : \A k \in CriticalAlerts : j <= k}}

BannerIsUp == EmergencyNodes # {}

-----------------------------------------------------------------------------
(***************************************************************************)
(* The fleet bar's counters, and the filter each of them switches on.      *)
(***************************************************************************)
FleetCounts ==
  LET risk == {n \in Predicted : IsDanger(mlPredictions[n])}
      noise == {n \in Predicted \ risk : mlPredictions[n].class = "equipment_noise"}
  IN [monitored |-> Cardinality(Predicted), subsidence |-> Cardinality(risk),
      noise |-> Cardinality(noise), normal |-> Cardinality(Predicted \ (risk \cup noise))]

\* Filters by class let a node in danger pass too, and the counters leave it out.
Filtered(filter) ==
  {n \in Predicted :
     LET p == mlPredictions[n] IN
     \/ filter = "all"
     \/ filter = "ml_subsidence" /\ IsDanger(p)
     \/ filter = "ml_noise" /\ p.class = "equipment_noise"
     \/ filter = "ml_normal" /\ p.class = "normal"}

\* A counter pressed twice lets every node pass again.
Pressed(counter, filter) == IF filter = counter THEN "all" ELSE counter

-----------------------------------------------------------------------------
(***************************************************************************)
(* The last card above the charts of the analytics page: the greatest      *)
(* severity, with the level of the first node that has it.                 *)
(***************************************************************************)
NoRisk == [severity |-> 0, level |-> "GREEN"]

HighestRisk ==
  LET predictions == {mlPredictions[n] : n \in {m \in Predicted : mlPredictions[m].severity > 0}}
      highest == {p \in predictions : \A q \in predictions : q.severity <= p.severity}
  IN IF highest = {} THEN {NoRisk}
     ELSE {[severity |-> p.severity, level |-> p.level] : p \in highest}

RiskCard(risk) ==
  [badge |-> CASE risk.level = "RED" -> "danger"
               [] risk.level \in {"ORANGE", "YELLOW"} -> "warning"
               [] OTHER -> "success",
   icon |-> IF risk.severity >= 60 THEN "red" ELSE IF risk.severity >= 20 THEN "amber" ELSE "emerald",
   line |-> IF risk.severity >= 60 THEN "red" ELSE "emerald"]

-----------------------------------------------------------------------------
(***************************************************************************)
(* A node whose latest prediction is dangerous is seen on every page but   *)
(* one: the banner is up and names such a node, the page's box and cards   *)
(* show all of them, so does the node's own card, the fleet bar counts     *)
(* them and its filter brings them up, and no other counter claims more    *)
(* nodes than its filter shows.  The analytics card goes by the level of   *)
(* the greatest severity: its figure is no less than that of a node in     *)
(* danger, and it is never calm if one is in danger by its level; a node   *)
(* in danger by its class alone it may call a success.  Its red line means *)
(* danger, but for a severity rounded up to 60.  Red without danger needs  *)
(* a critical alert, and then the incident stream has its row, and one tab *)
(* or the other, and the badge counts it (alerts/page 269-405, 455-626,    *)
(* SosEmergencyBanner 23-52, MlFleetStatusBar 97-129, useZoneFilter        *)
(* 115-128, NodeCard 147-261, AnalyticsKpiCards 90-142).                   *)
(***************************************************************************)
DangerIsSeen ==
  LET danger == CriticalMlPredictions IN
  /\ danger # {} => BannerIsUp /\ \A e \in EmergencyNodes : e.node \in danger
  /\ UrgentBox.up <=> danger # {}
  /\ UrgentBox.up <=> Tabs.marked
  /\ \A tab \in {"all", "ml"} : danger = {n \in DOMAIN CardGrid(tab) : CardGrid(tab)[n] = "danger"}
  /\ \A n \in danger : NodeCards[n].dot = "red" \/ NodeCards[n].badge \in {"RED", "ORANGE"}
  /\ Tabs.count["all"] = Tabs.count["ml"] + Tabs.count["hardware"]
  /\ \A filter \in {"all", "ml_noise", "ml_normal"} :
       danger = Filtered(Pressed("ml_subsidence", filter))
  /\ FleetCounts.subsidence = Cardinality(danger)
  /\ FleetCounts.noise <= Cardinality(Filtered("ml_noise"))
  /\ FleetCounts.normal <= Cardinality(Filtered("ml_normal"))
  /\ \A risk \in HighestRisk :
       /\ \A n \in danger : risk.severity >= mlPredictions[n].severity
       /\ (\E n \in danger : mlPredictions[n].level \in {"RED", "ORANGE"})
            => RiskCard(risk).badge # "success" /\ RiskCard(risk).icon # "emerald"
       /\ RiskCard(risk).line = "red" => danger # {} \/ risk.severity = 60
  /\ AlertsHeader.mayClear <=> DOMAIN Stream("all") # {}
  /\ danger = {} /\ BannerIsUp =>
       /\ CriticalBadge # {}
       /\ \E tab \in {"ml", "hardware"} : \E i \in DOMAIN Stream(tab) : Stream(tab)[i].icon = "shield"

(***************************************************************************)
(* The moment a node's prediction turns dangerous, the list has an ML      *)
(* alert of that node: a new one, or one not five seconds old that keeps   *)
(* it from being repeated.  Other nodes' alerts, the length of the list    *)
(* and simulated batches never take its place (235-300, 917-921).  A       *)
(* danger the dashboard learns of from a zone's snapshot is not listed: it *)
(* is seen on the pages, and listed with the node's next prediction        *)
(* (1067-1078; realtime.service.ts 80-94).                                 *)
(***************************************************************************)
CameWithSnapshot(n) ==
  /\ joinedZones' = joinedZones \cup {ZoneOf(n)}
  /\ ZoneOf(n) \notin joinedZones
  /\ n \in DOMAIN shadowPredictions
  /\ mlPredictions'[n] = shadowPredictions[n]

DangerIsListed ==
  [][\A n \in DOMAIN mlPredictions' :
       /\ IsDanger(mlPredictions'[n])
       /\ n \in Predicted => mlPredictions[n] # mlPredictions'[n]
       => CameWithSnapshot(n) \/ \E i \in DOMAIN alerts' : alerts'[i].node = n /\ alerts'[i].ml]_feedVars

=============================================================================
