------------------------------- MODULE Alerts -------------------------------
(***************************************************************************)
(* Alerts raised by AlertsService: threshold rules on readings, nodes that *)
(* go offline, and predictions of the ML service.  Alerts of one cause are *)
(* at least a cooldown apart; the latest MaxAlerts are kept in memory.     *)
(*                                                                         *)
(* Every handler is one synchronous call.  Nobody calls resolveAlert.      *)
(***************************************************************************)
EXTENDS Integers, Sequences, FiniteSets

CONSTANTS
  Node,        (* nodeIds                                                  *)
  Channel,     (* sensor types that report                                 *)
  Value,       (* their values, in tenths                                  *)
  Severity,    (* severities the ML service predicts, in tenths            *)
  Cooldown,    (* COOLDOWN_MS                                              *)
  MaxAlerts,   (* MAX_ALERTS                                               *)
  MaxTime      (* bound: the clock stops here                              *)

Rule(id, sensorType, operator, threshold, severity) ==
  [id |-> id, sensorType |-> sensorType, operator |-> operator,
   threshold |-> threshold, severity |-> severity]

\* Thresholds in tenths.
THRESHOLD_RULES == <<
  Rule("rule-tilt-crit", "tilt", ">=", 100, "critical"),
  Rule("rule-tilt-warn", "tilt", ">=", 50, "warning"),
  Rule("rule-vibe-crit", "vibration", ">=", 100, "critical"),
  Rule("rule-vibe-warn", "vibration", ">=", 50, "warning"),
  Rule("rule-dist-crit", "displacement", ">=", 350, "critical"),
  Rule("rule-dist-warn", "displacement", ">=", 250, "warning"),
  Rule("rule-water-crit", "water", ">=", 20000, "critical"),
  Rule("rule-water-warn", "water", ">=", 10000, "warning"),
  Rule("rule-temp-crit", "temperature", ">=", 330, "critical"),
  Rule("rule-temp-warn", "temperature", ">=", 325, "warning"),
  Rule("rule-hum-crit", "humidity", "<=", 700, "critical"),
  Rule("rule-hum-warn", "humidity", "<=", 750, "warning"),
  Rule("rule-gas-crit", "gas", ">=", 5000, "critical"),
  Rule("rule-gas-warn", "gas", ">=", 3750, "warning"),
  Rule("rule-pot-crit", "potentiometer", ">=", 10000, "critical"),
  Rule("rule-pot-warn", "potentiometer", ">=", 3000, "warning"),
  Rule("rule-miner-proximity", "miner_proximity", ">=", 10, "critical") >>

Rules == {THRESHOLD_RULES[i] : i \in DOMAIN THRESHOLD_RULES}
RulesOf(channel) == {r \in Rules : r.sensorType = channel}

\* A channel has at most one rule of each severity, so a reading raises at
\* most one alert, and the order of the rules is that of their severities.
ASSUME AlertsAssumption ==
  /\ IsFiniteSet(Node)
  /\ Value \subseteq Int
  /\ Severity \subseteq 0 .. 10
  /\ Cooldown \in Nat \ {0}
  /\ MaxAlerts \in Nat \ {0}
  /\ MaxTime \in Nat
  /\ \A c \in Channel : \A r, s \in RulesOf(c) :
       r # s => r.severity # s.severity /\ r.id # s.id
  /\ \A i, j \in DOMAIN THRESHOLD_RULES :
       LET r == THRESHOLD_RULES[i]
           s == THRESHOLD_RULES[j]
       IN  r.sensorType = s.sensorType /\ r.severity = "critical"
             /\ s.severity = "warning" => i < j

VARIABLES
  now,            (* Date.now()                                            *)
  lastTriggered,  (* alertCooldowns; 0 for a key it does not have          *)
  alerts,         (* the alerts in memory, newest first                    *)
  called          (* history: when each key's alert was last called for    *)

vars == <<now, lastTriggered, alerts, called>>

RuleIds == {r.id : r \in UNION {RulesOf(c) : c \in Channel}}

\* What a cooldown is kept for: `nodeId:ruleId`.
Key == Node \X (RuleIds \cup {"node-offline", "ml-subsidence-risk"})

\* Date.now() is far beyond the cooldown from the start.
Init ==
  /\ now = Cooldown
  /\ lastTriggered = [k \in Key |-> 0]
  /\ alerts = <<>>
  /\ called = [k \in Key |-> 0]

-----------------------------------------------------------------------------
Abs(x) == IF x < 0 THEN - x ELSE x

\* A tilt of 40 degrees or more is taken for one on the 80 degree offset of
\* the sensor.
CompareVal(channel, value) ==
  IF channel = "tilt" THEN Abs(IF value >= 400 THEN value - 800 ELSE value) ELSE value

Triggers(r, value) ==
  LET v == CompareVal(r.sensorType, value)
  IN  IF r.operator = ">=" THEN v >= r.threshold ELSE v <= r.threshold

\* Mutation: alerts a step too early.
CoolingShort(k) == now - lastTriggered[k] < Cooldown - 1
Cooling(k) == now - lastTriggered[k] < Cooldown

Keep(as) == IF Len(as) > MaxAlerts THEN SubSeq(as, 1, MaxAlerts) ELSE as

\* recordAndEmitAlert, after the cooldown of its key is restarted.
Raise(k, severity, value) ==
  /\ lastTriggered' = [lastTriggered EXCEPT ![k] = now]
  /\ alerts' = Keep(<<[key |-> k, severity |-> severity, value |-> value,
                       at |-> now]>> \o alerts)

\* Mutation: a suppressed cause restarts the cooldown.
Restart(k) ==
  /\ lastTriggered' = [lastTriggered EXCEPT ![k] = now]
  /\ UNCHANGED alerts
Suppress(k) == UNCHANGED <<lastTriggered, alerts>>

Called(k) == called' = [called EXCEPT ![k] = now]

\* The rules are tried in order, the critical one first: a rule in its
\* cooldown is passed over, and the first other one to match is raised.
HandleDedupedReading(n, channel, value) ==
  LET matching == {r \in RulesOf(channel) : Triggers(r, value)}
      ready == {r \in matching : ~ Cooling(<<n, r.id>>)}
      IsFirst(r, rs) ==
        r \in rs /\ (r.severity = "warning" => \A s \in rs : s.severity # "critical")
  IN
  \E highest \in matching :
    /\ IsFirst(highest, matching)
    /\ Called(<<n, highest.id>>)
    /\ IF ready = {}
       THEN Suppress(<<n, highest.id>>)
       ELSE \E r \in ready : IsFirst(r, ready) /\ Raise(<<n, r.id>>, r.severity, value)
    /\ UNCHANGED now

HandleNodeOffline(n) ==
  LET k == <<n, "node-offline">>
  IN
  /\ Called(k)
  /\ IF Cooling(k) THEN Suppress(k) ELSE Raise(k, "warning", 0)
  /\ UNCHANGED now

\* get_provisional_alert_level of the inference service.
AlertLevel(severity) ==
  CASE severity >= 8 -> "RED"
    [] severity \in 6 .. 7 -> "ORANGE"
    [] severity \in 2 .. 5 -> "YELLOW"
    [] OTHER -> "GREEN"

IsRisk(class, severity) ==
  class = "subsidence_risk" \/ AlertLevel(severity) \in {"RED", "ORANGE"}

HandleMlPrediction(n, class, severity) ==
  LET k == <<n, "ml-subsidence-risk">>
      isCritical == AlertLevel(severity) = "RED" \/ severity >= 6
  IN
  /\ IsRisk(class, severity)
  /\ Called(k)
  /\ IF Cooling(k)
     THEN Suppress(k)
     ELSE Raise(k, IF isCritical THEN "critical" ELSE "warning", severity)
  /\ UNCHANGED now

Tick ==
  /\ now < MaxTime
  /\ now' = now + 1
  /\ UNCHANGED <<lastTriggered, alerts, called>>

Next ==
  \/ \E n \in Node, channel \in Channel, value \in Value :
       HandleDedupedReading(n, channel, value)
  \/ \E n \in Node : HandleNodeOffline(n)
  \/ \E n \in Node, class \in {"subsidence_risk", "other"}, severity \in Severity :
       HandleMlPrediction(n, class, severity)
  \/ Tick

Spec == Init /\ [][Next]_vars

-----------------------------------------------------------------------------
Alert == [key : Key, severity : {"warning", "critical"}, value : Int, at : Nat]

TypeOK ==
  /\ now \in Nat
  /\ lastTriggered \in [Key -> 0 .. now]
  /\ alerts \in Seq(Alert)
  /\ Len(alerts) <= MaxAlerts
  /\ called \in [Key -> 0 .. now]

(***************************************************************************)
(* No storm: two alerts of one cause are at least the cooldown apart       *)
(* (alertCooldowns, 188-190), so at most one per node and rule is raised   *)
(* in any period of that length.                                           *)
(***************************************************************************)
NoAlertStorm ==
  \A i, j \in 1 .. Len(alerts) :
    i < j /\ alerts[i].key = alerts[j].key =>
      alerts[i].at >= alerts[j].at + Cooldown

(***************************************************************************)
(* No silence: when an alert is called for, by a reading beyond a          *)
(* threshold, a node that goes offline or a prediction of risk, one of the *)
(* same node and rule and less than a cooldown old is on record, however   *)
(* many others were raised meanwhile - as long as the record holds one of  *)
(* each cause.                                                             *)
(***************************************************************************)
CauseIsOnRecord ==
  Cardinality(Key) <= MaxAlerts =>
    \A k \in Key :
      called[k] = now =>
        \E i \in 1 .. Len(alerts) : alerts[i].key = k /\ now - alerts[i].at < Cooldown

=============================================================================
