---------------------------- MODULE Alerts_proofs ----------------------------
(***************************************************************************)
(* Proofs about Alerts, for any nodes, channels, values, cooldown and size *)
(* of the record: no storm of alerts, and no silence.                      *)
(*                                                                         *)
(* NoAlertStorm speaks of the record only; it is inductive with the fact   *)
(* that no alert on record is later than its key's cooldown.  For          *)
(* CauseIsOnRecord the record is also in order and holds the alert of      *)
(* every cooldown that runs: one that would fall out of a full record is   *)
(* older than as many alerts of other keys as the record has room for.     *)
(***************************************************************************)
EXTENDS Alerts, FiniteSetTheorems, TLAPS

CooldownIsLatest ==
  \A i \in 1 .. Len(alerts) : alerts[i].at <= lastTriggered[alerts[i].key]

IInv == TypeOK /\ CooldownIsLatest /\ NoAlertStorm

\* Severities of the rule table.
LEMMA RuleSeverity == \A r \in Rules : r.severity \in {"warning", "critical"}
  <1>1. DOMAIN THRESHOLD_RULES = 1 .. 17
    BY DEF THRESHOLD_RULES
  <1>2. \A i \in 1 .. 17 : THRESHOLD_RULES[i].severity \in {"warning", "critical"}
    BY DEF THRESHOLD_RULES, Rule
  <1>. QED BY <1>1, <1>2 DEF Rules

\* A new alert comes in front, and the oldest go.
LEMMA PushKeeps ==
  ASSUME NEW s \in Seq(Alert), NEW a \in Alert, Len(s) <= MaxAlerts
  PROVE  /\ Keep(<<a>> \o s) \in Seq(Alert)
         /\ Len(Keep(<<a>> \o s)) \in 1 .. MaxAlerts
         /\ Len(Keep(<<a>> \o s)) <= Len(s) + 1
         /\ Len(Keep(<<a>> \o s)) \in {Len(s) + 1, MaxAlerts}
         /\ Keep(<<a>> \o s)[1] = a
         /\ \A i \in 2 .. Len(Keep(<<a>> \o s)) : Keep(<<a>> \o s)[i] = s[i - 1]
  <1>. DEFINE t == <<a>> \o s
  <1>1. /\ t \in Seq(Alert)
        /\ Len(t) = Len(s) + 1
        /\ t[1] = a
        /\ \A i \in 2 .. Len(t) : t[i] = s[i - 1]
    OBVIOUS
  <1>2. MaxAlerts \in Nat /\ MaxAlerts >= 1 /\ Len(s) \in Nat
    BY AlertsAssumption
  <1>. HIDE DEF t
  <1>. DEFINE Goal == /\ Keep(t) \in Seq(Alert)
                      /\ Len(Keep(t)) \in 1 .. MaxAlerts
                      /\ Len(Keep(t)) <= Len(s) + 1
                      /\ Len(Keep(t)) \in {Len(s) + 1, MaxAlerts}
                      /\ Keep(t)[1] = a
                      /\ \A i \in 2 .. Len(Keep(t)) : Keep(t)[i] = s[i - 1]
  <1>3. ASSUME Len(t) <= MaxAlerts PROVE Goal
    BY <1>1, <1>2, <1>3 DEF Keep
  <1>4. ASSUME Len(t) > MaxAlerts PROVE Goal
    <2>. DEFINE u == SubSeq(t, 1, MaxAlerts)
    <2>1. /\ u \in Seq(Alert)
          /\ Len(u) = MaxAlerts
          /\ \A i \in 1 .. MaxAlerts : u[i] = t[i]
      BY <1>1, <1>2, <1>4
    <2>2. Keep(t) = u
      BY <1>4 DEF Keep
    <2>. HIDE DEF u
    <2>. QED BY <1>1, <1>2, <1>4, <2>1, <2>2
  <1>5. Len(t) \in Nat /\ (Len(t) <= MaxAlerts \/ Len(t) > MaxAlerts)
    BY <1>1, <1>2
  <1>6. Goal
    BY <1>3, <1>4, <1>5
  <1>. QED BY <1>6 DEF t

\* Raising an alert whose key is not in its cooldown.
LEMMA RaiseIInv ==
  ASSUME IInv, NEW k \in Key, NEW severity \in {"warning", "critical"},
         NEW value \in Int, ~ Cooling(k), Raise(k, severity, value), UNCHANGED now
  PROVE  /\ lastTriggered' \in [Key -> 0 .. now]
         /\ alerts' \in Seq(Alert) /\ Len(alerts') <= MaxAlerts
         /\ CooldownIsLatest' /\ NoAlertStorm'
  <1>. DEFINE a == [key |-> k, severity |-> severity, value |-> value, at |-> now]
  <1>1. now \in Nat /\ a \in Alert /\ a.key = k /\ a.at = now
    BY DEF IInv, TypeOK, Alert
  <1>2. /\ alerts' = Keep(<<a>> \o alerts)
        /\ lastTriggered' = [lastTriggered EXCEPT ![k] = now]
    BY DEF Raise
  <1>. HIDE DEF a
  <1>3. alerts \in Seq(Alert) /\ Len(alerts) <= MaxAlerts /\ Len(alerts) \in Nat
    BY DEF IInv, TypeOK
  <1>4. /\ alerts' \in Seq(Alert)
        /\ Len(alerts') \in 1 .. MaxAlerts
        /\ Len(alerts') <= Len(alerts) + 1
        /\ alerts'[1] = a
        /\ \A i \in 2 .. Len(alerts') : alerts'[i] = alerts[i - 1]
    BY <1>1, <1>2, <1>3, PushKeeps
  <1>5. Len(alerts') \in Nat /\ MaxAlerts \in Nat
    BY <1>4, AlertsAssumption
  <1>6. lastTriggered \in [Key -> 0 .. now] /\ lastTriggered' \in [Key -> 0 .. now]
    BY <1>1, <1>2 DEF IInv, TypeOK
  <1>7. \A i \in 1 .. Len(alerts) :
          alerts[i].key \in Key /\ alerts[i].at \in Nat
            /\ alerts[i].at <= lastTriggered[alerts[i].key]
    <2>. SUFFICES ASSUME NEW i \in 1 .. Len(alerts)
                  PROVE  /\ alerts[i].key \in Key /\ alerts[i].at \in Nat
                         /\ alerts[i].at <= lastTriggered[alerts[i].key]
      OBVIOUS
    <2>1. alerts[i] \in Alert
      BY <1>3
    <2>2. alerts[i].at <= lastTriggered[alerts[i].key]
      BY DEF IInv, CooldownIsLatest
    <2>. QED BY <2>1, <2>2 DEF Alert
  <1>8. \A i \in 2 .. Len(alerts') :
          i - 1 \in 1 .. Len(alerts) /\ alerts'[i] = alerts[i - 1]
    BY <1>3, <1>4, <1>5
  <1>9. now >= lastTriggered[k] + Cooldown
    BY <1>1, <1>6, AlertsAssumption DEF Cooling
  <1>10. CooldownIsLatest'
    <2>. SUFFICES ASSUME NEW i \in 1 .. Len(alerts')
                  PROVE  alerts'[i].at <= lastTriggered'[alerts'[i].key]
      BY DEF CooldownIsLatest
    <2>1. CASE i = 1
      BY <1>1, <1>2, <1>4, <1>6, <2>1
    <2>2. CASE i # 1
      <3>1. i \in 2 .. Len(alerts')
        BY <1>5, <2>2
      <3>. DEFINE b == alerts[i - 1]
      <3>2. alerts'[i] = b /\ b.key \in Key /\ b.at \in Nat /\ b.at <= lastTriggered[b.key]
        BY <1>7, <1>8, <3>1
      <3>. HIDE DEF b
      <3>3. lastTriggered'[b.key] >= lastTriggered[b.key]
        BY <1>1, <1>2, <1>6, <3>2
      <3>. QED BY <1>1, <1>6, <3>2, <3>3
    <2>. QED BY <2>1, <2>2
  <1>11. NoAlertStorm'
    <2>. SUFFICES ASSUME NEW i \in 1 .. Len(alerts'), NEW j \in 1 .. Len(alerts'),
                         i < j, alerts'[i].key = alerts'[j].key
                  PROVE  alerts'[i].at >= alerts'[j].at + Cooldown
      BY AlertsAssumption DEF NoAlertStorm
    <2>1. j \in 2 .. Len(alerts')
      BY <1>5
    <2>2. j - 1 \in 1 .. Len(alerts) /\ alerts'[j] = alerts[j - 1]
      BY <1>8, <2>1
    <2>3. CASE i = 1
      <3>. DEFINE b == alerts[j - 1]
      <3>1. b.key = k /\ b.at \in Nat /\ b.at <= lastTriggered[k]
        BY <1>1, <1>4, <1>7, <2>2, <2>3
      <3>. HIDE DEF b
      <3>2. alerts'[i].at = now /\ alerts'[j] = b
        BY <1>1, <1>4, <2>2, <2>3 DEF b
      <3>. QED BY <1>1, <1>6, <1>9, <3>1, <3>2, AlertsAssumption
    <2>4. CASE i # 1
      <3>1. i \in 2 .. Len(alerts')
        BY <1>5, <2>4
      <3>2. i - 1 \in 1 .. Len(alerts) /\ alerts'[i] = alerts[i - 1]
        BY <1>8, <3>1
      <3>3. i - 1 < j - 1
        BY <1>5
      <3>. QED BY <2>2, <3>2, <3>3 DEF IInv, NoAlertStorm
    <2>. QED BY <2>3, <2>4
  <1>. QED BY <1>4, <1>5, <1>6, <1>10, <1>11

\* A handler either raises such an alert or leaves the record alone.
LEMMA HandlerIInv ==
  ASSUME IInv, NEW c \in Key, Called(c), UNCHANGED now,
         NEW k \in Key, NEW severity \in {"warning", "critical"}, NEW value \in Int,
         \/ ~ Cooling(k) /\ Raise(k, severity, value)
         \/ UNCHANGED <<lastTriggered, alerts>>
  PROVE  IInv'
  <1>1. called' \in [Key -> 0 .. now] /\ now \in Nat
    BY DEF Called, IInv, TypeOK
  <1>2. CASE ~ Cooling(k) /\ Raise(k, severity, value)
    BY <1>1, <1>2, RaiseIInv DEF IInv, TypeOK
  <1>3. CASE UNCHANGED <<lastTriggered, alerts>>
    BY <1>1, <1>3 DEF IInv, TypeOK, CooldownIsLatest, NoAlertStorm
  <1>. QED BY <1>2, <1>3

LEMMA InitIInv == Init => IInv
  <1>. SUFFICES ASSUME Init PROVE IInv
    OBVIOUS
  <1>1. alerts \in Seq(Alert) /\ Len(alerts) = 0
    BY DEF Init
  <1>2. TypeOK
    BY <1>1, AlertsAssumption DEF Init, TypeOK
  <1>. QED BY <1>1, <1>2 DEF IInv, CooldownIsLatest, NoAlertStorm

LEMMA NextIInv == IInv /\ [Next]_vars => IInv'
  <1>. SUFFICES ASSUME IInv, [Next]_vars PROVE IInv'
    OBVIOUS
  <1>1. ASSUME NEW n \in Node, NEW channel \in Channel, NEW value \in Value,
               HandleDedupedReading(n, channel, value)
        PROVE  IInv'
    <2>. DEFINE matching == {r \in RulesOf(channel) : Triggers(r, value)}
                ready == {r \in matching : ~ Cooling(<<n, r.id>>)}
    <2>1. value \in Int
      BY AlertsAssumption
    <2>2. \A r \in matching :
            <<n, r.id>> \in Key /\ r.severity \in {"warning", "critical"}
      BY RuleSeverity DEF Key, RuleIds, RulesOf
    <2>3. PICK highest \in matching :
            /\ Called(<<n, highest.id>>)
            /\ UNCHANGED now
            /\ \/ UNCHANGED <<lastTriggered, alerts>>
               \/ \E r \in ready : Raise(<<n, r.id>>, r.severity, value)
      BY <1>1 DEF HandleDedupedReading, Suppress
    <2>4. CASE UNCHANGED <<lastTriggered, alerts>>
      BY <2>1, <2>2, <2>3, <2>4, HandlerIInv
    <2>5. CASE \E r \in ready : Raise(<<n, r.id>>, r.severity, value)
      <3>1. PICK r \in ready : Raise(<<n, r.id>>, r.severity, value)
        BY <2>5
      <3>2. r \in matching /\ ~ Cooling(<<n, r.id>>)
        OBVIOUS
      <3>. HIDE DEF matching, ready
      <3>3. <<n, r.id>> \in Key /\ r.severity \in {"warning", "critical"}
              /\ <<n, highest.id>> \in Key
        BY <2>2, <3>2
      <3>. QED BY <2>1, <2>3, <3>1, <3>2, <3>3, HandlerIInv
    <2>. QED BY <2>3, <2>4, <2>5
  <1>2. ASSUME NEW n \in Node, HandleNodeOffline(n) PROVE IInv'
    <2>. DEFINE k == <<n, "node-offline">>
    <2>1. k \in Key
      BY DEF Key
    <2>2. /\ Called(k) /\ UNCHANGED now
          /\ \/ ~ Cooling(k) /\ Raise(k, "warning", 0)
             \/ UNCHANGED <<lastTriggered, alerts>>
      BY <1>2 DEF HandleNodeOffline, Suppress
    <2>. HIDE DEF k
    <2>. QED BY <2>1, <2>2, HandlerIInv
  <1>3. ASSUME NEW n \in Node, NEW class \in {"subsidence_risk", "other"},
               NEW severity \in Severity, HandleMlPrediction(n, class, severity)
        PROVE  IInv'
    <2>. DEFINE k == <<n, "ml-subsidence-risk">>
                s == IF AlertLevel(severity) = "RED" \/ severity >= 6
                     THEN "critical" ELSE "warning"
    <2>1. k \in Key /\ severity \in Int /\ s \in {"warning", "critical"}
      BY AlertsAssumption DEF Key
    <2>2. /\ Called(k) /\ UNCHANGED now
          /\ \/ ~ Cooling(k) /\ Raise(k, s, severity)
             \/ UNCHANGED <<lastTriggered, alerts>>
      BY <1>3 DEF HandleMlPrediction, Suppress
    <2>. HIDE DEF k, s
    <2>. QED BY <2>1, <2>2, HandlerIInv
  <1>4. CASE Tick
    <2>1. now' \in Nat /\ now' = now + 1 /\ now \in Nat
            /\ UNCHANGED <<lastTriggered, alerts, called>>
      BY <1>4 DEF Tick, IInv, TypeOK
    <2>2. lastTriggered' \in [Key -> 0 .. now'] /\ called' \in [Key -> 0 .. now']
      BY <2>1 DEF IInv, TypeOK
    <2>. QED BY <2>1, <2>2 DEF IInv, TypeOK, CooldownIsLatest, NoAlertStorm
  <1>5. CASE UNCHANGED vars
    BY <1>5 DEF vars, IInv, TypeOK, CooldownIsLatest, NoAlertStorm
  <1>. QED BY <1>1, <1>2, <1>3, <1>4, <1>5 DEF Next

-----------------------------------------------------------------------------
(***************************************************************************)
(* Type correctness; in particular the record never outgrows MAX_ALERTS    *)
(* (306-310).                                                              *)
(***************************************************************************)
THEOREM TypeCorrect == Spec => []TypeOK
  <1>1. IInv => TypeOK
    BY DEF IInv
  <1>. QED BY <1>1, InitIInv, NextIInv, PTL DEF Spec

(***************************************************************************)
(* Alerts of one node and rule are at least the cooldown apart, whichever  *)
(* handlers raise them and whatever is evicted (188-190, 239-243).         *)
(***************************************************************************)
THEOREM NoStorm == Spec => []NoAlertStorm
  <1>1. IInv => NoAlertStorm
    BY DEF IInv
  <1>. QED BY <1>1, InitIInv, NextIInv, PTL DEF Spec

-----------------------------------------------------------------------------
(***************************************************************************)
(* What is called for is on record.                                        *)
(***************************************************************************)
IsOnRecord(k) ==
  \E i \in 1 .. Len(alerts) : alerts[i].key = k /\ alerts[i].at = lastTriggered[k]

NewestFirst == \A i, j \in 1 .. Len(alerts) : i < j => alerts[j].at <= alerts[i].at

CoolingIsOnRecord ==
  Cardinality(Key) <= MaxAlerts => \A k \in Key : Cooling(k) => IsOnRecord(k)

CalledIsCooling == \A k \in Key : called[k] = now => Cooling(k)

RecordInv == NewestFirst /\ CoolingIsOnRecord /\ CalledIsCooling

\* There are finitely many rules, and so finitely many keys.
LEMMA KeyFinite == IsFiniteSet(Key)
  <1>. DEFINE D == 1 .. 17
              AllIds == {THRESHOLD_RULES[i].id : i \in D}
              f == [i \in D |-> THRESHOLD_RULES[i].id]
              more == {"node-offline", "ml-subsidence-risk"}
  <1>1. DOMAIN THRESHOLD_RULES = D
    BY DEF THRESHOLD_RULES
  <1>2. IsFiniteSet(D)
    <2>1. \A n \in Nat : IsFiniteSet(1 .. n)
      BY FS_Interval
    <2>2. PICK n \in Nat : n = 17
      OBVIOUS
    <2>3. IsFiniteSet(1 .. n) /\ 1 .. n = D
      BY <2>1, <2>2
    <2>. QED BY <2>3, Zenon
  <1>3. f \in Surjection(D, AllIds)
    BY DEF Surjection
  <1>4. IsFiniteSet(AllIds)
    BY <1>2, <1>3, FS_Surjection
  <1>5. RuleIds \subseteq AllIds
    BY <1>1 DEF RuleIds, RulesOf, Rules
  <1>6. IsFiniteSet(RuleIds)
    BY <1>4, <1>5, FS_Subset
  <1>7. IsFiniteSet(more)
    <2>1. more = {"node-offline"} \cup {"ml-subsidence-risk"}
      OBVIOUS
    <2>2. IsFiniteSet({"node-offline"}) /\ IsFiniteSet({"ml-subsidence-risk"})
      BY FS_Singleton
    <2>. QED BY <2>1, <2>2, FS_Union
  <1>8. IsFiniteSet(RuleIds \cup more)
    BY <1>6, <1>7, FS_Union
  <1>9. IsFiniteSet(Node)
    BY AlertsAssumption
  <1>. QED BY <1>8, <1>9, FS_Product DEF Key

\* A record that is full of keys other than one has no room for all.
LEMMA FullOfOthers ==
  ASSUME NEW s \in Seq(Alert), Len(s) = MaxAlerts, NEW k \in Key,
         \A i \in 1 .. MaxAlerts : s[i].key \in Key \ {k},
         \A i, j \in 1 .. MaxAlerts : i < j => s[i].key # s[j].key
  PROVE  ~ (Cardinality(Key) <= MaxAlerts)
  <1>. DEFINE D == 1 .. MaxAlerts
              Others == Key \ {k}
              f == [i \in D |-> s[i].key]
  <1>1. MaxAlerts \in Nat /\ MaxAlerts >= 1
    BY AlertsAssumption
  <1>2. IsFiniteSet(D) /\ Cardinality(D) = MaxAlerts
    BY <1>1, FS_Interval
  <1>3. IsFiniteSet(Key) /\ Cardinality(Key) \in Nat
    BY KeyFinite, FS_CardinalityType
  <1>4. IsFiniteSet(Others) /\ Cardinality(Others) = Cardinality(Key) - 1
    BY <1>3, FS_RemoveElement
  <1>5. f \in [D -> Others]
    OBVIOUS
  <1>6. \A x, y \in D : x # y => f[x] # f[y]
    <2>. SUFFICES ASSUME NEW x \in D, NEW y \in D, x # y PROVE s[x].key # s[y].key
      OBVIOUS
    <2>1. x < y \/ y < x
      BY <1>1
    <2>. QED BY <2>1
  <1>. HIDE DEF D, Others, f
  <1>7. ~ (Cardinality(Others) < Cardinality(D))
    BY <1>2, <1>4, <1>5, <1>6, FS_PigeonHole
  <1>. QED BY <1>1, <1>2, <1>3, <1>4, <1>7

\* An alert that still cools another key's rule is not the one to fall out.
LEMMA RaiseRecord ==
  ASSUME IInv, RecordInv, NEW k \in Key, NEW severity \in {"warning", "critical"},
         NEW value \in Int, ~ Cooling(k), Raise(k, severity, value), UNCHANGED now
  PROVE  NewestFirst' /\ CoolingIsOnRecord' /\ Cooling(k)'
             /\ \A c \in Key : Cooling(c) => Cooling(c)'
  <1>. DEFINE a == [key |-> k, severity |-> severity, value |-> value, at |-> now]
  <1>1. now \in Nat /\ a \in Alert /\ a.key = k /\ a.at = now
    BY DEF IInv, TypeOK, Alert
  <1>2. /\ alerts' = Keep(<<a>> \o alerts)
        /\ lastTriggered' = [lastTriggered EXCEPT ![k] = now]
    BY DEF Raise
  <1>. HIDE DEF a
  <1>3. /\ alerts \in Seq(Alert) /\ Len(alerts) <= MaxAlerts /\ Len(alerts) \in Nat
        /\ lastTriggered \in [Key -> 0 .. now]
    BY DEF IInv, TypeOK
  <1>4. /\ alerts' \in Seq(Alert)
        /\ Len(alerts') \in 1 .. MaxAlerts
        /\ Len(alerts') <= Len(alerts) + 1
        /\ Len(alerts') \in {Len(alerts) + 1, MaxAlerts}
        /\ alerts'[1] = a
        /\ \A i \in 2 .. Len(alerts') : alerts'[i] = alerts[i - 1]
    BY <1>1, <1>2, <1>3, PushKeeps
  <1>5. Len(alerts') \in Nat /\ MaxAlerts \in Nat /\ Cooldown \in Nat /\ Cooldown > 0
    BY <1>4, AlertsAssumption
  <1>6. \A i \in 1 .. Len(alerts) :
          /\ alerts[i].key \in Key /\ alerts[i].at \in Nat /\ alerts[i].at <= now
          /\ alerts[i].at <= lastTriggered[alerts[i].key]
    <2>. SUFFICES ASSUME NEW i \in 1 .. Len(alerts)
                  PROVE  /\ alerts[i].key \in Key /\ alerts[i].at \in Nat /\ alerts[i].at <= now
                         /\ alerts[i].at <= lastTriggered[alerts[i].key]
      OBVIOUS
    <2>. DEFINE b == alerts[i]
    <2>1. b \in Alert
      BY <1>3
    <2>2. b.key \in Key /\ b.at \in Nat
      BY <2>1 DEF Alert
    <2>3. b.at <= lastTriggered[b.key]
      BY DEF IInv, CooldownIsLatest
    <2>. HIDE DEF b
    <2>4. lastTriggered[b.key] \in 0 .. now
      BY <1>3, <2>2
    <2>5. b.at <= now
      BY <1>1, <2>2, <2>3, <2>4
    <2>. QED BY <2>2, <2>3, <2>5 DEF b
  <1>7. \A i \in 2 .. Len(alerts') :
           i - 1 \in 1 .. Len(alerts) /\ alerts'[i] = alerts[i - 1]
    <2>. SUFFICES ASSUME NEW i \in 2 .. Len(alerts')
                  PROVE  i - 1 \in 1 .. Len(alerts) /\ alerts'[i] = alerts[i - 1]
      OBVIOUS
    <2>. QED BY <1>3, <1>4, <1>5
  <1>8. now >= lastTriggered[k] + Cooldown
    BY <1>1, <1>3, <1>5 DEF Cooling
  <1>9. NewestFirst'
    <2>. SUFFICES ASSUME NEW i \in 1 .. Len(alerts'), NEW j \in 1 .. Len(alerts'), i < j
                  PROVE  alerts'[j].at <= alerts'[i].at
      BY DEF NewestFirst
    <2>1. j \in 2 .. Len(alerts')
      BY <1>5
    <2>2. j - 1 \in 1 .. Len(alerts) /\ alerts'[j] = alerts[j - 1]
      BY <1>7, <2>1
    <2>3. CASE i = 1
      BY <1>1, <1>4, <1>6, <2>2, <2>3
    <2>4. CASE i # 1
      <3>1. i \in 2 .. Len(alerts')
        BY <1>5, <2>4
      <3>2. i - 1 \in 1 .. Len(alerts) /\ alerts'[i] = alerts[i - 1] /\ i - 1 < j - 1
        BY <1>5, <1>7, <3>1
      <3>. QED BY <2>2, <3>2 DEF RecordInv, NewestFirst
    <2>. QED BY <2>3, <2>4
  <1>10. Cooling(k)'
    BY <1>1, <1>2, <1>3, <1>5 DEF Cooling
  <1>11. \A c \in Key : Cooling(c) => c # k /\ lastTriggered'[c] = lastTriggered[c] /\ Cooling(c)'
    BY <1>2, <1>3 DEF Cooling
  <1>12. \A c \in Key : c # k /\ Cooling(c)' => Cooling(c) /\ lastTriggered'[c] = lastTriggered[c]
    BY <1>2, <1>3 DEF Cooling
  <1>13. ASSUME Cardinality(Key) <= MaxAlerts, NEW c \in Key, Cooling(c)'
         PROVE  \E i \in 1 .. Len(alerts') : alerts'[i].key = c /\ alerts'[i].at = lastTriggered'[c]
    <2>1. CASE c = k
      <3>1. 1 \in 1 .. Len(alerts') /\ alerts'[1].key = c /\ alerts'[1].at = lastTriggered'[c]
        BY <1>1, <1>2, <1>3, <1>4, <1>5, <2>1
      <3>. QED BY <3>1
    <2>2. CASE c # k
      <3>1. Cooling(c) /\ lastTriggered'[c] = lastTriggered[c]
        BY <1>12, <1>13, <2>2
      <3>2. PICK i \in 1 .. Len(alerts) : alerts[i].key = c /\ alerts[i].at = lastTriggered[c]
        BY <1>13, <3>1 DEF RecordInv, CoolingIsOnRecord, IsOnRecord
      <3>3. CASE i + 1 \in 1 .. Len(alerts')
        <4>1. i + 1 \in 2 .. Len(alerts') /\ (i + 1) - 1 = i
          BY <1>3, <1>5, <3>3
        <4>2. alerts'[i + 1] = alerts[i]
          BY <1>7, <4>1
        <4>. QED BY <3>1, <3>2, <3>3, <4>2
      <3>4. CASE i + 1 \notin 1 .. Len(alerts')
        <4>1. i = MaxAlerts /\ Len(alerts) = MaxAlerts
          BY <1>3, <1>4, <1>5, <3>4
        <4>2. now - alerts[i].at < Cooldown
          BY <3>1, <3>2 DEF Cooling
        <4>3. \A j \in 1 .. MaxAlerts :
                alerts[j].at \in Nat /\ alerts[j].at <= now /\ alerts[i].at <= alerts[j].at
          <5>. SUFFICES ASSUME NEW j \in 1 .. MaxAlerts
                        PROVE  alerts[j].at \in Nat /\ alerts[j].at <= now /\ alerts[i].at <= alerts[j].at
            OBVIOUS
          <5>1. j = i \/ j < i
            BY <1>5, <4>1
          <5>2. j < i => alerts[i].at <= alerts[j].at
            BY <4>1 DEF RecordInv, NewestFirst
          <5>. QED BY <1>6, <4>1, <5>1, <5>2
        <4>4. \A j \in 1 .. MaxAlerts : now - alerts[j].at < Cooldown
          <5>. SUFFICES ASSUME NEW j \in 1 .. MaxAlerts PROVE now - alerts[j].at < Cooldown
            OBVIOUS
          <5>1. /\ alerts[j].at \in Nat /\ alerts[i].at <= alerts[j].at
                /\ alerts[i].at \in Nat
            BY <1>6, <3>2, <4>3
          <5>. QED BY <1>1, <1>5, <4>2, <5>1
        <4>5. \A j \in 1 .. MaxAlerts : alerts[j].key \in Key \ {k}
          <5>. SUFFICES ASSUME NEW j \in 1 .. MaxAlerts, alerts[j].key = k PROVE FALSE
            BY <1>6, <4>1
          <5>1. alerts[j].at <= lastTriggered[k] /\ alerts[j].at \in Nat /\ lastTriggered[k] \in Nat
            BY <1>1, <1>3, <1>6, <4>1
          <5>2. now - alerts[j].at < Cooldown
            BY <4>4
          <5>. QED BY <1>1, <1>5, <1>8, <5>1, <5>2
        <4>6. \A x, y \in 1 .. MaxAlerts : x < y => alerts[x].key # alerts[y].key
          <5>. SUFFICES ASSUME NEW x \in 1 .. MaxAlerts, NEW y \in 1 .. MaxAlerts, x < y,
                               alerts[x].key = alerts[y].key
                        PROVE  FALSE
            OBVIOUS
          <5>1. alerts[x].at >= alerts[y].at + Cooldown
            BY <4>1 DEF IInv, NoAlertStorm
          <5>2. /\ alerts[x].at \in Nat /\ alerts[x].at <= now
                /\ alerts[y].at \in Nat /\ now - alerts[y].at < Cooldown
            BY <4>3, <4>4
          <5>. QED BY <1>1, <1>5, <5>1, <5>2
        <4>. QED BY <1>3, <1>13, <4>1, <4>5, <4>6, FullOfOthers
      <3>. QED BY <3>3, <3>4
    <2>. QED BY <2>1, <2>2
  <1>14. CoolingIsOnRecord'
    BY <1>13 DEF CoolingIsOnRecord, IsOnRecord
  <1>. QED BY <1>9, <1>10, <1>11, <1>14

\* A handler calls for a key that it raises, or that is in its cooldown.
LEMMA HandlerRecord ==
  ASSUME IInv, RecordInv, NEW c \in Key, Called(c), UNCHANGED now,
         NEW k \in Key, NEW severity \in {"warning", "critical"}, NEW value \in Int,
         \/ ~ Cooling(k) /\ Raise(k, severity, value)
         \/ UNCHANGED <<lastTriggered, alerts>>,
         \/ c = k /\ Raise(k, severity, value)
         \/ Cooling(c)
  PROVE  RecordInv'
  <1>1. called \in [Key -> 0 .. now] /\ called' = [called EXCEPT ![c] = now] /\ now' = now
    BY DEF Called, IInv, TypeOK
  <1>2. /\ NewestFirst' /\ CoolingIsOnRecord'
        /\ \A d \in Key : Cooling(d) => Cooling(d)'
        /\ Cooling(c)'
    <2>1. CASE ~ Cooling(k) /\ Raise(k, severity, value)
      BY <2>1, RaiseRecord
    <2>2. CASE UNCHANGED <<lastTriggered, alerts>> /\ Cooling(c)
      BY <2>2 DEF RecordInv, NewestFirst, CoolingIsOnRecord, IsOnRecord, Cooling
    <2>3. CASE UNCHANGED <<lastTriggered, alerts>> /\ Raise(k, severity, value) /\ c = k
      <3>1. lastTriggered' = [lastTriggered EXCEPT ![k] = now] /\ lastTriggered \in [Key -> 0 .. now]
        BY <2>3 DEF Raise, IInv, TypeOK
      <3>2. lastTriggered[k] = now
        BY <2>3, <3>1
      <3>3. now - lastTriggered[k] < Cooldown
        BY <3>2, AlertsAssumption DEF IInv, TypeOK
      <3>. QED BY <2>3, <3>3 DEF RecordInv, NewestFirst, CoolingIsOnRecord, IsOnRecord, Cooling
    <2>. QED BY <2>1, <2>2, <2>3
  <1>3. CalledIsCooling'
    <2>. SUFFICES ASSUME NEW d \in Key, called'[d] = now' PROVE Cooling(d)'
      BY DEF CalledIsCooling
    <2>1. CASE d = c
      BY <1>2, <2>1
    <2>2. CASE d # c
      <3>1. called[d] = now
        BY <1>1, <2>2
      <3>. QED BY <1>2, <3>1 DEF RecordInv, CalledIsCooling
    <2>. QED BY <2>1, <2>2
  <1>. QED BY <1>2, <1>3 DEF RecordInv

LEMMA InitRecord == Init => RecordInv
  <1>. SUFFICES ASSUME Init PROVE RecordInv
    OBVIOUS
  <1>1. /\ Len(alerts) = 0 /\ now = Cooldown /\ Cooldown \in Nat /\ Cooldown # 0
        /\ \A k \in Key : called[k] = 0 /\ lastTriggered[k] = 0
    BY AlertsAssumption DEF Init
  <1>. QED BY <1>1 DEF RecordInv, NewestFirst, CoolingIsOnRecord, CalledIsCooling, Cooling

\* The first of the rules that match and are not in their cooldown is the
\* first of those that match, unless that one is in its cooldown.
LEMMA FirstReady ==
  ASSUME NEW channel \in Channel, NEW matching \in SUBSET RulesOf(channel),
         NEW ready \in SUBSET matching,
         NEW highest \in matching, NEW r \in ready,
         highest.severity = "warning" => \A s \in matching : s.severity # "critical",
         r.severity = "warning" => \A s \in ready : s.severity # "critical",
         highest \in ready
  PROVE  highest = r
  <1>1. highest \in RulesOf(channel) /\ r \in RulesOf(channel)
    OBVIOUS
  <1>2. highest.severity \in {"warning", "critical"} /\ r.severity \in {"warning", "critical"}
    BY <1>1, RuleSeverity DEF RulesOf
  <1>3. highest.severity = r.severity
    BY <1>2
  <1>. QED BY <1>1, <1>3, AlertsAssumption

LEMMA NextRecord == IInv /\ RecordInv /\ [Next]_vars => RecordInv'
  <1>. SUFFICES ASSUME IInv, RecordInv, [Next]_vars PROVE RecordInv'
    OBVIOUS
  <1>1. ASSUME NEW n \in Node, NEW channel \in Channel, NEW value \in Value,
               HandleDedupedReading(n, channel, value)
        PROVE  RecordInv'
    <2>. DEFINE matching == {r \in RulesOf(channel) : Triggers(r, value)}
                ready == {r \in matching : ~ Cooling(<<n, r.id>>)}
                IsFirst(r, rs) ==
                  r \in rs /\ (r.severity = "warning" => \A s \in rs : s.severity # "critical")
    <2>1. value \in Int
      BY AlertsAssumption
    <2>2. \A r \in matching :
            <<n, r.id>> \in Key /\ r.severity \in {"warning", "critical"}
      BY RuleSeverity DEF Key, RuleIds, RulesOf
    <2>3. PICK highest \in matching :
            /\ IsFirst(highest, matching)
            /\ Called(<<n, highest.id>>)
            /\ UNCHANGED now
            /\ \/ ready = {} /\ UNCHANGED <<lastTriggered, alerts>>
               \/ \E r \in ready : IsFirst(r, ready) /\ Raise(<<n, r.id>>, r.severity, value)
      BY <1>1 DEF HandleDedupedReading, Suppress
    <2>4. CASE ready = {} /\ UNCHANGED <<lastTriggered, alerts>>
      <3>1. Cooling(<<n, highest.id>>)
        BY <2>4
      <3>2. <<n, highest.id>> \in Key /\ highest.severity \in {"warning", "critical"}
        BY <2>2
      <3>. HIDE DEF matching, ready
      <3>. QED BY <2>1, <2>3, <2>4, <3>1, <3>2, HandlerRecord
    <2>5. ASSUME NEW r \in ready, IsFirst(r, ready), Raise(<<n, r.id>>, r.severity, value)
          PROVE  RecordInv'
      <3>1. r \in matching /\ ~ Cooling(<<n, r.id>>)
        OBVIOUS
      <3>2. highest \in ready => highest = r
        <4>1. matching \in SUBSET RulesOf(channel) /\ ready \in SUBSET matching
          OBVIOUS
        <4>2. /\ highest.severity = "warning" => \A s \in matching : s.severity # "critical"
              /\ r.severity = "warning" => \A s \in ready : s.severity # "critical"
          BY <2>3, <2>5
        <4>. HIDE DEF matching, ready
        <4>. QED BY <4>1, <4>2, FirstReady
      <3>3. Cooling(<<n, highest.id>>) \/ highest = r
        BY <3>2
      <3>4. /\ <<n, r.id>> \in Key /\ r.severity \in {"warning", "critical"}
            /\ <<n, highest.id>> \in Key
        BY <2>2, <3>1
      <3>. HIDE DEF matching, ready, IsFirst
      <3>. QED BY <2>1, <2>3, <2>5, <3>1, <3>3, <3>4, HandlerRecord
    <2>. QED BY <2>3, <2>4, <2>5
  <1>2. ASSUME NEW n \in Node, HandleNodeOffline(n) PROVE RecordInv'
    <2>. DEFINE k == <<n, "node-offline">>
    <2>1. k \in Key
      BY DEF Key
    <2>2. /\ Called(k) /\ UNCHANGED now
          /\ \/ ~ Cooling(k) /\ Raise(k, "warning", 0)
             \/ UNCHANGED <<lastTriggered, alerts>> /\ Cooling(k)
      BY <1>2 DEF HandleNodeOffline, Suppress
    <2>. HIDE DEF k
    <2>. QED BY <2>1, <2>2, HandlerRecord
  <1>3. ASSUME NEW n \in Node, NEW class \in {"subsidence_risk", "other"},
               NEW severity \in Severity, HandleMlPrediction(n, class, severity)
        PROVE  RecordInv'
    <2>. DEFINE k == <<n, "ml-subsidence-risk">>
                s == IF AlertLevel(severity) = "RED" \/ severity >= 6
                     THEN "critical" ELSE "warning"
    <2>1. k \in Key /\ severity \in Int /\ s \in {"warning", "critical"}
      BY AlertsAssumption DEF Key
    <2>2. /\ Called(k) /\ UNCHANGED now
          /\ \/ ~ Cooling(k) /\ Raise(k, s, severity)
             \/ UNCHANGED <<lastTriggered, alerts>> /\ Cooling(k)
      BY <1>3 DEF HandleMlPrediction, Suppress
    <2>. HIDE DEF k, s
    <2>. QED BY <2>1, <2>2, HandlerRecord
  <1>4. CASE Tick
    <2>1. /\ now \in Nat /\ now' = now + 1
          /\ UNCHANGED <<lastTriggered, alerts, called>>
          /\ \A k \in Key : called[k] \in 0 .. now /\ lastTriggered[k] \in 0 .. now
      BY <1>4 DEF Tick, IInv, TypeOK
    <2>2. \A k \in Key : called'[k] # now'
      BY <2>1
    <2>3. \A k \in Key : Cooling(k)' => Cooling(k)
      BY <2>1, AlertsAssumption DEF Cooling
    <2>4. \A k \in Key : IsOnRecord(k) => IsOnRecord(k)'
      BY <2>1 DEF IsOnRecord
    <2>5. CoolingIsOnRecord'
      BY <2>3, <2>4 DEF RecordInv, CoolingIsOnRecord
    <2>6. NewestFirst' /\ CalledIsCooling'
      BY <2>1, <2>2 DEF RecordInv, NewestFirst, CalledIsCooling
    <2>. QED BY <2>5, <2>6 DEF RecordInv
  <1>5. CASE UNCHANGED vars
    BY <1>5 DEF vars, RecordInv, NewestFirst, CoolingIsOnRecord, CalledIsCooling, Cooling, IsOnRecord
  <1>. QED BY <1>1, <1>2, <1>3, <1>4, <1>5 DEF Next

(***************************************************************************)
(* No silence: what calls for an alert finds one of its cause, less than a *)
(* cooldown old, on record (188-190, 239-310), whatever storm of other     *)
(* causes came between, if the record has room for one alert of each.      *)
(***************************************************************************)
THEOREM NoSilence == Spec => []CauseIsOnRecord
  <1>1. RecordInv => CauseIsOnRecord
    BY DEF RecordInv, CauseIsOnRecord, CalledIsCooling, CoolingIsOnRecord, IsOnRecord, Cooling
  <1>. QED BY <1>1, InitIInv, NextIInv, InitRecord, NextRecord, PTL DEF Spec

=============================================================================
