-------------------------- MODULE Telemetry_proofs --------------------------
(***************************************************************************)
(* Proofs about Processing, for every set of nodes, zones, channels and    *)
(* sequence numbers, and every value of the caps, spans and timeouts;      *)
(* about Telemetry, which drives it over the network, for any number of    *)
(* packets and boots; about Uplink, the other way of a packet, from one    *)
(* LoRa node, for any number of packets, boots, beacons and commands and   *)
(* any length of the queue; and about Ingestion, which takes packets in,   *)
(* for every set of nodes and every timeout of more than a second.         *)
(***************************************************************************)
EXTENDS Telemetry, Uplink, GatewayBadge, FiniteSetTheorems, TLAPS

-----------------------------------------------------------------------------
(***************************************************************************)
(* Type correctness.                                                       *)
(***************************************************************************)
LEMMA RememberType ==
  ASSUME NEW keys \in Seq(Key), NEW key \in Key
  PROVE  /\ Remember(keys, key) \in Seq(Key)
         /\ Len(Remember(keys, key)) =
              IF Len(keys) < SeenCap THEN Len(keys) + 1 ELSE Len(keys)
<1>1. Append(keys, key) \in Seq(Key) /\ Len(Append(keys, key)) = Len(keys) + 1
  OBVIOUS
<1>2. Tail(Append(keys, key)) \in Seq(Key)
      /\ Len(Tail(Append(keys, key))) = Len(keys)
  BY <1>1
<1>3. QED  BY <1>1, <1>2 DEF Remember

LEMMA SmoothType ==
  ASSUME NEW windows \in [Sensor -> Nat], NEW s \in Sensor
  PROVE  /\ Smooth(windows, s) \in [Sensor -> Nat]
         /\ (\A t \in Sensor : windows[t] <= WindowSize[t])
              => \A t \in Sensor : Smooth(windows, s)[t] <= WindowSize[t]
         /\ windows = EmptyWindows => \A t \in Sensor : Smooth(windows, s)[t] <= 1
BY ProcessingAssumption DEF Smooth, EmptyWindows

LEMMA MissingType ==
  ASSUME TypeOK, NEW n \in Node, NEW q \in SeqNum
  PROVE  Missing(n, q) \in Nat
<1>1. lastSeq[n] \in SeqNum \cup {NoSeq} /\ SeqNum \subseteq Nat
  BY ProcessingAssumption DEF TypeOK
<1>2. IsGap(n, q) => lastSeq[n] \in Nat /\ q \in Nat /\ q > lastSeq[n] + 1
  BY <1>1 DEF IsGap, HasSeq
<1>3. QED  BY <1>2 DEF Missing

LEMMA InitType == Init => TypeOK
BY ProcessingAssumption DEF Init, TypeOK, EmptyWindows, MaxSilence

LEMMA AcceptType ==
  ASSUME TypeOK, NEW r \in Reading, AcceptReading(r)
  PROVE  TypeOK'
<1> DEFINE n == r.node
           q == r.seq
<1>1. n \in Node /\ q \in SeqNum /\ r.sensor \in Sensor /\ r.zone \in Zone
      /\ KeyOf(r) \in Key
  BY DEF Reading, KeyOf, Key
<1>2. seen' \in [Node -> Seq(Key)]
  BY <1>1, RememberType DEF AcceptReading, TypeOK
<1>3. lastSeq' \in [Node -> SeqNum \cup {NoSeq}]
  BY <1>1 DEF AcceptReading, TypeOK, Highest
<1>4. status' \in [Node -> {"unknown", "online", "offline"}]
      /\ announced' \in [Node -> {"unknown", "online", "offline"}]
  BY <1>1 DEF AcceptReading, TypeOK
<1>5. zone' \in [Node -> Zone] /\ reportedSeq' \in [Node -> SeqNum \cup {NoSeq}]
  BY <1>1 DEF AcceptReading, TypeOK
<1>6. gapCount' \in [Node -> Nat]
  <2>1. Missing(n, q) \in Nat
    BY <1>1, MissingType
  <2>2. gapCount' = [gapCount EXCEPT ![n] = @ + Missing(n, q)]
    BY DEF AcceptReading
  <2>3. gapCount \in [Node -> Nat]
    BY DEF TypeOK
  <2>4. QED  BY <1>1, <2>1, <2>2, <2>3
<1>7. silence' \in [Node -> 0 .. MaxSilence] /\ sinceCheck' \in 0 .. CheckPeriod
  BY <1>1, ProcessingAssumption DEF AcceptReading, TypeOK, MaxSilence
<1>8. fill' \in [Node -> [Sensor -> Nat]]
  <2>1. EmptyWindows \in [Sensor -> Nat]
    BY DEF EmptyWindows
  <2>2. Smooth(IF IsReset(n, q) THEN EmptyWindows ELSE fill[n], r.sensor)
          \in [Sensor -> Nat]
    BY <1>1, <2>1, SmoothType DEF TypeOK
  <2>3. QED  BY <1>1, <2>2 DEF AcceptReading, TypeOK
<1>9. readings' \in [Node -> Seq(Key)]
  BY <1>1 DEF AcceptReading, SaveReading, TypeOK
<1>10. QED
  BY <1>2, <1>3, <1>4, <1>5, <1>6, <1>7, <1>8, <1>9 DEF TypeOK

LEMMA StatusType ==
  ASSUME TypeOK, NEW u \in StatusUpdate, HandleNodeStatus(u)
  PROVE  TypeOK'
BY ProcessingAssumption
   DEF TypeOK, StatusUpdate, HandleNodeStatus, ResetNode, EmptyWindows, MaxSilence

LEMMA CheckType == TypeOK /\ CheckStaleNodes => TypeOK'
BY ProcessingAssumption DEF TypeOK, CheckStaleNodes, EmptyWindows

LEMMA TickType == TypeOK /\ Tick => TypeOK'
BY ProcessingAssumption DEF TypeOK, Tick, MaxSilence

LEMMA NextType == TypeOK /\ [Next]_vars => TypeOK'
<1> SUFFICES ASSUME TypeOK, [Next]_vars PROVE TypeOK'
  OBVIOUS
<1>1. CASE \E r \in Reading : HandleSensorReading(r)
  <2>1. PICK r \in Reading : HandleSensorReading(r)
    BY <1>1
  <2>2. CASE DropDuplicate(r)
    BY <2>2 DEF DropDuplicate, vars, TypeOK
  <2>3. CASE AcceptReading(r)
    BY <2>3, AcceptType
  <2>4. QED  BY <2>1, <2>2, <2>3 DEF HandleSensorReading
<1>2. CASE \E u \in StatusUpdate : HandleNodeStatus(u)
  BY <1>2, StatusType
<1>3. CASE CheckStaleNodes
  BY <1>3, CheckType
<1>4. CASE Tick
  BY <1>4, TickType
<1>5. CASE UNCHANGED vars
  BY <1>5 DEF vars, TypeOK
<1>6. QED  BY <1>1, <1>2, <1>3, <1>4, <1>5 DEF Next

(***************************************************************************)
(* Every state the service reaches has the types TypeOK gives.             *)
(***************************************************************************)
THEOREM TypeCorrect == Spec => []TypeOK
BY InitType, NextType, PTL DEF Spec

-----------------------------------------------------------------------------
(***************************************************************************)
(* Deduplication.  DedupHorizon is not inductive: a state whose stored     *)
(* readings and remembered keys disagree could accept a recent reading     *)
(* again.  SeenIsRecentReadings is the missing link.                       *)
(***************************************************************************)
DedupInv == SeenIsRecentReadings /\ DedupHorizon

LEMMA InitDedup == Init => DedupInv
BY ProcessingAssumption
   DEF Init, DedupInv, SeenIsRecentReadings, DedupHorizon, LatestOf, ApartInStore

\* Only AcceptReading touches the stored readings and the remembered keys.
LEMMA DedupStutter ==
  ASSUME DedupInv, seen' = seen, readings' = readings
  PROVE  DedupInv'
BY DEF DedupInv, SeenIsRecentReadings, DedupHorizon

\* Remembering a key and storing its reading keep the two in step.
LEMMA RememberLatest ==
  ASSUME NEW keys \in Seq(Key), NEW stored \in Seq(Key), NEW key \in Key,
         LatestOf(keys, stored)
  PROVE  LatestOf(Remember(keys, key), Append(stored, key))
<1> DEFINE k == Len(keys)
           t == Len(stored)
           keys2 == Remember(keys, key)
           stored2 == Append(stored, key)
<1>1. k \in Nat /\ t \in Nat /\ SeenCap \in Nat \ {0}
  BY ProcessingAssumption
<1>2. /\ k = IF t < SeenCap THEN t ELSE SeenCap
      /\ \A i \in 1 .. k : keys[i] = stored[t - k + i]
  BY DEF LatestOf
<1>3. /\ Len(stored2) = t + 1
      /\ \A i \in 1 .. t : stored2[i] = stored[i]
      /\ stored2[t + 1] = key
  OBVIOUS
<1>4. k < SeenCap =>
        /\ Len(keys2) = k + 1
        /\ \A i \in 1 .. k : keys2[i] = keys[i]
        /\ keys2[k + 1] = key
  BY DEF Remember
<1>5. ~(k < SeenCap) =>
        /\ Len(keys2) = k
        /\ \A i \in 1 .. k : i < k => keys2[i] = keys[i + 1]
        /\ keys2[k] = key
  <2> SUFFICES ASSUME ~(k < SeenCap)
               PROVE  /\ Len(keys2) = k
                      /\ \A i \in 1 .. k : i < k => keys2[i] = keys[i + 1]
                      /\ keys2[k] = key
    OBVIOUS
  <2>1. keys2 = Tail(Append(keys, key))
    BY DEF Remember
  <2>2. Append(keys, key) \in Seq(Key) /\ Len(Append(keys, key)) = k + 1
    OBVIOUS
  <2>3. Len(keys2) = k /\ \A i \in 1 .. k : keys2[i] = Append(keys, key)[i + 1]
    BY <2>1, <2>2
  <2>4. Append(keys, key)[k + 1] = key
        /\ \A i \in 1 .. k : Append(keys, key)[i] = keys[i]
    OBVIOUS
  <2>5. k \in 1 .. k /\ \A i \in 1 .. k : i < k => i + 1 \in 1 .. k
    BY <1>1
  <2>6. QED  BY <2>3, <2>4, <2>5
<1> HIDE DEF k, t, keys2, stored2
<1>6. SUFFICES
        /\ Len(keys2) = IF t + 1 < SeenCap THEN t + 1 ELSE SeenCap
        /\ \A i \in 1 .. Len(keys2) : keys2[i] = stored2[t + 1 - Len(keys2) + i]
  <2>1. LatestOf(keys2, stored2)
    BY <1>1, <1>3, <1>6 DEF LatestOf
  <2>2. QED  BY <2>1 DEF keys2, stored2
<1>7. CASE k < SeenCap
  <2>1. t = k
    BY <1>1, <1>2, <1>7
  <2>2. QED  BY <1>1, <1>2, <1>3, <1>4, <1>7, <2>1
<1>8. CASE ~(k < SeenCap)
  <2>1. k = SeenCap /\ t >= SeenCap
    BY <1>1, <1>2, <1>8
  <2>2. ASSUME NEW i \in 1 .. k
        PROVE  keys2[i] = stored2[t + 1 - k + i]
    <3>1. CASE i = k
      <4>1. t + 1 - k + i = t + 1
        BY <1>1, <3>1
      <4>2. QED  BY <1>3, <1>5, <1>8, <3>1, <4>1
    <3>2. CASE i < k
      <4>1. i + 1 \in 1 .. k /\ t - k + (i + 1) = t + 1 - k + i
        BY <1>1, <3>2
      <4>2. t + 1 - k + i \in 1 .. t
        BY <1>1, <2>1, <3>2
      <4>3. QED  BY <1>2, <1>3, <1>5, <1>8, <3>2, <4>1, <4>2
    <3>3. QED  BY <1>1, <3>1, <3>2
  <2>3. Len(keys2) = k /\ t + 1 >= SeenCap
    BY <1>1, <1>5, <1>8, <2>1
  <2>4. Len(keys2) = IF t + 1 < SeenCap THEN t + 1 ELSE SeenCap
    BY <1>1, <2>1, <2>3
  <2>5. QED  BY <2>2, <2>3, <2>4
<1>9. QED  BY <1>7, <1>8

\* A key that is not remembered was not stored within the horizon.
LEMMA StoreKeepsApart ==
  ASSUME NEW keys \in Seq(Key), NEW stored \in Seq(Key), NEW key \in Key,
         LatestOf(keys, stored), ApartInStore(stored),
         \A i \in 1 .. Len(keys) : keys[i] # key
  PROVE  ApartInStore(Append(stored, key))
<1> DEFINE k == Len(keys)
           t == Len(stored)
           stored2 == Append(stored, key)
<1>1. k \in Nat /\ t \in Nat /\ SeenCap \in Nat \ {0}
  BY ProcessingAssumption
<1>2. /\ k = IF t < SeenCap THEN t ELSE SeenCap
      /\ \A i \in 1 .. k : keys[i] = stored[t - k + i]
  BY DEF LatestOf
<1>3. /\ Len(stored2) = t + 1
      /\ \A i \in 1 .. t : stored2[i] = stored[i]
      /\ stored2[t + 1] = key
  OBVIOUS
<1>4. /\ \A i \in 1 .. k : keys[i] # key
      /\ \A i, j \in 1 .. t : i < j /\ stored[i] = stored[j] => j - i > SeenCap
  BY DEF ApartInStore
<1> HIDE DEF k, t, stored2
<1>5. ASSUME NEW i \in 1 .. t, stored[i] = key
      PROVE  t + 1 - i > SeenCap
  <2>1. ~(i > t - k)
    <3> SUFFICES ASSUME i > t - k PROVE FALSE
      OBVIOUS
    <3>1. i - (t - k) \in 1 .. k /\ t - k + (i - (t - k)) = i
      BY <1>1, <1>2
    <3>2. QED  BY <1>2, <1>4, <1>5, <3>1
  <2>2. QED  BY <1>1, <1>2, <2>1
<1>6. ASSUME NEW i \in 1 .. t + 1, NEW j \in 1 .. t + 1,
             i < j, stored2[i] = stored2[j]
      PROVE  j - i > SeenCap
  <2>1. i \in 1 .. t /\ stored2[i] = stored[i]
    BY <1>1, <1>3, <1>6
  <2>2. CASE j = t + 1
    <3>1. stored[i] = key
      BY <1>3, <1>6, <2>1, <2>2
    <3>2. t + 1 - i > SeenCap
      BY <1>5, <2>1, <3>1
    <3>3. QED  BY <1>1, <2>2, <3>2
  <2>3. CASE j \in 1 .. t
    BY <1>3, <1>4, <1>6, <2>1, <2>3
  <2>4. QED  BY <1>1, <2>2, <2>3
<1>7. QED  BY <1>3, <1>6 DEF ApartInStore, stored2

LEMMA AcceptKeepsDedup ==
  ASSUME TypeOK, DedupInv, NEW r \in Reading, AcceptReading(r)
  PROVE  DedupInv'
<1>1. r.node \in Node /\ KeyOf(r) \in Key
  BY DEF Reading, KeyOf, Key
<1>2. /\ seen' = [seen EXCEPT ![r.node] = Remember(@, KeyOf(r))]
      /\ readings' = [readings EXCEPT ![r.node] = Append(@, KeyOf(r))]
      /\ \A i \in 1 .. Len(seen[r.node]) : seen[r.node][i] # KeyOf(r)
  BY <1>1 DEF AcceptReading, SaveReading, IsDuplicate, TypeOK
<1>3. /\ LatestOf(Remember(seen[r.node], KeyOf(r)),
                  Append(readings[r.node], KeyOf(r)))
      /\ ApartInStore(Append(readings[r.node], KeyOf(r)))
  BY <1>1, <1>2, RememberLatest, StoreKeepsApart
     DEF TypeOK, DedupInv, SeenIsRecentReadings, DedupHorizon
<1>4. QED
  BY <1>1, <1>2, <1>3
     DEF TypeOK, DedupInv, SeenIsRecentReadings, DedupHorizon

LEMMA NextDedup == TypeOK /\ DedupInv /\ [Next]_vars => DedupInv'
<1> SUFFICES ASSUME TypeOK, DedupInv, [Next]_vars PROVE DedupInv'
  OBVIOUS
<1>1. CASE \E r \in Reading : HandleSensorReading(r)
  <2>1. PICK r \in Reading : HandleSensorReading(r)
    BY <1>1
  <2>2. CASE DropDuplicate(r)
    BY <2>2, DedupStutter DEF DropDuplicate, vars
  <2>3. CASE AcceptReading(r)
    BY <2>3, AcceptKeepsDedup
  <2>4. QED  BY <2>1, <2>2, <2>3 DEF HandleSensorReading
<1>2. CASE \E u \in StatusUpdate : HandleNodeStatus(u)
  BY <1>2, DedupStutter DEF HandleNodeStatus
<1>3. CASE CheckStaleNodes
  BY <1>3, DedupStutter DEF CheckStaleNodes
<1>4. CASE Tick
  BY <1>4, DedupStutter DEF Tick
<1>5. CASE UNCHANGED vars
  BY <1>5, DedupStutter DEF vars
<1>6. QED  BY <1>1, <1>2, <1>3, <1>4, <1>5 DEF Next

(***************************************************************************)
(* The remembered keys are always exactly the latest readings stored.      *)
(***************************************************************************)
THEOREM SeenIsRecent == Spec => []SeenIsRecentReadings
<1>1. DedupInv => SeenIsRecentReadings
  BY DEF DedupInv
<1>2. QED  BY InitDedup, NextDedup, TypeCorrect, <1>1, PTL DEF Spec

(***************************************************************************)
(* Two stored readings of a node with the same sensor type and sequence    *)
(* number are more than SeenCap positions apart.                           *)
(***************************************************************************)
THEOREM DedupWithinHorizon == Spec => []DedupHorizon
<1>1. DedupInv => DedupHorizon
  BY DEF DedupInv
<1>2. QED  BY InitDedup, NextDedup, TypeCorrect, <1>1, PTL DEF Spec

-----------------------------------------------------------------------------
(***************************************************************************)
(* Node status.  OnlineIsFresh is strengthened to FreshSinceCheck: the     *)
(* slack a silent node has left shrinks with every second since the        *)
(* watchdog last ran.  The other parts are inductive as they stand.        *)
(***************************************************************************)
FreshSinceCheck ==
  \A n \in Node : status[n] = "online" => silence[n] <= StaleTimeout + sinceCheck

StatusInv ==
  /\ FreshSinceCheck
  /\ AnnouncementIsCurrent
  /\ FilterStartsAfresh
  /\ ReportedSequenceTrails

LEMMA InitStatus == Init => StatusInv
BY ProcessingAssumption
   DEF Init, StatusInv, FreshSinceCheck, AnnouncementIsCurrent,
       FilterStartsAfresh, ReportedSequenceTrails, EmptyWindows

LEMMA AcceptKeepsTrail ==
  ASSUME TypeOK, ReportedSequenceTrails, NEW r \in Reading, AcceptReading(r)
  PROVE  ReportedSequenceTrails'
<1> DEFINE n == r.node
           q == r.seq
<1>1. n \in Node /\ q \in SeqNum /\ q \in Nat /\ q # NoSeq /\ ReorderSpan \in Nat
      /\ ForwardSpan \in Nat
  BY ProcessingAssumption DEF Reading
<1>2. /\ reportedSeq' = [reportedSeq EXCEPT ![n] = q]
      /\ lastSeq' = [lastSeq EXCEPT ![n] = Highest(n, q)]
  BY DEF AcceptReading
<1>3. lastSeq[n] # NoSeq => lastSeq[n] \in Nat
  BY <1>1, ProcessingAssumption DEF TypeOK
<1>4. /\ Highest(n, q) # NoSeq
      /\ q <= Highest(n, q)
      /\ Highest(n, q) <= q + ReorderSpan
  BY <1>1, <1>3 DEF Highest, HasSeq, IsReset
<1>5. QED
  BY <1>1, <1>2, <1>4 DEF TypeOK, ReportedSequenceTrails

LEMMA AcceptKeepsStatus ==
  ASSUME TypeOK, StatusInv, NEW r \in Reading, AcceptReading(r)
  PROVE  StatusInv'
<1>1. r.node \in Node /\ r.sensor \in Sensor
  BY DEF Reading
<1>2. FreshSinceCheck'
  BY <1>1, ProcessingAssumption
     DEF AcceptReading, TypeOK, StatusInv, FreshSinceCheck
<1>3. AnnouncementIsCurrent'
  <2>1. /\ status' = [status EXCEPT ![r.node] = "online"]
        /\ announced' = announced
           \/ announced' = [announced EXCEPT ![r.node] = "online"]
        /\ status[r.node] = "offline" =>
             announced' = [announced EXCEPT ![r.node] = "online"]
    BY DEF AcceptReading, Announces
  <2>2. QED
    BY <1>1, <2>1 DEF TypeOK, StatusInv, AnnouncementIsCurrent
<1>4. FilterStartsAfresh'
  <2> DEFINE before == IF IsReset(r.node, r.seq) THEN EmptyWindows ELSE fill[r.node]
  <2>1. /\ status' = [status EXCEPT ![r.node] = "online"]
        /\ fill' = [fill EXCEPT ![r.node] = Smooth(before, r.sensor)]
    BY DEF AcceptReading
  <2>2. EmptyWindows \in [Sensor -> Nat]
        /\ \A s \in Sensor : EmptyWindows[s] <= WindowSize[s]
    BY ProcessingAssumption DEF EmptyWindows
  <2>3. before \in [Sensor -> Nat] /\ \A s \in Sensor : before[s] <= WindowSize[s]
    BY <1>1, <2>2 DEF TypeOK, StatusInv, FilterStartsAfresh
  <2>4. \A s \in Sensor : Smooth(before, r.sensor)[s] <= WindowSize[s]
    BY <1>1, <2>3, SmoothType
  <2>5. QED
    BY <1>1, <2>1, <2>4 DEF TypeOK, StatusInv, FilterStartsAfresh
<1>5. ReportedSequenceTrails'
  BY AcceptKeepsTrail DEF StatusInv
<1>6. QED  BY <1>2, <1>3, <1>4, <1>5 DEF StatusInv

LEMMA StatusKeepsStatus ==
  ASSUME TypeOK, StatusInv, NEW u \in StatusUpdate, HandleNodeStatus(u)
  PROVE  StatusInv'
<1>1. u.node \in Node /\ u.status \in {"online", "offline"}
  BY DEF StatusUpdate
<1>2. FreshSinceCheck'
  BY <1>1, ProcessingAssumption
     DEF HandleNodeStatus, TypeOK, StatusInv, FreshSinceCheck
<1>3. AnnouncementIsCurrent'
  BY <1>1 DEF HandleNodeStatus, TypeOK, StatusInv, AnnouncementIsCurrent
<1>4. FilterStartsAfresh'
  BY <1>1, ProcessingAssumption
     DEF HandleNodeStatus, ResetNode, TypeOK, StatusInv, FilterStartsAfresh,
         EmptyWindows
<1>5. ReportedSequenceTrails'
  BY DEF HandleNodeStatus, StatusInv, ReportedSequenceTrails
<1>6. QED  BY <1>2, <1>3, <1>4, <1>5 DEF StatusInv

LEMMA CheckKeepsStatus ==
  ASSUME TypeOK, StatusInv, CheckStaleNodes
  PROVE  StatusInv'
<1>1. FreshSinceCheck'
  BY ProcessingAssumption DEF CheckStaleNodes, IsStale, TypeOK, FreshSinceCheck
<1>2. AnnouncementIsCurrent'
  BY DEF CheckStaleNodes, IsStale, TypeOK, StatusInv, AnnouncementIsCurrent
<1>3. FilterStartsAfresh'
  BY ProcessingAssumption
     DEF CheckStaleNodes, IsStale, TypeOK, StatusInv, FilterStartsAfresh, EmptyWindows
<1>4. ReportedSequenceTrails'
  BY DEF CheckStaleNodes, StatusInv, ReportedSequenceTrails
<1>5. QED  BY <1>1, <1>2, <1>3, <1>4 DEF StatusInv

LEMMA TickKeepsStatus ==
  ASSUME TypeOK, StatusInv, Tick
  PROVE  StatusInv'
<1>1. FreshSinceCheck'
  BY ProcessingAssumption DEF Tick, TypeOK, StatusInv, FreshSinceCheck
<1>2. AnnouncementIsCurrent' /\ FilterStartsAfresh' /\ ReportedSequenceTrails'
  BY DEF Tick, StatusInv, AnnouncementIsCurrent, FilterStartsAfresh,
         ReportedSequenceTrails
<1>3. QED  BY <1>1, <1>2 DEF StatusInv

LEMMA NextStatus == TypeOK /\ StatusInv /\ [Next]_vars => StatusInv'
<1> SUFFICES ASSUME TypeOK, StatusInv, [Next]_vars PROVE StatusInv'
  OBVIOUS
<1> USE DEF FreshSinceCheck, AnnouncementIsCurrent, FilterStartsAfresh,
            ReportedSequenceTrails
<1>1. CASE \E r \in Reading : HandleSensorReading(r)
  <2>1. PICK r \in Reading : HandleSensorReading(r)
    BY <1>1
  <2>2. CASE DropDuplicate(r)
    BY <2>2 DEF DropDuplicate, vars, StatusInv
  <2>3. CASE AcceptReading(r)
    BY <2>3, AcceptKeepsStatus
  <2>4. QED  BY <2>1, <2>2, <2>3 DEF HandleSensorReading
<1>2. CASE \E u \in StatusUpdate : HandleNodeStatus(u)
  BY <1>2, StatusKeepsStatus
<1>3. CASE CheckStaleNodes
  BY <1>3, CheckKeepsStatus
<1>4. CASE Tick
  BY <1>4, TickKeepsStatus
<1>5. CASE UNCHANGED vars
  BY <1>5 DEF vars, StatusInv
<1>6. QED  BY <1>1, <1>2, <1>3, <1>4, <1>5 DEF Next

LEMMA StatusInvariant == Spec => [](TypeOK /\ StatusInv)
BY InitStatus, NextStatus, TypeCorrect, PTL DEF Spec

(***************************************************************************)
(* A node is never shown online after more than the stale timeout plus one *)
(* watchdog period of silence.                                             *)
(***************************************************************************)
THEOREM OnlineMeansFresh == Spec => []OnlineIsFresh
<1>1. TypeOK /\ StatusInv => OnlineIsFresh
  BY ProcessingAssumption DEF TypeOK, StatusInv, FreshSinceCheck, OnlineIsFresh
<1>2. QED  BY StatusInvariant, <1>1, PTL

(***************************************************************************)
(* Whoever listens to 'node.status.changed' never holds an outdated status *)
(* of a node it knows, and no node goes offline unannounced.               *)
(***************************************************************************)
THEOREM AnnouncementsCurrent == Spec => []AnnouncementIsCurrent
<1>1. TypeOK /\ StatusInv => AnnouncementIsCurrent
  BY DEF StatusInv
<1>2. QED  BY StatusInvariant, <1>1, PTL

(***************************************************************************)
(* No filter window survives its node going offline or outgrows its size.  *)
(***************************************************************************)
THEOREM FilterAfresh == Spec => []FilterStartsAfresh
<1>1. TypeOK /\ StatusInv => FilterStartsAfresh
  BY DEF StatusInv
<1>2. QED  BY StatusInvariant, <1>1, PTL

(***************************************************************************)
(* The reported sequence number trails the highest one by no more than the *)
(* reordering span.                                                        *)
(***************************************************************************)
THEOREM ReportedTrails == Spec => []ReportedSequenceTrails
<1>1. TypeOK /\ StatusInv => ReportedSequenceTrails
  BY DEF StatusInv
<1>2. QED  BY StatusInvariant, <1>1, PTL

-----------------------------------------------------------------------------
(***************************************************************************)
(* The sequence number goes back by a reset only.                          *)
(***************************************************************************)
GoesBack(n) == lastSeq[n] # NoSeq /\ lastSeq'[n] # lastSeq[n] /\ ~(lastSeq'[n] > lastSeq[n])

BackIsReset ==
  \A n \in Node : GoesBack(n) =>
    /\ lastSeq[n] > lastSeq'[n] + ReorderSpan
    /\ gapCount'[n] = gapCount[n]
    /\ \A s \in Sensor : fill'[n][s] <= 1

LEMMA AcceptGoesBack ==
  ASSUME TypeOK, NEW r \in Reading, AcceptReading(r)
  PROVE  BackIsReset
<1>. DEFINE m == r.node
            q == r.seq
<1>1. /\ m \in Node /\ q \in Nat /\ r.sensor \in Sensor
      /\ lastSeq \in [Node -> SeqNum \cup {NoSeq}] /\ gapCount \in [Node -> Nat]
      /\ fill \in [Node -> [Sensor -> Nat]]
  BY ProcessingAssumption DEF TypeOK, Reading
<1>2. /\ lastSeq' = [lastSeq EXCEPT ![m] = Highest(m, q)]
      /\ gapCount' = [gapCount EXCEPT ![m] = @ + Missing(m, q)]
      /\ fill' = [fill EXCEPT ![m] = Smooth(IF IsReset(m, q) THEN EmptyWindows ELSE @, r.sensor)]
  BY DEF AcceptReading
<1>. SUFFICES ASSUME NEW n \in Node, GoesBack(n)
              PROVE  /\ lastSeq[n] > lastSeq'[n] + ReorderSpan
                     /\ gapCount'[n] = gapCount[n]
                     /\ \A s \in Sensor : fill'[n][s] <= 1
  BY DEF BackIsReset
<1>3. n = m /\ lastSeq[m] \in Nat /\ lastSeq[m] # NoSeq
  BY <1>1, <1>2, ProcessingAssumption DEF GoesBack
<1>4. lastSeq'[m] = Highest(m, q) /\ gapCount'[m] = gapCount[m] + Missing(m, q)
  BY <1>1, <1>2
<1>5. lastSeq'[m] = q /\ q < lastSeq[m] /\ IsReset(m, q)
  <2>1. lastSeq'[m] # lastSeq[m] /\ ~ (lastSeq'[m] > lastSeq[m])
    BY <1>3 DEF GoesBack
  <2>2. HasSeq(m)
    BY <1>3 DEF HasSeq
  <2>3. Highest(m, q) = q /\ (q > lastSeq[m] \/ IsReset(m, q))
    BY <1>4, <2>1, <2>2 DEF Highest
  <2>4. lastSeq'[m] = q
    BY <1>4, <2>3
  <2>5. q # lastSeq[m] /\ ~ (q > lastSeq[m])
    BY <2>1, <2>4
  <2>6. q < lastSeq[m]
    <3>1. \A a, b \in Nat : a # b /\ ~ (a > b) => a < b
      OBVIOUS
    <3>2. q \in Nat /\ lastSeq[m] \in Nat
      BY <1>1, <1>3
    <3>. HIDE DEF q, m
    <3>. QED BY <2>5, <3>1, <3>2
  <2>. QED BY <2>3, <2>4, <2>5, <2>6
<1>6. lastSeq[m] > q + ReorderSpan /\ Missing(m, q) = 0
  BY <1>1, <1>3, <1>5, ProcessingAssumption DEF IsReset, Missing, IsGap
<1>7. \A s \in Sensor : fill'[m][s] <= 1
  <2>1. fill'[m] = Smooth(EmptyWindows, r.sensor)
    BY <1>1, <1>2, <1>5
  <2>. QED BY <1>1, <2>1 DEF Smooth, EmptyWindows
<1>. QED BY <1>1, <1>3, <1>4, <1>5, <1>6, <1>7

LEMMA NextGoesBack == TypeOK /\ [Next]_vars => BackIsReset
<1>. SUFFICES ASSUME TypeOK, [Next]_vars PROVE BackIsReset
  OBVIOUS
<1>1. CASE UNCHANGED lastSeq
  BY <1>1 DEF BackIsReset, GoesBack
<1>2. ASSUME NEW r \in Reading, AcceptReading(r) PROVE BackIsReset
  BY <1>2, AcceptGoesBack
<1>3. \/ UNCHANGED lastSeq
      \/ \E r \in Reading : AcceptReading(r)
  BY DEF Next, HandleSensorReading, DropDuplicate, HandleNodeStatus, CheckStaleNodes, Tick, vars
<1>. QED BY <1>1, <1>2, <1>3

(***************************************************************************)
(* The highest number of a node goes back only when a number is more than  *)
(* the reordering span below it; that counts as no loss, and no value from *)
(* before is averaged with those after it (96-116, 144-148, 188-190).      *)
(***************************************************************************)
THEOREM ResetsAreClean == Spec => ResetStartsAfresh
<1>1. TypeOK /\ [Next]_vars => [BackIsReset]_vars
  BY NextGoesBack
<1>2. [BackIsReset]_vars <=>
        [\A n \in Node :
           lastSeq[n] # NoSeq /\ lastSeq'[n] # lastSeq[n] /\ ~(lastSeq'[n] > lastSeq[n]) =>
             /\ lastSeq[n] > lastSeq'[n] + ReorderSpan
             /\ gapCount'[n] = gapCount[n]
             /\ \A s \in Sensor : fill'[n][s] <= 1]_vars
  BY DEF BackIsReset, GoesBack
<1>3. QED  BY <1>1, <1>2, TypeCorrect, PTL DEF Spec, ResetStartsAfresh

-----------------------------------------------------------------------------
(***************************************************************************)
(* Telemetry: what the network hands over is what Processing expects.      *)
(***************************************************************************)
LinkTypeOK ==
  /\ boot \in [Node -> 1 .. MaxBoots]
  /\ nextSeq \in [Node -> 1 .. MaxSeq + 1]
  /\ network \subseteq Message
  /\ arrived \subseteq Message
  /\ origin \in [Node -> Seq(Message)]
  /\ \A m \in network \cup arrived : m.boot <= boot[m.node]

ReadingOf(m) == [node |-> m.node, zone |-> zone[m.node], sensor |-> m.sensor, seq |-> m.seq]

LEMMA ReadingOfMessage ==
  ASSUME TypeOK, NEW m \in Message
  PROVE  /\ ReadingOf(m) \in Reading
         /\ ReadingOf(m).node = m.node /\ ReadingOf(m).seq = m.seq
         /\ KeyOf(ReadingOf(m)) = <<m.sensor, m.seq>>
         /\ m.node \in Node
BY TelemetryAssumption DEF TypeOK, ReadingOf, Reading, Message, KeyOf

\* A delivered message is dropped as a copy, or stored and its origin noted.
Drops(m) ==
  /\ IsDuplicate(ReadingOf(m))
  /\ UNCHANGED <<vars, origin>>

Stores(m) ==
  /\ AcceptReading(ReadingOf(m))
  /\ origin' = [origin EXCEPT ![m.node] = Append(@, m)]

LEMMA DeliverFacts ==
  ASSUME TypeOK, LinkTypeOK, NEW m \in network, Deliver(m)
  PROVE  /\ IsRedeliverable(m)
         /\ Drops(m) \/ Stores(m)
         /\ arrived' = arrived \cup {m}
         /\ network' \subseteq network
         /\ UNCHANGED <<boot, nextSeq>>
<1> DEFINE n == m.node
<1>1. m \in Message /\ n \in Node
  BY ReadingOfMessage DEF LinkTypeOK
<1>2. /\ HandleSensorReading(ReadingOf(m)) /\ IsRedeliverable(m)
      /\ arrived' = arrived \cup {m} /\ network' \subseteq network
      /\ UNCHANGED <<boot, nextSeq>>
      /\ origin' = IF readings'[n] # readings[n]
                   THEN [origin EXCEPT ![n] = Append(@, m)] ELSE origin
  BY DEF Deliver, ReadingOf
<1>3. CASE DropDuplicate(ReadingOf(m))
  BY <1>2, <1>3 DEF DropDuplicate, vars, Drops
<1>4. CASE AcceptReading(ReadingOf(m))
  <2>1. readings[n] \in Seq(Key) /\ KeyOf(ReadingOf(m)) \in Key
    BY <1>1, ReadingOfMessage DEF TypeOK, KeyOf, Key, Reading
  <2>2. readings'[n] = Append(readings[n], KeyOf(ReadingOf(m)))
    BY <1>1, <1>4, ReadingOfMessage DEF AcceptReading, SaveReading, TypeOK
  <2>3. Len(readings'[n]) = Len(readings[n]) + 1 /\ Len(readings[n]) \in Nat
    BY <2>1, <2>2
  <2>4. readings'[n] # readings[n]
    BY <2>3
  <2> QED  BY <1>2, <1>4, <2>4 DEF Stores
<1> QED  BY <1>2, <1>3, <1>4 DEF HandleSensorReading

LEMMA DeliverIsNext ==
  ASSUME TypeOK, LinkTypeOK, NEW m \in network, Deliver(m)
  PROVE  [Next]_vars
<1>1. m \in Message
  BY DEF LinkTypeOK
<1>2. ReadingOf(m) \in Reading
  BY <1>1, ReadingOfMessage
<1>3. HandleSensorReading(ReadingOf(m))
  BY DEF Deliver, ReadingOf
<1> QED  BY <1>2, <1>3 DEF Next

LEMMA TelemetryIsNext ==
  ASSUME TypeOK, LinkTypeOK, [TelemetryNext]_allVars
  PROVE  [Next]_vars
BY DeliverIsNext
   DEF TelemetryNext, Transmit, Reboot, Lose, NodeStatus, Watchdog, TimePasses, Next, allVars

LEMMA InitLinkType == TelemetryInit => LinkTypeOK
BY TelemetryAssumption DEF TelemetryInit, LinkTypeOK

LEMMA NextLinkType ==
  ASSUME TypeOK, LinkTypeOK, [TelemetryNext]_allVars
  PROVE  LinkTypeOK'
<1>1. ASSUME UNCHANGED <<boot, nextSeq, arrived, origin>>, network' \subseteq network
      PROVE  LinkTypeOK'
  BY <1>1 DEF LinkTypeOK
<1>2. ASSUME NEW n \in Node, Transmit(n)
      PROVE  LinkTypeOK'
  <2>1. /\ nextSeq[n] \in 1 .. MaxSeq /\ boot[n] \in 1 .. MaxBoots
        /\ nextSeq' \in [Node -> 1 .. MaxSeq + 1]
        /\ UNCHANGED <<boot, arrived, origin>>
    BY <1>2, TelemetryAssumption DEF Transmit, LinkTypeOK
  <2>2. ASSUME NEW m \in network'
        PROVE  m \in network \/ (m \in Message /\ m.node = n /\ m.boot = boot[n])
    BY <1>2, <2>1, <2>2 DEF Transmit, Message
  <2>3. boot[n] <= boot[n]
    BY <2>1
  <2> QED  BY <2>1, <2>2, <2>3 DEF LinkTypeOK
<1>3. ASSUME NEW n \in Node, Reboot(n)
      PROVE  LinkTypeOK'
  <2>1. /\ boot' \in [Node -> 1 .. MaxBoots] /\ nextSeq' \in [Node -> 1 .. MaxSeq + 1]
        /\ \A k \in Node : boot[k] <= boot'[k] /\ boot[k] \in Nat /\ boot'[k] \in Nat
        /\ UNCHANGED <<network, arrived, origin>>
    BY <1>3, TelemetryAssumption DEF Reboot, LinkTypeOK
  <2>2. ASSUME NEW m \in network \cup arrived
        PROVE  m.boot <= boot'[m.node]
    <3>1. m.boot <= boot[m.node] /\ m.node \in Node /\ m.boot \in Nat
      BY <2>2 DEF LinkTypeOK, Message
    <3> QED  BY <2>1, <3>1
  <2> QED  BY <2>1, <2>2 DEF LinkTypeOK
<1>4. ASSUME NEW m \in network, Lose(m)
      PROVE  LinkTypeOK'
  BY <1>1, <1>4 DEF Lose
<1>5. ASSUME NEW m \in network, Deliver(m)
      PROVE  LinkTypeOK'
  <2>1. /\ Drops(m) \/ Stores(m)
        /\ arrived' = arrived \cup {m} /\ network' \subseteq network
        /\ UNCHANGED <<boot, nextSeq>>
    BY <1>5, DeliverFacts
  <2>2. m \in Message
    BY DEF LinkTypeOK
  <2>3. origin' \in [Node -> Seq(Message)]
    <3>1. CASE Drops(m)
      BY <3>1 DEF Drops, LinkTypeOK
    <3>2. CASE Stores(m)
      <4>1. \A n \in Node : Append(origin[n], m) \in Seq(Message)
        BY <2>2 DEF LinkTypeOK
      <4> QED  BY <3>2, <4>1 DEF Stores, LinkTypeOK
    <3> QED  BY <2>1, <3>1, <3>2
  <2> QED  BY <2>1, <2>2, <2>3 DEF LinkTypeOK
<1>6. CASE NodeStatus \/ Watchdog \/ TimePasses \/ UNCHANGED allVars
  BY <1>1, <1>6 DEF NodeStatus, Watchdog, TimePasses, linkVars, allVars
<1> QED  BY <1>2, <1>3, <1>4, <1>5, <1>6 DEF TelemetryNext

(***************************************************************************)
(* Whatever nodes and network do, the processing service sees a behaviour  *)
(* of Processing, so that every theorem about it holds of the composition. *)
(***************************************************************************)
THEOREM TelemetryImplementsProcessing == TelemetrySpec => Spec
<1>1. TelemetryInit => Init /\ TypeOK /\ LinkTypeOK
  BY InitType, InitLinkType DEF TelemetryInit
<1>2. TypeOK /\ LinkTypeOK /\ [TelemetryNext]_allVars => TypeOK' /\ LinkTypeOK' /\ [Next]_vars
  BY TelemetryIsNext, NextType, NextLinkType
<1> QED  BY <1>1, <1>2, PTL DEF TelemetrySpec, Spec

-----------------------------------------------------------------------------
(***************************************************************************)
(* What is stored, and of which messages.                                  *)
(***************************************************************************)
OriginOK ==
  \A n \in Node :
    /\ Len(origin[n]) = Len(readings[n])
    /\ \A i \in 1 .. Len(origin[n]) :
         /\ origin[n][i].node = n
         /\ origin[n][i] \in arrived
         /\ readings[n][i] = <<origin[n][i].sensor, origin[n][i].seq>>

\* The last a of b places, where at most c are kept.
LEMMA LastPlaces ==
  ASSUME NEW a \in Nat, NEW b \in Nat, NEW c \in Nat, a = IF b < c THEN b ELSE c
  PROVE  /\ \A i \in 1 .. a : b - a + i \in 1 .. b
         /\ \A k \in 1 .. b : b - k < c =>
              k - (b - a) \in 1 .. a /\ b - a + (k - (b - a)) = k
OBVIOUS

\* A copy of a remembered reading has its position among the stored ones.
LEMMA DuplicateIsStored ==
  ASSUME TypeOK, SeenIsRecentReadings, NEW r \in Reading, IsDuplicate(r)
  PROVE  \E k \in 1 .. Len(readings[r.node]) : readings[r.node][k] = KeyOf(r)
<1> DEFINE n == r.node
<1>1. n \in Node
  BY DEF Reading
<1>2. /\ seen[n] \in Seq(Key) /\ readings[n] \in Seq(Key)
      /\ Len(seen[n]) \in Nat /\ Len(readings[n]) \in Nat /\ SeenCap \in Nat
  BY <1>1, ProcessingAssumption DEF TypeOK
<1>3. PICK i \in 1 .. Len(seen[n]) : seen[n][i] = KeyOf(r)
  BY <1>2 DEF IsDuplicate
<1>4. /\ Len(seen[n]) = IF Len(readings[n]) < SeenCap THEN Len(readings[n]) ELSE SeenCap
      /\ seen[n][i] = readings[n][Len(readings[n]) - Len(seen[n]) + i]
  BY <1>1 DEF SeenIsRecentReadings, LatestOf
<1> HIDE DEF n
<1>5. Len(readings[n]) - Len(seen[n]) + i \in 1 .. Len(readings[n])
  BY <1>2, <1>3, <1>4, LastPlaces
<1> QED  BY <1>3, <1>4, <1>5 DEF n

\* A reading stored at most RedeliveryWindow readings ago is remembered.
LEMMA RecentIsDuplicate ==
  ASSUME TypeOK, SeenIsRecentReadings, NEW r \in Reading,
         NEW k \in 1 .. Len(readings[r.node]), readings[r.node][k] = KeyOf(r),
         Len(readings[r.node]) - k < SeenCap
  PROVE  IsDuplicate(r)
<1> DEFINE n == r.node
           stored == readings[n]
           i == k - (Len(stored) - Len(seen[n]))
<1>1. n \in Node
  BY DEF Reading
<1>2. /\ seen[n] \in Seq(Key) /\ stored \in Seq(Key)
      /\ Len(seen[n]) \in Nat /\ Len(stored) \in Nat /\ SeenCap \in Nat
  BY <1>1, ProcessingAssumption DEF TypeOK
<1>3. /\ Len(seen[n]) = IF Len(stored) < SeenCap THEN Len(stored) ELSE SeenCap
      /\ \A j \in 1 .. Len(seen[n]) : seen[n][j] = stored[Len(stored) - Len(seen[n]) + j]
  BY <1>1 DEF SeenIsRecentReadings, LatestOf
<1>4. Len(stored) - k < SeenCap /\ k \in 1 .. Len(stored) /\ stored[k] = KeyOf(r)
  OBVIOUS
<1> HIDE DEF n, stored
<1>5. i \in 1 .. Len(seen[n]) /\ Len(stored) - Len(seen[n]) + i = k
  BY <1>2, <1>3, <1>4, LastPlaces
<1> HIDE DEF i
<1>6. seen[n][i] = KeyOf(r)
  BY <1>3, <1>4, <1>5
<1>7. i \in DOMAIN seen[n]
  BY <1>2, <1>5
<1> QED  BY <1>6, <1>7 DEF IsDuplicate, n

\* In the first boot of a node, equal keys are the same message.
LEMMA FirstBootIdentity ==
  ASSUME TypeOK, LinkTypeOK, OriginOK, NEW m \in network, boot[m.node] = 1,
         NEW k \in 1 .. Len(readings[m.node]), readings[m.node][k] = <<m.sensor, m.seq>>
  PROVE  k \in 1 .. Len(origin[m.node]) /\ origin[m.node][k] = m
<1> DEFINE o == origin[m.node][k]
<1>1. m \in Message /\ m.node \in Node /\ m.boot <= 1
  BY ReadingOfMessage DEF LinkTypeOK
<1>2. k \in 1 .. Len(origin[m.node])
  BY <1>1 DEF OriginOK
<1>3. o.node = m.node /\ o \in arrived /\ readings[m.node][k] = <<o.sensor, o.seq>>
  BY <1>1, <1>2 DEF OriginOK
<1>4. o \in Message /\ o.boot <= 1
  BY <1>3 DEF LinkTypeOK
<1>5. o.sensor = m.sensor /\ o.seq = m.seq
  BY <1>3
<1>6. o.boot = m.boot
  BY <1>1, <1>4 DEF Message
<1> HIDE DEF o
<1>7. o = m
  BY <1>1, <1>3, <1>4, <1>5, <1>6 DEF Message
<1> QED  BY <1>2, <1>7 DEF o

LEMMA FirstBootDuplicate ==
  ASSUME TypeOK, SeenIsRecentReadings, LinkTypeOK, OriginOK,
         NEW m \in network, boot[m.node] = 1, IsDuplicate(ReadingOf(m))
  PROVE  m \in Range(origin[m.node]) /\ m \in arrived
<1>1. m \in Message /\ m.node \in Node
  BY ReadingOfMessage DEF LinkTypeOK
<1>2. /\ ReadingOf(m) \in Reading /\ ReadingOf(m).node = m.node
      /\ KeyOf(ReadingOf(m)) = <<m.sensor, m.seq>>
  BY <1>1, ReadingOfMessage
<1>3. PICK k \in 1 .. Len(readings[m.node]) : readings[m.node][k] = <<m.sensor, m.seq>>
  BY <1>2, DuplicateIsStored
<1>4. k \in 1 .. Len(origin[m.node]) /\ origin[m.node][k] = m
  BY <1>3, FirstBootIdentity
<1>5. m \in arrived
  BY <1>1, <1>4 DEF OriginOK
<1>6. DOMAIN origin[m.node] = 1 .. Len(origin[m.node])
  BY <1>1 DEF LinkTypeOK
<1> QED  BY <1>4, <1>5, <1>6 DEF Range

StoreInv == OriginOK /\ ArrivedIsStoredWithinBoot

LEMMA InitStore == TelemetryInit => StoreInv
BY DEF TelemetryInit, Init, StoreInv, OriginOK, ArrivedIsStoredWithinBoot, StoresAllOf

LEMMA StoreAppends ==
  ASSUME TypeOK, LinkTypeOK, NEW m \in network, Stores(m)
  PROVE  LET n == m.node
         IN  /\ n \in Node /\ origin[n] \in Seq(Message) /\ readings[n] \in Seq(Key)
             /\ origin' = [origin EXCEPT ![n] = Append(origin[n], m)]
             /\ readings' = [readings EXCEPT ![n] = Append(readings[n], <<m.sensor, m.seq>>)]
<1>1. m \in Message /\ m.node \in Node
  BY ReadingOfMessage DEF LinkTypeOK
<1>2. readings' = [readings EXCEPT ![m.node] = Append(readings[m.node], <<m.sensor, m.seq>>)]
  BY <1>1, ReadingOfMessage DEF Stores, AcceptReading, SaveReading
<1> QED  BY <1>1, <1>2 DEF Stores, LinkTypeOK, TypeOK

LEMMA DeliverKeepsStore ==
  ASSUME TypeOK, SeenIsRecentReadings, LinkTypeOK, StoreInv, NEW m \in network, Deliver(m)
  PROVE  StoreInv'
<1> DEFINE n == m.node
<1>1. /\ Drops(m) \/ Stores(m)
      /\ arrived' = arrived \cup {m} /\ UNCHANGED boot
      /\ m \in Message /\ n \in Node
  BY DeliverFacts, ReadingOfMessage DEF LinkTypeOK
<1>2. CASE Drops(m)
  <2>1. UNCHANGED <<readings, origin>> /\ IsDuplicate(ReadingOf(m))
    BY <1>2 DEF Drops, vars
  <2>2. OriginOK'
    BY <1>1, <2>1 DEF StoreInv, OriginOK
  <2>3. ArrivedIsStoredWithinBoot'
    <3> SUFFICES ASSUME NEW k \in Node, boot[k] = 1, NEW x \in arrived', x.node = k
                 PROVE  x \in Range(origin[k])
      BY <1>1, <2>1 DEF ArrivedIsStoredWithinBoot, StoresAllOf
    <3>1. CASE x \in arrived
      BY <3>1 DEF StoreInv, ArrivedIsStoredWithinBoot, StoresAllOf
    <3>2. CASE x = m
      BY <2>1, <3>2, FirstBootDuplicate DEF StoreInv
    <3> QED  BY <1>1, <3>1, <3>2
  <2> QED  BY <2>2, <2>3 DEF StoreInv
<1>3. CASE Stores(m)
  <2>1. /\ origin[n] \in Seq(Message) /\ readings[n] \in Seq(Key)
        /\ origin' = [origin EXCEPT ![n] = Append(origin[n], m)]
        /\ readings' = [readings EXCEPT ![n] = Append(readings[n], <<m.sensor, m.seq>>)]
    BY <1>3, StoreAppends
  <2>2. /\ origin \in [Node -> Seq(Message)] /\ readings \in [Node -> Seq(Key)]
    BY DEF LinkTypeOK, TypeOK
  <2>3. /\ Len(origin'[n]) = Len(origin[n]) + 1 /\ Len(readings'[n]) = Len(readings[n]) + 1
        /\ Len(origin[n]) = Len(readings[n]) /\ Len(origin[n]) \in Nat
        /\ \A i \in 1 .. Len(origin[n]) :
             origin'[n][i] = origin[n][i] /\ readings'[n][i] = readings[n][i]
        /\ origin'[n][Len(origin[n]) + 1] = m
        /\ readings'[n][Len(origin[n]) + 1] = <<m.sensor, m.seq>>
    <3>1. Len(origin[n]) = Len(readings[n])
      BY <1>1 DEF StoreInv, OriginOK
    <3>2. KeyOf(ReadingOf(m)) \in Key /\ KeyOf(ReadingOf(m)) = <<m.sensor, m.seq>>
      BY <1>1, ReadingOfMessage DEF KeyOf, Key, Reading
    <3>3. origin'[n] = Append(origin[n], m) /\ readings'[n] = Append(readings[n], <<m.sensor, m.seq>>)
      BY <1>1, <2>1, <2>2
    <3> HIDE DEF n
    <3> QED  BY <1>1, <2>1, <3>1, <3>2, <3>3
  <2>4. \A k \in Node : k # n => origin'[k] = origin[k] /\ readings'[k] = readings[k]
    BY <2>1, <2>2
  <2>5. OriginOK'
    <3> SUFFICES ASSUME NEW k \in Node
                 PROVE  /\ Len(origin'[k]) = Len(readings'[k])
                        /\ \A i \in 1 .. Len(origin'[k]) :
                             /\ origin'[k][i].node = k
                             /\ origin'[k][i] \in arrived'
                             /\ readings'[k][i] = <<origin'[k][i].sensor, origin'[k][i].seq>>
      BY DEF OriginOK
    <3>1. CASE k # n
      BY <1>1, <2>4, <3>1 DEF StoreInv, OriginOK
    <3>2. CASE k = n
      <4>1. \A i \in 1 .. Len(origin'[k]) : i \in 1 .. Len(origin[n]) \/ i = Len(origin[n]) + 1
        BY <2>3, <3>2
      <4>2. \A i \in 1 .. Len(origin[n]) :
              /\ origin[n][i].node = n /\ origin[n][i] \in arrived
              /\ readings[n][i] = <<origin[n][i].sensor, origin[n][i].seq>>
        BY <1>1 DEF StoreInv, OriginOK
      <4> QED  BY <1>1, <2>3, <3>2, <4>1, <4>2
    <3> QED  BY <3>1, <3>2
  <2>6. /\ \A k \in Node : Range(origin[k]) \subseteq Range(origin'[k])
        /\ m \in Range(origin'[n])
    <3>1. \A k \in Node : DOMAIN origin[k] = 1 .. Len(origin[k])
      BY <2>2
    <3>2. DOMAIN origin'[n] = 1 .. Len(origin[n]) + 1
      BY <1>1, <2>1, <2>2
    <3>3. Len(origin[n]) + 1 \in DOMAIN origin'[n] /\ DOMAIN origin[n] \subseteq DOMAIN origin'[n]
      BY <1>1, <2>3, <3>1, <3>2
    <3>4. \A i \in DOMAIN origin[n] : origin'[n][i] = origin[n][i]
      BY <1>1, <2>3, <3>1
    <3>5. Range(origin[n]) \subseteq Range(origin'[n]) /\ m \in Range(origin'[n])
      BY <2>3, <3>3, <3>4 DEF Range
    <3> QED  BY <2>4, <3>5
  <2>7. ArrivedIsStoredWithinBoot'
    BY <1>1, <2>6 DEF StoreInv, ArrivedIsStoredWithinBoot, StoresAllOf
  <2> QED  BY <2>5, <2>7 DEF StoreInv
<1> QED  BY <1>1, <1>2, <1>3

LEMMA NextStore ==
  ASSUME TypeOK, SeenIsRecentReadings, LinkTypeOK, StoreInv, [TelemetryNext]_allVars
  PROVE  StoreInv'
<1>1. ASSUME UNCHANGED <<readings, arrived, origin>>, \A n \in Node : boot'[n] = 1 => boot[n] = 1
      PROVE  StoreInv'
  BY <1>1 DEF StoreInv, OriginOK, ArrivedIsStoredWithinBoot, StoresAllOf
<1>2. ASSUME NEW n \in Node, Transmit(n)
      PROVE  StoreInv'
  BY <1>1, <1>2 DEF Transmit, vars
<1>3. ASSUME NEW n \in Node, Reboot(n)
      PROVE  StoreInv'
  BY <1>1, <1>3 DEF Reboot, LinkTypeOK, vars
<1>4. ASSUME NEW m \in network, Lose(m)
      PROVE  StoreInv'
  BY <1>1, <1>4 DEF Lose, vars
<1>5. ASSUME NEW m \in network, Deliver(m)
      PROVE  StoreInv'
  BY <1>5, DeliverKeepsStore
<1>6. CASE NodeStatus \/ Watchdog \/ TimePasses \/ UNCHANGED allVars
  BY <1>1, <1>6 DEF NodeStatus, Watchdog, TimePasses, HandleNodeStatus, CheckStaleNodes, Tick,
                    linkVars, allVars, vars
<1> QED  BY <1>2, <1>3, <1>4, <1>5, <1>6 DEF TelemetryNext

LEMMA TelemetryInvariants ==
  TelemetrySpec => [](TypeOK /\ SeenIsRecentReadings /\ LinkTypeOK /\ StoreInv)
<1>1. TypeOK /\ LinkTypeOK /\ [TelemetryNext]_allVars => TypeOK' /\ LinkTypeOK'
  BY TelemetryIsNext, NextType, NextLinkType
<1>2. TypeOK /\ SeenIsRecentReadings /\ LinkTypeOK /\ StoreInv /\ [TelemetryNext]_allVars => StoreInv'
  BY NextStore
<1>3. TelemetryInit => TypeOK /\ LinkTypeOK /\ StoreInv
  BY InitType, InitLinkType, InitStore DEF TelemetryInit
<1> QED
  BY <1>1, <1>2, <1>3, TelemetryImplementsProcessing, SeenIsRecent, PTL DEF TelemetrySpec

(***************************************************************************)
(* Every message that arrives in the first boot of a node is stored,       *)
(* however often and in whatever order messages come: what is dropped as a *)
(* copy is a copy.                                                         *)
(***************************************************************************)
THEOREM ArrivedIsStored == TelemetrySpec => []ArrivedIsStoredWithinBoot
<1>1. StoreInv => ArrivedIsStoredWithinBoot
  BY DEF StoreInv
<1> QED  BY <1>1, TelemetryInvariants, PTL

-----------------------------------------------------------------------------
(***************************************************************************)
(* Storing once.                                                           *)
(***************************************************************************)
OriginDiffers ==
  \A n \in Node : \A i, j \in 1 .. Len(origin[n]) : origin[n][i] = origin[n][j] => i = j

\* A message that is redelivered in time is not stored again.
LEMMA StoredIsNew ==
  ASSUME RedeliveryWindow < SeenCap, TypeOK, SeenIsRecentReadings, LinkTypeOK, OriginOK,
         NEW m \in network, IsRedeliverable(m), Stores(m)
  PROVE  \A i \in 1 .. Len(origin[m.node]) : origin[m.node][i] # m
<1>1. m \in Message /\ m.node \in Node
  BY ReadingOfMessage DEF LinkTypeOK
<1>2. /\ ReadingOf(m) \in Reading /\ ReadingOf(m).node = m.node
      /\ KeyOf(ReadingOf(m)) = <<m.sensor, m.seq>>
  BY <1>1, ReadingOfMessage
<1> SUFFICES ASSUME NEW i \in 1 .. Len(origin[m.node]), origin[m.node][i] = m
             PROVE  FALSE
  OBVIOUS
<1>3. Len(origin[m.node]) - i <= RedeliveryWindow
  BY <1>1 DEF IsRedeliverable, LinkTypeOK
<1>4. /\ Len(origin[m.node]) = Len(readings[m.node])
      /\ readings[m.node][i] = KeyOf(ReadingOf(m))
      /\ Len(origin[m.node]) \in Nat
  BY <1>1, <1>2 DEF OriginOK, LinkTypeOK
<1>5. Len(readings[m.node]) - i < SeenCap /\ i \in 1 .. Len(readings[m.node])
  BY <1>3, <1>4, ProcessingAssumption, TelemetryAssumption
<1>6. IsDuplicate(ReadingOf(m))
  BY <1>2, <1>4, <1>5, RecentIsDuplicate
<1> QED  BY <1>6 DEF Stores, AcceptReading

LEMMA NextOriginDiffers ==
  ASSUME RedeliveryWindow < SeenCap, TypeOK, SeenIsRecentReadings, LinkTypeOK, StoreInv,
         OriginDiffers, [TelemetryNext]_allVars
  PROVE  OriginDiffers'
<1>1. ASSUME UNCHANGED origin PROVE OriginDiffers'
  BY <1>1 DEF OriginDiffers
<1>2. ASSUME NEW m \in network, Deliver(m)
      PROVE  OriginDiffers'
  <2>1. IsRedeliverable(m) /\ (Drops(m) \/ Stores(m))
    BY <1>2, DeliverFacts
  <2>2. CASE Drops(m)
    BY <1>1, <2>2 DEF Drops
  <2>3. CASE Stores(m)
    <3> DEFINE n == m.node
    <3>1. /\ n \in Node /\ origin[n] \in Seq(Message)
          /\ origin' = [origin EXCEPT ![n] = Append(origin[n], m)]
      BY <2>3, StoreAppends
    <3>2. \A i \in 1 .. Len(origin[n]) : origin[n][i] # m
      BY <2>1, <2>3, StoredIsNew DEF StoreInv
    <3>3. origin \in [Node -> Seq(Message)]
      BY DEF LinkTypeOK
    <3>4. /\ origin'[n] = Append(origin[n], m)
          /\ \A k \in Node : k # n => origin'[k] = origin[k]
      BY <3>1, <3>3
    <3>5. \A i, j \in 1 .. Len(origin[n]) : origin[n][i] = origin[n][j] => i = j
      BY <3>1 DEF OriginDiffers
    <3> DEFINE old == origin[n]
    <3> HIDE DEF n
    <3>6. \A i, j \in 1 .. Len(Append(old, m)) :
            Append(old, m)[i] = Append(old, m)[j] => i = j
      <4> HIDE DEF old
      <4>1. /\ Len(Append(old, m)) = Len(old) + 1 /\ Len(old) \in Nat
            /\ \A i \in 1 .. Len(old) : Append(old, m)[i] = old[i]
            /\ Append(old, m)[Len(old) + 1] = m
        BY <3>1 DEF old
      <4>2. \A i \in 1 .. Len(old) + 1 : i \in 1 .. Len(old) \/ i = Len(old) + 1
        BY <4>1
      <4>3. /\ \A i \in 1 .. Len(old) : old[i] # m
            /\ \A i, j \in 1 .. Len(old) : old[i] = old[j] => i = j
        BY <3>2, <3>5 DEF old
      <4> QED  BY <4>1, <4>2, <4>3
    <3> QED  BY <3>4, <3>6 DEF OriginDiffers
  <2> QED  BY <2>1, <2>2, <2>3
<1> QED
  BY <1>1, <1>2 DEF TelemetryNext, Transmit, Reboot, Lose, NodeStatus, Watchdog, TimePasses,
                    linkVars, allVars

(***************************************************************************)
(* No message is stored twice, however often it is delivered, as long as   *)
(* redeliveries come before SeenCap other readings of the node are stored; *)
(* DedupHorizon shows that a later one is stored again.                    *)
(***************************************************************************)
THEOREM StoresOnce == ASSUME RedeliveryWindow < SeenCap PROVE TelemetrySpec => []StoredOnce
<1>1. TelemetryInit => OriginDiffers
  BY DEF TelemetryInit, OriginDiffers
<1>2. /\ TypeOK /\ SeenIsRecentReadings /\ LinkTypeOK /\ StoreInv
      /\ OriginDiffers /\ [TelemetryNext]_allVars
      => OriginDiffers'
  BY NextOriginDiffers
<1>3. LinkTypeOK /\ OriginDiffers => StoredOnce
  <2>1. LinkTypeOK => \A n \in Node : DOMAIN origin[n] = 1 .. Len(origin[n])
    BY DEF LinkTypeOK
  <2> QED  BY <2>1 DEF OriginDiffers, StoredOnce, IsInjective
<1> QED  BY <1>1, <1>2, <1>3, TelemetryInvariants, PTL DEF TelemetrySpec

-----------------------------------------------------------------------------
(***************************************************************************)
(* The gap count.                                                          *)
(***************************************************************************)
LastIsArrived ==
  \A n \in Node : boot[n] = 1 =>
    /\ origin[n] = <<>> => lastSeq[n] = NoSeq
    /\ origin[n] # <<>> => lastSeq[n] \in ArrivedSeqs(n)

LEMMA ArrivedSeqsType ==
  ASSUME LinkTypeOK, NEW n \in Node
  PROVE  ArrivedSeqs(n) \subseteq 1 .. MaxSeq
BY DEF LinkTypeOK, Message, ArrivedSeqs

LEMMA ArrivalAddsSeq ==
  ASSUME NEW m, arrived' = arrived \cup {m}
  PROVE  /\ ArrivedSeqs(m.node)' = ArrivedSeqs(m.node) \cup {m.seq}
         /\ \A n : n # m.node => ArrivedSeqs(n)' = ArrivedSeqs(n)
BY DEF ArrivedSeqs

\* A message that is stored is numbered, and the highest number follows it.
LEMMA StoresFacts ==
  ASSUME TypeOK, LinkTypeOK, NEW m \in network, Stores(m)
  PROVE  LET n == m.node
         IN  /\ n \in Node /\ m \in Message /\ m.seq \in 1 .. MaxSeq
             /\ origin' = [origin EXCEPT ![n] = Append(origin[n], m)]
             /\ origin[n] \in Seq(Message)
             /\ lastSeq' = [lastSeq EXCEPT ![n] = Highest(n, m.seq)]
             /\ gapCount' = [gapCount EXCEPT ![n] = @ + Missing(n, m.seq)]
<1>1. m \in Message /\ m.node \in Node
  BY ReadingOfMessage DEF LinkTypeOK
<1> QED  BY <1>1, ReadingOfMessage, StoreAppends DEF Stores, AcceptReading, Message

LEMMA NextLastIsArrived ==
  ASSUME TypeOK, SeenIsRecentReadings, LinkTypeOK, StoreInv, LastIsArrived,
         [TelemetryNext]_allVars
  PROVE  LastIsArrived'
<1>1. ASSUME UNCHANGED <<arrived, origin, lastSeq>>, \A n \in Node : boot'[n] = 1 => boot[n] = 1
      PROVE  LastIsArrived'
  BY <1>1 DEF LastIsArrived, ArrivedSeqs
<1>2. ASSUME NEW n \in Node, Transmit(n)
      PROVE  LastIsArrived'
  BY <1>1, <1>2 DEF Transmit, vars
<1>3. ASSUME NEW n \in Node, Reboot(n)
      PROVE  LastIsArrived'
  BY <1>1, <1>3 DEF Reboot, LinkTypeOK, vars
<1>4. ASSUME NEW m \in network, Lose(m)
      PROVE  LastIsArrived'
  BY <1>1, <1>4 DEF Lose, vars
<1>5. ASSUME NEW m \in network, Deliver(m)
      PROVE  LastIsArrived'
  <2>1. /\ Drops(m) \/ Stores(m)
        /\ arrived' = arrived \cup {m} /\ UNCHANGED boot
    BY <1>5, DeliverFacts
  <2>2. /\ ArrivedSeqs(m.node)' = ArrivedSeqs(m.node) \cup {m.seq}
        /\ \A n : n # m.node => ArrivedSeqs(n)' = ArrivedSeqs(n)
    BY <2>1, ArrivalAddsSeq
  <2>3. \A n \in Node : ArrivedSeqs(n) \subseteq ArrivedSeqs(n)'
    BY <2>2
  <2>4. CASE Drops(m)
    <3>1. UNCHANGED <<origin, lastSeq>>
      BY <2>4 DEF Drops, vars
    <3> QED  BY <2>1, <2>3, <3>1 DEF LastIsArrived
  <2>5. CASE Stores(m)
    <3> DEFINE n == m.node
    <3>1. /\ n \in Node /\ m \in Message
          /\ origin' = [origin EXCEPT ![n] = Append(origin[n], m)]
          /\ origin[n] \in Seq(Message)
          /\ lastSeq' = [lastSeq EXCEPT ![n] = Highest(n, m.seq)]
      BY <2>5, StoresFacts
    <3>2. /\ origin \in [Node -> Seq(Message)] /\ lastSeq \in [Node -> SeqNum \cup {NoSeq}]
      BY DEF LinkTypeOK, TypeOK
    <3>3. origin'[n] # <<>> /\ lastSeq'[n] = Highest(n, m.seq)
      <4>1. Append(origin[n], m) # <<>>
        BY <3>1
      <4> QED  BY <3>1, <3>2, <4>1
    <3>4. boot[n] = 1 => Highest(n, m.seq) \in ArrivedSeqs(n)'
      <4>1. Highest(n, m.seq) = m.seq \/ (HasSeq(n) /\ Highest(n, m.seq) = lastSeq[n])
        BY DEF Highest
      <4>2. boot[n] = 1 /\ HasSeq(n) => lastSeq[n] \in ArrivedSeqs(n)
        BY <3>1 DEF LastIsArrived, HasSeq
      <4> QED  BY <2>2, <4>1, <4>2
    <3>5. \A k \in Node : k # n => origin'[k] = origin[k] /\ lastSeq'[k] = lastSeq[k]
      BY <3>1, <3>2
    <3> HIDE DEF n
    <3> QED  BY <2>1, <2>3, <3>3, <3>4, <3>5 DEF LastIsArrived
  <2> QED  BY <2>1, <2>4, <2>5
<1>6. CASE NodeStatus \/ Watchdog \/ TimePasses \/ UNCHANGED allVars
  BY <1>1, <1>6 DEF NodeStatus, Watchdog, TimePasses, HandleNodeStatus, CheckStaleNodes, Tick,
                    linkVars, allVars, vars
<1> QED  BY <1>2, <1>3, <1>4, <1>5, <1>6 DEF TelemetryNext

(***************************************************************************)
(* No packet of a first boot is numbered so far ahead of the highest one   *)
(* that it is taken for a new numbering.  Such a jump records no gap.      *)
(***************************************************************************)
JumpsAreShort ==
  \A m \in network :
    boot[m.node] = 1 /\ lastSeq[m.node] # NoSeq => m.seq <= lastSeq[m.node] + 1 + ForwardSpan

LEMMA IntervalCount ==
  ASSUME NEW a \in Nat, NEW b \in Nat
  PROVE  /\ IsFiniteSet(a + 1 .. b - 1)
         /\ Cardinality(a + 1 .. b - 1) = IF b > a + 1 THEN b - a - 1 ELSE 0
<1>1. a + 1 \in Int /\ b - 1 \in Int
  OBVIOUS
<1> QED  BY <1>1, FS_Interval

LEMMA LostIsFinite ==
  ASSUME NEW S, S \subseteq 1 .. MaxSeq
  PROVE  IsFiniteSet(S) /\ Cardinality(S) \in Nat
<1>1. IsFiniteSet(1 .. MaxSeq)
  BY FS_Interval, TelemetryAssumption
<1>2. IsFiniteSet(S)
  BY <1>1, FS_Subset
<1> QED  BY <1>2, FS_CardinalityType

\* What a delivery can add to the lost packets is what it counts as missing.
LEMMA LostGrowsByMissing ==
  ASSUME TypeOK, LinkTypeOK, StoreInv, LastIsArrived, JumpsAreShort,
         NEW m \in network, Stores(m), arrived' = arrived \cup {m}, boot[m.node] = 1
  PROVE  Cardinality(Lost(m.node)') <= Cardinality(Lost(m.node)) + Missing(m.node, m.seq)
<1> DEFINE n == m.node
           q == m.seq
           new == Lost(n)'
<1>1. /\ n \in Node /\ m \in Message /\ q \in 1 .. MaxSeq
      /\ origin' = [origin EXCEPT ![n] = Append(origin[n], m)]
      /\ origin[n] \in Seq(Message)
      /\ origin \in [Node -> Seq(Message)]
  BY StoresFacts DEF LinkTypeOK
<1>2. /\ ArrivedSeqs(n)' = ArrivedSeqs(n) \cup {q}
      /\ ArrivedSeqs(n) \subseteq 1 .. MaxSeq
  BY <1>1, ArrivalAddsSeq, ArrivedSeqsType
<1>3. /\ new \subseteq 1 .. MaxSeq
      /\ \A x \in new : /\ x \notin ArrivedSeqs(n) /\ x # q
                        /\ \E above \in ArrivedSeqs(n) \cup {q} :
                             origin'[n][1].seq < x /\ x < above
  BY <1>2 DEF Lost
<1>4. Lost(n) \subseteq 1 .. MaxSeq
  BY DEF Lost
<1>5. Missing(n, q) \in Nat
  BY <1>1, MissingType, TelemetryAssumption
<1>6. CASE origin[n] = <<>>
  <2>1. ArrivedSeqs(n) = {}
    <3>1. Range(origin[n]) = {}
      BY <1>6 DEF Range
    <3> QED  BY <1>1, <3>1 DEF StoreInv, ArrivedIsStoredWithinBoot, StoresAllOf, ArrivedSeqs
  <2>2. origin'[n] = <<m>> /\ origin'[n][1].seq = q
    BY <1>1, <1>6
  <2>3. new = {}
    <3> HIDE DEF new, q
    <3> QED  BY <1>1, <1>3, <2>1, <2>2
  <2>4. Cardinality(new) = 0
    BY <2>3, FS_EmptySet
  <2>5. Cardinality(Lost(n)) \in Nat
    BY <1>4, LostIsFinite
  <2> QED  BY <1>5, <2>4, <2>5
<1>7. CASE origin[n] # <<>>
  <2> DEFINE last == lastSeq[n]
             skipped == last + 1 .. q - 1
  <2>1. last \in ArrivedSeqs(n) /\ last \in 1 .. MaxSeq /\ last # NoSeq
    BY <1>1, <1>2, <1>7, ProcessingAssumption DEF LastIsArrived
  <2>2. origin'[n][1] = origin[n][1]
    <3>1. origin'[n] = Append(origin[n], m)
      BY <1>1
    <3>2. Len(origin[n]) \in Nat /\ Len(origin[n]) # 0
      BY <1>1, <1>7
    <3> HIDE DEF n
    <3> QED  BY <1>1, <3>1, <3>2
  <2>3. new \subseteq Lost(n) \cup skipped
    <3> SUFFICES ASSUME NEW x \in new, x \notin Lost(n)
                 PROVE  x \in skipped
      OBVIOUS
    <3>1. x \in 1 .. MaxSeq /\ x \notin ArrivedSeqs(n)
      BY <1>3
    <3>2. PICK above \in ArrivedSeqs(n) \cup {q} : origin[n][1].seq < x /\ x < above
      BY <1>3, <2>2
    <3>3. \A y \in ArrivedSeqs(n) : ~ (x < y)
      BY <3>1, <3>2 DEF Lost
    <3>4. x < q /\ ~ (x < last) /\ x # last
      BY <2>1, <3>1, <3>2, <3>3
    <3> HIDE DEF q, last
    <3> QED  BY <1>1, <2>1, <3>1, <3>4
  <2>4. /\ IsFiniteSet(skipped)
        /\ Cardinality(skipped) = IF q > last + 1 THEN q - last - 1 ELSE 0
    <3>1. last \in Nat /\ q \in Nat
      BY <1>1, <2>1, TelemetryAssumption
    <3> HIDE DEF last, q
    <3> QED  BY <3>1, IntervalCount
  <2>5. Cardinality(skipped) = Missing(n, q)
    <3>1. q <= last + 1 + ForwardSpan /\ HasSeq(n)
      BY <2>1 DEF JumpsAreShort, HasSeq
    <3>2. /\ last \in Nat /\ q \in Nat /\ ForwardSpan \in Nat /\ ReorderSpan \in Nat
      BY <1>1, <2>1, ProcessingAssumption
    <3>3. IsGap(n, q) <=> q > last + 1
      BY <3>1, <3>2 DEF IsGap, IsReset
    <3> HIDE DEF last, q, skipped
    <3> QED  BY <2>4, <3>3 DEF Missing, last
  <2>6. IsFiniteSet(Lost(n)) /\ Cardinality(Lost(n)) \in Nat
    BY <1>4, LostIsFinite
  <2>7. /\ IsFiniteSet(Lost(n) \cup skipped)
        /\ Cardinality(Lost(n) \cup skipped) =
             Cardinality(Lost(n)) + Cardinality(skipped) - Cardinality(Lost(n) \cap skipped)
    BY <2>4, <2>6, FS_Union
  <2>8. Cardinality(Lost(n) \cap skipped) \in Nat
    <3>1. Lost(n) \cap skipped \subseteq 1 .. MaxSeq
      BY <1>4
    <3> QED  BY <3>1, LostIsFinite
  <2>9. Cardinality(new) <= Cardinality(Lost(n) \cup skipped) /\ Cardinality(new) \in Nat
    <3>1. new \in SUBSET (Lost(n) \cup skipped)
      BY <2>3
    <3>2. Cardinality(new) <= Cardinality(Lost(n) \cup skipped)
      BY <2>7, <3>1, FS_Subset
    <3> QED  BY <1>3, <3>2, LostIsFinite
  <2> HIDE DEF new, skipped
  <2>10. Cardinality(new) <= Cardinality(Lost(n)) + Missing(n, q)
    BY <1>5, <2>5, <2>6, <2>7, <2>8, <2>9
  <2> QED  BY <2>10 DEF new
<1> QED  BY <1>6, <1>7

LEMMA NextGapCount ==
  ASSUME TypeOK, SeenIsRecentReadings, LinkTypeOK, StoreInv, LastIsArrived, JumpsAreShort,
         GapCountCoversLoss, [TelemetryNext]_allVars
  PROVE  GapCountCoversLoss'
<1>1. ASSUME UNCHANGED <<origin, gapCount>>, \A n \in Node : boot'[n] = 1 => boot[n] = 1,
             \A n \in Node : boot'[n] = 1 => ArrivedSeqs(n)' = ArrivedSeqs(n)
      PROVE  GapCountCoversLoss'
  <2>1. \A n \in Node : boot'[n] = 1 => Lost(n)' = Lost(n)
    BY <1>1 DEF Lost
  <2> QED  BY <1>1, <2>1 DEF GapCountCoversLoss
<1>2. ASSUME UNCHANGED <<origin, gapCount, arrived>>, \A n \in Node : boot'[n] = 1 => boot[n] = 1
      PROVE  GapCountCoversLoss'
  BY <1>1, <1>2 DEF ArrivedSeqs
<1>3. ASSUME NEW n \in Node, Transmit(n)
      PROVE  GapCountCoversLoss'
  BY <1>2, <1>3 DEF Transmit, vars
<1>4. ASSUME NEW n \in Node, Reboot(n)
      PROVE  GapCountCoversLoss'
  BY <1>2, <1>4 DEF Reboot, LinkTypeOK, vars
<1>5. ASSUME NEW m \in network, Lose(m)
      PROVE  GapCountCoversLoss'
  BY <1>2, <1>5 DEF Lose, vars
<1>6. ASSUME NEW m \in network, Deliver(m)
      PROVE  GapCountCoversLoss'
  <2> DEFINE n == m.node
  <2>1. /\ Drops(m) \/ Stores(m)
        /\ arrived' = arrived \cup {m} /\ UNCHANGED boot
    BY <1>6, DeliverFacts
  <2>2. \A k : k # n => ArrivedSeqs(k)' = ArrivedSeqs(k)
    BY <2>1, ArrivalAddsSeq
  <2>3. CASE Drops(m)
    <3>1. UNCHANGED <<origin, gapCount>> /\ IsDuplicate(ReadingOf(m))
      BY <2>3 DEF Drops, vars
    <3>2. boot[n] = 1 => arrived' = arrived
      BY <2>1, <3>1, FirstBootDuplicate DEF StoreInv
    <3>3. boot[n] = 1 => ArrivedSeqs(n)' = ArrivedSeqs(n)
      BY <3>2 DEF ArrivedSeqs
    <3> QED  BY <1>1, <2>1, <2>2, <3>1, <3>3
  <2>4. CASE Stores(m)
    <3>1. /\ n \in Node /\ m.seq \in 1 .. MaxSeq
          /\ origin' = [origin EXCEPT ![n] = Append(origin[n], m)]
          /\ gapCount' = [gapCount EXCEPT ![n] = @ + Missing(n, m.seq)]
          /\ origin \in [Node -> Seq(Message)] /\ gapCount \in [Node -> Nat]
      BY <2>4, StoresFacts DEF LinkTypeOK, TypeOK
    <3> SUFFICES ASSUME NEW k \in Node, boot[k] = 1
                 PROVE  gapCount'[k] >= Cardinality(Lost(k)')
      BY <2>1 DEF GapCountCoversLoss
    <3>2. gapCount[k] >= Cardinality(Lost(k))
      BY DEF GapCountCoversLoss
    <3>3. CASE k # n
      <4>1. Lost(k)' = Lost(k)
        BY <2>2, <3>1, <3>3 DEF Lost
      <4> QED  BY <3>1, <3>2, <3>3, <4>1
    <3>4. CASE k = n
      <4>1. Cardinality(Lost(n)') <= Cardinality(Lost(n)) + Missing(n, m.seq)
        BY <2>1, <2>4, <3>4, LostGrowsByMissing
      <4>2. gapCount'[n] = gapCount[n] + Missing(n, m.seq) /\ gapCount[n] \in Nat
        BY <3>1
      <4>3. Missing(n, m.seq) \in Nat
        BY <3>1, MissingType, TelemetryAssumption
      <4>4. Cardinality(Lost(n)) \in Nat /\ Cardinality(Lost(n)') \in Nat
        <5>1. Lost(n) \subseteq 1 .. MaxSeq /\ Lost(n)' \subseteq 1 .. MaxSeq
          BY DEF Lost
        <5> QED  BY <5>1, LostIsFinite
      <4> QED  BY <3>2, <3>4, <4>1, <4>2, <4>3, <4>4
    <3> QED  BY <3>3, <3>4
  <2> QED  BY <2>1, <2>3, <2>4
<1>7. CASE NodeStatus \/ Watchdog \/ TimePasses \/ UNCHANGED allVars
  BY <1>2, <1>7 DEF NodeStatus, Watchdog, TimePasses, HandleNodeStatus, CheckStaleNodes, Tick,
                    linkVars, allVars, vars
<1> QED  BY <1>3, <1>4, <1>5, <1>6, <1>7 DEF TelemetryNext

LEMMA GapInvariants == TelemetrySpec => []LastIsArrived
<1>1. TelemetryInit => LastIsArrived
  BY DEF TelemetryInit, Init, LastIsArrived
<1>2. /\ TypeOK /\ SeenIsRecentReadings /\ LinkTypeOK /\ StoreInv
      /\ LastIsArrived /\ [TelemetryNext]_allVars
      => LastIsArrived'
  BY NextLastIsArrived
<1> QED  BY <1>1, <1>2, TelemetryInvariants, PTL DEF TelemetrySpec

LEMMA InitGapCount == TelemetryInit => GapCountCoversLoss
<1> SUFFICES ASSUME TelemetryInit, NEW n \in Node PROVE gapCount[n] >= Cardinality(Lost(n))
  BY DEF GapCountCoversLoss
<1>1. Lost(n) = {}
  BY DEF TelemetryInit, Lost, ArrivedSeqs
<1> QED  BY <1>1, FS_EmptySet DEF TelemetryInit, Init

(***************************************************************************)
(* No gap of a first boot goes unrecorded, whatever is lost, reordered or  *)
(* repeated, and even if a late packet takes the numbering back, as long   *)
(* as no packet jumps ahead by more than ForwardSpan.                      *)
(***************************************************************************)
THEOREM GapsAreCounted == TelemetrySpec /\ []JumpsAreShort => []GapCountCoversLoss
<1>1. /\ TypeOK /\ SeenIsRecentReadings /\ LinkTypeOK /\ StoreInv
      /\ LastIsArrived /\ JumpsAreShort
      /\ GapCountCoversLoss /\ [TelemetryNext]_allVars
      => GapCountCoversLoss'
  BY NextGapCount
<1> QED  BY <1>1, InitGapCount, TelemetryInvariants, GapInvariants, PTL DEF TelemetrySpec

(***************************************************************************)
(* In particular where a boot has at most ForwardSpan + 2 packets: then    *)
(* there is nowhere to jump to.                                            *)
(***************************************************************************)
THEOREM GapsOfShortBootsAreCounted ==
  ASSUME MaxSeq <= ForwardSpan + 2 PROVE TelemetrySpec => []GapCountCoversLoss
<1>1. TypeOK /\ SeenIsRecentReadings /\ LinkTypeOK /\ StoreInv /\ LastIsArrived => JumpsAreShort
  <2> SUFFICES ASSUME TypeOK, LinkTypeOK, LastIsArrived, NEW m \in network,
                      boot[m.node] = 1, lastSeq[m.node] # NoSeq
               PROVE  m.seq <= lastSeq[m.node] + 1 + ForwardSpan
    BY DEF JumpsAreShort
  <2>1. m.node \in Node /\ m.seq \in 1 .. MaxSeq
    BY DEF LinkTypeOK, Message
  <2>2. lastSeq[m.node] \in 1 .. MaxSeq
    BY <2>1, ArrivedSeqsType DEF LastIsArrived
  <2> QED  BY <2>1, <2>2, ProcessingAssumption, TelemetryAssumption
<1> QED  BY <1>1, TelemetryInvariants, GapInvariants, GapsAreCounted, PTL

-----------------------------------------------------------------------------
(***************************************************************************)
(* Uplink: the invariant.                                                  *)
(***************************************************************************)
Earlier(p, q) == p.boot < q.boot \/ (p.boot = q.boot /\ p.number < q.number)
AllEarlier(these, those) == \A p \in these, q \in those : Earlier(p, q)

Members(s) == {s[i] : i \in DOMAIN s}
Ordered(s) == \A i, j \in DOMAIN s : i < j => Earlier(s[i], s[j])

\* Where packets are, from the backend back to the loop of the node.
Stored == {received[i].packet : i \in DOMAIN received}
Flying == Members(inFlight)
InAir == {radio} \ {None, Ack}
Waiting == Members(queue)
Making == {payload} \ {None}
OnTheWay == Stored \cup Flying \cup InAir \cup Waiting \cup Making

InLine ==
  /\ AllEarlier(Stored, Flying \cup InAir \cup Waiting \cup Making)
  /\ AllEarlier(Flying, InAir \cup Waiting \cup Making)
  /\ AllEarlier(InAir, Waiting \cup Making)
  /\ AllEarlier(Waiting, Making)
  /\ Ordered(inFlight)
  /\ Ordered(queue)
  /\ \A i, j \in DOMAIN received : i < j => Earlier(received[i].packet, received[j].packet)

\* No packet has a number not yet taken, the one in the making the latest.
Numbered ==
  /\ \A p \in OnTheWay : p.boot < boots \/ (p.boot = boots /\ p.number <= packetSent)
  /\ loopAt \in {"alarms", "sample"} <=> payload = None
  /\ payload # None => payload.boot = boots /\ payload.number = packetSent

\* A number that was taken is of a packet on the way, or lost.
Accounted == dropped \cup {Id(p) : p \in OnTheWay}
Complete ==
  /\ \A p \in OnTheWay : \A n \in 1 .. p.number : <<p.boot, n>> \in Accounted
  /\ \A n \in 1 .. packetSent : <<boots, n>> \in Accounted

Decoded == \A i \in DOMAIN received : received[i].seq = DecodedSeq(received[i].packet.number)

\* The mutex is held while the three parts of the alert may differ.
Applied ==
  /\ stateMutex <=> taskAt \in {"color", "buzzer", "pattern"}
  /\ taskAt \notin {"color", "buzzer", "pattern"} => \E c \in 0 .. command : alert = AlertOf(c)
  /\ taskAt = "buzzer" => alert.color = command
  /\ taskAt = "pattern" => alert.color = command /\ alert.buzzer = command

Held == lastKnown = IF received = <<>> THEN [s \in NodeSensor |-> None] ELSE received[Len(received)].sample

\* A beacon's packets, and those it may still give rise to, are two at most.
Carriers(b) == {p \in OnTheWay : p.mac = b}
AtMostOne(S) == \A x, y \in S : x = y
AtMostTwo(S) == \A x, y, z \in S : x = y \/ y = z \/ x = z
FlagLeft == hasNewEspNow /\ loopAt # "clear"
BeaconsCounted ==
  /\ lastMac <= beacons
  /\ loopAt = "copy" => hasNewEspNow
  /\ \A p \in OnTheWay : p.mac <= beacons
  /\ \A b \in 1 .. beacons : AtMostTwo(Carriers(b))
  /\ lastMac # 0 =>
       /\ callbackAt = "stored" \/ FlagLeft => AtMostOne(Carriers(lastMac))
       /\ callbackAt = "stored" /\ FlagLeft => Carriers(lastMac) = {}

UplinkInv ==
  /\ UplinkTypeOK
  /\ InLine
  /\ Numbered
  /\ Complete
  /\ Decoded
  /\ Applied /\ ShownIsOneCommand
  /\ Held /\ HeldIsLatestGood
  /\ BeaconsCounted

-----------------------------------------------------------------------------
(***************************************************************************)
(* Sequences of packets.                                                   *)
(***************************************************************************)
LEMMA WithoutHead ==
  ASSUME NEW s \in Seq(Packet), s # <<>>
  PROVE  /\ Head(s) \in Packet /\ Tail(s) \in Seq(Packet) /\ Len(Tail(s)) <= Len(s)
         /\ Members(s) = {Head(s)} \cup Members(Tail(s))
         /\ Ordered(s) => Ordered(Tail(s)) /\ AllEarlier({Head(s)}, Members(Tail(s)))
  <1>1. /\ Len(s) \in Nat /\ Len(s) > 0 /\ DOMAIN s = 1 .. Len(s)
        /\ Head(s) = s[1] /\ Head(s) \in Packet /\ Tail(s) \in Seq(Packet)
        /\ Len(Tail(s)) = Len(s) - 1 /\ DOMAIN Tail(s) = 1 .. Len(s) - 1
        /\ \A i \in 1 .. Len(s) - 1 : Tail(s)[i] = s[i + 1]
    OBVIOUS
  <1>2. Members(s) = {Head(s)} \cup Members(Tail(s))
    <2>1. \A x \in Members(s) : x = Head(s) \/ x \in Members(Tail(s))
      <3>. SUFFICES ASSUME NEW i \in DOMAIN s PROVE s[i] = Head(s) \/ s[i] \in Members(Tail(s))
        BY DEF Members
      <3>1. CASE i = 1
        BY <1>1, <3>1
      <3>2. CASE i # 1
        <4>1. i - 1 \in 1 .. Len(s) - 1
          BY <1>1, <3>2
        <4>2. Tail(s)[i - 1] = s[i]
          BY <1>1, <4>1
        <4>. QED BY <1>1, <4>1, <4>2 DEF Members
      <3>. QED BY <3>1, <3>2
    <2>2. \A x \in Members(Tail(s)) : x \in Members(s)
      BY <1>1 DEF Members
    <2>3. Head(s) \in Members(s)
      BY <1>1 DEF Members
    <2>. QED BY <2>1, <2>2, <2>3
  <1>3. Ordered(s) => Ordered(Tail(s)) /\ AllEarlier({Head(s)}, Members(Tail(s)))
    <2>. SUFFICES ASSUME Ordered(s) PROVE Ordered(Tail(s)) /\ AllEarlier({Head(s)}, Members(Tail(s)))
      OBVIOUS
    <2>1. Ordered(Tail(s))
      BY <1>1 DEF Ordered
    <2>2. \A i \in 1 .. Len(s) - 1 : Earlier(s[1], Tail(s)[i])
      BY <1>1 DEF Ordered
    <2>. QED BY <1>1, <2>1, <2>2 DEF AllEarlier, Members
  <1>. QED BY <1>1, <1>2, <1>3

LEMMA WithLast ==
  ASSUME NEW s \in Seq(Packet), NEW p \in Packet
  PROVE  /\ Append(s, p) \in Seq(Packet) /\ Len(Append(s, p)) = Len(s) + 1
         /\ Members(Append(s, p)) = Members(s) \cup {p}
         /\ Ordered(s) /\ AllEarlier(Members(s), {p}) => Ordered(Append(s, p))
  <1>1. /\ Len(s) \in Nat /\ DOMAIN s = 1 .. Len(s)
        /\ Append(s, p) \in Seq(Packet) /\ Len(Append(s, p)) = Len(s) + 1 /\ DOMAIN Append(s, p) = 1 .. Len(s) + 1
        /\ \A i \in 1 .. Len(s) : Append(s, p)[i] = s[i]
        /\ Append(s, p)[Len(s) + 1] = p
    OBVIOUS
  <1>. DEFINE longer == Append(s, p)
  <1>. DEFINE n == Len(s)
  <1>. HIDE DEF longer, n
  <1>2. /\ n \in Nat /\ DOMAIN s = 1 .. n /\ DOMAIN longer = 1 .. n + 1
        /\ \A i \in 1 .. n : longer[i] = s[i]
        /\ longer[n + 1] = p
    BY <1>1 DEF longer, n
  <1>3. Members(longer) = Members(s) \cup {p}
    <2>1. \A i \in 1 .. n + 1 : i \in 1 .. n \/ i = n + 1
      BY <1>2
    <2>2. \A i \in 1 .. n : i \in 1 .. n + 1
      BY <1>2
    <2>3. n + 1 \in 1 .. n + 1
      BY <1>2
    <2>. QED BY <1>2, <2>1, <2>2, <2>3 DEF Members
  <1>4. Ordered(s) /\ AllEarlier(Members(s), {p}) => Ordered(longer)
    <2>. SUFFICES ASSUME Ordered(s), AllEarlier(Members(s), {p}), NEW i \in 1 .. n + 1, NEW j \in 1 .. n + 1, i < j
                  PROVE  Earlier(longer[i], longer[j])
      BY <1>2 DEF Ordered
    <2>1. i \in 1 .. n
      BY <1>2
    <2>2. CASE j \in 1 .. n
      BY <1>2, <2>1, <2>2 DEF Ordered
    <2>3. CASE j = n + 1
      BY <1>2, <2>1, <2>3 DEF AllEarlier, Members
    <2>. QED BY <1>2, <2>2, <2>3
  <1>. QED BY <1>1, <1>3, <1>4 DEF longer

LEMMA FirstOnes ==
  ASSUME NEW s \in Seq(Packet), NEW n \in 0 .. Len(s)
  PROVE  /\ SubSeq(s, 1, n) \in Seq(Packet)
         /\ Members(SubSeq(s, 1, n)) \subseteq Members(s)
         /\ \A p \in Members(s) : p \in Members(SubSeq(s, 1, n)) \/ \E i \in n + 1 .. Len(s) : p = s[i]
         /\ Ordered(s) => Ordered(SubSeq(s, 1, n))
  <1>1. /\ Len(s) \in Nat /\ DOMAIN s = 1 .. Len(s) /\ n \in Nat /\ n <= Len(s)
        /\ SubSeq(s, 1, n) \in Seq(Packet) /\ DOMAIN SubSeq(s, 1, n) = 1 .. n
        /\ \A i \in 1 .. n : SubSeq(s, 1, n)[i] = s[i]
    OBVIOUS
  <1>2. \A i \in 1 .. n : i \in DOMAIN s
    BY <1>1
  <1>3. \A i \in DOMAIN s : i \in 1 .. n \/ i \in n + 1 .. Len(s)
    BY <1>1
  <1>4. Members(SubSeq(s, 1, n)) \subseteq Members(s)
    BY <1>1, <1>2 DEF Members
  <1>5. \A p \in Members(s) : p \in Members(SubSeq(s, 1, n)) \/ \E i \in n + 1 .. Len(s) : p = s[i]
    BY <1>1, <1>3 DEF Members
  <1>6. Ordered(s) => Ordered(SubSeq(s, 1, n))
    BY <1>1, <1>2 DEF Ordered
  <1>. QED BY <1>1, <1>4, <1>5, <1>6

-----------------------------------------------------------------------------
(***************************************************************************)
(* What each action does to the way.                                       *)
(***************************************************************************)
\* A step that moves packets along, or loses some and notes it.
MovesAlong ==
  /\ OnTheWay' \subseteq OnTheWay
  /\ Accounted \subseteq Accounted'
  /\ InLine'

LEMMA WayIsOfPackets ==
  ASSUME UplinkTypeOK
  PROVE  OnTheWay \subseteq Packet
  <1>1. /\ received \in Seq([packet : Packet, seq : Nat, sample : HeldSamples])
        /\ inFlight \in Seq(Packet) /\ queue \in Seq(Packet)
        /\ radio \in Packet \cup {None, Ack} /\ payload \in Packet \cup {None}
    BY DEF UplinkTypeOK, NodeOK, PathOK
  <1>2. Stored \subseteq Packet
    <2>. DEFINE Entry == [packet : Packet, seq : Nat, sample : HeldSamples]
    <2>1. \A r \in Entry : r.packet \in Packet
      OBVIOUS
    <2>2. received \in Seq(Entry)
      BY <1>1
    <2>. HIDE DEF Entry
    <2>3. \A i \in DOMAIN received : received[i].packet \in Packet
      BY <2>1, <2>2
    <2>. QED BY <2>3 DEF Stored
  <1>3. Flying \subseteq Packet /\ Waiting \subseteq Packet
    BY <1>1 DEF Flying, Waiting, Members
  <1>4. InAir \subseteq Packet /\ Making \subseteq Packet
    BY <1>1 DEF InAir, Making
  <1>. QED BY <1>2, <1>3, <1>4 DEF OnTheWay

LEMMA WayUntouched ==
  ASSUME UplinkTypeOK, InLine, UNCHANGED <<received, inFlight, queue, payload, dropped>>, InAir' = InAir
  PROVE  MovesAlong /\ OnTheWay' = OnTheWay
  <1>1. Stored' = Stored /\ Flying' = Flying /\ Waiting' = Waiting /\ Making' = Making
    BY DEF Stored, Flying, Waiting, Making, Members
  <1>2. OnTheWay' = OnTheWay
    BY <1>1 DEF OnTheWay
  <1>3. Accounted' = Accounted
    BY <1>2 DEF Accounted
  <1>4. InLine'
    BY <1>1 DEF InLine, AllEarlier, Ordered
  <1>. QED BY <1>2, <1>3, <1>4 DEF MovesAlong

LEMMA QueueingMoves ==
  ASSUME UplinkTypeOK, InLine, payload # None, QueuePacket
  PROVE  MovesAlong /\ queue' \in Seq(Packet) /\ Len(queue') <= QueueLength
  <1>1. payload \in Packet /\ queue \in Seq(Packet) /\ Len(queue) <= QueueLength /\ QueueLength \in Nat
    BY UplinkAssumption DEF UplinkTypeOK, NodeOK
  <1>2. Stored' = Stored /\ Flying' = Flying /\ InAir' = InAir
    BY DEF QueuePacket, path, backend, Stored, Flying, InAir, Members
  <1>3. Making = {payload} /\ Making' = {}
    BY DEF QueuePacket, Making
  <1>4. AllEarlier(Waiting, {payload}) /\ Ordered(queue)
    BY <1>3 DEF InLine
  <1>5. /\ queue' \in Seq(Packet) /\ Len(queue') <= QueueLength /\ Ordered(queue')
        /\ \/ Waiting' = Waiting \cup {payload} /\ dropped' = dropped
           \/ Waiting' = Waiting /\ dropped' = dropped \cup {Id(payload)}
    <2>1. CASE HasRoom
      <3>1. queue' = Append(queue, payload) /\ dropped' = dropped
        BY <2>1 DEF QueuePacket, Enqueued
      <3>2. Len(queue) < QueueLength /\ Len(queue) \in Nat
        BY <1>1, <2>1 DEF HasRoom
      <3>3. queue' \in Seq(Packet) /\ Len(queue') = Len(queue) + 1 /\ Members(queue') = Members(queue) \cup {payload}
        BY <1>1, <3>1, WithLast
      <3>4. Ordered(queue')
        BY <1>1, <1>4, <3>1, WithLast DEF Waiting
      <3>5. Waiting' = Waiting \cup {payload}
        BY <3>3 DEF Waiting, Members
      <3>. QED BY <1>1, <3>1, <3>2, <3>3, <3>4, <3>5
    <2>2. CASE ~ HasRoom
      <3>1. queue' = queue /\ dropped' = dropped \cup {Id(payload)}
        BY <2>2 DEF QueuePacket
      <3>2. Waiting' = Waiting
        BY <3>1 DEF Waiting, Members
      <3>. QED BY <1>1, <1>4, <3>1, <3>2
    <2>. QED BY <2>1, <2>2
  <1>6. OnTheWay' \subseteq OnTheWay
    BY <1>2, <1>3, <1>5 DEF OnTheWay
  <1>7. Accounted \subseteq Accounted'
    BY <1>2, <1>3, <1>5 DEF Accounted, OnTheWay
  <1>8. InLine'
    <2>1. UNCHANGED <<inFlight, received>> /\ Ordered(inFlight)
      BY DEF QueuePacket, backend, InLine
    <2>2. Ordered(inFlight)' /\ Ordered(queue)'
      BY <1>5, <2>1 DEF Ordered
    <2>. QED BY <1>2, <1>3, <1>5, <2>1, <2>2 DEF InLine, AllEarlier
  <1>. QED BY <1>5, <1>6, <1>7, <1>8 DEF MovesAlong

LEMMA SendingMoves ==
  ASSUME UplinkTypeOK, InLine, TransmitQueued
  PROVE  MovesAlong /\ queue' \in Seq(Packet) /\ Len(queue') <= QueueLength
         /\ radio' \in Packet \cup {None, Ack} /\ dropped' \subseteq dropped \cup {Id(Head(queue))} /\ Head(queue) \in Packet
  <1>1. queue \in Seq(Packet) /\ Len(queue) <= QueueLength /\ QueueLength \in Nat /\ queue # <<>>
        /\ radio \in Packet \cup {None, Ack}
    BY UplinkAssumption DEF UplinkTypeOK, NodeOK, PathOK, TransmitQueued
  <1>. DEFINE p == Head(queue)
  <1>2. /\ p \in Packet /\ queue' \in Seq(Packet) /\ Len(queue') <= Len(queue)
        /\ Waiting = {p} \cup Waiting'
    BY <1>1, WithoutHead DEF TransmitQueued, Waiting, Members
  <1>3. Ordered(queue') /\ AllEarlier({p}, Waiting')
    BY <1>1, WithoutHead DEF TransmitQueued, Waiting, Members, InLine
  <1>4. Len(queue') <= QueueLength
    BY <1>1, <1>2
  <1>. HIDE DEF p
  <1>5. Stored' = Stored /\ Flying' = Flying /\ Making' = Making
    BY DEF TransmitQueued, core1, backend, Stored, Flying, Making, Members
  <1>6. \/ InAir = {} /\ InAir' = {p} /\ dropped' = dropped /\ radio' = p
        \/ InAir' = InAir /\ dropped' = dropped \cup {Id(p)} /\ radio' = radio
    BY <1>2, PacketAssumption DEF TransmitQueued, SendFrame, LostInTheAir, InAir, p
  <1>7. OnTheWay' \subseteq OnTheWay
    BY <1>2, <1>5, <1>6 DEF OnTheWay
  <1>8. Accounted \subseteq Accounted'
    BY <1>2, <1>5, <1>6 DEF Accounted, OnTheWay
  <1>9. InLine'
    <2>1. UNCHANGED <<inFlight, received>> /\ Ordered(inFlight)
      BY DEF TransmitQueued, backend, InLine
    <2>2. Ordered(inFlight)' /\ Ordered(queue)'
      BY <1>3, <2>1 DEF Ordered
    <2>. QED BY <1>2, <1>3, <1>5, <1>6, <2>1, <2>2 DEF InLine, AllEarlier
  <1>10. radio' \in Packet \cup {None, Ack} /\ dropped' \subseteq dropped \cup {Id(p)}
    BY <1>1, <1>2, <1>6
  <1>. QED BY <1>2, <1>4, <1>7, <1>8, <1>9, <1>10 DEF MovesAlong, p

LEMMA ForwardingMoves ==
  ASSUME UplinkTypeOK, InLine, ForwardFrame
  PROVE  MovesAlong /\ inFlight' \in Seq(Packet) /\ (dropped' = dropped \/ (radio \in Packet /\ dropped' = dropped \cup {Id(radio)}))
  <1>1. inFlight \in Seq(Packet) /\ radio \in Packet \cup {None, Ack} /\ radio # None
    BY DEF UplinkTypeOK, PathOK, ForwardFrame
  <1>2. Stored' = Stored /\ Waiting' = Waiting /\ Making' = Making /\ InAir' = {}
    BY DEF ForwardFrame, core1, Stored, Waiting, Making, InAir, Members
  <1>3. Ordered(inFlight) /\ Ordered(queue)
    BY DEF InLine
  <1>4. UNCHANGED <<queue, received>>
    BY DEF ForwardFrame
  <1>5. CASE radio = Ack
    <2>1. InAir = {} /\ inFlight' = inFlight /\ dropped' = dropped
      BY <1>5 DEF ForwardFrame, InAir
    <2>2. Flying' = Flying
      BY <2>1 DEF Flying, Members
    <2>3. OnTheWay' = OnTheWay /\ Accounted' = Accounted
      BY <1>2, <2>1, <2>2 DEF OnTheWay, Accounted
    <2>4. InLine'
      BY <1>2, <1>4, <2>1, <2>2 DEF InLine, AllEarlier, Ordered
    <2>. QED BY <1>1, <2>1, <2>3, <2>4 DEF MovesAlong
  <1>6. CASE radio # Ack /\ mqtt = "up"
    <2>1. InAir = {radio} /\ radio \in Packet /\ inFlight' = Append(inFlight, radio) /\ dropped' = dropped
      BY <1>1, <1>6 DEF ForwardFrame, InAir
    <2>2. inFlight' \in Seq(Packet) /\ Members(inFlight') = Members(inFlight) \cup {radio}
      BY <1>1, <2>1, WithLast
    <2>3. Flying' = Flying \cup {radio}
      BY <2>2 DEF Flying, Members
    <2>4. AllEarlier(Flying, {radio})
      BY <2>1 DEF InLine, AllEarlier
    <2>5. Ordered(inFlight')
      BY <1>1, <1>3, <2>1, <2>4, WithLast DEF Flying
    <2>6. OnTheWay' = OnTheWay /\ Accounted' = Accounted
      BY <1>2, <2>1, <2>3 DEF OnTheWay, Accounted
    <2>7. Ordered(inFlight)' /\ Ordered(queue)'
      BY <1>3, <1>4, <2>5 DEF Ordered
    <2>8. InLine'
      BY <1>2, <1>4, <2>1, <2>3, <2>7 DEF InLine, AllEarlier
    <2>. QED BY <2>1, <2>2, <2>6, <2>8 DEF MovesAlong
  <1>7. CASE radio # Ack /\ mqtt # "up"
    <2>1. InAir = {radio} /\ radio \in Packet /\ inFlight' = inFlight /\ dropped' = dropped \cup {Id(radio)}
      BY <1>1, <1>7 DEF ForwardFrame, InAir
    <2>2. Flying' = Flying
      BY <2>1 DEF Flying, Members
    <2>3. OnTheWay' \subseteq OnTheWay /\ Accounted \subseteq Accounted'
      BY <1>2, <2>1, <2>2 DEF OnTheWay, Accounted
    <2>4. InLine'
      BY <1>2, <1>4, <2>1, <2>2 DEF InLine, AllEarlier, Ordered
    <2>. QED BY <1>1, <2>1, <2>3, <2>4 DEF MovesAlong
  <1>. QED BY <1>5, <1>6, <1>7

LEMMA BreakingMoves ==
  ASSUME UplinkTypeOK, InLine, ConnectionBreaks
  PROVE  MovesAlong /\ inFlight' \in Seq(Packet) /\ dropped' \subseteq dropped \cup {Id(p) : p \in Flying}
  <1>1. inFlight \in Seq(Packet)
    BY DEF UplinkTypeOK, PathOK
  <1>2. PICK n \in 0 .. Len(inFlight) :
          /\ inFlight' = SubSeq(inFlight, 1, n)
          /\ dropped' = dropped \cup {Id(inFlight[i]) : i \in n + 1 .. Len(inFlight)}
    BY DEF ConnectionBreaks
  <1>3. /\ inFlight' \in Seq(Packet)
        /\ Members(inFlight') \subseteq Members(inFlight)
        /\ \A p \in Members(inFlight) : p \in Members(inFlight') \/ \E i \in n + 1 .. Len(inFlight) : p = inFlight[i]
        /\ Ordered(inFlight')
    BY <1>1, <1>2, FirstOnes DEF InLine
  <1>4. /\ Flying' \subseteq Flying
        /\ \A p \in Flying : p \in Flying' \/ Id(p) \in dropped'
    BY <1>2, <1>3 DEF Flying, Members
  <1>5. dropped \subseteq dropped' /\ dropped' \subseteq dropped \cup {Id(p) : p \in Flying}
    <2>1. \A i \in n + 1 .. Len(inFlight) : i \in DOMAIN inFlight
      BY <1>1, <1>2
    <2>. QED BY <1>2, <2>1 DEF Flying, Members
  <1>6. Stored' = Stored /\ InAir' = InAir /\ Waiting' = Waiting /\ Making' = Making
    BY DEF ConnectionBreaks, core1, Stored, InAir, Waiting, Making, Members
  <1>7. OnTheWay' \subseteq OnTheWay /\ Accounted \subseteq Accounted'
    BY <1>4, <1>5, <1>6 DEF OnTheWay, Accounted
  <1>8. InLine'
    <2>1. UNCHANGED <<queue, received>> /\ Ordered(queue)
      BY DEF ConnectionBreaks, InLine
    <2>2. Ordered(inFlight)' /\ Ordered(queue)'
      BY <1>3, <2>1 DEF Ordered
    <2>. QED BY <1>4, <1>6, <2>1, <2>2 DEF InLine, AllEarlier
  <1>. QED BY <1>3, <1>5, <1>7, <1>8 DEF MovesAlong

LEMMA RestartingMoves ==
  ASSUME UplinkTypeOK, InLine, NodeRestarts
  PROVE  MovesAlong /\ dropped' \subseteq dropped \cup {Id(p) : p \in OnTheWay}
  <1>1. Stored' = Stored /\ Flying' = Flying /\ InAir' = InAir
    BY DEF NodeRestarts, path, backend, Stored, Flying, InAir, Members
  <1>2. queue' = <<>> /\ payload' = None
    BY DEF NodeRestarts, Setup
  <1>3. Waiting' = {} /\ Making' = {}
    <2>1. DOMAIN queue' = {}
      BY <1>2
    <2>. QED BY <1>2, <2>1 DEF Waiting, Making, Members
  <1>4. dropped' = dropped \cup {Id(p) : p \in Waiting} \cup {Id(p) : p \in Making}
    <2>1. {Id(queue[i]) : i \in DOMAIN queue} = {Id(p) : p \in Waiting}
      BY DEF Waiting, Members
    <2>2. (IF payload = None THEN {} ELSE {Id(payload)}) = {Id(p) : p \in Making}
      BY DEF Making
    <2>. QED BY <2>1, <2>2 DEF NodeRestarts
  <1>5. OnTheWay' \subseteq OnTheWay /\ Accounted \subseteq Accounted'
    BY <1>1, <1>3, <1>4 DEF OnTheWay, Accounted
  <1>6. InLine'
    <2>1. UNCHANGED <<inFlight, received>>
      BY DEF NodeRestarts, backend
    <2>2. Ordered(inFlight)' /\ Ordered(queue)'
      BY <1>2, <2>1 DEF Ordered, InLine
    <2>. QED BY <1>1, <1>3, <2>1, <2>2 DEF InLine, AllEarlier
  <1>. QED BY <1>4, <1>5, <1>6 DEF MovesAlong, OnTheWay

LEMMA HistoryGrows ==
  ASSUME UplinkTypeOK, HandleLoraBinary
  PROVE  /\ inFlight' \in Seq(Packet) /\ Head(inFlight) \in Packet
         /\ Flying = {Head(inFlight)} \cup Flying'
         /\ Ordered(inFlight) => Ordered(inFlight)' /\ AllEarlier({Head(inFlight)}, Flying')
         /\ lastKnown' = [s \in NodeSensor |-> GoodSample(Head(inFlight), s)] /\ lastKnown' \in HeldSamples
         /\ received' \in Seq([packet : Packet, seq : Nat, sample : HeldSamples])
         /\ Len(received) \in Nat /\ DOMAIN received = 1 .. Len(received)
         /\ Len(received') = Len(received) + 1 /\ DOMAIN received' = 1 .. Len(received) + 1
         /\ \A i \in 1 .. Len(received) : received'[i] = received[i]
         /\ received'[Len(received) + 1].packet = Head(inFlight)
         /\ received'[Len(received) + 1].seq = DecodedSeq(Head(inFlight).number)
         /\ received'[Len(received) + 1].sample = lastKnown'
  <1>. DEFINE Entry == [packet : Packet, seq : Nat, sample : HeldSamples]
  <1>. DEFINE p == Head(inFlight)
  <1>. DEFINE r == [packet |-> p, seq |-> DecodedSeq(p.number), sample |-> lastKnown']
  <1>1. /\ inFlight \in Seq(Packet) /\ inFlight # <<>> /\ received \in Seq(Entry)
        /\ lastKnown \in HeldSamples
    BY DEF UplinkTypeOK, PathOK, HandleLoraBinary
  <1>2. /\ inFlight' \in Seq(Packet) /\ p \in Packet
        /\ Flying = {p} \cup Flying'
        /\ Ordered(inFlight) => Ordered(inFlight') /\ AllEarlier({p}, Flying')
    BY <1>1, WithoutHead DEF HandleLoraBinary, Flying, Members
  <1>3. Ordered(inFlight) => Ordered(inFlight)'
    BY <1>2 DEF Ordered
  <1>4. lastKnown' = [s \in NodeSensor |-> GoodSample(p, s)] /\ received' = Append(received, r)
    BY DEF HandleLoraBinary
  <1>5. lastKnown' \in HeldSamples
    <2>1. \A s \in NodeSensor : DecodedSample(p, s) \in Sample \cup {None, Substitute}
      BY <1>2 DEF DecodedSample, Id, Sample, Packet
    <2>2. \A s \in NodeSensor : GoodSample(p, s) \in Sample \cup {None, Substitute}
      BY <1>1, <2>1 DEF GoodSample, HeldSamples
    <2>. QED BY <1>4, <2>2 DEF HeldSamples
  <1>6. DecodedSeq(p.number) \in Nat
    BY <1>2, UplinkAssumption DEF DecodedSeq, Packet
  <1>7. r \in Entry /\ r.packet = p /\ r.seq = DecodedSeq(p.number) /\ r.sample = lastKnown'
    BY <1>2, <1>5, <1>6
  <1>. HIDE DEF Entry, r, p
  <1>8. /\ received' \in Seq(Entry)
        /\ Len(received) \in Nat /\ DOMAIN received = 1 .. Len(received)
        /\ Len(received') = Len(received) + 1 /\ DOMAIN received' = 1 .. Len(received) + 1
        /\ \A i \in 1 .. Len(received) : received'[i] = received[i]
        /\ received'[Len(received) + 1] = r
    BY <1>1, <1>4, <1>7
  <1>. QED BY <1>2, <1>3, <1>4, <1>5, <1>7, <1>8 DEF p, Entry

LEMMA StoringMoves ==
  ASSUME UplinkTypeOK, InLine, HandleLoraBinary
  PROVE  MovesAlong
  <1>. DEFINE p == Head(inFlight)
  <1>. DEFINE n == Len(received)
  <1>1. p \in Packet /\ Flying = {p} \cup Flying' /\ Ordered(inFlight)' /\ AllEarlier({p}, Flying')
    BY HistoryGrows DEF InLine
  <1>2. /\ n \in Nat /\ DOMAIN received = 1 .. n /\ DOMAIN received' = 1 .. n + 1
        /\ \A i \in 1 .. n : received'[i] = received[i]
        /\ received'[n + 1].packet = p
    BY HistoryGrows
  <1>. HIDE DEF p, n
  <1>3. Stored' = Stored \cup {p}
    <2>1. \A i \in 1 .. n + 1 : i \in 1 .. n \/ i = n + 1
      BY <1>2
    <2>2. n + 1 \in 1 .. n + 1 /\ \A i \in 1 .. n : i \in 1 .. n + 1
      BY <1>2
    <2>3. \A x \in Stored' : x \in Stored \/ x = p
      BY <1>2, <2>1 DEF Stored
    <2>4. \A x \in Stored : x \in Stored'
      BY <1>2, <2>2 DEF Stored
    <2>5. p \in Stored'
      BY <1>2, <2>2 DEF Stored
    <2>. QED BY <2>3, <2>4, <2>5
  <1>4. InAir' = InAir /\ Waiting' = Waiting /\ Making' = Making /\ dropped' = dropped /\ queue' = queue
    BY DEF HandleLoraBinary, core1, path, InAir, Waiting, Making, Members
  <1>5. OnTheWay' \subseteq OnTheWay /\ Accounted \subseteq Accounted'
    BY <1>1, <1>3, <1>4 DEF OnTheWay, Accounted
  <1>6. AllEarlier(Stored, {p})
    BY <1>1 DEF InLine, AllEarlier
  <1>7. \A i, j \in DOMAIN received' : i < j => Earlier(received'[i].packet, received'[j].packet)
    <2>. SUFFICES ASSUME NEW i \in 1 .. n + 1, NEW j \in 1 .. n + 1, i < j
                  PROVE  Earlier(received'[i].packet, received'[j].packet)
      BY <1>2
    <2>1. i \in 1 .. n
      BY <1>2
    <2>2. CASE j \in 1 .. n
      BY <1>2, <2>1, <2>2 DEF InLine
    <2>3. CASE j = n + 1
      BY <1>2, <1>6, <2>1, <2>3 DEF AllEarlier, Stored
    <2>. QED BY <1>2, <2>2, <2>3
  <1>8. Ordered(queue)'
    BY <1>4 DEF InLine, Ordered
  <1>9. (\A i, j \in DOMAIN received : i < j => Earlier(received[i].packet, received[j].packet))'
    BY <1>7 DEF Earlier
  <1>10. InLine'
    BY <1>1, <1>3, <1>4, <1>6, <1>8, <1>9 DEF InLine, AllEarlier
  <1>. QED BY <1>5, <1>10 DEF MovesAlong

\* Every packet taken before is earlier than the one that is taken now.
LEMMA NewestIsLast ==
  ASSUME UplinkTypeOK, InLine, Numbered, ReadSensors
  PROVE  /\ \E p \in Packet : p.boot = boots /\ p.number = packetSent + 1 /\ p.mac = 0 /\ payload' = p
         /\ payload' # None
         /\ Making = {} /\ Making' = {payload'}
         /\ OnTheWay' = OnTheWay \cup {payload'}
         /\ Accounted' = Accounted \cup {<<boots, packetSent + 1>>}
         /\ InLine'
  <1>1. packetSent \in Nat /\ boots \in Nat
    BY UplinkAssumption DEF UplinkTypeOK, NodeOK
  <1>2. PICK sensors \in SensorStates :
          payload' = [boot |-> boots, number |-> packetSent + 1, sensors |-> sensors, mac |-> 0]
    <2>1. Samples \in Seq(Seq(SUBSET SensorStates)) /\ boots \in DOMAIN Samples
      BY UplinkAssumption DEF UplinkTypeOK, NodeOK
    <2>2. Samples[boots] \in Seq(SUBSET SensorStates) /\ packetSent + 1 \in 1 .. Len(Samples[boots])
      BY <1>1, <2>1 DEF ReadSensors
    <2>3. Samples[boots][packetSent + 1] \subseteq SensorStates
      BY <2>2
    <2>. QED BY <2>3 DEF ReadSensors
  <1>3. payload' \in Packet /\ payload'.boot = boots /\ payload'.number = packetSent + 1 /\ payload'.mac = 0
    BY <1>1, <1>2 DEF Packet
  <1>4. payload' # None /\ payload = None
    BY <1>3, PacketAssumption DEF Numbered, ReadSensors
  <1>5. Making = {} /\ Making' = {payload'}
    BY <1>4 DEF Making
  <1>6. /\ Stored' = Stored /\ Flying' = Flying /\ InAir' = InAir /\ Waiting' = Waiting
        /\ UNCHANGED <<received, inFlight, queue, dropped>>
    BY DEF ReadSensors, path, backend, Stored, Flying, InAir, Waiting, Members
  <1>7. OnTheWay' = OnTheWay \cup {payload'}
    BY <1>5, <1>6 DEF OnTheWay
  <1>8. Id(payload') = <<boots, packetSent + 1>>
    BY <1>3 DEF Id
  <1>9. Accounted' = Accounted \cup {<<boots, packetSent + 1>>}
    <2>1. {Id(p) : p \in OnTheWay'} = {Id(p) : p \in OnTheWay} \cup {<<boots, packetSent + 1>>}
      BY <1>7, <1>8
    <2>2. Accounted' = dropped' \cup {Id(p) : p \in OnTheWay'}
      BY DEF Accounted, Id
    <2>. QED BY <1>6, <2>1, <2>2 DEF Accounted
  <1>10. \A p \in OnTheWay : Earlier(p, payload')
    <2>. SUFFICES ASSUME NEW p \in OnTheWay PROVE Earlier(p, payload')
      OBVIOUS
    <2>1. p.boot \in Nat /\ p.number \in Nat
      BY WayIsOfPackets DEF Packet
    <2>. QED BY <1>1, <1>3, <2>1 DEF Numbered, Earlier
  <1>11. InLine'
    <2>1. Ordered(inFlight)' /\ Ordered(queue)'
      BY <1>6 DEF InLine, Ordered
    <2>2. (\A i, j \in DOMAIN received : i < j => Earlier(received[i].packet, received[j].packet))'
      BY <1>6 DEF InLine
    <2>. QED BY <1>5, <1>6, <1>10, <2>1, <2>2 DEF InLine, AllEarlier, OnTheWay
  <1>. QED BY <1>3, <1>4, <1>5, <1>7, <1>9, <1>11

LEMMA CopyKeepsPlace ==
  ASSUME UplinkTypeOK, InLine, Numbered, CopyMac
  PROVE  /\ payload \in Packet /\ payload' \in Packet
         /\ payload'.boot = payload.boot /\ payload'.number = payload.number /\ payload'.mac = lastMac
         /\ payload \in OnTheWay /\ payload' \in OnTheWay' /\ OnTheWay' \subseteq OnTheWay \cup {payload'}
         /\ Accounted' = Accounted
         /\ InLine'
  <1>1. payload # None /\ payload \in Packet /\ lastMac \in Nat
    BY DEF UplinkTypeOK, NodeOK, Numbered, CopyMac
  <1>2. payload' = [payload EXCEPT !.mac = lastMac]
    BY DEF CopyMac
  <1>3. /\ payload' \in Packet
        /\ payload'.boot = payload.boot /\ payload'.number = payload.number /\ payload'.mac = lastMac
    BY <1>1, <1>2 DEF Packet
  <1>4. Making = {payload} /\ Making' = {payload'}
    BY <1>1, <1>3, PacketAssumption DEF Making
  <1>5. /\ Stored' = Stored /\ Flying' = Flying /\ InAir' = InAir /\ Waiting' = Waiting
        /\ UNCHANGED <<received, inFlight, queue, dropped>>
    BY DEF CopyMac, path, backend, Stored, Flying, InAir, Waiting, Members
  <1>. DEFINE rest == Stored \cup Flying \cup InAir \cup Waiting
  <1>6. OnTheWay = rest \cup {payload} /\ OnTheWay' = rest \cup {payload'}
    BY <1>4, <1>5 DEF OnTheWay
  <1>. HIDE DEF rest
  <1>7. Id(payload') = Id(payload)
    BY <1>3 DEF Id
  <1>8. Accounted' = Accounted
    <2>1. {Id(p) : p \in rest \cup {payload'}} = {Id(p) : p \in rest \cup {payload}}
      BY <1>7
    <2>2. Accounted' = dropped' \cup {Id(p) : p \in OnTheWay'}
      BY DEF Accounted, Id
    <2>. QED BY <1>5, <1>6, <2>1, <2>2 DEF Accounted
  <1>9. \A p : Earlier(p, payload') <=> Earlier(p, payload)
    BY <1>3 DEF Earlier
  <1>10. InLine'
    <2>1. Ordered(inFlight)' /\ Ordered(queue)'
      BY <1>5 DEF InLine, Ordered
    <2>2. (\A i, j \in DOMAIN received : i < j => Earlier(received[i].packet, received[j].packet))'
      BY <1>5 DEF InLine
    <2>. QED BY <1>4, <1>5, <1>9, <2>1, <2>2 DEF InLine, AllEarlier
  <1>. QED BY <1>1, <1>3, <1>6, <1>8, <1>10

-----------------------------------------------------------------------------
(***************************************************************************)
(* The parts of the invariant.                                             *)
(***************************************************************************)
\* The steps that touch neither the packets nor the numbers.
Elsewhere ==
  \/ HandleAlarms \/ ClearFlag \/ StoreMac \/ SetFlag
  \/ ReceiveDownlink \/ ApplyColor \/ ApplyBuzzer \/ ApplyPattern \/ SendAck
  \/ NothingQueued \/ NoticeBreak \/ ReconnectMQTT \/ UNCHANGED uplinkVars

LEMMA ElsewhereIsStill ==
  ASSUME UplinkTypeOK, Elsewhere
  PROVE  UNCHANGED <<received, inFlight, queue, payload, dropped, boots, packetSent>> /\ InAir' = InAir
  <1>1. UNCHANGED <<received, inFlight, queue, payload, dropped, boots, packetSent>>
    BY DEF Elsewhere, HandleAlarms, ClearFlag, StoreMac, SetFlag, ReceiveDownlink, ApplyColor, ApplyBuzzer,
           ApplyPattern, SendAck, NothingQueued, NoticeBreak, ReconnectMQTT, uplinkVars, core1, backend
  <1>2. radio' = radio \/ (radio = None /\ radio' = Ack)
    BY DEF Elsewhere, HandleAlarms, ClearFlag, StoreMac, SetFlag, ReceiveDownlink, ApplyColor, ApplyBuzzer,
           ApplyPattern, SendAck, SendFrame, LostInTheAir, NothingQueued, NoticeBreak, ReconnectMQTT, uplinkVars, path
  <1>. QED BY <1>1, <1>2 DEF InAir

\* The steps that carry packets along.
Carries ==
  QueuePacket \/ TransmitQueued \/ ForwardFrame \/ ConnectionBreaks \/ HandleLoraBinary

LEMMA StepsOfTheWay ==
  ASSUME [UplinkNext]_uplinkVars
  PROVE  Elsewhere \/ Carries \/ NodeRestarts \/ ReadSensors \/ CopyMac
  BY DEF UplinkNext, Elsewhere, Carries

LEMMA CarryingMoves ==
  ASSUME UplinkTypeOK, InLine, Numbered, Carries
  PROVE  MovesAlong /\ UNCHANGED <<boots, packetSent>>
  <1>1. CASE QueuePacket
    <2>1. payload # None
      BY <1>1 DEF Numbered, QueuePacket
    <2>. QED BY <1>1, <2>1, QueueingMoves DEF QueuePacket
  <1>2. CASE TransmitQueued
    BY <1>2, SendingMoves DEF TransmitQueued, core1
  <1>3. CASE ForwardFrame
    BY <1>3, ForwardingMoves DEF ForwardFrame, core1
  <1>4. CASE ConnectionBreaks
    BY <1>4, BreakingMoves DEF ConnectionBreaks, core1
  <1>5. CASE HandleLoraBinary
    BY <1>5, StoringMoves DEF HandleLoraBinary, core1
  <1>. QED BY <1>1, <1>2, <1>3, <1>4, <1>5 DEF Carries

LEMMA LineKept ==
  ASSUME UplinkTypeOK, InLine, Numbered, [UplinkNext]_uplinkVars
  PROVE  InLine'
  BY StepsOfTheWay, ElsewhereIsStill, WayUntouched, CarryingMoves, RestartingMoves, NewestIsLast, CopyKeepsPlace
     DEF MovesAlong

LEMMA NumberedKept ==
  ASSUME UplinkTypeOK, InLine, Numbered, [UplinkNext]_uplinkVars
  PROVE  Numbered'
  <1>1. boots \in Nat /\ packetSent \in Nat /\ Len(Samples) \in Nat
    BY UplinkAssumption DEF UplinkTypeOK, NodeOK
  <1>2. \A p \in OnTheWay : p.boot \in Nat /\ p.number \in Nat
    BY WayIsOfPackets DEF Packet
  <1>3. /\ \A p \in OnTheWay : p.boot < boots \/ (p.boot = boots /\ p.number <= packetSent)
        /\ loopAt \in {"alarms", "sample"} <=> payload = None
        /\ payload # None => payload.boot = boots /\ payload.number = packetSent
    BY DEF Numbered
  <1>4. CASE Elsewhere
    <2>1. OnTheWay' = OnTheWay /\ UNCHANGED <<boots, packetSent, payload>>
      BY <1>4, ElsewhereIsStill, WayUntouched
    <2>2. loopAt' \in {"alarms", "sample"} <=> loopAt \in {"alarms", "sample"}
      BY <1>4 DEF Elsewhere, HandleAlarms, ClearFlag, StoreMac, SetFlag, ReceiveDownlink, ApplyColor, ApplyBuzzer,
                  ApplyPattern, SendAck, NothingQueued, NoticeBreak, ReconnectMQTT, uplinkVars, core1
    <2>. QED BY <1>3, <2>1, <2>2 DEF Numbered
  <1>5. CASE Carries
    <2>1. OnTheWay' \subseteq OnTheWay /\ UNCHANGED <<boots, packetSent>>
      BY <1>5, CarryingMoves DEF MovesAlong
    <2>2. (payload' = payload /\ loopAt' = loopAt) \/ (payload' = None /\ loopAt' = "alarms")
      <3>1. QueuePacket => payload' = None /\ loopAt' = "alarms"
        BY DEF QueuePacket
      <3>2. TransmitQueued => UNCHANGED <<payload, loopAt>>
        BY DEF TransmitQueued, core1
      <3>3. ForwardFrame => UNCHANGED <<payload, loopAt>>
        BY DEF ForwardFrame, core1
      <3>4. ConnectionBreaks => UNCHANGED <<payload, loopAt>>
        BY DEF ConnectionBreaks, core1
      <3>5. HandleLoraBinary => UNCHANGED <<payload, loopAt>>
        BY DEF HandleLoraBinary, core1
      <3>. QED BY <1>5, <3>1, <3>2, <3>3, <3>4, <3>5 DEF Carries
    <2>. QED BY <1>3, <2>1, <2>2 DEF Numbered
  <1>6. CASE NodeRestarts
    <2>1. OnTheWay' \subseteq OnTheWay
      BY <1>6, RestartingMoves DEF MovesAlong
    <2>2. boots' = boots + 1 /\ packetSent' = 0 /\ payload' = None /\ loopAt' = "alarms"
      BY <1>6 DEF NodeRestarts, Setup
    <2>3. \A p \in OnTheWay : p.boot < boots + 1
      BY <1>1, <1>2, <1>3
    <2>. QED BY <2>1, <2>2, <2>3 DEF Numbered
  <1>7. CASE ReadSensors
    <2>1. /\ payload'.boot = boots /\ payload'.number = packetSent + 1 /\ payload' # None
          /\ OnTheWay' = OnTheWay \cup {payload'}
      BY <1>7, NewestIsLast
    <2>2. boots' = boots /\ packetSent' = packetSent + 1 /\ loopAt' \in {"copy", "send"}
      BY <1>7 DEF ReadSensors
    <2>3. \A p \in OnTheWay : p.boot < boots \/ (p.boot = boots /\ p.number <= packetSent + 1)
      BY <1>1, <1>2, <1>3
    <2>. QED BY <1>1, <2>1, <2>2, <2>3 DEF Numbered
  <1>8. CASE CopyMac
    <2>1. /\ payload \in OnTheWay /\ payload' \in Packet /\ OnTheWay' \subseteq OnTheWay \cup {payload'}
          /\ payload'.boot = payload.boot /\ payload'.number = payload.number
      BY <1>8, CopyKeepsPlace
    <2>2. UNCHANGED <<boots, packetSent>> /\ loopAt' = "clear" /\ loopAt = "copy"
      BY <1>8 DEF CopyMac
    <2>. QED BY <1>3, <2>1, <2>2, PacketAssumption DEF Numbered
  <1>. QED BY <1>4, <1>5, <1>6, <1>7, <1>8, StepsOfTheWay

LEMMA CompleteKept ==
  ASSUME UplinkTypeOK, InLine, Numbered, Complete, [UplinkNext]_uplinkVars
  PROVE  Complete'
  <1>1. packetSent \in Nat
    BY DEF UplinkTypeOK, NodeOK
  <1>2. /\ \A p \in OnTheWay : \A n \in 1 .. p.number : <<p.boot, n>> \in Accounted
        /\ \A n \in 1 .. packetSent : <<boots, n>> \in Accounted
    BY DEF Complete
  <1>3. CASE Elsewhere
    BY <1>3, ElsewhereIsStill, WayUntouched DEF MovesAlong, Complete
  <1>4. CASE Carries
    BY <1>4, CarryingMoves DEF MovesAlong, Complete
  <1>5. CASE NodeRestarts
    <2>1. MovesAlong
      BY <1>5, RestartingMoves
    <2>2. 1 .. packetSent' = {}
      BY <1>5 DEF NodeRestarts, Setup
    <2>. QED BY <1>2, <2>1, <2>2 DEF MovesAlong, Complete
  <1>6. CASE ReadSensors
    <2>1. /\ payload'.boot = boots /\ payload'.number = packetSent + 1
          /\ OnTheWay' = OnTheWay \cup {payload'}
          /\ Accounted' = Accounted \cup {<<boots, packetSent + 1>>}
      BY <1>6, NewestIsLast
    <2>2. boots' = boots /\ packetSent' = packetSent + 1
      BY <1>6 DEF ReadSensors
    <2>3. \A n \in 1 .. packetSent + 1 : n \in 1 .. packetSent \/ n = packetSent + 1
      BY <1>1
    <2>4. \A n \in 1 .. packetSent + 1 : <<boots, n>> \in Accounted'
      BY <1>2, <2>1, <2>3
    <2>. QED BY <1>2, <2>1, <2>2, <2>4 DEF Complete
  <1>7. CASE CopyMac
    <2>1. /\ payload \in OnTheWay /\ OnTheWay' \subseteq OnTheWay \cup {payload'}
          /\ payload'.boot = payload.boot /\ payload'.number = payload.number
          /\ Accounted' = Accounted
      BY <1>7, CopyKeepsPlace
    <2>2. UNCHANGED <<boots, packetSent>>
      BY <1>7 DEF CopyMac
    <2>. QED BY <1>2, <2>1, <2>2 DEF Complete
  <1>. QED BY <1>3, <1>4, <1>5, <1>6, <1>7, StepsOfTheWay

LEMMA AppliedKept ==
  ASSUME UplinkTypeOK, Applied, ShownIsOneCommand, [UplinkNext]_uplinkVars
  PROVE  Applied' /\ ShownIsOneCommand'
  <1>1. command \in Nat /\ alert \in [color : Nat, buzzer : Nat, pattern : Nat]
    BY DEF UplinkTypeOK, NodeOK
  <1>2. \A c \in 0 .. command : c \in 0 .. command + 1
    BY <1>1
  <1>3. 0 \in 0 .. command /\ command \in 0 .. command
    BY <1>1
  <1>4. CASE HandleAlarms
    <2>1. UNCHANGED <<alert, taskAt, command, stateMutex>> /\ shown' = alert /\ ~ stateMutex
      BY <1>4 DEF HandleAlarms, AlertIsReadable, core0
    <2>. QED BY <2>1 DEF Applied, ShownIsOneCommand, AlertOf
  <1>5. CASE ReceiveDownlink
    <2>1. UNCHANGED <<alert, shown>> /\ command' = command + 1 /\ taskAt' = "color" /\ stateMutex'
      BY <1>5 DEF ReceiveDownlink, core1
    <2>. QED BY <1>2, <2>1 DEF Applied, ShownIsOneCommand, AlertOf
  <1>6. CASE ApplyColor
    <2>1. /\ UNCHANGED <<shown, command, stateMutex>> /\ taskAt = "color" /\ taskAt' = "buzzer"
          /\ alert' = [alert EXCEPT !.color = command]
      BY <1>6 DEF ApplyColor, core1
    <2>2. alert'.color = command
      BY <1>1, <2>1
    <2>. QED BY <2>1, <2>2 DEF Applied, ShownIsOneCommand, AlertOf
  <1>7. CASE ApplyBuzzer
    <2>1. /\ UNCHANGED <<shown, command, stateMutex>> /\ taskAt = "buzzer" /\ taskAt' = "pattern"
          /\ alert' = [alert EXCEPT !.buzzer = command]
      BY <1>7 DEF ApplyBuzzer, core1
    <2>2. alert'.color = alert.color /\ alert'.buzzer = command
      BY <1>1, <2>1
    <2>. QED BY <2>1, <2>2 DEF Applied, ShownIsOneCommand, AlertOf
  <1>8. CASE ApplyPattern
    <2>1. /\ UNCHANGED <<shown, command>> /\ taskAt = "pattern" /\ taskAt' = "ack" /\ ~ stateMutex'
          /\ alert' = [alert EXCEPT !.pattern = command]
      BY <1>8 DEF ApplyPattern, core1
    <2>2. alert.color = command /\ alert.buzzer = command
      BY <2>1 DEF Applied
    <2>3. alert' = AlertOf(command)
      BY <1>1, <2>1, <2>2 DEF AlertOf
    <2>. QED BY <1>3, <2>1, <2>3 DEF Applied, ShownIsOneCommand, AlertOf
  <1>9. CASE NodeRestarts
    <2>1. alert' = AlertOf(0) /\ shown' = AlertOf(0) /\ taskAt' = "poll" /\ stateMutex' = FALSE /\ command' = command
      BY <1>9 DEF NodeRestarts, Setup
    <2>. QED BY <1>3, <2>1 DEF Applied, ShownIsOneCommand, AlertOf
  <1>10. CASE SendAck \/ TransmitQueued \/ NothingQueued
    <2>1. /\ UNCHANGED <<alert, shown, command, stateMutex>>
          /\ taskAt \in {"ack", "queue", "poll"} /\ taskAt' \in {"ack", "queue", "poll"}
      BY <1>10 DEF SendAck, TransmitQueued, NothingQueued, core1
    <2>. QED BY <2>1 DEF Applied, ShownIsOneCommand, AlertOf
  <1>11. CASE \/ ReadSensors \/ CopyMac \/ ClearFlag \/ QueuePacket \/ StoreMac \/ SetFlag
              \/ ForwardFrame \/ ConnectionBreaks \/ NoticeBreak \/ ReconnectMQTT \/ HandleLoraBinary
              \/ UNCHANGED uplinkVars
    <2>1. UNCHANGED <<alert, shown, taskAt, command, stateMutex>>
      BY <1>11 DEF ReadSensors, CopyMac, ClearFlag, QueuePacket, StoreMac, SetFlag, ForwardFrame, ConnectionBreaks,
                   NoticeBreak, ReconnectMQTT, HandleLoraBinary, uplinkVars, core0, core1
    <2>. QED BY <2>1 DEF Applied, ShownIsOneCommand, AlertOf
  <1>. QED BY <1>4, <1>5, <1>6, <1>7, <1>8, <1>9, <1>10, <1>11 DEF UplinkNext

\* What is held of a sensor after a packet: its value, if it counts as good.
LEMMA TakenIsDecoded ==
  ASSUME NEW p \in Packet, NEW s \in NodeSensor
  PROVE  GoodSample(p, s) = IF TakenForGood(p, s) THEN TakenValue(p, s) ELSE lastKnown[s]
  <1>1. Id(p) # None /\ Substitute # None
    BY SampleAssumption DEF Id, Packet, Sample
  <1>. QED BY <1>1 DEF GoodSample, DecodedSample, TakenForGood, TakenValue

LEMMA DecodedKept ==
  ASSUME UplinkTypeOK, Decoded, Held, HeldIsLatestGood, [UplinkNext]_uplinkVars
  PROVE  Decoded' /\ Held' /\ HeldIsLatestGood'
  <1>1. CASE HandleLoraBinary
    <2>. DEFINE n == Len(received)
    <2>. DEFINE p == Head(inFlight)
    <2>1. /\ n \in Nat /\ DOMAIN received = 1 .. n
          /\ Len(received') = n + 1 /\ DOMAIN received' = 1 .. n + 1
          /\ \A i \in 1 .. n : received'[i] = received[i]
          /\ received'[n + 1].packet = p
          /\ received'[n + 1].seq = DecodedSeq(p.number)
          /\ received'[n + 1].sample = lastKnown'
          /\ lastKnown' = [s \in NodeSensor |-> GoodSample(p, s)]
          /\ p \in Packet
          /\ received' \in Seq([packet : Packet, seq : Nat, sample : HeldSamples])
      BY <1>1, HistoryGrows
    <2>. HIDE DEF n, p
    <2>2. \A i \in 1 .. n + 1 : i \in 1 .. n \/ i = n + 1
      BY <2>1
    <2>3. Decoded'
      <3>1. \A i \in DOMAIN received' : received'[i].seq = DecodedSeq(received'[i].packet.number)
        BY <2>1, <2>2 DEF Decoded
      <3>. QED BY <3>1 DEF Decoded, DecodedSeq
    <2>4. Held'
      <3>1. received' # <<>>
        BY <2>1
      <3>. QED BY <2>1, <3>1 DEF Held
    <2>5. HeldIsLatestGood'
      <3>. DEFINE Good(i, s) == {k \in 1 .. i : TakenForGood(received[k].packet, s)}
      <3>. DEFINE After(i, s) == {k \in 1 .. i : TakenForGood(received'[k].packet, s)}
      <3>1. SUFFICES ASSUME NEW i \in 1 .. n + 1, NEW s \in NodeSensor
                     PROVE  IF After(i, s) = {} THEN received'[i].sample[s] = None
                            ELSE \E k \in After(i, s) : /\ received'[i].sample[s] = TakenValue(received'[k].packet, s)
                                                        /\ \A m \in After(i, s) : m <= k
        BY <2>1 DEF HeldIsLatestGood, TakenForGood, TakenValue, Id
      <3>2. CASE i \in 1 .. n
        <4>1. \A k \in 1 .. i : k \in 1 .. n
          BY <2>1, <3>2
        <4>2. After(i, s) = Good(i, s)
          BY <2>1, <4>1
        <4>3. /\ received'[i] = received[i]
              /\ \A k \in Good(i, s) : received'[k] = received[k]
          BY <2>1, <3>2, <4>1
        <4>. QED BY <2>1, <3>2, <4>2, <4>3 DEF HeldIsLatestGood
      <3>3. CASE i = n + 1 /\ TakenForGood(p, s)
        <4>1. n + 1 \in After(i, s) /\ \A m \in After(i, s) : m <= n + 1
          BY <2>1, <3>3
        <4>2. received'[i].sample[s] = TakenValue(received'[n + 1].packet, s)
          BY <2>1, <3>3, TakenIsDecoded
        <4>. QED BY <4>1, <4>2
      <3>4. CASE i = n + 1 /\ ~ TakenForGood(p, s)
        <4>1. After(i, s) = Good(n, s)
          BY <2>1, <2>2, <3>4
        <4>2. received'[i].sample[s] = lastKnown[s]
          BY <2>1, <3>4, TakenIsDecoded
        <4>3. CASE n = 0
          <5>1. received = <<>>
            BY <2>1, <4>3
          <5>2. Good(n, s) = {}
            BY <4>3
          <5>. QED BY <4>1, <4>2, <5>1, <5>2 DEF Held
        <4>4. CASE n # 0
          <5>1. n \in 1 .. n /\ received # <<>>
            BY <2>1, <4>4
          <5>2. lastKnown = received[n].sample
            BY <5>1 DEF Held, n
          <5>3. \A k \in Good(n, s) : received'[k] = received[k]
            BY <2>1
          <5>4. IF Good(n, s) = {} THEN received[n].sample[s] = None
                ELSE \E k \in Good(n, s) : /\ received[n].sample[s] = TakenValue(received[k].packet, s)
                                           /\ \A m \in Good(n, s) : m <= k
            BY <2>1, <5>1 DEF HeldIsLatestGood
          <5>. QED BY <4>1, <4>2, <5>2, <5>3, <5>4
        <4>. QED BY <4>3, <4>4
      <3>. QED BY <2>2, <3>2, <3>3, <3>4
    <2>. QED BY <2>3, <2>4, <2>5
  <1>2. CASE ~ HandleLoraBinary
    <2>1. UNCHANGED <<received, lastKnown>>
      <3>1. CASE Elsewhere
        BY <3>1 DEF Elsewhere, HandleAlarms, ClearFlag, StoreMac, SetFlag, ReceiveDownlink, ApplyColor, ApplyBuzzer,
                    ApplyPattern, SendAck, NothingQueued, NoticeBreak, ReconnectMQTT, uplinkVars, backend
      <3>2. CASE QueuePacket \/ TransmitQueued \/ ForwardFrame \/ ConnectionBreaks
        BY <3>2 DEF QueuePacket, TransmitQueued, ForwardFrame, ConnectionBreaks, backend
      <3>3. CASE NodeRestarts \/ ReadSensors \/ CopyMac
        BY <3>3 DEF NodeRestarts, ReadSensors, CopyMac, backend
      <3>. QED BY <1>2, <3>1, <3>2, <3>3, StepsOfTheWay DEF Carries
    <2>. QED BY <2>1 DEF Decoded, Held, HeldIsLatestGood
  <1>. QED BY <1>1, <1>2

LEMMA BeaconsKept ==
  ASSUME UplinkTypeOK, InLine, Numbered, BeaconsCounted, [UplinkNext]_uplinkVars
  PROVE  BeaconsCounted'
  <1>1. lastMac \in Nat /\ beacons \in Nat /\ callbackAt \in {"idle", "stored"}
    BY DEF UplinkTypeOK, NodeOK
  <1>2. \A p \in OnTheWay : p.mac \in Nat /\ p.mac <= beacons
    BY WayIsOfPackets DEF Packet, BeaconsCounted
  <1>3. /\ lastMac <= beacons
        /\ loopAt = "copy" => hasNewEspNow
        /\ \A b \in 1 .. beacons : \A x, y, z \in OnTheWay :
             x.mac = b /\ y.mac = b /\ z.mac = b => x = y \/ y = z \/ x = z
        /\ lastMac # 0 =>
             /\ callbackAt = "stored" \/ FlagLeft =>
                  \A x, y \in OnTheWay : x.mac = lastMac /\ y.mac = lastMac => x = y
             /\ callbackAt = "stored" /\ FlagLeft => \A x \in OnTheWay : x.mac # lastMac
    BY DEF BeaconsCounted, AtMostOne, AtMostTwo, Carriers
  <1>4. ASSUME /\ lastMac' <= beacons'
               /\ loopAt' = "copy" => hasNewEspNow'
               /\ \A p \in OnTheWay' : p.mac <= beacons'
               /\ \A b \in 1 .. beacons' : \A x, y, z \in OnTheWay' :
                    x.mac = b /\ y.mac = b /\ z.mac = b => x = y \/ y = z \/ x = z
               /\ lastMac' # 0 =>
                    /\ callbackAt' = "stored" \/ FlagLeft' =>
                         \A x, y \in OnTheWay' : x.mac = lastMac' /\ y.mac = lastMac' => x = y
                    /\ callbackAt' = "stored" /\ FlagLeft' => \A x \in OnTheWay' : x.mac # lastMac'
        PROVE  BeaconsCounted'
    BY <1>4 DEF BeaconsCounted, AtMostOne, AtMostTwo, Carriers
  \* Steps that bring no carrier and leave the callback alone.
  <1>5. ASSUME OnTheWay' \subseteq OnTheWay, UNCHANGED <<lastMac, beacons, callbackAt>>,
               FlagLeft' => FlagLeft, loopAt' = "copy" => hasNewEspNow'
        PROVE  BeaconsCounted'
    BY <1>2, <1>3, <1>4, <1>5
  <1>6. CASE Carries
    <2>1. OnTheWay' \subseteq OnTheWay
      BY <1>6, CarryingMoves DEF MovesAlong
    <2>2. UNCHANGED espNow /\ (loopAt' = loopAt \/ (loopAt = "send" /\ loopAt' = "alarms"))
      <3>1. QueuePacket => UNCHANGED espNow /\ loopAt = "send" /\ loopAt' = "alarms"
        BY DEF QueuePacket
      <3>2. TransmitQueued => UNCHANGED <<espNow, loopAt>>
        BY DEF TransmitQueued, core1
      <3>3. ForwardFrame => UNCHANGED <<espNow, loopAt>>
        BY DEF ForwardFrame, core1
      <3>4. ConnectionBreaks => UNCHANGED <<espNow, loopAt>>
        BY DEF ConnectionBreaks, core1
      <3>5. HandleLoraBinary => UNCHANGED <<espNow, loopAt>>
        BY DEF HandleLoraBinary, core1
      <3>. QED BY <1>6, <3>1, <3>2, <3>3, <3>4, <3>5 DEF Carries
    <2>. QED BY <1>3, <1>5, <2>1, <2>2 DEF FlagLeft, espNow
  <1>7. CASE NodeRestarts
    <2>1. OnTheWay' \subseteq OnTheWay
      BY <1>7, RestartingMoves DEF MovesAlong
    <2>2. lastMac' = 0 /\ beacons' = beacons /\ loopAt' = "alarms"
      BY <1>7 DEF NodeRestarts, Setup
    <2>. QED BY <1>1, <1>2, <1>3, <1>4, <2>1, <2>2
  <1>8. CASE ReadSensors
    <2>1. OnTheWay' = OnTheWay \cup {payload'} /\ payload'.mac = 0
      BY <1>8, NewestIsLast
    <2>2. /\ UNCHANGED <<lastMac, beacons, callbackAt, hasNewEspNow>> /\ loopAt = "sample"
          /\ loopAt' = IF hasNewEspNow THEN "copy" ELSE "send"
      BY <1>8 DEF ReadSensors, espNow
    <2>3. FlagLeft' <=> FlagLeft
      BY <2>2 DEF FlagLeft
    <2>4. \A b \in 1 .. beacons : b # 0
      BY <1>1
    <2>5. \A b \in 1 .. beacons : \A x, y, z \in OnTheWay' :
             x.mac = b /\ y.mac = b /\ z.mac = b => x = y \/ y = z \/ x = z
      BY <1>3, <2>1, <2>4
    <2>. QED BY <1>1, <1>2, <1>3, <1>4, <2>1, <2>2, <2>3, <2>5
  <1>9. CASE CopyMac
    <2>1. payload' \in OnTheWay' /\ OnTheWay' \subseteq OnTheWay \cup {payload'} /\ payload'.mac = lastMac
      BY <1>9, CopyKeepsPlace
    <2>2. /\ UNCHANGED <<lastMac, beacons, callbackAt, hasNewEspNow>> /\ loopAt = "copy" /\ loopAt' = "clear"
      BY <1>9 DEF CopyMac, espNow
    <2>3. FlagLeft /\ ~ FlagLeft'
      BY <1>3, <2>2 DEF FlagLeft
    <2>4. \A b \in 1 .. beacons : \A x, y, z \in OnTheWay' :
             x.mac = b /\ y.mac = b /\ z.mac = b => x = y \/ y = z \/ x = z
      <3>. SUFFICES ASSUME NEW b \in 1 .. beacons, NEW x \in OnTheWay', NEW y \in OnTheWay', NEW z \in OnTheWay',
                           x.mac = b, y.mac = b, z.mac = b
                    PROVE  x = y \/ y = z \/ x = z
        OBVIOUS
      <3>1. CASE b = lastMac
        <4>1. \A u, v \in OnTheWay : u.mac = b /\ v.mac = b => u = v
          BY <1>1, <1>3, <2>3, <3>1
        <4>. QED BY <2>1, <4>1
      <3>2. CASE b # lastMac
        BY <1>3, <2>1, <3>2
      <3>. QED BY <3>1, <3>2
    <2>5. lastMac # 0 /\ callbackAt = "stored" =>
             \A x, y \in OnTheWay' : x.mac = lastMac /\ y.mac = lastMac => x = y
      BY <1>3, <2>1, <2>3
    <2>6. \A p \in OnTheWay' : p.mac <= beacons
      BY <1>2, <1>3, <2>1
    <2>. QED BY <1>3, <1>4, <2>2, <2>3, <2>4, <2>5, <2>6
  <1>10. ASSUME Elsewhere
         PROVE  BeaconsCounted'
    <2>1. OnTheWay' = OnTheWay
      BY <1>10, ElsewhereIsStill, WayUntouched
    <2>2. CASE StoreMac
      <3>1. /\ beacons' = beacons + 1 /\ lastMac' = beacons + 1
            /\ UNCHANGED <<hasNewEspNow, loopAt>>
        BY <2>2 DEF StoreMac, core1
      <3>2. \A x \in OnTheWay : x.mac # beacons + 1
        BY <1>1, <1>2
      <3>3. \A b \in 1 .. beacons + 1 : b \in 1 .. beacons \/ b = beacons + 1
        BY <1>1
      <3>4. \A b \in 1 .. beacons + 1 : \A x, y, z \in OnTheWay :
               x.mac = b /\ y.mac = b /\ z.mac = b => x = y \/ y = z \/ x = z
        BY <1>3, <3>2, <3>3
      <3>5. \A p \in OnTheWay : p.mac <= beacons + 1
        BY <1>1, <1>2
      <3>. QED BY <1>1, <1>3, <1>4, <2>1, <3>1, <3>2, <3>4, <3>5
    <2>3. CASE SetFlag
      <3>1. /\ UNCHANGED <<lastMac, beacons, loopAt>> /\ hasNewEspNow'
            /\ callbackAt = "stored" /\ callbackAt' = "idle"
        BY <2>3 DEF SetFlag, core1
      <3>. QED BY <1>2, <1>3, <1>4, <2>1, <3>1
    <2>4. CASE ClearFlag
      <3>1. UNCHANGED <<lastMac, beacons, callbackAt>> /\ ~ hasNewEspNow' /\ loopAt' = "send"
        BY <2>4 DEF ClearFlag, FlagAfterCopy
      <3>. QED BY <1>5, <2>1, <3>1 DEF FlagLeft
    <2>5. CASE HandleAlarms
      <3>1. /\ UNCHANGED <<lastMac, beacons, callbackAt, hasNewEspNow>>
            /\ loopAt = "alarms" /\ loopAt' \in {"alarms", "sample"}
        BY <2>5 DEF HandleAlarms, espNow
      <3>. QED BY <1>5, <2>1, <3>1 DEF FlagLeft
    <2>6. CASE \/ ReceiveDownlink \/ ApplyColor \/ ApplyBuzzer \/ ApplyPattern \/ SendAck
               \/ NothingQueued \/ NoticeBreak \/ ReconnectMQTT \/ UNCHANGED uplinkVars
      <3>1. UNCHANGED <<lastMac, beacons, callbackAt, hasNewEspNow, loopAt>>
        BY <2>6 DEF ReceiveDownlink, ApplyColor, ApplyBuzzer, ApplyPattern, SendAck,
                    NothingQueued, NoticeBreak, ReconnectMQTT, uplinkVars, espNow, core1
      <3>. QED BY <1>3, <1>5, <2>1, <3>1 DEF FlagLeft
    <2>. QED BY <1>10, <2>2, <2>3, <2>4, <2>5, <2>6 DEF Elsewhere
  <1>. QED BY <1>6, <1>7, <1>8, <1>9, <1>10, StepsOfTheWay

LEMMA UplinkTypesKept ==
  ASSUME UplinkTypeOK, InLine, Numbered, [UplinkNext]_uplinkVars
  PROVE  UplinkTypeOK'
  <1>1. /\ Len(Samples) \in Nat /\ QueueLength \in Nat
        /\ \A p \in Packet : Id(p) \in Sample
    BY UplinkAssumption DEF Packet, Id, Sample
  <1>2. OnTheWay \subseteq Packet
    BY WayIsOfPackets
  <1>. USE DEF UplinkTypeOK, NodeOK, PathOK
  <1>3. CASE HandleAlarms
    <2>1. loopAt' \in {"alarms", "sample"}
      BY <1>3 DEF HandleAlarms
    <2>. QED BY <1>3, <2>1 DEF HandleAlarms, espNow, core0, path, backend
  <1>4. CASE ReadSensors
    <2>1. payload' \in Packet /\ packetSent' \in Nat /\ loopAt' \in {"copy", "send"}
      BY <1>4, NewestIsLast DEF ReadSensors
    <2>. QED BY <1>4, <2>1 DEF ReadSensors, espNow, core0, path, backend
  <1>5. CASE CopyMac
    <2>1. payload' \in Packet
      BY <1>5, CopyKeepsPlace
    <2>. QED BY <1>5, <2>1 DEF CopyMac, espNow, core0, path, backend
  <1>6. CASE ClearFlag
    BY <1>6 DEF ClearFlag, FlagAfterCopy, core0, path, backend
  <1>7. CASE QueuePacket
    <2>1. payload # None /\ payload \in Packet
      BY <1>7 DEF Numbered, QueuePacket
    <2>2. queue' \in Seq(Packet) /\ Len(queue') <= QueueLength
      BY <1>7, <2>1, QueueingMoves
    <2>3. dropped' \subseteq Sample
      BY <1>1, <1>7, <2>1 DEF QueuePacket
    <2>. QED BY <1>7, <2>2, <2>3 DEF QueuePacket, espNow, core0, path, backend
  <1>8. CASE StoreMac
    BY <1>8 DEF StoreMac, core0, core1, path, backend
  <1>9. CASE SetFlag
    BY <1>9 DEF SetFlag, core0, core1, path, backend
  <1>10. CASE ReceiveDownlink
    BY <1>10 DEF ReceiveDownlink, core1, espNow, path, backend
  <1>11. CASE ApplyColor
    <2>1. alert' \in [color : Nat, buzzer : Nat, pattern : Nat]
      BY <1>11 DEF ApplyColor
    <2>. QED BY <1>11, <2>1 DEF ApplyColor, core1, espNow, path, backend
  <1>12. CASE ApplyBuzzer
    <2>1. alert' \in [color : Nat, buzzer : Nat, pattern : Nat]
      BY <1>12 DEF ApplyBuzzer
    <2>. QED BY <1>12, <2>1 DEF ApplyBuzzer, core1, espNow, path, backend
  <1>13. CASE ApplyPattern
    <2>1. alert' \in [color : Nat, buzzer : Nat, pattern : Nat]
      BY <1>13 DEF ApplyPattern
    <2>. QED BY <1>13, <2>1 DEF ApplyPattern, core1, espNow, path, backend
  <1>14. CASE SendAck
    <2>1. radio' \in Packet \cup {None, Ack}
      BY <1>14 DEF SendAck, SendFrame, LostInTheAir
    <2>. QED BY <1>14, <2>1 DEF SendAck, core1, espNow, backend
  <1>15. CASE TransmitQueued
    <2>1. /\ queue' \in Seq(Packet) /\ Len(queue') <= QueueLength /\ radio' \in Packet \cup {None, Ack}
          /\ dropped' \subseteq Sample
      BY <1>1, <1>15, SendingMoves
    <2>. QED BY <1>15, <2>1 DEF TransmitQueued, core1, espNow, backend
  <1>16. CASE NothingQueued
    BY <1>16 DEF NothingQueued, core1, espNow, path, backend
  <1>17. CASE NodeRestarts
    <2>1. boots' \in 1 .. Len(Samples)
      BY <1>1, <1>17 DEF NodeRestarts
    <2>2. dropped' \subseteq Sample
      BY <1>1, <1>2, <1>17, RestartingMoves
    <2>3. queue' = <<>> /\ queue' \in Seq(Packet) /\ Len(queue') <= QueueLength
      BY <1>1, <1>17 DEF NodeRestarts, Setup
    <2>4. alert' \in [color : Nat, buzzer : Nat, pattern : Nat]
      BY <1>17 DEF NodeRestarts, Setup, AlertOf
    <2>5. /\ packetSent' = 0 /\ loopAt' = "alarms" /\ payload' = None /\ lastMac' = 0 /\ hasNewEspNow' \in BOOLEAN
          /\ callbackAt' = "idle" /\ taskAt' = "poll"
          /\ UNCHANGED <<command, beacons, radio, mqtt, breaks, inFlight, lastKnown, received>>
      BY <1>17 DEF NodeRestarts, Setup, path, backend
    <2>6. /\ packetSent' \in Nat
          /\ loopAt' \in {"alarms", "sample", "copy", "clear", "send"}
          /\ payload' \in Packet \cup {None} /\ {lastMac', beacons'} \subseteq Nat
          /\ hasNewEspNow' \in BOOLEAN /\ callbackAt' \in {"idle", "stored"}
          /\ taskAt' \in {"poll", "color", "buzzer", "pattern", "ack", "queue"} /\ command' \in Nat
      BY <2>5
    <2>. HIDE DEF NodeOK
    <2>7. NodeOK'
      BY ONLY <2>1, <2>3, <2>4, <2>6 DEF NodeOK
    <2>8. PathOK'
      BY <2>2, <2>5
    <2>. QED BY <2>7, <2>8
  <1>18. CASE ForwardFrame
    <2>1. inFlight' \in Seq(Packet) /\ dropped' \subseteq Sample
      BY <1>1, <1>18, ForwardingMoves
    <2>. QED BY <1>18, <2>1 DEF ForwardFrame, core0, core1, espNow
  <1>19. CASE ConnectionBreaks
    <2>1. inFlight' \in Seq(Packet) /\ dropped' \subseteq Sample
      BY <1>1, <1>2, <1>19, BreakingMoves DEF OnTheWay
    <2>. QED BY <1>19, <2>1 DEF ConnectionBreaks, core0, core1, espNow
  <1>20. CASE NoticeBreak
    BY <1>20 DEF NoticeBreak, core0, core1, espNow, backend
  <1>21. CASE ReconnectMQTT
    BY <1>21 DEF ReconnectMQTT, core0, core1, espNow, backend
  <1>22. CASE HandleLoraBinary
    <2>1. /\ inFlight' \in Seq(Packet) /\ lastKnown' \in HeldSamples
          /\ received' \in Seq([packet : Packet, seq : Nat, sample : HeldSamples])
      BY <1>22, HistoryGrows
    <2>. QED BY <1>22, <2>1 DEF HandleLoraBinary, core0, core1, espNow, path
  <1>23. CASE UNCHANGED uplinkVars
    BY <1>23 DEF uplinkVars, core0, core1, espNow, path, backend
  <1>. QED BY <1>3, <1>4, <1>5, <1>6, <1>7, <1>8, <1>9, <1>10, <1>11, <1>12, <1>13, <1>14, <1>15, <1>16, <1>17,
              <1>18, <1>19, <1>20, <1>21, <1>22, <1>23 DEF UplinkNext

LEMMA UplinkStarts ==
  ASSUME UplinkInit
  PROVE  UplinkInv
  <1>1. Samples # <<>> /\ Len(Samples) \in Nat /\ Len(Samples) # 0 /\ QueueLength \in Nat
    BY UplinkAssumption
  <1>2. /\ boots = 1 /\ packetSent = 0 /\ loopAt = "alarms" /\ payload = None /\ queue = <<>> /\ lastMac = 0
        /\ hasNewEspNow \in BOOLEAN /\ callbackAt = "idle" /\ taskAt = "poll" /\ command = 0 /\ ~ stateMutex
        /\ radio = None /\ mqtt = "down" /\ inFlight = <<>> /\ lastKnown = [s \in NodeSensor |-> None] /\ received = <<>>
        /\ dropped = {} /\ beacons = 0 /\ breaks = 0 /\ alert = AlertOf(0) /\ shown = AlertOf(0)
    BY DEF UplinkInit, Setup
  <1>3. alert \in [color : Nat, buzzer : Nat, pattern : Nat]
    BY <1>2 DEF AlertOf
  <1>4. NodeOK
    <2>1. 1 \in 1 .. Len(Samples)
      BY <1>1
    <2>2. queue \in Seq(Packet) /\ Len(queue) <= QueueLength
      BY <1>1, <1>2
    <2>3. /\ boots \in 1 .. Len(Samples) /\ packetSent \in Nat
          /\ loopAt \in {"alarms", "sample", "copy", "clear", "send"}
          /\ payload \in Packet \cup {None} /\ {lastMac, beacons} \subseteq Nat
          /\ hasNewEspNow \in BOOLEAN /\ callbackAt \in {"idle", "stored"}
          /\ taskAt \in {"poll", "color", "buzzer", "pattern", "ack", "queue"} /\ command \in Nat
      BY <1>2, <2>1
    <2>. QED BY ONLY <1>3, <2>2, <2>3 DEF NodeOK
  <1>5. PathOK
    BY <1>2 DEF PathOK, HeldSamples
  <1>6. OnTheWay = {} /\ Stored = {} /\ Flying = {} /\ InAir = {} /\ Waiting = {} /\ Making = {}
    BY <1>2 DEF OnTheWay, Stored, Flying, InAir, Waiting, Making, Members
  <1>7. InLine
    BY <1>2, <1>6 DEF InLine, AllEarlier, Ordered
  <1>8. Numbered /\ Complete
    BY <1>2, <1>6 DEF Numbered, Complete
  <1>9. Decoded /\ Held /\ HeldIsLatestGood
    BY <1>2 DEF Decoded, Held, HeldIsLatestGood
  <1>10. Applied /\ ShownIsOneCommand
    BY <1>2 DEF Applied, ShownIsOneCommand
  <1>11. BeaconsCounted
    BY <1>2, <1>6 DEF BeaconsCounted, FlagLeft
  <1>. QED BY <1>4, <1>5, <1>7, <1>8, <1>9, <1>10, <1>11 DEF UplinkInv, UplinkTypeOK

LEMMA UplinkInvariant == UplinkSpec => []UplinkInv
  <1>1. UplinkInv /\ [UplinkNext]_uplinkVars => UplinkInv'
    BY UplinkTypesKept, LineKept, NumberedKept, CompleteKept, DecodedKept, AppliedKept, BeaconsKept DEF UplinkInv
  <1>. QED BY UplinkStarts, <1>1, PTL DEF UplinkSpec

-----------------------------------------------------------------------------
(***************************************************************************)
(* Node, way and backend keep their types.                                 *)
(***************************************************************************)
THEOREM UplinkTypeCorrect == UplinkSpec => []UplinkTypeOK
  <1>1. UplinkInv => UplinkTypeOK
    BY DEF UplinkInv
  <1>. QED BY UplinkInvariant, <1>1, PTL

(***************************************************************************)
(* What the LED shows and the buzzer sounds belongs to one command         *)
(* (ShownIsOneCommand), by the mutex that handleAlarms waits for.          *)
(***************************************************************************)
THEOREM OneCommandIsShown == UplinkSpec => []ShownIsOneCommand
  <1>1. UplinkInv => ShownIsOneCommand
    BY DEF UplinkInv
  <1>. QED BY UplinkInvariant, <1>1, PTL

(***************************************************************************)
(* A reading gives of each sensor the latest value that the backend took   *)
(* for good (HeldIsLatestGood), the substitutes for a failed DHT22 among   *)
(* them, whatever was lost and however often the node started over.        *)
(***************************************************************************)
THEOREM LatestGoodIsHeld == UplinkSpec => []HeldIsLatestGood
  <1>1. UplinkInv => HeldIsLatestGood
    BY DEF UplinkInv
  <1>. QED BY UplinkInvariant, <1>1, PTL

(***************************************************************************)
(* Packets of one boot come out in the order of their numbers, and a       *)
(* number missing between two of them was lost (GapsAreLosses).  The       *)
(* packets on the way stay in line, from the backend back to the loop, and *)
(* every number taken is on the way or lost: one that belongs between two  *)
(* stored packets can be nowhere but between them.                         *)
(***************************************************************************)
THEOREM GapsAreLost == UplinkSpec => []GapsAreLosses
  <1>1. UplinkInv => GapsAreLosses
    <2>. SUFFICES ASSUME UplinkInv, NEW i \in DOMAIN received, NEW j \in DOMAIN received,
                         i < j, received[i].packet.boot = received[j].packet.boot,
                         received[j].packet.number <= SeqLimit
                  PROVE  /\ received[i].seq < received[j].seq
                         /\ \A n \in received[i].seq + 1 .. received[j].seq - 1 :
                              \/ <<received[j].packet.boot, n>> \in dropped
                              \/ \E k \in i .. j : Id(received[k].packet) = <<received[j].packet.boot, n>>
      BY DEF GapsAreLosses
    <2>. DEFINE p == received[i].packet
    <2>. DEFINE q == received[j].packet
    <2>1. UplinkTypeOK /\ InLine /\ Complete /\ Decoded
      BY DEF UplinkInv
    <2>2. p \in Stored /\ q \in Stored /\ p \in OnTheWay /\ q \in OnTheWay
      BY DEF Stored, OnTheWay
    <2>3. /\ p.boot \in Nat /\ p.number \in Nat /\ q.boot \in Nat /\ q.number \in Nat
          /\ SeqLimit \in Nat /\ i \in Nat /\ j \in Nat /\ DOMAIN received = 1 .. Len(received) /\ Len(received) \in Nat
      <3>1. p \in Packet /\ q \in Packet
        BY <2>1, <2>2, WayIsOfPackets
      <3>2. DOMAIN received = 1 .. Len(received) /\ Len(received) \in Nat
        BY <2>1 DEF UplinkTypeOK, PathOK
      <3>. QED BY <3>1, <3>2, UplinkAssumption DEF Packet
    <2>4. p.number < q.number
      BY <2>1, <2>3 DEF InLine, Earlier
    <2>5. received[i].seq = p.number /\ received[j].seq = q.number
      BY <2>1, <2>3, <2>4 DEF Decoded, DecodedSeq
    <2>6. ASSUME NEW n \in p.number + 1 .. q.number - 1, <<q.boot, n>> \notin dropped
          PROVE  \E k \in i .. j : Id(received[k].packet) = <<q.boot, n>>
      <3>1. n \in Nat /\ n \in 1 .. q.number /\ p.number < n /\ n < q.number
        BY <2>3
      <3>2. PICK x \in OnTheWay : Id(x) = <<q.boot, n>>
        BY <2>1, <2>2, <2>6, <3>1 DEF Complete, Accounted
      <3>3. x.boot = q.boot /\ x.number = n
        BY <3>2 DEF Id
      <3>4. Earlier(p, x) /\ Earlier(x, q)
        BY <2>3, <3>1, <3>3 DEF Earlier
      <3>5. x \in Stored
        <4>1. ~ Earlier(q, x)
          BY <2>3, <3>1, <3>3 DEF Earlier
        <4>2. \A y \in Flying \cup InAir \cup Waiting \cup Making : Earlier(q, y)
          BY <2>1, <2>2 DEF InLine, AllEarlier
        <4>. QED BY <4>1, <4>2 DEF OnTheWay
      <3>6. PICK k \in DOMAIN received : received[k].packet = x
        BY <3>5 DEF Stored
      <3>7. ~ (k < i) /\ ~ (j < k)
        <4>1. ~ Earlier(x, p) /\ ~ Earlier(q, x)
          BY <2>3, <3>1, <3>3 DEF Earlier
        <4>. QED BY <2>1, <3>6, <4>1 DEF InLine
      <3>8. k \in i .. j
        BY <2>3, <3>7
      <3>. QED BY <3>2, <3>6, <3>8
    <2>. QED BY <2>3, <2>4, <2>5, <2>6
  <1>. QED BY UplinkInvariant, <1>1, PTL

(***************************************************************************)
(* No beacon is reported more than twice (BeaconAtMostTwice): of the       *)
(* packets on the way two at most carry it, and no third can follow once   *)
(* the flag that a late callback set is cleared.                           *)
(***************************************************************************)
THEOREM BeaconsAtMostTwice == UplinkSpec => []BeaconAtMostTwice
  <1>1. UplinkInv => BeaconAtMostTwice
    <2>. SUFFICES ASSUME UplinkInv, NEW b \in 1 .. beacons,
                         NEW i \in DOMAIN received, NEW j \in DOMAIN received, NEW k \in DOMAIN received,
                         i < j, j < k, \A r \in {i, j, k} : received[r].packet.mac = b
                  PROVE  FALSE
      BY DEF BeaconAtMostTwice
    <2>. DEFINE x == received[i].packet
    <2>. DEFINE y == received[j].packet
    <2>. DEFINE z == received[k].packet
    <2>1. UplinkTypeOK /\ InLine /\ BeaconsCounted
      BY DEF UplinkInv
    <2>2. x \in OnTheWay /\ y \in OnTheWay /\ z \in OnTheWay
      BY DEF Stored, OnTheWay
    <2>3. x = y \/ y = z \/ x = z
      BY <2>1, <2>2 DEF BeaconsCounted, AtMostTwo, Carriers
    <2>4. i < k
      <3>1. DOMAIN received \subseteq Nat
        BY <2>1 DEF UplinkTypeOK, PathOK
      <3>2. i \in Nat /\ j \in Nat /\ k \in Nat
        BY <3>1
      <3>. QED BY <3>2
    <2>5. Earlier(x, y) /\ Earlier(y, z) /\ Earlier(x, z)
      BY <2>1, <2>4 DEF InLine
    <2>6. \A p \in OnTheWay : ~ Earlier(p, p)
      <3>. SUFFICES ASSUME NEW p \in OnTheWay PROVE ~ Earlier(p, p)
        OBVIOUS
      <3>1. p.boot \in Nat /\ p.number \in Nat
        BY <2>1, WayIsOfPackets DEF Packet
      <3>. QED BY <3>1 DEF Earlier
    <2>. QED BY <2>2, <2>3, <2>5, <2>6
  <1>. QED BY UplinkInvariant, <1>1, PTL

-----------------------------------------------------------------------------
(***************************************************************************)
(* The gateway's status: what holds between two samples of the watchdog,   *)
(* and while a sample is due.                                              *)
(***************************************************************************)
HeardOf == clientConnected \/ packetAge < PacketTimeout => seenActivity

BetweenChecks ==
  ~ checkDue /\ ~ overridden =>
    /\ announcedStatus = Status
    /\ packetAge \in 1 .. (PacketTimeout - 1) /\ ~ explicitOffline => lastKnownStatus = "online"

\* Only a silence that has just become too long is not announced yet.
CheckDue ==
  checkDue /\ ~ overridden =>
    announcedStatus = Status \/ (lastKnownStatus = "online" /\ Status # "online")

GatewayInv == IngestionTypeOK /\ HeardOf /\ BetweenChecks /\ CheckDue

LEMMA TellType ==
  ASSUME NEW nodes, NEW s \in {"online", "offline"}, IngestionTypeOK, Tell(nodes, s)
  PROVE  told' \in [AnyNode -> {"nothing", "online", "offline"}]
BY DEF Tell, IngestionTypeOK

LEMMA ActivityType ==
  ASSUME IngestionTypeOK, NEW n \in AnyNode, RecordLoraGatewayActivity(n)
  PROVE  activeNodes' \in Seq(AnyNode) /\ packetAge' \in 0 .. PacketTimeout
<1>1. activeNodes' \in {activeNodes, Append(activeNodes, n)}
  BY DEF RecordLoraGatewayActivity, AddNode
<1>2. packetAge' = 0
  BY DEF RecordLoraGatewayActivity
<1>. QED BY <1>1, <1>2, IngestionAssumption DEF IngestionTypeOK

LEMMA IngestionInitType == IngestionInit => IngestionTypeOK
<1>. SUFFICES ASSUME IngestionInit PROVE IngestionTypeOK
  OBVIOUS
<1>1. told \in [AnyNode -> {"nothing", "online", "offline"}]
  BY DEF IngestionInit
<1>2. activeNodes \in Seq(AnyNode) /\ packetAge \in 0 .. PacketTimeout
  BY IngestionAssumption DEF IngestionInit
<1>. QED BY <1>1, <1>2 DEF IngestionInit, IngestionTypeOK

LEMMA IngestionNextType ==
  ASSUME IngestionTypeOK, [IngestionNext]_ingestionVars
  PROVE  IngestionTypeOK'
<1>0. Status' \in {"online", "offline", "standby"}
  BY DEF Status
<1>1. Status \in {"online", "offline", "standby"}
  BY DEF Status
<1>2. CASE BrokerConnect \/ BrokerLost
  BY <1>0, <1>2 DEF BrokerConnect, BrokerLost, EmitGatewayStatus, gateway, watchdog, history, IngestionTypeOK
<1>3. ASSUME NEW others \in BOOLEAN, ClientCount(others)
      PROVE  IngestionTypeOK'
  BY <1>0, <1>3 DEF ClientCount, EmitGatewayStatus, watchdog, IngestionTypeOK
<1>4. CASE GatewayOffline
  <2>1. told' \in [AnyNode -> {"nothing", "online", "offline"}] /\ singled' \in BOOLEAN
    BY <1>4, TellType DEF GatewayOffline, TellActive
  <2>. QED BY <1>0, <1>4, <2>1 DEF GatewayOffline, EmitGatewayStatus, watchdog, IngestionTypeOK
<1>5. CASE GatewayOnline
  <2>1. (IF activeNodes = <<>> THEN DefaultNode ELSE Head(activeNodes)) \in AnyNode
    <3>1. DefaultNode \in AnyNode
      BY IngestionAssumption DEF AnyNode
    <3>2. ASSUME activeNodes # <<>> PROVE Head(activeNodes) \in AnyNode
      <4>1. activeNodes \in Seq(AnyNode)
        BY DEF IngestionTypeOK
      <4>. QED BY <3>2, <4>1
    <3>. QED BY <3>1, <3>2
  <2>2. activeNodes' \in Seq(AnyNode) /\ packetAge' \in 0 .. PacketTimeout
    BY <1>5, <2>1, ActivityType DEF GatewayOnline
  <2>. QED BY <1>0, <1>5, <2>2 DEF GatewayOnline, RecordLoraGatewayActivity, EmitGatewayStatus, watchdog, IngestionTypeOK
<1>6. ASSUME NEW n \in LoraNode, LoraPacket(n)
      PROVE  IngestionTypeOK'
  <2>1. n \in AnyNode
    BY DEF AnyNode
  <2>2. activeNodes' \in Seq(AnyNode) /\ packetAge' \in 0 .. PacketTimeout
    BY <1>6, <2>1, ActivityType DEF LoraPacket
  <2>3. told' \in [AnyNode -> {"nothing", "online", "offline"}]
    BY <1>6, TellType DEF LoraPacket
  <2>. QED BY <1>0, <1>6, <2>2, <2>3 DEF LoraPacket, RecordLoraGatewayActivity, EmitGatewayStatus, watchdog, IngestionTypeOK
<1>7. CASE LoraOffline
  <2>1. told' \in [AnyNode -> {"nothing", "online", "offline"}] /\ singled' \in BOOLEAN
    BY <1>7, TellType DEF LoraOffline, TellActive, IngestionTypeOK
  <2>. QED BY <1>0, <1>7, <2>1 DEF LoraOffline, EmitGatewayStatus, watchdog, IngestionTypeOK
<1>8. CASE TextAsStruct
  <2>1. GhostNode \in AnyNode
    BY DEF AnyNode
  <2>2. activeNodes' \in Seq(AnyNode) /\ packetAge' \in 0 .. PacketTimeout
    BY <1>8, <2>1, ActivityType DEF TextAsStruct
  <2>3. told' \in [AnyNode -> {"nothing", "online", "offline"}]
    BY <1>8, TellType DEF TextAsStruct
  <2>. QED BY <1>0, <1>8, <2>2, <2>3 DEF TextAsStruct, RecordLoraGatewayActivity, EmitGatewayStatus, watchdog, IngestionTypeOK
<1>9. CASE SecondPasses
  <2>1. packetAge' \in 0 .. PacketTimeout
    BY <1>9, IngestionAssumption DEF SecondPasses, Older, IngestionTypeOK
  <2>. QED BY <1>9, <2>1 DEF SecondPasses, history, IngestionTypeOK
<1>10. CASE WatchdogCheck
  <2>1. told' \in [AnyNode -> {"nothing", "online", "offline"}] /\ singled' \in BOOLEAN
    BY <1>10, TellType DEF WatchdogCheck, TellActive, IngestionTypeOK
  <2>. QED BY <1>0, <1>1, <1>10, <2>1 DEF WatchdogCheck, EmitGatewayStatus, gateway, IngestionTypeOK
<1>11. CASE UNCHANGED ingestionVars
  BY <1>11 DEF ingestionVars, gateway, watchdog, history, IngestionTypeOK
<1>. QED BY <1>2, <1>3, <1>4, <1>5, <1>6, <1>7, <1>8, <1>9, <1>10, <1>11 DEF IngestionNext

LEMMA GatewayInvInit == IngestionInit => GatewayInv
BY IngestionInitType, IngestionAssumption
   DEF IngestionInit, GatewayInv, HeardOf, BetweenChecks, CheckDue, Status, GatewayConnected

\* A message that is announced leaves nothing to sample.
LEMMA AnnouncedStep ==
  ASSUME GatewayInv, EmitGatewayStatus, HeardOf', UNCHANGED watchdog,
         ~ overridden' /\ packetAge' # 0 /\ ~ explicitOffline'
            => ~ overridden /\ packetAge' = packetAge /\ ~ explicitOffline
  PROVE  BetweenChecks' /\ CheckDue'
<1>1. announcedStatus' = Status'
  BY DEF EmitGatewayStatus
<1>2. (packetAge \in 1 .. (PacketTimeout - 1))' => packetAge' # 0
  BY IngestionAssumption
<1>. QED BY <1>1, <1>2 DEF GatewayInv, BetweenChecks, CheckDue, watchdog

LEMMA GatewayInvNext ==
  ASSUME PacketTimeout > 1, GatewayInv, [IngestionNext]_ingestionVars
  PROVE  GatewayInv'
<1>0. IngestionTypeOK /\ IngestionTypeOK'
  BY IngestionNextType DEF GatewayInv
<1>1. ASSUME NEW n, RecordLoraGatewayActivity(n), UNCHANGED watchdog
      PROVE  GatewayInv'
  <2>1. HeardOf' /\ packetAge' = 0 /\ EmitGatewayStatus
    BY <1>1 DEF RecordLoraGatewayActivity, HeardOf
  <2>. QED BY <1>0, <1>1, <2>1, AnnouncedStep DEF GatewayInv
<1>2. CASE BrokerConnect \/ BrokerLost
  <2>1. HeardOf'
    BY <1>2 DEF BrokerConnect, BrokerLost, gateway, GatewayInv, HeardOf
  <2>. QED BY <1>0, <1>2, <2>1, AnnouncedStep DEF BrokerConnect, BrokerLost, gateway, history, GatewayInv
<1>3. ASSUME NEW others \in BOOLEAN, ClientCount(others)
      PROVE  GatewayInv'
  <2>1. HeardOf'
    BY <1>0, <1>3 DEF ClientCount, GatewayInv, HeardOf, IngestionTypeOK
  <2>2. UNCHANGED <<packetAge, watchdog>>
    BY <1>3 DEF ClientCount
  <2>3. ~ overridden' => ~ overridden /\ (explicitOffline' <=> explicitOffline)
    BY <1>0, <1>3 DEF ClientCount, IngestionTypeOK
  <2>4. CASE clientConnected # others
    BY <1>0, <1>3, <2>1, <2>2, <2>3, <2>4, AnnouncedStep DEF ClientCount, GatewayInv
  <2>5. CASE clientConnected = others
    <3>1. UNCHANGED <<clientConnected, announcedStatus>>
      BY <1>3, <2>5 DEF ClientCount
    <3>2. seenActivity' <=> seenActivity
      BY <1>0, <1>3, <2>5 DEF ClientCount, GatewayInv, HeardOf, IngestionTypeOK
    <3>3. ~ overridden' => Status' = Status
      BY <2>2, <2>3, <3>1, <3>2 DEF Status, GatewayConnected
    <3>. QED BY <1>0, <2>1, <2>2, <2>3, <3>1, <3>3 DEF GatewayInv, BetweenChecks, CheckDue, watchdog
  <2>. QED BY <2>4, <2>5
<1>4. CASE GatewayOffline \/ LoraOffline
  <2>1. HeardOf' /\ EmitGatewayStatus /\ explicitOffline' /\ UNCHANGED watchdog
    BY <1>4 DEF GatewayOffline, LoraOffline, GatewayInv, HeardOf
  <2>. QED BY <1>0, <2>1, AnnouncedStep DEF GatewayInv
<1>5. CASE GatewayOnline \/ (\E n \in LoraNode : LoraPacket(n)) \/ TextAsStruct
  BY <1>1, <1>5 DEF GatewayOnline, LoraPacket, TextAsStruct
<1>6. CASE SecondPasses
  <2>1. UNCHANGED <<clientConnected, seenActivity, explicitOffline, lastKnownStatus, announcedStatus, overridden>>
        /\ ~ checkDue /\ checkDue'
    BY <1>6 DEF SecondPasses, history
  <2>2. packetAge \in 0 .. PacketTimeout /\ packetAge' = IF packetAge < PacketTimeout THEN packetAge + 1 ELSE packetAge
    BY <1>0, <1>6 DEF SecondPasses, Older, IngestionTypeOK
  <2>3. HeardOf'
    BY <2>1, <2>2, IngestionAssumption DEF GatewayInv, HeardOf
  <2>4. CASE packetAge = PacketTimeout - 1
    <3>1. packetAge \in 1 .. (PacketTimeout - 1)
      BY <2>2, <2>4, IngestionAssumption
    <3>2. Status' # Status => ~ explicitOffline /\ Status' # "online"
      BY <2>1, <2>2 DEF Status, GatewayConnected
    <3>. QED BY <1>0, <2>1, <2>3, <3>1, <3>2 DEF GatewayInv, BetweenChecks, CheckDue
  <2>5. CASE packetAge # PacketTimeout - 1
    <3>1. packetAge' < PacketTimeout <=> packetAge < PacketTimeout
      BY <2>2, <2>5, IngestionAssumption
    <3>2. Status' = Status
      BY <2>1, <3>1 DEF Status, GatewayConnected
    <3>. QED BY <1>0, <2>1, <2>3, <3>2 DEF GatewayInv, BetweenChecks, CheckDue
  <2>. QED BY <2>4, <2>5
<1>7. CASE WatchdogCheck
  <2>1. UNCHANGED <<clientConnected, seenActivity, explicitOffline, packetAge, overridden>>
        /\ checkDue /\ ~ checkDue' /\ lastKnownStatus' = Status
    BY <1>7 DEF WatchdogCheck, gateway
  <2>2. Status' = Status /\ HeardOf'
    BY <2>1 DEF Status, GatewayConnected, GatewayInv, HeardOf
  <2>3. ~ overridden => announcedStatus' = Status'
    BY <1>7, <2>1, <2>2 DEF WatchdogCheck, SeesChange, EmitGatewayStatus, GatewayInv, CheckDue
  <2>4. packetAge \in 1 .. (PacketTimeout - 1) /\ ~ explicitOffline => Status = "online"
    BY IngestionAssumption DEF Status, GatewayConnected
  <2>. QED BY <1>0, <2>1, <2>2, <2>3, <2>4 DEF GatewayInv, BetweenChecks, CheckDue
<1>8. CASE UNCHANGED ingestionVars
  <2>1. Status' = Status
    BY <1>8 DEF ingestionVars, gateway, Status, GatewayConnected
  <2>. QED BY <1>0, <1>8, <2>1 DEF ingestionVars, gateway, watchdog, history, GatewayInv, HeardOf, BetweenChecks, CheckDue
<1>. QED BY <1>2, <1>3, <1>4, <1>5, <1>6, <1>7, <1>8 DEF IngestionNext

LEMMA GatewayInvImplies == GatewayInv => AnnouncedIsCurrent
BY DEF GatewayInv, BetweenChecks, CheckDue, AnnouncedIsCurrent, IngestionTypeOK

\* The dashboard's steps are none of the service's.
LEMMA BadgeStepIsIngestions ==
  ASSUME [BadgeNext]_badgeVars
  PROVE  [IngestionNext]_ingestionVars
BY DEF BadgeNext, badgeVars, IngestionStep, SocketChanges, HandleGatewayStatus, ProcessSensorUpdates, GwWatchdog

(***************************************************************************)
(* What the ingestion service keeps of its broker and gateway is of its    *)
(* types, for any bounds.                                                  *)
(***************************************************************************)
THEOREM GatewayTypeCorrect == IngestionSpec => []IngestionTypeOK
<1>1. IngestionTypeOK /\ [IngestionNext]_ingestionVars => IngestionTypeOK'
  BY IngestionNextType
<1>. QED BY IngestionInitType, <1>1, PTL DEF IngestionSpec

(***************************************************************************)
(* What the service announced of the gateway is what it would say now,     *)
(* alone and with a dashboard, if a packet proves the gateway for longer   *)
(* than the second between two samples (30 s in the code).                 *)
(***************************************************************************)
THEOREM StatusIsAnnounced ==
  ASSUME PacketTimeout > 1
  PROVE  BadgeSpec => []AnnouncedIsCurrent
<1>1. BadgeInit => GatewayInv
  BY GatewayInvInit DEF BadgeInit
<1>2. GatewayInv /\ [BadgeNext]_badgeVars => GatewayInv'
  BY GatewayInvNext, BadgeStepIsIngestions
<1>. QED BY <1>1, <1>2, GatewayInvImplies, PTL DEF BadgeSpec

=============================================================================
