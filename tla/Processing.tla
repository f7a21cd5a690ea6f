----------------------------- MODULE Processing -----------------------------
(***************************************************************************)
(* The ProcessingService of the backend, with the two services it drives   *)
(* synchronously: the MovingAverageFilterService it resets and feeds, and  *)
(* the MemoryStorageService that appends every 'sensor.reading.deduped'.   *)
(*                                                                         *)
(* The service runs on the Node.js event loop and emits its events         *)
(* synchronously, so one handler call is one atomic step.  Its inputs are  *)
(* arbitrary: readings and status updates of any node, in any order, any   *)
(* number of times.  The modules that compose it with a network restrict   *)
(* them.                                                                   *)
(*                                                                         *)
(* Time is counted in seconds.  A reading is stamped (receivedAt) in the   *)
(* same call that processes it, so lastSeenAt is always "now", and only    *)
(* now - lastSeenAt matters: silence[n] is that difference.  It saturates  *)
(* at MaxSilence, above which the code makes no distinction.               *)
(***************************************************************************)
EXTENDS Naturals, Sequences

CONSTANTS
  Node,          (* nodeIds                                                *)
  Zone,          (* zoneIds                                                *)
  Sensor,        (* sensorTypes                                            *)
  SeqNum,        (* the sequence numbers a packet may carry                *)
  NoSeq,         (* "undefined": no sequence number known                  *)
  SeenCap,       (* keys remembered per node (200)                         *)
  ForwardSpan,   (* largest jump that counts as a gap (10000)              *)
  ReorderSpan,   (* largest drop that counts as out of order (100)         *)
  WindowSize,    (* sensorType -> filter window (5, 3 or 1)                *)
  StaleTimeout,  (* STALE_TIMEOUT_MS, in seconds (30)                      *)
  CheckPeriod,   (* period of the stale-node watchdog, in seconds (2)      *)
  MaxReadings    (* bound: readings stored per node                        *)

ASSUME ProcessingAssumption ==
  /\ SeqNum \subseteq Nat
  /\ NoSeq \notin Nat
  /\ SeenCap \in Nat \ {0}
  /\ ForwardSpan \in Nat
  /\ ReorderSpan \in Nat
  /\ WindowSize \in [Sensor -> Nat \ {0}]
  /\ StaleTimeout \in Nat
  /\ CheckPeriod \in Nat \ {0}
  /\ MaxReadings \in Nat

VARIABLES
  seen,          (* seenSequences: keys of each node, oldest first         *)
  lastSeq,       (* lastSequenceNumber: highest number of each node        *)
  status,        (* nodeStatuses[n].status, "unknown" when there is none   *)
  zone,          (* nodeStatuses[n].zoneId                                 *)
  reportedSeq,   (* nodeStatuses[n].lastSequenceNumber                     *)
  gapCount,      (* nodeStatuses[n].gapCount                               *)
  silence,       (* seconds since nodeStatuses[n].lastSeenAt               *)
  fill,          (* length of each channel window of the filter            *)
  announced,     (* status in the latest 'node.status.changed' of a node   *)
  readings,      (* stored readings of each node, in order of arrival      *)
  sinceCheck     (* seconds since the watchdog last ran                    *)

vars == <<seen, lastSeq, status, zone, reportedSeq, gapCount, silence, fill,
          announced, readings, sinceCheck>>

Key == Sensor \X SeqNum

Reading == [node : Node, zone : Zone, sensor : Sensor, seq : SeqNum]

StatusUpdate == [node : Node, zone : Zone, status : {"online", "offline"}]

KeyOf(r) == <<r.sensor, r.seq>>

MaxSilence == StaleTimeout + CheckPeriod + 1

EmptyWindows == [s \in Sensor |-> 0]

Init ==
  /\ seen = [n \in Node |-> <<>>]
  /\ lastSeq = [n \in Node |-> NoSeq]
  /\ status = [n \in Node |-> "unknown"]
  /\ zone \in [Node -> Zone]
  /\ reportedSeq = [n \in Node |-> NoSeq]
  /\ gapCount = [n \in Node |-> 0]
  /\ silence = [n \in Node |-> 0]
  /\ fill = [n \in Node |-> EmptyWindows]
  /\ announced = [n \in Node |-> "unknown"]
  /\ readings = [n \in Node |-> <<>>]
  /\ sinceCheck = 0

-----------------------------------------------------------------------------
(***************************************************************************)
(* The pieces of handleSensorReading.                                      *)
(***************************************************************************)
\* Mutations: only the latest key compared; readings older than the highest
\* number dropped as if they were copies.
IsDuplicateOfLatest(r) == seen[r.node] # <<>> /\ seen[r.node][Len(seen[r.node])] = KeyOf(r)
IsDuplicateOrLate(r) ==
  \/ \E i \in DOMAIN seen[r.node] : seen[r.node][i] = KeyOf(r)
  \/ lastSeq[r.node] # NoSeq /\ ~(r.seq >= lastSeq[r.node])
IsDuplicate(r) ==
  \E i \in DOMAIN seen[r.node] : seen[r.node][i] = KeyOf(r)

\* The insertion-ordered Set: add at the end, then delete the oldest element
\* when the set has outgrown its cap.
Remember(keys, key) ==
  IF Len(keys) < SeenCap THEN Append(keys, key) ELSE Tail(Append(keys, key))

HasSeq(n) == lastSeq[n] # NoSeq

\* A jump over more than ForwardSpan numbers, or a drop by more than
\* ReorderSpan, is a new numbering of the node rather than loss or reordering.
IsReset(n, q) ==
  /\ HasSeq(n)
  /\ \/ q > lastSeq[n] + 1 + ForwardSpan
     \/ lastSeq[n] > q + ReorderSpan

IsGap(n, q) ==
  /\ HasSeq(n)
  /\ q > lastSeq[n] + 1
  /\ ~ IsReset(n, q)

\* Mutation: one missing packet too few.
MissingOneLess(n, q) == IF IsGap(n, q) THEN q - lastSeq[n] - 2 ELSE 0

Missing(n, q) == IF IsGap(n, q) THEN q - lastSeq[n] - 1 ELSE 0

\* Mutation: the number taken over always.
HighestAlways(n, q) == q

Highest(n, q) ==
  IF ~ HasSeq(n) \/ q > lastSeq[n] \/ IsReset(n, q) THEN q ELSE lastSeq[n]

\* smooth() pushes into the channel's window and drops the oldest value of a
\* full one; channels with a window of 1 bypass the filter and keep nothing.
Smooth(windows, s) ==
  IF WindowSize[s] > 1 /\ windows[s] < WindowSize[s]
  THEN [windows EXCEPT ![s] = @ + 1]
  ELSE windows

\* resetNode() deletes every channel window of the node.
ResetNode(n) == [fill EXCEPT ![n] = EmptyWindows]

\* A reading announces its node when it brings the node back or shows a gap.
\* A new status record is created "online", so the comparison with the old
\* status never sees a change for a node's first reading.
Announces(n, q) == status[n] = "offline" \/ IsGap(n, q)

\* MemoryStorageService hears 'sensor.reading.deduped' in the same call.
SaveReading(r) == [readings EXCEPT ![r.node] = Append(@, KeyOf(r))]

DropDuplicate(r) ==
  /\ IsDuplicate(r)
  /\ UNCHANGED vars

AcceptReading(r) ==
  LET n == r.node
      q == r.seq
  IN
  /\ ~ IsDuplicate(r)
  /\ Len(readings[n]) < MaxReadings
  /\ seen' = [seen EXCEPT ![n] = Remember(@, KeyOf(r))]
  /\ status' = [status EXCEPT ![n] = "online"]
  /\ zone' = [zone EXCEPT ![n] = IF status[n] = "unknown" THEN r.zone ELSE @]
  /\ silence' = [silence EXCEPT ![n] = 0]
  /\ reportedSeq' = [reportedSeq EXCEPT ![n] = q]
  /\ gapCount' = [gapCount EXCEPT ![n] = @ + Missing(n, q)]
  /\ announced' = IF Announces(n, q)
                  THEN [announced EXCEPT ![n] = "online"]
                  ELSE announced
  /\ lastSeq' = [lastSeq EXCEPT ![n] = Highest(n, q)]
  /\ fill' = [fill EXCEPT ![n] =
                Smooth(IF IsReset(n, q) THEN EmptyWindows ELSE @, r.sensor)]
  /\ readings' = SaveReading(r)
  /\ UNCHANGED sinceCheck

HandleSensorReading(r) == DropDuplicate(r) \/ AcceptReading(r)

-----------------------------------------------------------------------------
HandleNodeStatus(u) ==
  /\ status' = [status EXCEPT ![u.node] = u.status]
  /\ zone' = [zone EXCEPT ![u.node] = u.zone]
  /\ silence' = [silence EXCEPT ![u.node] = 0]
  /\ fill' = IF u.status = "offline"
             THEN ResetNode(u.node)
             ELSE fill
  /\ announced' = [announced EXCEPT ![u.node] = u.status]
  /\ UNCHANGED <<seen, lastSeq, reportedSeq, gapCount, readings, sinceCheck>>

\* Mutation: only nodes that were announced are watched.
IsStaleAnnounced(n) == announced[n] = "online" /\ silence[n] > StaleTimeout
IsStale(n) == status[n] = "online" /\ silence[n] > StaleTimeout

CheckStaleNodes ==
  /\ sinceCheck = CheckPeriod
  /\ sinceCheck' = 0
  /\ status' = [n \in Node |-> IF IsStale(n) THEN "offline" ELSE status[n]]
  /\ announced' = [n \in Node |-> IF IsStale(n) THEN "offline" ELSE announced[n]]
  /\ fill' = [n \in Node |-> IF IsStale(n) THEN EmptyWindows ELSE fill[n]]
  /\ UNCHANGED <<seen, lastSeq, zone, reportedSeq, gapCount, silence, readings>>

\* A second passes.  The interval timer is due every CheckPeriod seconds and
\* the event loop runs it before time moves on.
Tick ==
  /\ sinceCheck < CheckPeriod
  /\ sinceCheck' = sinceCheck + 1
  /\ silence' = [n \in Node |->
                   IF status[n] # "unknown" /\ silence[n] < MaxSilence
                   THEN silence[n] + 1 ELSE silence[n]]
  /\ UNCHANGED <<seen, lastSeq, status, zone, reportedSeq, gapCount, fill,
                 announced, readings>>

Next ==
  \/ \E r \in Reading : HandleSensorReading(r)
  \/ \E u \in StatusUpdate : HandleNodeStatus(u)
  \/ CheckStaleNodes
  \/ Tick

Spec == Init /\ [][Next]_vars

-----------------------------------------------------------------------------
TypeOK ==
  /\ seen \in [Node -> Seq(Key)]
  /\ lastSeq \in [Node -> SeqNum \cup {NoSeq}]
  /\ status \in [Node -> {"unknown", "online", "offline"}]
  /\ zone \in [Node -> Zone]
  /\ reportedSeq \in [Node -> SeqNum \cup {NoSeq}]
  /\ gapCount \in [Node -> Nat]
  /\ silence \in [Node -> 0 .. MaxSilence]
  /\ fill \in [Node -> [Sensor -> Nat]]
  /\ announced \in [Node -> {"unknown", "online", "offline"}]
  /\ readings \in [Node -> Seq(Key)]
  /\ sinceCheck \in 0 .. CheckPeriod

(***************************************************************************)
(* What deduplication by the bounded set of recent keys does guarantee:    *)
(* two stored readings of a node with the same sensor type and sequence    *)
(* number have at least SeenCap other readings stored between them.        *)
(* (seenSequences, 73-88, feeding MemoryStorageService.)                   *)
(***************************************************************************)
ApartInStore(stored) ==
  \A i, j \in 1 .. Len(stored) :
    i < j /\ stored[i] = stored[j] => j - i > SeenCap

DedupHorizon == \A n \in Node : ApartInStore(readings[n])

(***************************************************************************)
(* The set of recent keys is exactly the last SeenCap readings stored,     *)
(* whatever resets, status changes and timeouts came in between: eviction  *)
(* order and arrival order never drift apart.                              *)
(***************************************************************************)
LatestOf(keys, stored) ==
  /\ Len(keys) = IF Len(stored) < SeenCap THEN Len(stored) ELSE SeenCap
  /\ \A i \in 1 .. Len(keys) : keys[i] = stored[Len(stored) - Len(keys) + i]

SeenIsRecentReadings == \A n \in Node : LatestOf(seen[n], readings[n])

(***************************************************************************)
(* A node shown online was heard from within the stale timeout plus one    *)
(* watchdog period: no order of readings, status messages and watchdog     *)
(* runs leaves a silent node online for longer.                            *)
(***************************************************************************)
OnlineIsFresh ==
  \A n \in Node : status[n] = "online" => silence[n] <= StaleTimeout + CheckPeriod

(***************************************************************************)
(* Listeners of 'node.status.changed' that have heard of a node at all     *)
(* hold its current status, and an offline node has always been announced  *)
(* (alerts.service raises its node-offline alert from that event).         *)
(***************************************************************************)
AnnouncementIsCurrent ==
  \A n \in Node :
    /\ announced[n] # "unknown" => announced[n] = status[n]
    /\ status[n] = "offline" => announced[n] = "offline"

(***************************************************************************)
(* An offline node has no values left in its filter windows, so the first  *)
(* readings after it returns are not averaged with those from before; and  *)
(* no window ever outgrows the size configured for its channel.            *)
(***************************************************************************)
FilterStartsAfresh ==
  \A n \in Node : \A s \in Sensor :
    /\ status[n] # "online" => fill[n][s] = 0
    /\ fill[n][s] <= WindowSize[s]

(***************************************************************************)
(* The sequence number shown in a node's status (that of the last reading  *)
(* accepted) never exceeds the one gaps are measured from, and trails it   *)
(* by at most the reordering span.                                         *)
(***************************************************************************)
ReportedSequenceTrails ==
  \A n \in Node :
    /\ reportedSeq[n] = NoSeq <=> lastSeq[n] = NoSeq
    /\ lastSeq[n] # NoSeq =>
         /\ reportedSeq[n] <= lastSeq[n]
         /\ lastSeq[n] <= reportedSeq[n] + ReorderSpan

(***************************************************************************)
(* The highest sequence number goes back only by more than the reordering  *)
(* span, and the step that takes it back counts no gap and leaves nothing  *)
(* of the earlier numbering in the filter (reset handling, 96-152).        *)
(***************************************************************************)
ResetStartsAfresh ==
  [][\A n \in Node :
       lastSeq[n] # NoSeq /\ lastSeq'[n] # lastSeq[n] /\ ~(lastSeq'[n] > lastSeq[n]) =>
         /\ lastSeq[n] > lastSeq'[n] + ReorderSpan
         /\ gapCount'[n] = gapCount[n]
         /\ \A s \in Sensor : fill'[n][s] <= 1]_vars

=============================================================================
