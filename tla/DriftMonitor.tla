---------------------------- MODULE DriftMonitor ----------------------------
(***************************************************************************)
(* The inference server's rolling window of predicted classes, and the     *)
(* status bar of the dashboard that polls it.                              *)
(*                                                                         *)
(* /predict and /drift are plain functions, which the framework runs in    *)
(* threads of a pool, and the monitor takes no lock.  CPython 3.12, the    *)
(* image's, switches threads when a function is entered and when a call of *)
(* a built-in returns; what lies between is one step here.                 *)
(*                                                                         *)
(* The share of one class stands for the distribution, its distance from   *)
(* the baseline's share, both in parts of the window, for the total        *)
(* variation distance.  The time-out of a poll is below its period.        *)
(***************************************************************************)
EXTENDS Naturals, Sequences, FiniteSets

CONSTANTS
  Thread,          (* requests the server works on at once                 *)
  WindowSize,      (* window_size, 500                                     *)
  LogInterval,     (* log_interval, 50                                     *)
  MinSamples,      (* samples a verdict of drift needs, 50                 *)
  MaxPredictions,  (* bound                                                *)
  MaxTimeouts      (* bound: polls given up                                *)

ASSUME DriftMonitorAssumption ==
  /\ {WindowSize, LogInterval, MinSamples} \subseteq Nat \ {0}
  /\ {MaxPredictions, MaxTimeouts} \subseteq Nat

Class == {"normal", "risk"}

VARIABLES
  (* RollingDriftMonitor. *)
  history,         (* the deque                                            *)
  predictionCount,
  lastLoggedCount,
  lastDriftStatus,
  (* Requests under way. *)
  at,              (* what each thread does next                           *)
  request,         (* "predict", "drift", or "dropped" when given up       *)
  read,            (* what it has read of the monitor for its evaluation   *)
  (* The status bar. *)
  polling,
  isLiveOnline,
  driftInfo,       (* the status shown                                     *)
  timeouts

monitor == <<history, predictionCount, lastLoggedCount, lastDriftStatus>>
bar == <<polling, isLiveOnline, driftInfo, timeouts>>
vars == <<monitor, at, request, read, bar>>

NothingRead == [risk |-> 0, samples |-> 0, total |-> 0]
Initializing == [risk |-> 0, samples |-> 0, total |-> 0, drift |-> FALSE]

Init ==
  /\ history = <<>>
  /\ predictionCount = 0
  /\ lastLoggedCount = 0
  /\ lastDriftStatus = Initializing
  /\ at = [t \in Thread |-> "idle"]
  /\ request = [t \in Thread |-> "predict"]
  /\ read = [t \in Thread |-> NothingRead]
  /\ polling = FALSE
  /\ isLiveOnline = FALSE
  /\ driftInfo = Initializing
  /\ timeouts = 0

Goes(t, step) == at' = [at EXCEPT ![t] = step]

-----------------------------------------------------------------------------
(***************************************************************************)
(* record_prediction.                                                      *)
(***************************************************************************)
\* deque(maxlen=window_size).
Appended(class) ==
  LET longer == Append(history, class)
  IN IF Len(longer) > WindowSize THEN Tail(longer) ELSE longer

AppendPrediction(t, class) ==
  /\ at[t] = "idle"
  /\ predictionCount + Cardinality({u \in Thread : at[u] = "count"}) < MaxPredictions
  /\ history' = Appended(class)
  /\ request' = [request EXCEPT ![t] = "predict"]
  /\ Goes(t, "count")
  /\ UNCHANGED <<predictionCount, lastLoggedCount, lastDriftStatus, read, bar>>

\* Mutation: one later.
IsDueLate(count) == count - lastLoggedCount > LogInterval \/ count = WindowSize
IsDue(count) == count - lastLoggedCount >= LogInterval \/ count = WindowSize

CountPrediction(t) ==
  /\ at[t] = "count"
  /\ predictionCount' = predictionCount + 1
  /\ Goes(t, IF IsDue(predictionCount') THEN "copy" ELSE "idle")
  /\ UNCHANGED <<history, lastLoggedCount, lastDriftStatus, request, read, bar>>

-----------------------------------------------------------------------------
(***************************************************************************)
(* _evaluate_drift, for predictions and for polls.                         *)
(***************************************************************************)
RiskIn(window) == Cardinality({i \in 1 .. Len(window) : window[i] = "risk"})

\* Mutation: windows too short for a verdict are not evaluated.
NothingToEvaluateYet == Len(history) < MinSamples
NothingToEvaluate == history = <<>>

CountClasses(t) ==
  /\ at[t] = "copy"
  /\ ~ NothingToEvaluate
  /\ read' = [read EXCEPT ![t].risk = RiskIn(history)]
  /\ Goes(t, "size")
  /\ UNCHANGED <<monitor, request, bar>>

CountSamples(t) ==
  /\ at[t] = "size"
  /\ read' = [read EXCEPT ![t].samples = Len(history)]
  /\ Goes(t, "total")
  /\ UNCHANGED <<monitor, request, bar>>

ReadTotal(t) ==
  /\ at[t] = "total"
  /\ read' = [read EXCEPT ![t].total = predictionCount]
  /\ Goes(t, "publish")
  /\ UNCHANGED <<monitor, request, bar>>

\* A baseline of one in ten, and a threshold of two.
IsDrift(r) == r.samples >= MinSamples /\ 10 * r.risk >= 3 * r.samples

Status(r) == [risk |-> r.risk, samples |-> r.samples, total |-> r.total, drift |-> IsDrift(r)]

\* A poll given up meanwhile is answered in vain.
Answer(t, status) ==
  IF request[t] = "drift"
  THEN polling' = FALSE /\ isLiveOnline' = TRUE /\ driftInfo' = status
  ELSE UNCHANGED <<polling, isLiveOnline, driftInfo>>

PublishStatus(t) ==
  /\ at[t] = "publish"
  /\ lastDriftStatus' = Status(read[t])
  /\ lastLoggedCount' = IF request[t] = "predict" THEN predictionCount ELSE lastLoggedCount
  /\ Answer(t, lastDriftStatus')
  /\ read' = [read EXCEPT ![t] = NothingRead]
  /\ Goes(t, "idle")
  /\ UNCHANGED <<history, predictionCount, request, timeouts>>

\* The status stays as it is.
SkipEvaluation(t) ==
  /\ at[t] = "copy"
  /\ NothingToEvaluate
  /\ lastLoggedCount' = IF request[t] = "predict" THEN predictionCount ELSE lastLoggedCount
  /\ Answer(t, lastDriftStatus)
  /\ Goes(t, "idle")
  /\ UNCHANGED <<history, predictionCount, lastDriftStatus, request, read, timeouts>>

-----------------------------------------------------------------------------
(***************************************************************************)
(* MlFleetStatusBar.                                                       *)
(***************************************************************************)
GetDrift(t) ==
  /\ at[t] = "idle"
  /\ ~ polling
  /\ polling' = TRUE
  /\ request' = [request EXCEPT ![t] = "drift"]
  /\ Goes(t, "copy")
  /\ UNCHANGED <<monitor, read, isLiveOnline, driftInfo, timeouts>>

PollTimesOut ==
  /\ polling
  /\ timeouts < MaxTimeouts
  /\ timeouts' = timeouts + 1
  /\ polling' = FALSE
  /\ isLiveOnline' = FALSE
  /\ request' = [t \in Thread |-> IF request[t] = "drift" THEN "dropped" ELSE request[t]]
  /\ UNCHANGED <<monitor, at, read, driftInfo>>

Evaluate(t) == CountClasses(t) \/ CountSamples(t) \/ ReadTotal(t) \/ PublishStatus(t) \/ SkipEvaluation(t)

Next ==
  \/ \E t \in Thread, class \in Class : AppendPrediction(t, class)
  \/ \E t \in Thread : CountPrediction(t) \/ Evaluate(t) \/ GetDrift(t)
  \/ PollTimesOut

\* Threads are scheduled, and the bar polls every five seconds.
Fairness ==
  /\ \A t \in Thread : WF_vars(CountPrediction(t)) /\ WF_vars(Evaluate(t))
  /\ WF_vars(\E t \in Thread : GetDrift(t))

Spec == Init /\ [][Next]_vars /\ Fairness

-----------------------------------------------------------------------------
StatusType == [risk : Nat, samples : Nat, total : Nat, drift : BOOLEAN]

FlagsOK ==
  /\ polling \in BOOLEAN
  /\ isLiveOnline \in BOOLEAN

TypeOK ==
  /\ history \in Seq(Class) /\ Len(history) <= WindowSize
  /\ predictionCount \in Nat
  /\ lastLoggedCount \in 0 .. predictionCount
  /\ lastDriftStatus \in StatusType
  /\ at \in [Thread -> {"idle", "count", "copy", "size", "total", "publish"}]
  /\ request \in [Thread -> {"predict", "drift", "dropped"}]
  /\ read \in [Thread -> [risk : Nat, samples : Nat, total : Nat]]
  /\ FlagsOK
  /\ driftInfo \in StatusType
  /\ timeouts \in 0 .. MaxTimeouts

(***************************************************************************)
(* However the threads are switched, no evaluation is missed: when a whole *)
(* interval has gone by since the last one that was logged, a prediction's *)
(* thread is at it (56-62).                                                *)
(***************************************************************************)
EvaluationIsDue == predictionCount - lastLoggedCount >= LogInterval

NoEvaluationMissed ==
  EvaluationIsDue =>
    \E t \in Thread : request[t] = "predict" /\ at[t] \in {"copy", "size", "total", "publish"}

(***************************************************************************)
(* When predictions cease and the server answers, the bar comes to show    *)
(* the verdict on the whole window, although an older evaluation may       *)
(* overwrite a newer one (96-110; MlFleetStatusBar.tsx 60-94).             *)
(***************************************************************************)
Verdict == Status([risk |-> RiskIn(history), samples |-> Len(history), total |-> predictionCount])

BarShowsVerdict ==
  <>[](history # <<>> => driftInfo = Verdict)

=============================================================================
