--------------------------- MODULE MlServer_proofs ---------------------------
(***************************************************************************)
(* Proofs about the ML server: DriftMonitor, then Training.                *)
(*                                                                         *)
(* DriftMonitor, for any number of threads and any window and intervals:   *)
(* however the unlocked methods interleave, no evaluation that is due is   *)
(* missed.  NoEvaluationMissed is not inductive: an evaluation that finds  *)
(* nothing to evaluate ends without a log entry.  That a prediction is in  *)
(* the deque before it is counted excludes it.                             *)
(*                                                                         *)
(* Training, for any losses, epochs, patience and numbers of rows and      *)
(* runs: the four properties the run checks, from one invariant.  Labels   *)
(* stay because every row in the log is whole; the best epoch is kept      *)
(* because the loop's patience counts the epochs since it; statistics      *)
(* belong to weights because the numbers of the runs are in order.         *)
(***************************************************************************)
EXTENDS DriftMonitor, Training, TLAPS, FiniteSetTheorems

\* A thread counts its own prediction, which is in the deque by then.
CountsWhatIsThere ==
  /\ \A t \in Thread : at[t] = "count" => request[t] = "predict" /\ history # <<>>
  /\ predictionCount > 0 => history # <<>>

IInv == TypeOK /\ CountsWhatIsThere /\ NoEvaluationMissed

\* The deque keeps the newest, never more than the window, and is not empty.
LEMMA AppendedType ==
  ASSUME TypeOK, NEW class \in Class
  PROVE  /\ Appended(class) \in Seq(Class)
         /\ Len(Appended(class)) <= WindowSize
         /\ Appended(class) # <<>>
  <1>. DEFINE longer == Append(history, class)
  <1>1. history \in Seq(Class) /\ Len(history) \in Nat /\ Len(history) <= WindowSize /\ WindowSize \in Nat /\ WindowSize > 0
    BY DriftMonitorAssumption DEF TypeOK
  <1>2. longer \in Seq(Class) /\ Len(longer) = Len(history) + 1
    BY <1>1
  <1>. HIDE DEF longer
  <1>3. CASE Len(longer) > WindowSize
    <2>1. longer # <<>> /\ Tail(longer) \in Seq(Class) /\ Len(Tail(longer)) = Len(longer) - 1
      BY <1>1, <1>2
    <2>2. Appended(class) = Tail(longer)
      BY <1>3 DEF Appended, longer
    <2>. QED BY <1>1, <1>2, <1>3, <2>1, <2>2
  <1>4. CASE ~ (Len(longer) > WindowSize)
    <2>1. Appended(class) = longer
      BY <1>4 DEF Appended, longer
    <2>. QED BY <1>1, <1>2, <1>4, <2>1
  <1>. QED BY <1>3, <1>4

LEMMA RiskInType ==
  ASSUME NEW window \in Seq(Class)
  PROVE  RiskIn(window) \in Nat
  <1>. DEFINE risky == {i \in 1 .. Len(window) : window[i] = "risk"}
  <1>1. IsFiniteSet(1 .. Len(window))
    BY FS_Interval
  <1>2. IsFiniteSet(risky)
    BY <1>1, FS_Subset
  <1>. QED BY <1>2, FS_CardinalityType DEF RiskIn

LEMMA StatusIsTyped ==
  ASSUME NEW r \in [risk : Nat, samples : Nat, total : Nat]
  PROVE  Status(r) \in StatusType
  <1>1. IsDrift(r) \in BOOLEAN
    BY DEF IsDrift
  <1>. QED BY <1>1 DEF Status, StatusType

\* What a poll's answer does to the bar.
LEMMA AnswerType ==
  ASSUME TypeOK, NEW t \in Thread, NEW status \in StatusType, Answer(t, status)
  PROVE  FlagsOK' /\ driftInfo' \in StatusType
  <1>1. CASE request[t] = "drift"
    BY <1>1 DEF Answer, FlagsOK
  <1>2. CASE request[t] # "drift"
    BY <1>2 DEF Answer, FlagsOK, TypeOK
  <1>. QED BY <1>1, <1>2

LEMMA InitIInv == Init => IInv
  <1>. SUFFICES ASSUME Init PROVE IInv
    OBVIOUS
  <1>1. FlagsOK
    BY DEF Init, FlagsOK
  <1>2. history \in Seq(Class) /\ Len(history) = 0
    BY DEF Init
  <1>3. TypeOK
    <2>1. Initializing \in StatusType /\ NothingRead \in [risk : Nat, samples : Nat, total : Nat]
      BY DEF Initializing, NothingRead, StatusType
    <2>. QED BY <1>1, <1>2, <2>1, DriftMonitorAssumption DEF Init, TypeOK
  <1>4. CountsWhatIsThere
    BY DEF Init, CountsWhatIsThere
  <1>5. NoEvaluationMissed
    BY DriftMonitorAssumption DEF Init, NoEvaluationMissed, EvaluationIsDue
  <1>. QED BY <1>3, <1>4, <1>5 DEF IInv

LEMMA AppendIInv ==
  ASSUME IInv, NEW t \in Thread, NEW class \in Class, AppendPrediction(t, class)
  PROVE  IInv'
  <1>1. /\ at[t] = "idle"
        /\ history' = Appended(class)
        /\ request' = [request EXCEPT ![t] = "predict"]
        /\ at' = [at EXCEPT ![t] = "count"]
        /\ UNCHANGED <<predictionCount, lastLoggedCount, lastDriftStatus, read, driftInfo, timeouts>>
    BY DEF AppendPrediction, Goes, bar
  <1>2. FlagsOK'
    BY DEF AppendPrediction, bar, IInv, TypeOK, FlagsOK
  <1>3. /\ history' \in Seq(Class) /\ Len(history') <= WindowSize /\ history' # <<>>
    BY <1>1, AppendedType DEF IInv
  <1>4. TypeOK'
    BY <1>1, <1>2, <1>3 DEF IInv, TypeOK
  <1>5. CountsWhatIsThere'
    BY <1>1, <1>3 DEF IInv, TypeOK, CountsWhatIsThere
  <1>6. NoEvaluationMissed'
    BY <1>1 DEF IInv, TypeOK, NoEvaluationMissed, EvaluationIsDue
  <1>. QED BY <1>4, <1>5, <1>6 DEF IInv

\* The thread that finds the evaluation due goes on to it.
LEMMA CountIInv ==
  ASSUME IInv, NEW t \in Thread, CountPrediction(t)
  PROVE  IInv'
  <1>1. /\ at[t] = "count"
        /\ predictionCount' = predictionCount + 1
        /\ at' = [at EXCEPT ![t] = IF IsDue(predictionCount') THEN "copy" ELSE "idle"]
        /\ UNCHANGED <<history, lastLoggedCount, lastDriftStatus, request, read, driftInfo, timeouts>>
    BY DEF CountPrediction, Goes, bar
  <1>2. FlagsOK'
    BY DEF CountPrediction, bar, IInv, TypeOK, FlagsOK
  <1>3. TypeOK'
    BY <1>1, <1>2 DEF IInv, TypeOK
  <1>4. CountsWhatIsThere'
    BY <1>1 DEF IInv, TypeOK, CountsWhatIsThere
  <1>5. NoEvaluationMissed'
    <2>. SUFFICES ASSUME EvaluationIsDue'
                  PROVE  request'[t] = "predict" /\ at'[t] = "copy"
      BY DEF NoEvaluationMissed
    <2>1. IsDue(predictionCount')
      BY <1>1 DEF IsDue, EvaluationIsDue
    <2>. QED BY <1>1, <2>1 DEF IInv, TypeOK, CountsWhatIsThere
  <1>. QED BY <1>3, <1>4, <1>5 DEF IInv

\* The three steps that read the monitor.
LEMMA ReadIInv ==
  ASSUME IInv, NEW t \in Thread, CountClasses(t) \/ CountSamples(t) \/ ReadTotal(t)
  PROVE  IInv'
  <1>1. PICK step \in {"size", "total", "publish"} :
          /\ at[t] \in {"copy", "size", "total"}
          /\ at' = [at EXCEPT ![t] = step]
    BY DEF CountClasses, CountSamples, ReadTotal, Goes
  <1>2. UNCHANGED <<history, predictionCount, lastLoggedCount, lastDriftStatus, request, driftInfo, timeouts>>
    BY DEF CountClasses, CountSamples, ReadTotal, monitor, bar
  <1>3. read' \in [Thread -> [risk : Nat, samples : Nat, total : Nat]]
    <2>1. RiskIn(history) \in Nat /\ Len(history) \in Nat /\ predictionCount \in Nat
      BY RiskInType DEF IInv, TypeOK
    <2>2. read \in [Thread -> [risk : Nat, samples : Nat, total : Nat]]
      BY DEF IInv, TypeOK
    <2>3. \/ read' = [read EXCEPT ![t].risk = RiskIn(history)]
          \/ read' = [read EXCEPT ![t].samples = Len(history)]
          \/ read' = [read EXCEPT ![t].total = predictionCount]
      BY DEF CountClasses, CountSamples, ReadTotal
    <2>. QED BY <2>1, <2>2, <2>3
  <1>4. FlagsOK'
    BY DEF CountClasses, CountSamples, ReadTotal, bar, IInv, TypeOK, FlagsOK
  <1>5. TypeOK'
    BY <1>1, <1>2, <1>3, <1>4 DEF IInv, TypeOK
  <1>6. CountsWhatIsThere'
    BY <1>1, <1>2 DEF IInv, TypeOK, CountsWhatIsThere
  <1>7. NoEvaluationMissed'
    BY <1>1, <1>2 DEF IInv, TypeOK, NoEvaluationMissed, EvaluationIsDue
  <1>. QED BY <1>5, <1>6, <1>7 DEF IInv

\* A prediction's evaluation logs the count, so nothing is due any more.
LEMMA PublishIInv ==
  ASSUME IInv, NEW t \in Thread, PublishStatus(t)
  PROVE  IInv'
  <1>1. /\ at[t] = "publish"
        /\ lastDriftStatus' = Status(read[t])
        /\ lastLoggedCount' = IF request[t] = "predict" THEN predictionCount ELSE lastLoggedCount
        /\ Answer(t, lastDriftStatus')
        /\ read' = [read EXCEPT ![t] = NothingRead]
        /\ at' = [at EXCEPT ![t] = "idle"]
        /\ UNCHANGED <<history, predictionCount, request, timeouts>>
    BY DEF PublishStatus, Goes
  <1>2. lastDriftStatus' \in StatusType
    BY <1>1, StatusIsTyped DEF IInv, TypeOK
  <1>3. FlagsOK' /\ driftInfo' \in StatusType
    BY <1>1, <1>2, AnswerType DEF IInv
  <1>4. TypeOK'
    <2>1. NothingRead \in [risk : Nat, samples : Nat, total : Nat]
      BY DEF NothingRead
    <2>. QED BY <1>1, <1>2, <1>3, <2>1 DEF IInv, TypeOK
  <1>5. CountsWhatIsThere'
    BY <1>1 DEF IInv, TypeOK, CountsWhatIsThere
  <1>6. NoEvaluationMissed'
    <2>1. CASE request[t] = "predict"
      <3>1. ~ EvaluationIsDue'
        BY <1>1, <2>1, DriftMonitorAssumption DEF IInv, TypeOK, EvaluationIsDue
      <3>. QED BY <3>1 DEF NoEvaluationMissed
    <2>2. CASE request[t] # "predict"
      BY <1>1, <2>2 DEF IInv, TypeOK, NoEvaluationMissed, EvaluationIsDue
    <2>. QED BY <2>1, <2>2
  <1>. QED BY <1>4, <1>5, <1>6 DEF IInv

\* Without samples nothing has been counted, and nothing is due.
LEMMA SkipIInv ==
  ASSUME IInv, NEW t \in Thread, SkipEvaluation(t)
  PROVE  IInv'
  <1>1. /\ history = <<>>
        /\ Answer(t, lastDriftStatus)
        /\ at' = [at EXCEPT ![t] = "idle"]
        /\ UNCHANGED <<history, predictionCount, lastDriftStatus, request, read, timeouts>>
        /\ lastLoggedCount' \in {lastLoggedCount, predictionCount}
    BY DEF SkipEvaluation, NothingToEvaluate, Goes
  <1>2. FlagsOK' /\ driftInfo' \in StatusType
    BY <1>1, AnswerType DEF IInv, TypeOK
  <1>3. TypeOK'
    BY <1>1, <1>2 DEF IInv, TypeOK
  <1>4. CountsWhatIsThere'
    BY <1>1 DEF IInv, TypeOK, CountsWhatIsThere
  <1>5. NoEvaluationMissed'
    <2>1. predictionCount = 0 /\ lastLoggedCount = 0
      BY <1>1 DEF IInv, TypeOK, CountsWhatIsThere
    <2>. QED BY <1>1, <2>1, DriftMonitorAssumption DEF NoEvaluationMissed, EvaluationIsDue
  <1>. QED BY <1>3, <1>4, <1>5 DEF IInv

\* The polls of the bar take idle threads, and drop only their own requests.
LEMMA PollIInv ==
  ASSUME IInv, PollTimesOut \/ \E t \in Thread : GetDrift(t)
  PROVE  IInv'
  <1>1. UNCHANGED <<history, predictionCount, lastLoggedCount, lastDriftStatus, read, driftInfo>>
    BY DEF PollTimesOut, GetDrift, monitor
  <1>2. FlagsOK'
    BY DEF PollTimesOut, GetDrift, IInv, TypeOK, FlagsOK
  <1>3. CASE PollTimesOut
    <2>1. /\ at' = at
          /\ request' = [t \in Thread |-> IF request[t] = "drift" THEN "dropped" ELSE request[t]]
          /\ timeouts' \in 0 .. MaxTimeouts
      BY <1>3, DriftMonitorAssumption DEF PollTimesOut, IInv, TypeOK
    <2>2. TypeOK'
      BY <1>1, <1>2, <2>1 DEF IInv, TypeOK
    <2>3. CountsWhatIsThere'
      BY <1>1, <2>1 DEF IInv, TypeOK, CountsWhatIsThere
    <2>4. NoEvaluationMissed'
      BY <1>1, <2>1 DEF IInv, TypeOK, NoEvaluationMissed, EvaluationIsDue
    <2>. QED BY <2>2, <2>3, <2>4 DEF IInv
  <1>4. ASSUME NEW t \in Thread, GetDrift(t)
        PROVE  IInv'
    <2>1. /\ at[t] = "idle"
          /\ request' = [request EXCEPT ![t] = "drift"]
          /\ at' = [at EXCEPT ![t] = "copy"]
          /\ timeouts' = timeouts
      BY <1>4 DEF GetDrift, Goes
    <2>2. TypeOK'
      BY <1>1, <1>2, <2>1 DEF IInv, TypeOK
    <2>3. CountsWhatIsThere'
      BY <1>1, <2>1 DEF IInv, TypeOK, CountsWhatIsThere
    <2>4. NoEvaluationMissed'
      BY <1>1, <2>1 DEF IInv, TypeOK, NoEvaluationMissed, EvaluationIsDue
    <2>. QED BY <2>2, <2>3, <2>4 DEF IInv
  <1>. QED BY <1>3, <1>4

LEMMA StutterIInv ==
  ASSUME IInv, UNCHANGED vars
  PROVE  IInv'
  <1>1. FlagsOK'
    BY DEF vars, bar, IInv, TypeOK, FlagsOK
  <1>2. TypeOK'
    BY <1>1 DEF vars, monitor, bar, IInv, TypeOK
  <1>3. CountsWhatIsThere' /\ NoEvaluationMissed'
    BY DEF vars, monitor, bar, IInv, CountsWhatIsThere, NoEvaluationMissed, EvaluationIsDue
  <1>. QED BY <1>2, <1>3 DEF IInv

LEMMA NextIInv ==
  ASSUME IInv, [Next]_vars
  PROVE  IInv'
  BY AppendIInv, CountIInv, ReadIInv, PublishIInv, SkipIInv, PollIInv, StutterIInv DEF Next, Evaluate

(***************************************************************************)
(* The deque never holds more than its window, and an evaluation is never  *)
(* logged at a count not yet reached (record_prediction, 46-62).           *)
(***************************************************************************)
THEOREM TypeCorrect == Spec => []TypeOK
  <1>1. IInv => TypeOK
    BY DEF IInv
  <1>. QED BY <1>1, InitIInv, NextIInv, PTL DEF Spec

(***************************************************************************)
(* However many threads record predictions and answer polls at once, and   *)
(* whatever the window and the intervals: when a whole interval has gone   *)
(* by, a prediction's thread is evaluating (record_prediction, 56-62).     *)
(***************************************************************************)
THEOREM EvaluationsAreNotMissed == Spec => []NoEvaluationMissed
  <1>1. IInv => NoEvaluationMissed
    BY DEF IInv
  <1>. QED BY <1>1, InitIInv, NextIInv, PTL DEF Spec

-----------------------------------------------------------------------------
(***************************************************************************)
(* Training: the invariant.                                                *)
(***************************************************************************)
RowsAreWhole == \A i \in DOMAIN log : log[i].window = "whole"

\* The label an example comes with.
OwnLabel(loaded, x) == IF x[1] = "data" THEN x[2] ELSE loaded[x[2]].label

\* Windows and labels are of the same examples.
JobIsLabelled ==
  stage \in {"loaded", "training"} =>
    /\ Len(job.X) = Len(job.y)
    /\ \A k \in DOMAIN job.X : job.y[k] = OwnLabel(job.loaded, job.X[k])

\* Epochs whose loss is a number.
KnownLosses(losses) == {e \in DOMAIN losses : losses[e] # NaN}

\* The loop remembers the first of the best epochs, and how long ago it was.
IsProgress(f) ==
  LET known == KnownLosses(f.losses) IN
  /\ f.epoch = Len(f.losses)
  /\ f.weights = f.epoch
  /\ f.patience <= PatienceLimit
  /\ known = {} => f.bestState = None /\ f.bestLoss = Inf
  /\ known # {} =>
       /\ f.bestState \in known
       /\ f.bestLoss = f.losses[f.bestState]
       /\ \A e \in known : f.losses[e] > f.bestLoss \/ (f.losses[e] = f.bestLoss /\ e >= f.bestState)
       /\ f.patience = Len(f.losses) - f.bestState

Progress == IsProgress(fit)

FitIsSound ==
  /\ stage = "loaded" => fit = NoFit
  /\ stage \in {"training", "trained"} => Progress
  /\ stage = "training" => fit.patience < PatienceLimit
  /\ BestIsKept

\* What is saved or served is of an earlier run, until this one saves.
RunsAreOrdered ==
  /\ \A t \in ModelType : IsCheckpoint(registry[t]) => registry[t].run <= runs
  /\ server # None => server.run <= runs
  /\ stage \in {"loaded", "training", "trained", "restored", "writing"} =>
       /\ \A t \in ModelType : IsCheckpoint(registry[t]) => registry[t].run < runs
       /\ server # None => server.run < runs
  /\ stage \in {"saved", "stats saved"} =>
       /\ registry[job.type].run = runs /\ registry[job.type].stats = job.stats
       /\ IsCheckpoint(registry[job.type])
       /\ \A t \in ModelType \ {job.type} : IsCheckpoint(registry[t]) => registry[t].run < runs

ReadsForEvaluation == ReadTestSplit \/ ReadBaseline \/ ReadHybrid

\* Between runs the split is that of the last one, unless a crash left it behind.
SplitIsOfLastRun ==
  stage \notin Saving /\ ~ interrupted =>
    \A t \in ModelType :
      /\ IsCheckpoint(registry[t])
      /\ \A u \in ModelType : IsCheckpoint(registry[u]) => registry[u].run <= registry[t].run
      => registry[t].stats = split

\* What an undisturbed evaluation has read is what there is.
EvaluationIsCurrent ==
  evaluation # None /\ ~ evaluation.disturbed /\ ~ interrupted =>
    /\ stage \notin Saving
    /\ evaluation.given = split
    /\ evaluation.baseline # None => evaluation.baseline = registry["baseline"]

TrainingInv ==
  /\ TrainingTypeOK
  /\ RowsAreWhole
  /\ JobIsLabelled
  /\ FitIsSound
  /\ RunsAreOrdered
  /\ SplitIsOfLastRun
  /\ EvaluationIsCurrent
  /\ StatsBelongToWeights

-----------------------------------------------------------------------------
\* A window lies in the stretch it is taken from.
LEMMA WindowIsWithin ==
  ASSUME NEW n \in Nat, NEW from \in Nat, NEW to \in Nat, NEW stride \in Nat \ {0},
         NEW w \in WindowReadingsSegment(n, from, to, stride)
  PROVE  /\ w.node = n
         /\ {w.from, w.to} \subseteq Nat
         /\ from <= w.from /\ w.to <= to
  <1>1. PICK s \in {t \in from .. to - WINDOW_LEN : (t - from) % stride = 0} :
          w = [node |-> n, from |-> s, to |-> s + WINDOW_LEN, class |-> WindowClass(n, s, s + WINDOW_LEN)]
    BY DEF WindowReadingsSegment
  <1>. QED BY <1>1 DEF WINDOW_LEN

LEMMA NodeIsWhole ==
  ASSUME NEW nodes \in SUBSET Nat, NEW w \in WholeNodes(nodes)
  PROVE  w.node \in nodes /\ {w.from, w.to} \subseteq Nat
  <1>1. PICK n \in nodes : w \in WindowReadingsSegment(n, 0, ReadingsPerNode, WINDOW_STRIDE)
    BY DEF WholeNodes
  <1>2. n \in Nat /\ ReadingsPerNode \in Nat /\ 0 \in Nat /\ WINDOW_STRIDE \in Nat \ {0}
    BY DEF ReadingsPerNode, WINDOW_STRIDE
  <1>. QED BY <1>1, <1>2, WindowIsWithin

\* Where the windows of each part lie.
LEMMA PartsAreApart ==
  /\ \A w \in TrainWindows : w.node \in 1 .. 9 \/ (w.node = 13 /\ w.to <= 880)
  /\ \A w \in ValWindows : w.node \in 10 .. 12 \/ (w.node = 13 /\ w.from >= 880)
  /\ \A w \in TestWindows : w.node \in {14, 15}
  /\ \A w \in TrainWindows \cup ValWindows \cup TestWindows : {w.from, w.to} \subseteq Nat
  <1>. DEFINE Seg(n, from, to, stride) == WindowReadingsSegment(n, from, to, stride)
  <1>1. \A w \in Seg(13, 0, 720, WINDOW_STRIDE) : w.node = 13 /\ {w.from, w.to} \subseteq Nat /\ w.to <= 720
    BY WindowIsWithin DEF WINDOW_STRIDE
  <1>2. \A w \in Seg(13, 720, 880, 1) : w.node = 13 /\ {w.from, w.to} \subseteq Nat /\ w.to <= 880
    BY WindowIsWithin
  <1>3. \A w \in Seg(13, 880, 960, 1) : w.node = 13 /\ {w.from, w.to} \subseteq Nat /\ w.from >= 880
    BY WindowIsWithin
  <1>4. \A w \in Seg(14, 0, 816, WINDOW_STRIDE) : w.node = 14 /\ {w.from, w.to} \subseteq Nat
    BY WindowIsWithin DEF WINDOW_STRIDE
  <1>5. \A w \in Seg(14, 816, 960, 1) : w.node = 14 /\ {w.from, w.to} \subseteq Nat
    BY WindowIsWithin
  <1>6. /\ \A w \in WholeNodes(1 .. 9) : w.node \in 1 .. 9 /\ {w.from, w.to} \subseteq Nat
        /\ \A w \in WholeNodes(10 .. 12) : w.node \in 10 .. 12 /\ {w.from, w.to} \subseteq Nat
        /\ \A w \in WholeNodes({15}) : w.node \in {15} /\ {w.from, w.to} \subseteq Nat
    BY NodeIsWhole
  <1>7. \A w \in TrainWindows : {w.from, w.to} \subseteq Nat /\ (w.node \in 1 .. 9 \/ (w.node = 13 /\ w.to <= 880))
    BY <1>1, <1>2, <1>6 DEF TrainWindows
  <1>8. \A w \in ValWindows : {w.from, w.to} \subseteq Nat /\ (w.node \in 10 .. 12 \/ (w.node = 13 /\ w.from >= 880))
    BY <1>3, <1>6 DEF ValWindows
  <1>9. \A w \in TestWindows : {w.from, w.to} \subseteq Nat /\ w.node \in {14, 15}
    BY <1>4, <1>5, <1>6 DEF TestWindows
  <1>. QED BY <1>7, <1>8, <1>9

\* A stretch has the window that starts at a multiple of the stride.
LEMMA WindowIsThere ==
  ASSUME NEW n \in Nat, NEW from \in Nat, NEW to \in Nat, NEW stride \in Nat \ {0}, NEW s \in Nat,
         from <= s, s + WINDOW_LEN <= to, (s - from) % stride = 0
  PROVE  \E w \in WindowReadingsSegment(n, from, to, stride) : w.class = WindowClass(n, s, s + WINDOW_LEN)
  <1>1. s \in {t \in from .. to - WINDOW_LEN : (t - from) % stride = 0}
    BY DEF WINDOW_LEN
  <1>. DEFINE w == [node |-> n, from |-> s, to |-> s + WINDOW_LEN, class |-> WindowClass(n, s, s + WINDOW_LEN)]
  <1>2. w \in WindowReadingsSegment(n, from, to, stride)
    BY <1>1 DEF WindowReadingsSegment
  <1>3. w.class = WindowClass(n, s, s + WINDOW_LEN)
    OBVIOUS
  <1>. QED BY <1>2, <1>3

LEMMA WholeNodeHasWindow ==
  ASSUME NEW nodes \in SUBSET Nat, NEW n \in nodes, NEW s \in Nat, s + WINDOW_LEN <= ReadingsPerNode, s % WINDOW_STRIDE = 0
  PROVE  \E w \in WholeNodes(nodes) : w.class = WindowClass(n, s, s + WINDOW_LEN)
  <1>1. ReadingsPerNode \in Nat /\ WINDOW_STRIDE \in Nat \ {0} /\ n \in Nat /\ (s - 0) % WINDOW_STRIDE = 0
    BY DEF ReadingsPerNode, WINDOW_STRIDE
  <1>2. \E w \in WindowReadingsSegment(n, 0, ReadingsPerNode, WINDOW_STRIDE) : w.class = WindowClass(n, s, s + WINDOW_LEN)
    BY <1>1, WindowIsThere
  <1>. QED BY <1>2 DEF WholeNodes

\* One window of each class in each part.
LEMMA ClassOfWindow ==
  /\ WindowClass(1, 0, 32) = Normal /\ WindowClass(10, 0, 32) = Normal /\ WindowClass(15, 0, 32) = Normal
  /\ WindowClass(1, 200, 232) = EquipmentNoise /\ WindowClass(10, 256, 288) = EquipmentNoise
  /\ WindowClass(15, 456, 488) = EquipmentNoise
  /\ WindowClass(5, 648, 680) = SubsidenceRisk /\ WindowClass(11, 696, 728) = SubsidenceRisk
  /\ WindowClass(14, 816, 848) = SubsidenceRisk
  <1>1. /\ \A n \in {1, 10, 15} : HazardStart[n] = 960
        /\ HazardStart[5] = 650 /\ HazardStart[11] = 700 /\ HazardStart[14] = 816
    BY DEF HazardStart, ReadingsPerNode
  <1>2. /\ <<1, 200, 240>> \in NoiseWindows /\ <<10, 250, 290>> \in NoiseWindows /\ <<15, 450, 490>> \in NoiseWindows
        /\ \A w \in NoiseWindows : w[1] \in {1, 10, 15} => ~ (w[2] < 32)
    BY DEF NoiseWindows
  <1>3. /\ ~ HasLabel(1, 0, 32, SubsidenceRisk) /\ ~ HasLabel(10, 0, 32, SubsidenceRisk) /\ ~ HasLabel(15, 0, 32, SubsidenceRisk)
        /\ ~ HasLabel(1, 200, 232, SubsidenceRisk) /\ ~ HasLabel(10, 256, 288, SubsidenceRisk) /\ ~ HasLabel(15, 456, 488, SubsidenceRisk)
        /\ HasLabel(5, 648, 680, SubsidenceRisk) /\ HasLabel(11, 696, 728, SubsidenceRisk) /\ HasLabel(14, 816, 848, SubsidenceRisk)
    BY <1>1 DEF HasLabel, EquipmentNoise, SubsidenceRisk
  <1>4. ~ HasLabel(1, 0, 32, EquipmentNoise) /\ ~ HasLabel(10, 0, 32, EquipmentNoise) /\ ~ HasLabel(15, 0, 32, EquipmentNoise)
    BY <1>2 DEF HasLabel, EquipmentNoise, SubsidenceRisk
  <1>5. HasLabel(1, 200, 232, EquipmentNoise) /\ HasLabel(10, 256, 288, EquipmentNoise) /\ HasLabel(15, 456, 488, EquipmentNoise)
    BY <1>2 DEF HasLabel, EquipmentNoise, SubsidenceRisk
  <1>. QED BY <1>3, <1>4, <1>5 DEF WindowClass

LEMMA ClassesOfWindows ==
  \A w \in TrainWindows \cup ValWindows \cup TestWindows : w.class \in AnomalyClass
  <1>1. \A n, from, to : WindowClass(n, from, to) \in AnomalyClass
    BY DEF WindowClass, AnomalyClass
  <1>2. \A n, from, to, stride : \A w \in WindowReadingsSegment(n, from, to, stride) : w.class \in AnomalyClass
    BY <1>1 DEF WindowReadingsSegment
  <1>. QED BY <1>2 DEF TrainWindows, ValWindows, TestWindows, WholeNodes

LEMMA EveryClassIsThere ==
  \A part \in {TrainWindows, ValWindows, TestWindows} : \A c \in AnomalyClass : \E w \in part : w.class = c
  <1>1. ReadingsPerNode = 960 /\ WINDOW_LEN = 32 /\ WINDOW_STRIDE = 8
    BY DEF ReadingsPerNode, WINDOW_LEN, WINDOW_STRIDE
  <1>2. \A nodes \in {1 .. 9, 10 .. 12, {15}} : \A n \in nodes : \A s \in {0, 200, 256, 456, 648, 696} :
          \E w \in WholeNodes(nodes) : w.class = WindowClass(n, s, s + 32)
    <2> SUFFICES ASSUME NEW nodes \in {1 .. 9, 10 .. 12, {15}}, NEW n \in nodes, NEW s \in {0, 200, 256, 456, 648, 696}
                 PROVE  \E w \in WholeNodes(nodes) : w.class = WindowClass(n, s, s + 32)
      OBVIOUS
    <2>1. nodes \in SUBSET Nat /\ s \in Nat
      OBVIOUS
    <2>2. s + WINDOW_LEN <= ReadingsPerNode /\ s % WINDOW_STRIDE = 0
      BY <1>1
    <2>. QED BY <2>1, <2>2, <1>1, WholeNodeHasWindow
  <1>3. \E w \in WindowReadingsSegment(14, 816, 960, 1) : w.class = WindowClass(14, 816, 848)
    <2>1. \E w \in WindowReadingsSegment(14, 816, 960, 1) : w.class = WindowClass(14, 816, 816 + WINDOW_LEN)
      <3>1. 816 + WINDOW_LEN <= 960 /\ (816 - 816) % 1 = 0 /\ 816 <= 816
        BY <1>1
      <3>. QED BY <3>1, WindowIsThere
    <2>. QED BY <2>1, <1>1
  <1>4. /\ \E w \in WholeNodes(1 .. 9) : w.class = Normal
        /\ \E w \in WholeNodes(1 .. 9) : w.class = EquipmentNoise
        /\ \E w \in WholeNodes(1 .. 9) : w.class = SubsidenceRisk
    <2>1. /\ \E w \in WholeNodes(1 .. 9) : w.class = WindowClass(1, 0, 0 + 32)
          /\ \E w \in WholeNodes(1 .. 9) : w.class = WindowClass(1, 200, 200 + 32)
          /\ \E w \in WholeNodes(1 .. 9) : w.class = WindowClass(5, 648, 648 + 32)
      BY <1>2
    <2>2. 0 + 32 = 32 /\ 200 + 32 = 232 /\ 648 + 32 = 680
      OBVIOUS
    <2>. QED BY <2>1, <2>2, ClassOfWindow
  <1>5. /\ \E w \in WholeNodes(10 .. 12) : w.class = Normal
        /\ \E w \in WholeNodes(10 .. 12) : w.class = EquipmentNoise
        /\ \E w \in WholeNodes(10 .. 12) : w.class = SubsidenceRisk
    <2>1. /\ \E w \in WholeNodes(10 .. 12) : w.class = WindowClass(10, 0, 0 + 32)
          /\ \E w \in WholeNodes(10 .. 12) : w.class = WindowClass(10, 256, 256 + 32)
          /\ \E w \in WholeNodes(10 .. 12) : w.class = WindowClass(11, 696, 696 + 32)
      BY <1>2
    <2>2. 0 + 32 = 32 /\ 256 + 32 = 288 /\ 696 + 32 = 728
      OBVIOUS
    <2>. QED BY <2>1, <2>2, ClassOfWindow
  <1>6. /\ \E w \in WholeNodes({15}) : w.class = Normal
        /\ \E w \in WholeNodes({15}) : w.class = EquipmentNoise
    <2>1. /\ \E w \in WholeNodes({15}) : w.class = WindowClass(15, 0, 0 + 32)
          /\ \E w \in WholeNodes({15}) : w.class = WindowClass(15, 456, 456 + 32)
      BY <1>2
    <2>2. 0 + 32 = 32 /\ 456 + 32 = 488
      OBVIOUS
    <2>. QED BY <2>1, <2>2, ClassOfWindow
  <1>7. \E w \in WindowReadingsSegment(14, 816, 960, 1) : w.class = SubsidenceRisk
    BY <1>3, ClassOfWindow
  <1>. QED BY <1>4, <1>5, <1>6, <1>7 DEF AnomalyClass, TrainWindows, ValWindows, TestWindows

LEMMA SplitIsSound == CleanSplit
  <1>1. ~ Overlap(TrainWindows, ValWindows)
    BY PartsAreApart DEF Overlap
  <1>2. ~ Overlap(TrainWindows, TestWindows)
    BY PartsAreApart DEF Overlap
  <1>3. ~ Overlap(ValWindows, TestWindows)
    BY PartsAreApart DEF Overlap
  <1>4. \A part \in {TrainWindows, ValWindows, TestWindows} : {w.class : w \in part} = AnomalyClass
    BY ClassesOfWindows, EveryClassIsThere
  <1>. QED BY <1>1, <1>2, <1>3, <1>4 DEF CleanSplit

-----------------------------------------------------------------------------
\* The order given to a finite set lists each member once.
LEMMA InOrderType ==
  ASSUME NEW rows, IsFiniteSet(rows)
  PROVE  Cardinality(rows) \in Nat /\ SetToSeq(rows) \in [1 .. Cardinality(rows) -> rows]
  <1>1. Cardinality(rows) \in Nat /\ ExistsBijection(1 .. Cardinality(rows), rows)
    BY FS_CardinalityType
  <1>2. \E f \in [1 .. Cardinality(rows) -> rows] : IsInjective(f)
    BY <1>1 DEF ExistsBijection, Bijection, Injection, IsInjective
  <1>3. SetToSeq(rows) \in [1 .. Cardinality(rows) -> rows]
    BY <1>2 DEF SetToSeq
  <1>. QED BY <1>1, <1>3

\* Confirmed examples: a window and the label of each row, in one order.
LEMMA ConfirmedData ==
  ASSUME TrainingTypeOK, RowsAreWhole, NEW rows \in {LoadPredictionsFromDb, {}}
  PROVE  \E n \in Nat : \E f \in [1 .. n -> rows] :
           /\ LoadConfirmed(rows).X = [k \in 1 .. n |-> <<"row", f[k]>>]
           /\ LoadConfirmed(rows).y = [k \in 1 .. n |-> log[f[k]].label]
           /\ rows \subseteq {i \in DOMAIN log : log[i].label # None}
  <1>1. log \in Seq(Row) /\ Len(log) \in Nat /\ DOMAIN log = 1 .. Len(log)
    BY DEF TrainingTypeOK
  <1>2. rows \subseteq {i \in DOMAIN log : log[i].label # None}
    BY DEF LoadPredictionsFromDb
  <1>3. IsFiniteSet(rows)
    <2>1. IsFiniteSet(1 .. Len(log))
      BY <1>1, FS_Interval
    <2>2. rows \in SUBSET (1 .. Len(log))
      BY <1>1, <1>2
    <2>. QED BY <2>1, <2>2, FS_Subset
  <1>4. {i \in rows : log[i].window = "whole"} = rows
    BY <1>2 DEF RowsAreWhole
  <1>. DEFINE f == SetToSeq(rows)
  <1>5. Cardinality(rows) \in Nat /\ f \in [1 .. Cardinality(rows) -> rows]
    BY <1>3, InOrderType
  <1>6. ExtractWindowArrays(rows) = f /\ InOrder(rows) = f
    BY <1>4 DEF ExtractWindowArrays, InOrder
  <1>. HIDE DEF f
  <1>7. DOMAIN f = 1 .. Cardinality(rows)
    BY <1>5
  <1>8. /\ LoadConfirmed(rows).X = [k \in 1 .. Cardinality(rows) |-> <<"row", f[k]>>]
        /\ LoadConfirmed(rows).y = [k \in 1 .. Cardinality(rows) |-> log[f[k]].label]
    BY <1>6, <1>7 DEF LoadConfirmed
  <1>. QED BY <1>2, <1>5, <1>8

\* Examples X with labels y go on with examples f and labels g.
GoesOn(X, y, f, g) ==
  /\ X \o f \in Seq(Origin)
  /\ y \o g \in Seq(AnomalyClass)
  /\ Len(X \o f) = Len(y \o g)
  /\ \A k \in DOMAIN (X \o f) :
       \/ k \in DOMAIN X /\ (X \o f)[k] = X[k] /\ (y \o g)[k] = y[k]
       \/ \E j \in DOMAIN f : (X \o f)[k] = f[j] /\ (y \o g)[k] = g[j]

\* Windows and labels stay in step when more of both are appended.
LEMMA ExamplesGoOn ==
  ASSUME NEW X \in Seq(Origin), NEW y \in Seq(AnomalyClass), Len(X) = Len(y),
         NEW f \in Seq(Origin), NEW g \in Seq(AnomalyClass), Len(f) = Len(g)
  PROVE  GoesOn(X, y, f, g)
  <1>1. Len(X \o f) = Len(X) + Len(f) /\ Len(y \o g) = Len(X) + Len(f)
    OBVIOUS
  <1>2. X \o f \in Seq(Origin) /\ y \o g \in Seq(AnomalyClass)
    OBVIOUS
  <1>3. ASSUME NEW k \in DOMAIN (X \o f)
        PROVE  \/ k \in DOMAIN X /\ (X \o f)[k] = X[k] /\ (y \o g)[k] = y[k]
               \/ \E j \in DOMAIN f : (X \o f)[k] = f[j] /\ (y \o g)[k] = g[j]
    <2>1. k \in 1 .. (Len(X) + Len(f)) /\ Len(X) \in Nat /\ Len(f) \in Nat
      BY <1>1, <1>2
    <2>2. CASE k <= Len(X)
      BY <2>1, <2>2
    <2>3. CASE k > Len(X)
      <3>1. k - Len(X) \in 1 .. Len(f)
        BY <2>1, <2>3
      <3>2. (X \o f)[k] = f[k - Len(X)] /\ (y \o g)[k] = g[k - Len(X)]
        BY <2>1, <2>3
      <3>. QED BY <3>1, <3>2
    <2>. QED BY <2>1, <2>2, <2>3
  <1>. QED BY <1>1, <1>2, <1>3 DEF GoesOn

\* What a run loads.
LoadedX(C) == SyntheticX \o C.X
LoadedY(C) == SyntheticY \o (IF C.X = <<>> THEN <<>> ELSE C.y)

LEMMA LoadedData ==
  ASSUME TrainingInv, NEW rows \in {LoadPredictionsFromDb, {}},
         NEW C, C = LoadConfirmed(rows)
  PROVE  /\ LoadedX(C) \in Seq(Origin) /\ LoadedY(C) \in Seq(AnomalyClass) /\ Len(LoadedX(C)) = Len(LoadedY(C))
         /\ Range(C.X) \subseteq Origin
         /\ \A k \in DOMAIN LoadedX(C) :
              LoadedY(C)[k] = IF LoadedX(C)[k][1] = "data" THEN LoadedX(C)[k][2] ELSE log[LoadedX(C)[k][2]].label
  <1>0. PICK n \in Nat : \E f \in [1 .. n -> rows] :
           /\ C.X = [k \in 1 .. n |-> <<"row", f[k]>>]
           /\ C.y = [k \in 1 .. n |-> log[f[k]].label]
           /\ rows \subseteq {i \in DOMAIN log : log[i].label # None}
    BY ConfirmedData DEF TrainingInv
  <1>1. PICK f \in [1 .. n -> rows] :
           /\ C.X = [k \in 1 .. n |-> <<"row", f[k]>>]
           /\ C.y = [k \in 1 .. n |-> log[f[k]].label]
           /\ rows \subseteq {i \in DOMAIN log : log[i].label # None}
    BY <1>0
  <1>2. log \in Seq(Row) /\ DOMAIN log \subseteq Nat
    BY DEF TrainingInv, TrainingTypeOK
  <1>3. \A k \in 1 .. n : f[k] \in Nat /\ log[f[k]].label \in AnomalyClass
    <2>1. \A i \in DOMAIN log : log[i] \in Row
      BY <1>2
    <2>2. \A row \in Row : row.label \in AnomalyClass \cup {None}
      BY DEF Row
    <2>. QED BY <1>1, <1>2, <2>1, <2>2
  <1>4. /\ C.X \in Seq(Origin) /\ C.y \in Seq(AnomalyClass) /\ Len(C.X) = Len(C.y)
        /\ DOMAIN C.X = 1 .. n
    <2>1. C.X \in [1 .. n -> Origin]
      BY <1>1, <1>3 DEF Origin
    <2>2. C.y \in [1 .. n -> AnomalyClass]
      BY <1>1, <1>3
    <2>. QED BY <2>1, <2>2
  <1>5. LoadedX(C) = SyntheticX \o C.X /\ LoadedY(C) = SyntheticY \o C.y
    <2>1. CASE n = 0
      <3>1. C.X = <<>> /\ C.y = <<>>
        BY <1>1, <2>1
      <3>. QED BY <3>1 DEF LoadedX, LoadedY
    <2>2. CASE n # 0
      <3>1. 1 \in DOMAIN C.X
        BY <1>1, <2>2
      <3>2. C.X # <<>>
        BY <3>1
      <3>. QED BY <3>2 DEF LoadedX, LoadedY
    <2>. QED BY <2>1, <2>2
  <1>6. /\ SyntheticX \in Seq(Origin) /\ SyntheticY \in Seq(AnomalyClass) /\ Len(SyntheticX) = 4 /\ Len(SyntheticY) = 4
        /\ \A k \in 1 .. 4 : SyntheticX[k][1] = "data" /\ SyntheticX[k][2] = SyntheticY[k]
    BY DEF SyntheticX, SyntheticY, Origin, AnomalyClass
  <1>7. DOMAIN SyntheticX = 1 .. 4
    BY <1>6
  <1>8. GoesOn(SyntheticX, SyntheticY, C.X, C.y)
    <2>1. Len(SyntheticX) = Len(SyntheticY)
      BY <1>6
    <2>. QED BY <1>4, <1>6, <2>1, ExamplesGoOn
  <1>9. /\ LoadedX(C) \in Seq(Origin) /\ LoadedY(C) \in Seq(AnomalyClass) /\ Len(LoadedX(C)) = Len(LoadedY(C))
        /\ \A k \in DOMAIN LoadedX(C) :
              \/ k \in DOMAIN SyntheticX /\ LoadedX(C)[k] = SyntheticX[k] /\ LoadedY(C)[k] = SyntheticY[k]
              \/ \E j \in DOMAIN C.X : LoadedX(C)[k] = C.X[j] /\ LoadedY(C)[k] = C.y[j]
    BY <1>5, <1>8 DEF GoesOn
  <1>10. \A j \in DOMAIN C.X : C.X[j][1] = "row" /\ C.y[j] = log[C.X[j][2]].label
    BY <1>1
  <1>11. \A k \in DOMAIN LoadedX(C) :
          LoadedY(C)[k] = IF LoadedX(C)[k][1] = "data" THEN LoadedX(C)[k][2] ELSE log[LoadedX(C)[k][2]].label
    <2>. SUFFICES ASSUME NEW k \in DOMAIN LoadedX(C)
                  PROVE  LoadedY(C)[k] = IF LoadedX(C)[k][1] = "data" THEN LoadedX(C)[k][2] ELSE log[LoadedX(C)[k][2]].label
      OBVIOUS
    <2>1. CASE k \in DOMAIN SyntheticX /\ LoadedX(C)[k] = SyntheticX[k] /\ LoadedY(C)[k] = SyntheticY[k]
      <3>1. SyntheticX[k][1] = "data" /\ SyntheticX[k][2] = SyntheticY[k]
        BY <1>6, <1>7, <2>1
      <3>. QED BY <2>1, <3>1
    <2>2. CASE \E j \in DOMAIN C.X : LoadedX(C)[k] = C.X[j] /\ LoadedY(C)[k] = C.y[j]
      <3>1. PICK j \in DOMAIN C.X : LoadedX(C)[k] = C.X[j] /\ LoadedY(C)[k] = C.y[j]
        BY <2>2
      <3>2. C.X[j][1] = "row" /\ C.y[j] = log[C.X[j][2]].label
        BY <1>10
      <3>. QED BY <3>1, <3>2
    <2>. QED BY <1>9, <2>1, <2>2
  <1>12. Range(C.X) \subseteq Origin
    BY <1>4 DEF Range
  <1>. QED BY <1>9, <1>11, <1>12

\* Repeated examples keep their labels.
LEMMA RepeatedIndices ==
  ASSUME NEW few \in SUBSET AnomalyClass
  PROVE  Cardinality(few) \in Nat /\ SetToSeq(few) \in [1 .. Cardinality(few) -> few]
  <1>1. IsFiniteSet(few)
    <2>1. PICK n \in Nat : n = 2
      OBVIOUS
    <2>2. few \in SUBSET Nat /\ \A c \in few : c <= n
      BY <2>1 DEF AnomalyClass, Normal, EquipmentNoise, SubsidenceRisk
    <2>. QED BY <2>2, FS_BoundedSetOfNaturals
  <1>. QED BY <1>1, InOrderType

Repeats(X, y, f, g) ==
  /\ X \o f \in Seq(Origin) /\ y \o g \in Seq(AnomalyClass) /\ Len(X \o f) = Len(y \o g)
  /\ \A k \in DOMAIN (X \o f) : \E j \in DOMAIN X : (X \o f)[k] = X[j] /\ (y \o g)[k] = y[j]

LEMMA RepeatedData ==
  ASSUME NEW X \in Seq(Origin), NEW y \in Seq(AnomalyClass), Len(X) = Len(y),
         NEW m \in Nat, NEW place \in [1 .. m -> DOMAIN X],
         NEW f, f = [k \in 1 .. m |-> X[place[k]]], NEW g, g = [k \in 1 .. m |-> y[place[k]]]
  PROVE  Repeats(X, y, f, g)
  <1>1. f \in [1 .. m -> Origin] /\ g \in [1 .. m -> AnomalyClass]
    OBVIOUS
  <1>2. f \in Seq(Origin) /\ g \in Seq(AnomalyClass) /\ Len(f) = Len(g) /\ DOMAIN f = 1 .. m
    <2>1. f \in Seq(Origin) /\ DOMAIN f = 1 .. m /\ Len(f) = m
      BY <1>1
    <2>2. g \in Seq(AnomalyClass) /\ Len(g) = m
      BY <1>1
    <2>. QED BY <2>1, <2>2
  <1>3. GoesOn(X, y, f, g)
    BY <1>2, ExamplesGoOn
  <1>4. \A j \in DOMAIN f : place[j] \in DOMAIN X /\ f[j] = X[place[j]] /\ g[j] = y[place[j]]
    BY <1>2
  <1>. QED BY <1>3, <1>4 DEF GoesOn, Repeats

-----------------------------------------------------------------------------
\* What StartRun trains on.
LEMMA StartedJob ==
  ASSUME TrainingInv, NEW type \in ModelType, NEW rows \in {LoadPredictionsFromDb, {}}, StartRun(type, rows)
  PROVE  /\ job' \in JobType
         /\ Len(job'.X) = Len(job'.y)
         /\ \A k \in DOMAIN job'.X : job'.y[k] = OwnLabel(job'.loaded, job'.X[k])
  <1>. DEFINE C == LoadConfirmed(rows)
  <1>1. job' = [type |-> type, loaded |-> log, X |-> LoadedX(C), y |-> LoadedY(C), stats |-> Range(C.X)]
    BY DEF StartRun, LoadedX, LoadedY
  <1>2. /\ LoadedX(C) \in Seq(Origin) /\ LoadedY(C) \in Seq(AnomalyClass) /\ Len(LoadedX(C)) = Len(LoadedY(C))
        /\ Range(C.X) \subseteq Origin
        /\ \A k \in DOMAIN LoadedX(C) :
             LoadedY(C)[k] = IF LoadedX(C)[k][1] = "data" THEN LoadedX(C)[k][2] ELSE log[LoadedX(C)[k][2]].label
    BY LoadedData
  <1>3. log \in Seq(Row)
    BY DEF TrainingInv, TrainingTypeOK
  <1>. HIDE DEF C
  <1>4. job' \in JobType
    BY <1>1, <1>2, <1>3 DEF JobType
  <1>5. /\ job'.loaded = log /\ job'.X = LoadedX(C) /\ job'.y = LoadedY(C)
    BY <1>1
  <1>6. \A k \in DOMAIN job'.X : job'.y[k] = OwnLabel(job'.loaded, job'.X[k])
    BY <1>2, <1>5 DEF OwnLabel
  <1>. QED BY <1>2, <1>4, <1>5, <1>6

\* What Oversample leaves to train on.
LEMMA RepeatedJob ==
  ASSUME TrainingInv, Oversample, stage' = "training"
  PROVE  /\ job' \in JobType
         /\ job'.loaded = job.loaded
         /\ Len(job'.X) = Len(job'.y)
         /\ \A k \in DOMAIN job'.X : \E j \in DOMAIN job.X : job'.X[k] = job.X[j] /\ job'.y[k] = job.y[j]
  <1>1. stage = "loaded" /\ job \in JobType
    BY DEF Oversample, TrainingInv, TrainingTypeOK
  <1>2. job.X \in Seq(Origin) /\ job.y \in Seq(AnomalyClass) /\ Len(job.X) = Len(job.y) /\ DOMAIN job.X = DOMAIN job.y
    BY <1>1 DEF TrainingInv, JobIsLabelled, JobType
  <1>3. PICK pick \in [Minority -> DOMAIN job.y] :
          job' = [job EXCEPT !.X = @ \o [k \in DOMAIN SetToSeq(Minority) |-> job.X[pick[SetToSeq(Minority)[k]]]],
                             !.y = @ \o [k \in DOMAIN SetToSeq(Minority) |-> job.y[pick[SetToSeq(Minority)[k]]]]]
    BY DEF Oversample
  <1>4. PICK m \in Nat : SetToSeq(Minority) \in [1 .. m -> Minority]
    BY RepeatedIndices DEF Minority
  <1>. DEFINE place == [k \in 1 .. m |-> pick[SetToSeq(Minority)[k]]]
  <1>5. place \in [1 .. m -> DOMAIN job.X]
    BY <1>2, <1>4
  <1>. DEFINE f == [k \in 1 .. m |-> job.X[place[k]]]
  <1>. DEFINE g == [k \in 1 .. m |-> job.y[place[k]]]
  <1>6. job' = [job EXCEPT !.X = @ \o f, !.y = @ \o g]
    <2>1. [k \in DOMAIN SetToSeq(Minority) |-> job.X[pick[SetToSeq(Minority)[k]]]] = f
      BY <1>4
    <2>2. [k \in DOMAIN SetToSeq(Minority) |-> job.y[pick[SetToSeq(Minority)[k]]]] = g
      BY <1>4
    <2>. QED BY <1>3, <2>1, <2>2
  <1>7. Repeats(job.X, job.y, f, g)
    BY <1>2, <1>5, RepeatedData
  <1>. HIDE DEF f, g
  <1>8. job'.X = job.X \o f /\ job'.y = job.y \o g /\ job'.loaded = job.loaded
    BY <1>1, <1>6 DEF JobType
  <1>9. job' \in JobType
    BY <1>1, <1>6, <1>7 DEF JobType, Repeats
  <1>. QED BY <1>7, <1>8, <1>9 DEF Repeats

-----------------------------------------------------------------------------
\* A step keeps the types.
LEMMA TypesStay ==
  ASSUME TrainingInv, [TrainingNext]_trainingVars
  PROVE  TrainingTypeOK'
  <1>. USE TrainingAssumption
  <1>1. TrainingTypeOK /\ FilesOK
    BY DEF TrainingInv, TrainingTypeOK
  <1>2. ASSUME NEW window \in {"whole", "broken"}, Predict(window) PROVE TrainingTypeOK'
    <2>1. [window |-> window, label |-> None] \in Row
      BY DEF Row
    <2>2. log' \in Seq(Row)
      BY <1>1, <1>2, <2>1 DEF Predict, TrainingTypeOK
    <2>. QED BY <1>1, <1>2, <2>2 DEF Predict, TrainingTypeOK, FilesOK, files, evaluations
  <1>3. ASSUME NEW i \in DOMAIN log, NEW class \in AnomalyClass, SetConfirmedLabel(i, class) PROVE TrainingTypeOK'
    <2>1. log \in Seq(Row) /\ log[i] \in Row
      BY <1>1 DEF TrainingTypeOK
    <2>2. [log[i] EXCEPT !.label = class] \in Row
      BY <2>1 DEF Row
    <2>3. log' = [log EXCEPT ![i] = [log[i] EXCEPT !.label = class]]
      BY <1>3 DEF SetConfirmedLabel
    <2>4. log' \in Seq(Row)
      BY <2>1, <2>2, <2>3
    <2>. QED BY <1>1, <1>3, <2>4 DEF SetConfirmedLabel, TrainingTypeOK, FilesOK, files, evaluations
  <1>4. ASSUME NEW type \in ModelType, NEW rows \in {LoadPredictionsFromDb, {}}, StartRun(type, rows)
        PROVE  TrainingTypeOK'
    <2>1. job' \in JobType
      BY <1>4, StartedJob
    <2>2. fit' \in FitType
      BY <1>4 DEF StartRun, NoFit, FitType
    <2>3. runs' \in 0 .. MaxRuns /\ stage' = "loaded" /\ UNCHANGED <<log, files, server, evaluations, interrupted>>
      BY <1>1, <1>4 DEF StartRun, TrainingTypeOK
    <2>. QED BY <1>1, <2>1, <2>2, <2>3 DEF TrainingTypeOK, FilesOK, files, evaluations, Stage
  <1>5. CASE Oversample
    <2>1. UNCHANGED <<log, runs, fit, files, server, evaluations, interrupted>> /\ stage = "loaded"
      BY <1>5 DEF Oversample
    <2>2. CASE stage' = "training"
      <3>1. job' \in JobType
        BY <1>5, <2>2, RepeatedJob
      <3>. QED BY <1>1, <2>1, <2>2, <3>1 DEF TrainingTypeOK, FilesOK, files, evaluations, Stage
    <2>3. CASE stage' = "idle" /\ job' = NoJob
      <3>1. fit = NoFit
        BY <2>1 DEF TrainingInv, FitIsSound
      <3>. QED BY <1>1, <2>1, <2>3, <3>1 DEF TrainingTypeOK, FilesOK, files, evaluations, Stage
    <2>. QED BY <1>5, <2>2, <2>3 DEF Oversample
  <1>6. ASSUME NEW loss \in Loss \cup {NaN}, TrainEpoch(loss) PROVE TrainingTypeOK'
    <2>1. stage = "training" /\ fit \in FitType /\ job \in JobType
      BY <1>1, <1>6 DEF TrainEpoch, TrainingTypeOK
    <2>2. fit' \in FitType
      <3>1. IsBetter(loss) => loss \in Loss
        BY DEF IsBetter
      <3>2. Append(fit.losses, loss) \in Seq(Loss \cup {NaN}) /\ fit.epoch \in Nat /\ fit.patience \in Nat
        BY <2>1 DEF FitType
      <3>. QED BY <1>6, <2>1, <3>1, <3>2 DEF TrainEpoch, FitType
    <2>. QED BY <1>1, <1>6, <2>1, <2>2 DEF TrainEpoch, TrainingTypeOK, FilesOK, files, evaluations, Stage
  <1>7. CASE LoadBestState
    <2>1. fit' \in FitType
      <3>1. fit \in FitType
        BY <1>1, <1>7 DEF LoadBestState, TrainingTypeOK
      <3>2. Restored \in Nat
        BY <3>1 DEF Restored, FitType
      <3>3. fit' = [fit EXCEPT !.weights = Restored]
        BY <1>7 DEF LoadBestState
      <3>. QED BY <3>1, <3>2, <3>3 DEF FitType
    <2>. QED BY <1>1, <1>7, <2>1 DEF LoadBestState, TrainingTypeOK, FilesOK, files, evaluations, Stage
  <1>8. CASE OpenLatest
    <2>1. job.type \in ModelType
      BY <1>1, <1>8 DEF OpenLatest, TrainingTypeOK, JobType
    <2>2. evaluation' \in EvaluationType \cup {None}
      <3>1. evaluation \in EvaluationType \cup {None}
        BY <1>1 DEF FilesOK
      <3>2. evaluation' = IF evaluation = None THEN None ELSE [evaluation EXCEPT !.disturbed = TRUE]
        BY <1>8 DEF OpenLatest
      <3>3. CASE evaluation = None
        BY <3>2, <3>3
      <3>4. CASE evaluation \in EvaluationType
        BY <3>2, <3>4 DEF EvaluationType
      <3>. QED BY <3>1, <3>3, <3>4
    <2>3. registry' \in [ModelType -> CheckpointType \cup {None, Broken}]
      BY <1>1, <1>8, <2>1 DEF OpenLatest, FilesOK
    <2>4. FilesOK'
      BY <1>1, <1>8, <2>2, <2>3 DEF OpenLatest, FilesOK
    <2>. QED BY <1>1, <1>8, <2>4 DEF OpenLatest, TrainingTypeOK, Stage, Saving
  <1>9. CASE SaveLatest
    <2>1. job.type \in ModelType /\ Checkpoint \in CheckpointType
      BY <1>1, <1>9 DEF SaveLatest, TrainingTypeOK, JobType, FitType, Checkpoint, CheckpointType
    <2>. QED BY <1>1, <1>9, <2>1 DEF SaveLatest, TrainingTypeOK, FilesOK, evaluations, Stage, Saving
  <1>10. CASE SaveStats
    <2>1. job.stats \in SUBSET Origin
      BY <1>1, <1>10 DEF SaveStats, TrainingTypeOK, JobType
    <2>. QED BY <1>1, <1>10, <2>1 DEF SaveStats, TrainingTypeOK, FilesOK, evaluations, Stage, Saving
  <1>11. CASE SaveSplit
    <2>1. job.stats \in SUBSET Origin
      BY <1>1, <1>11 DEF SaveSplit, TrainingTypeOK, JobType
    <2>. QED BY <1>1, <1>11, <2>1 DEF SaveSplit, TrainingTypeOK, FilesOK, evaluations, Stage
  <1>12. CASE Crash
    BY <1>1, <1>12 DEF Crash, TrainingTypeOK, FilesOK, files, evaluations, Stage
  <1>13. CASE LoadModel
    <2>1. registry["baseline"] \in CheckpointType
      BY <1>1, <1>13 DEF LoadModel, IsCheckpoint, FilesOK, ModelType
    <2>2. server' \in CheckpointType
      BY <1>13, <2>1 DEF LoadModel, Served, Loaded, CheckpointType
    <2>. QED BY <1>1, <1>13, <2>2 DEF LoadModel, TrainingTypeOK, FilesOK, files, evaluations
  <1>14. CASE ReadTestSplit
    <2>1. [given |-> split, disturbed |-> stage \in Saving, baseline |-> None] \in EvaluationType
      <3>1. split \in SUBSET Origin
        BY <1>1, <1>14 DEF ReadTestSplit, FilesOK
      <3>2. (stage \in Saving) \in BOOLEAN
        OBVIOUS
      <3>. QED BY <3>1, <3>2 DEF EvaluationType
    <2>. QED BY <1>1, <1>14, <2>1 DEF ReadTestSplit, TrainingTypeOK, FilesOK, files, evaluations
  <1>15. CASE ReadBaseline
    <2>1. evaluation \in EvaluationType
      BY <1>1, <1>15 DEF ReadBaseline, FilesOK
    <2>2. IsCheckpoint(registry["baseline"]) => registry["baseline"] \in CheckpointType
      BY <1>1 DEF IsCheckpoint, FilesOK, ModelType
    <2>3. evaluation' \in EvaluationType \cup {None}
      BY <1>15, <2>1, <2>2 DEF ReadBaseline, EvaluationType
    <2>. QED BY <1>1, <1>15, <2>3 DEF ReadBaseline, TrainingTypeOK, FilesOK, files, evaluations
  <1>16. CASE ReadHybrid
    <2>1. /\ evaluation \in EvaluationType /\ evaluation.baseline \in CheckpointType
      BY <1>1, <1>16 DEF ReadHybrid, FilesOK, EvaluationType
    <2>2. verdict' \in VerdictType \cup {None}
      <3>1. CASE IsCheckpoint(registry["hybrid"])
        <4>1. registry["hybrid"] \in CheckpointType
          BY <1>1, <3>1 DEF IsCheckpoint, FilesOK, ModelType
        <4>2. \A c \in CheckpointType : Judged(c) \in [run : Nat, stats : SUBSET Origin]
          BY DEF Judged, CheckpointType
        <4>3. /\ Judged(evaluation.baseline) \in [run : Nat, stats : SUBSET Origin]
              /\ Judged(registry["hybrid"]) \in [run : Nat, stats : SUBSET Origin]
          BY <2>1, <4>1, <4>2
        <4>. QED BY <1>16, <2>1, <3>1, <4>3 DEF ReadHybrid, EvaluationType, VerdictType
      <3>2. CASE ~ IsCheckpoint(registry["hybrid"])
        BY <1>1, <1>16, <3>2 DEF ReadHybrid, FilesOK
      <3>. QED BY <3>1, <3>2
    <2>. QED BY <1>1, <1>16, <2>2 DEF ReadHybrid, TrainingTypeOK, FilesOK, files, evaluations
  <1>17. CASE UNCHANGED trainingVars
    BY <1>1, <1>17 DEF trainingVars, evaluations, files, TrainingTypeOK, FilesOK
  <1>. QED BY <1>2, <1>3, <1>4, <1>5, <1>6, <1>7, <1>8, <1>9, <1>10, <1>11, <1>12, <1>13, <1>14, <1>15, <1>16, <1>17
           DEF TrainingNext

-----------------------------------------------------------------------------
\* A step keeps the rows whole and examples with their labels.
LEMMA LabelsFollow ==
  ASSUME TrainingInv, [TrainingNext]_trainingVars
  PROVE  RowsAreWhole' /\ JobIsLabelled'
  <1>1. TrainingTypeOK /\ log \in Seq(Row) /\ RowsAreWhole /\ JobIsLabelled
    BY DEF TrainingInv, TrainingTypeOK
  <1>2. ASSUME NEW window \in {"whole", "broken"}, Predict(window) PROVE RowsAreWhole' /\ JobIsLabelled'
    <2>1. log' = Append(log, [window |-> "whole", label |-> None])
      BY <1>2 DEF Predict, IsValid
    <2>2. \A i \in DOMAIN log' : log'[i].window = "whole"
      BY <1>1, <2>1 DEF RowsAreWhole
    <2>. QED BY <1>1, <1>2, <2>2 DEF Predict, RowsAreWhole, JobIsLabelled
  <1>3. ASSUME NEW i \in DOMAIN log, NEW class \in AnomalyClass, SetConfirmedLabel(i, class)
        PROVE  RowsAreWhole' /\ JobIsLabelled'
    <2>1. log' = [log EXCEPT ![i] = [log[i] EXCEPT !.label = class]]
      BY <1>3 DEF SetConfirmedLabel
    <2>2. log[i] \in Row
      BY <1>1
    <2>3. [log[i] EXCEPT !.label = class].window = log[i].window
      BY <2>2 DEF Row
    <2>4. \A j \in DOMAIN log' : log'[j].window = log[j].window /\ j \in DOMAIN log
      BY <1>1, <2>1, <2>3
    <2>. QED BY <1>1, <1>3, <2>4 DEF SetConfirmedLabel, RowsAreWhole, JobIsLabelled
  <1>4. ASSUME NEW type \in ModelType, NEW rows \in {LoadPredictionsFromDb, {}}, StartRun(type, rows)
        PROVE  RowsAreWhole' /\ JobIsLabelled'
    <2>1. log' = log
      BY <1>4 DEF StartRun
    <2>. QED BY <1>1, <1>4, <2>1, StartedJob DEF RowsAreWhole, JobIsLabelled
  <1>5. CASE Oversample
    <2>1. stage = "loaded" /\ log' = log
      BY <1>5 DEF Oversample
    <2>2. CASE stage' = "training"
      <3>1. \A k \in DOMAIN job.X : job.y[k] = OwnLabel(job.loaded, job.X[k])
        BY <1>1, <2>1 DEF JobIsLabelled
      <3>2. /\ job'.loaded = job.loaded /\ Len(job'.X) = Len(job'.y)
            /\ \A k \in DOMAIN job'.X : \E j \in DOMAIN job.X : job'.X[k] = job.X[j] /\ job'.y[k] = job.y[j]
        BY <1>5, <2>2, RepeatedJob
      <3>. QED BY <1>1, <2>1, <3>1, <3>2 DEF RowsAreWhole, JobIsLabelled
    <2>3. CASE stage' = "idle"
      BY <1>1, <2>1, <2>3 DEF RowsAreWhole, JobIsLabelled
    <2>. QED BY <1>5, <2>2, <2>3 DEF Oversample
  <1>6. ASSUME NEW loss \in Loss \cup {NaN}, TrainEpoch(loss) PROVE RowsAreWhole' /\ JobIsLabelled'
    BY <1>1, <1>6 DEF TrainEpoch, RowsAreWhole, JobIsLabelled
  <1>7. CASE LoadBestState \/ OpenLatest \/ SaveLatest \/ SaveStats \/ SaveSplit \/ Crash
    BY <1>1, <1>7 DEF LoadBestState, OpenLatest, SaveLatest, SaveStats, SaveSplit, Crash, RowsAreWhole, JobIsLabelled
  <1>8. CASE LoadModel \/ ReadsForEvaluation \/ UNCHANGED trainingVars
    BY <1>1, <1>8 DEF LoadModel, ReadsForEvaluation, ReadTestSplit, ReadBaseline, ReadHybrid, trainingVars, RowsAreWhole, JobIsLabelled
  <1>. QED BY <1>2, <1>3, <1>4, <1>5, <1>6, <1>7, <1>8 DEF TrainingNext, ReadsForEvaluation

-----------------------------------------------------------------------------
\* An epoch leaves the best of all epochs remembered.
LEMMA EpochIsCounted ==
  ASSUME TrainingInv, NEW loss \in Loss \cup {NaN}, TrainEpoch(loss)
  PROVE  Progress' /\ (stage' = "training" => fit'.patience < PatienceLimit)
  <1>. USE TrainingAssumption
  <1>1. /\ fit \in FitType /\ Progress /\ fit.patience < PatienceLimit
        /\ fit.losses \in Seq(Loss \cup {NaN}) /\ fit.epoch \in Nat /\ fit.patience \in Nat
        /\ Len(fit.losses) \in Nat /\ PatienceLimit \in Nat \ {0}
    <2>1. stage = "training" /\ fit \in FitType
      BY DEF TrainEpoch, TrainingInv, TrainingTypeOK
    <2>2. Progress /\ fit.patience < PatienceLimit
      BY <2>1 DEF TrainingInv, FitIsSound
    <2>. QED BY <2>1, <2>2 DEF FitType
  <1>. DEFINE n == Len(fit.losses)
  <1>2. /\ fit'.epoch = fit.epoch + 1 /\ fit'.weights = fit'.epoch
        /\ fit'.losses = Append(fit.losses, loss)
        /\ fit'.bestLoss = IF IsBetter(loss) THEN loss ELSE fit.bestLoss
        /\ fit'.bestState = IF IsBetter(loss) THEN fit.epoch + 1 ELSE fit.bestState
        /\ fit'.patience = IF IsBetter(loss) THEN 0 ELSE fit.patience + 1
    BY DEF TrainEpoch
  <1>3. /\ DOMAIN fit.losses = 1 .. n /\ DOMAIN fit'.losses = 1 .. n + 1 /\ Len(fit'.losses) = n + 1
        /\ \A e \in 1 .. n : fit'.losses[e] = fit.losses[e]
        /\ fit'.losses[n + 1] = loss
    BY <1>1, <1>2
  <1>4. fit.epoch = n /\ fit.weights = n
    BY <1>1 DEF Progress, IsProgress
  <1>5. \A e \in 1 .. n : fit.losses[e] \in Loss \cup {NaN}
    BY <1>1
  <1>. DEFINE known == KnownLosses(fit.losses)
  <1>6. KnownLosses(fit'.losses) = IF loss = NaN THEN known ELSE known \cup {n + 1}
    <2>1. KnownLosses(fit'.losses) = {e \in 1 .. n + 1 : fit'.losses[e] # NaN}
      BY <1>3 DEF KnownLosses
    <2>2. known = {e \in 1 .. n : fit'.losses[e] # NaN}
      BY <1>3 DEF KnownLosses
    <2>3. n \in Nat /\ 1 .. n + 1 = (1 .. n) \cup {n + 1} /\ n + 1 \notin 1 .. n
      BY <1>1
    <2>4. fit'.losses[n + 1] # NaN <=> loss # NaN
      BY <1>3
    <2>. HIDE DEF n, known
    <2>. QED BY <2>1, <2>2, <2>3, <2>4
  <1>7. known \subseteq 1 .. n
    BY <1>3 DEF KnownLosses
  <1>8. /\ known = {} => fit.bestState = None /\ fit.bestLoss = Inf
        /\ known # {} =>
             /\ fit.bestState \in known /\ fit.bestLoss = fit.losses[fit.bestState] /\ fit.bestLoss \in Loss
             /\ \A e \in known : fit.losses[e] > fit.bestLoss \/ (fit.losses[e] = fit.bestLoss /\ e >= fit.bestState)
             /\ fit.patience = n - fit.bestState
    BY <1>1, <1>5, <1>7 DEF Progress, IsProgress, KnownLosses
  <1>. HIDE DEF n, known
  <1>9. n \in Nat
    BY <1>1 DEF n
  <1>10. ASSUME IsBetter(loss) PROVE Progress'
    <2>1. loss \in Loss /\ loss # NaN /\ loss \in Nat /\ (fit.bestLoss = Inf \/ loss < fit.bestLoss)
      BY <1>10 DEF IsBetter
    <2>2. KnownLosses(fit'.losses) = known \cup {n + 1} /\ fit'.bestState = n + 1 /\ fit'.bestLoss = loss /\ fit'.patience = 0
      BY <1>2, <1>4, <1>6, <1>10, <2>1
    <2>3. \A e \in known : fit'.losses[e] > loss
      <3>. SUFFICES ASSUME NEW e \in known PROVE fit'.losses[e] > loss
        OBVIOUS
      <3>1. fit'.losses[e] = fit.losses[e] /\ fit.losses[e] \in Nat
        BY <1>3, <1>5, <1>7 DEF known, KnownLosses
      <3>2. fit.bestLoss \in Nat /\ fit.bestLoss # Inf
        BY <1>8
      <3>3. fit.losses[e] >= fit.bestLoss
        BY <1>8, <3>1, <3>2
      <3>. QED BY <2>1, <3>1, <3>2, <3>3
    <2>4. KnownLosses(fit'.losses) # {} /\ n + 1 \in KnownLosses(fit'.losses)
      BY <2>2
    <2>5. \A e \in KnownLosses(fit'.losses) :
            fit'.losses[e] > fit'.bestLoss \/ (fit'.losses[e] = fit'.bestLoss /\ e >= fit'.bestState)
      BY <1>3, <1>9, <2>2, <2>3
    <2>6. fit'.bestLoss = fit'.losses[fit'.bestState] /\ fit'.patience = Len(fit'.losses) - fit'.bestState
      BY <1>3, <1>9, <2>2
    <2>7. fit'.epoch = Len(fit'.losses) /\ fit'.weights = fit'.epoch /\ fit'.patience <= PatienceLimit
      BY <1>1, <1>2, <1>3, <1>4, <2>2
    <2>. QED BY <2>2, <2>4, <2>5, <2>6, <2>7 DEF Progress, IsProgress
  <1>11. ASSUME ~ IsBetter(loss) PROVE Progress'
    <2>1. /\ fit'.bestLoss = fit.bestLoss /\ fit'.bestState = fit.bestState /\ fit'.patience = fit.patience + 1
          /\ fit'.patience <= PatienceLimit
      BY <1>1, <1>2, <1>11
    <2>2. CASE known = {}
      <3>1. loss = NaN
        BY <1>8, <1>11, <2>2 DEF IsBetter
      <3>2. KnownLosses(fit'.losses) = {} /\ fit'.bestState = None /\ fit'.bestLoss = Inf
        BY <1>6, <1>8, <2>1, <2>2, <3>1
      <3>3. fit'.epoch = Len(fit'.losses) /\ fit'.weights = fit'.epoch
        BY <1>2, <1>3, <1>4
      <3>. QED BY <2>1, <3>2, <3>3 DEF Progress, IsProgress
    <2>3. CASE known # {}
      <3>1. /\ fit.bestState \in known /\ fit.bestLoss = fit.losses[fit.bestState] /\ fit.bestLoss \in Loss
            /\ \A e \in known : fit.losses[e] > fit.bestLoss \/ (fit.losses[e] = fit.bestLoss /\ e >= fit.bestState)
            /\ fit.patience = n - fit.bestState
        BY <1>8, <2>3
      <3>2. fit.bestState \in 1 .. n /\ fit.bestLoss \in Nat /\ fit.bestLoss # Inf
        BY <1>7, <3>1
      <3>3. loss # NaN => loss \in Nat /\ loss >= fit.bestLoss
        BY <1>11, <3>2 DEF IsBetter
      <3>4. \A e \in known : fit'.losses[e] = fit.losses[e]
        BY <1>3, <1>7
      <3>5. fit'.losses[fit'.bestState] = fit'.bestLoss /\ fit'.patience = n + 1 - fit'.bestState
        <4>1. fit'.losses[fit.bestState] = fit.losses[fit.bestState]
          BY <1>3, <3>2
        <4>. QED BY <1>9, <2>1, <3>1, <3>2, <4>1
      <3>6. \A e \in KnownLosses(fit'.losses) :
              fit'.losses[e] > fit'.bestLoss \/ (fit'.losses[e] = fit'.bestLoss /\ e >= fit'.bestState)
        <4>. SUFFICES ASSUME NEW e \in KnownLosses(fit'.losses)
                      PROVE  fit'.losses[e] > fit'.bestLoss \/ (fit'.losses[e] = fit'.bestLoss /\ e >= fit'.bestState)
          OBVIOUS
        <4>1. CASE e \in known
          BY <2>1, <3>1, <3>4, <4>1
        <4>2. CASE e = n + 1 /\ loss # NaN
          BY <1>3, <1>9, <2>1, <3>2, <3>3, <4>2
        <4>. QED BY <1>6, <4>1, <4>2
      <3>7. fit'.bestState \in KnownLosses(fit'.losses)
        BY <1>6, <2>1, <3>1
      <3>8. fit'.epoch = Len(fit'.losses) /\ fit'.weights = fit'.epoch
        BY <1>2, <1>3, <1>4
      <3>9. fit'.patience = Len(fit'.losses) - fit'.bestState
        BY <1>3, <1>9, <2>1, <3>2, <3>5
      <3>10. KnownLosses(fit'.losses) # {}
        BY <3>7
      <3>. QED BY <2>1, <3>5, <3>6, <3>7, <3>8, <3>9, <3>10 DEF Progress, IsProgress
    <2>. QED BY <2>2, <2>3
  <1>12. stage' = "training" => fit'.patience < PatienceLimit
    <2>1. stage' = "training" => ~ (fit'.patience >= PatienceLimit)
      BY <1>2 DEF TrainEpoch
    <2>2. fit'.patience \in Nat
      BY <1>1, <1>2
    <2>. QED BY <1>1, <2>1, <2>2
  <1>. QED BY <1>10, <1>11, <1>12

\* The weights of the best state are the best ones.
LEMMA BestIsRestored ==
  ASSUME TrainingInv, LoadBestState
  PROVE  IsBest(fit'.weights, fit'.losses)
  <1>. USE TrainingAssumption
  <1>1. stage = "trained" /\ fit \in FitType /\ fit' = [fit EXCEPT !.weights = Restored]
    BY DEF LoadBestState, TrainingInv, TrainingTypeOK
  <1>2. IsProgress(fit)
    BY <1>1 DEF TrainingInv, FitIsSound, Progress
  <1>3. fit'.weights = Restored /\ fit'.losses = fit.losses
    BY <1>1 DEF FitType
  <1>4. Len(fit.losses) \in Nat /\ DOMAIN fit.losses = 1 .. Len(fit.losses) /\ fit.patience \in Nat /\ PatienceLimit \in Nat
    BY <1>1 DEF FitType
  <1>5. CASE KnownLosses(fit.losses) = {}
    <2>1. Restored = Len(fit.losses)
      BY <1>2, <1>5 DEF IsProgress, Restored
    <2>. QED BY <1>3, <1>5, <2>1 DEF IsBest, KnownLosses
  <1>6. CASE KnownLosses(fit.losses) # {}
    <2>1. /\ fit.bestState \in KnownLosses(fit.losses) /\ fit.bestLoss = fit.losses[fit.bestState]
          /\ \A e \in KnownLosses(fit.losses) :
               fit.losses[e] > fit.bestLoss \/ (fit.losses[e] = fit.bestLoss /\ e >= fit.bestState)
          /\ fit.patience = Len(fit.losses) - fit.bestState /\ fit.patience <= PatienceLimit
      BY <1>2, <1>6 DEF IsProgress
    <2>2. fit.bestState \in Nat
      BY <1>4, <2>1 DEF KnownLosses
    <2>3. Restored = fit.bestState
      BY <2>2 DEF Restored
    <2>4. Len(fit.losses) <= fit.bestState + PatienceLimit
      BY <1>4, <2>1, <2>2
    <2>. QED BY <1>3, <1>6, <2>1, <2>3, <2>4 DEF IsBest, KnownLosses
  <1>. QED BY <1>5, <1>6

\* A step keeps what is known of the training loop.
LEMMA FitFollows ==
  ASSUME TrainingInv, [TrainingNext]_trainingVars
  PROVE  FitIsSound'
  <1>1. TrainingTypeOK /\ FitIsSound
    BY DEF TrainingInv
  <1>2. ASSUME NEW window \in {"whole", "broken"}, Predict(window) PROVE FitIsSound'
    BY <1>1, <1>2 DEF Predict, FitIsSound, Progress, BestIsKept
  <1>3. ASSUME NEW i \in DOMAIN log, NEW class \in AnomalyClass, SetConfirmedLabel(i, class) PROVE FitIsSound'
    BY <1>1, <1>3 DEF SetConfirmedLabel, FitIsSound, Progress, BestIsKept
  <1>4. ASSUME NEW type \in ModelType, NEW rows \in {LoadPredictionsFromDb, {}}, StartRun(type, rows) PROVE FitIsSound'
    <2>1. stage' = "loaded" /\ fit' = NoFit
      BY <1>4 DEF StartRun
    <2>. QED BY <2>1 DEF FitIsSound, BestIsKept, Saving
  <1>5. CASE Oversample
    <2>1. fit' = NoFit /\ stage' \in {"training", "idle"}
      BY <1>1, <1>5 DEF Oversample, FitIsSound
    <2>2. fit'.epoch = 0 /\ fit'.weights = 0 /\ fit'.losses = <<>> /\ fit'.bestLoss = Inf /\ fit'.bestState = None /\ fit'.patience = 0
      BY <2>1 DEF NoFit
    <2>3. KnownLosses(fit'.losses) = {} /\ Len(fit'.losses) = 0
      BY <2>2 DEF KnownLosses
    <2>4. 0 <= PatienceLimit /\ 0 < PatienceLimit
      BY TrainingAssumption
    <2>5. IsProgress(fit') /\ fit'.patience < PatienceLimit
      BY <2>2, <2>3, <2>4 DEF IsProgress
    <2>. QED BY <2>1, <2>5 DEF FitIsSound, Progress, BestIsKept, Saving
  <1>6. ASSUME NEW loss \in Loss \cup {NaN}, TrainEpoch(loss) PROVE FitIsSound'
    <2>1. stage' \in {"training", "trained"}
      BY <1>6 DEF TrainEpoch
    <2>2. Progress' /\ (stage' = "training" => fit'.patience < PatienceLimit)
      BY <1>6, EpochIsCounted
    <2>. QED BY <2>1, <2>2 DEF FitIsSound, BestIsKept, Saving
  <1>7. CASE LoadBestState
    <2>1. stage' = "restored"
      BY <1>7 DEF LoadBestState
    <2>2. IsBest(fit'.weights, fit'.losses)
      BY <1>7, BestIsRestored
    <2>. QED BY <2>1, <2>2 DEF FitIsSound, BestIsKept
  <1>8. CASE OpenLatest \/ SaveLatest \/ SaveStats
    <2>1. fit' = fit /\ stage \in {"restored"} \cup Saving /\ stage' \in Saving
      BY <1>8 DEF OpenLatest, SaveLatest, SaveStats, Saving
    <2>. QED BY <1>1, <2>1 DEF FitIsSound, BestIsKept, Saving
  <1>9. CASE SaveSplit \/ Crash
    BY <1>9 DEF SaveSplit, Crash, FitIsSound, BestIsKept, Saving
  <1>10. CASE LoadModel \/ ReadsForEvaluation \/ UNCHANGED trainingVars
    BY <1>1, <1>10 DEF LoadModel, ReadsForEvaluation, ReadTestSplit, ReadBaseline, ReadHybrid, trainingVars, FitIsSound, Progress, BestIsKept
  <1>. QED BY <1>2, <1>3, <1>4, <1>5, <1>6, <1>7, <1>8, <1>9, <1>10 DEF TrainingNext, ReadsForEvaluation

-----------------------------------------------------------------------------
\* What a checkpoint in the registry is.
LEMMA CheckpointsAreTyped ==
  ASSUME TrainingInv
  PROVE  /\ \A t \in ModelType : IsCheckpoint(registry[t]) => registry[t] \in CheckpointType
         /\ server # None => server \in CheckpointType
         /\ runs \in Nat /\ MaxRuns \in Nat
         /\ \A c \in CheckpointType : IsCheckpoint(c) /\ c.run \in Nat
  <1>1. FilesOK /\ runs \in 0 .. MaxRuns /\ MaxRuns \in Nat
    BY TrainingAssumption DEF TrainingInv, TrainingTypeOK
  <1>2. \A c \in CheckpointType : IsCheckpoint(c) /\ c.run \in Nat
    BY FileAssumption DEF IsCheckpoint, CheckpointType
  <1>. QED BY <1>1, <1>2 DEF FilesOK, IsCheckpoint

\* A step keeps the numbers of the runs in order.
LEMMA RunsFollow ==
  ASSUME TrainingInv, [TrainingNext]_trainingVars
  PROVE  RunsAreOrdered'
  <1>1. /\ RunsAreOrdered /\ runs \in Nat
        /\ \A t \in ModelType : IsCheckpoint(registry[t]) => registry[t].run \in Nat
        /\ server # None => server.run \in Nat
    BY CheckpointsAreTyped DEF TrainingInv
  <1>2. ASSUME NEW window \in {"whole", "broken"}, Predict(window) PROVE RunsAreOrdered'
    BY <1>1, <1>2 DEF Predict, RunsAreOrdered, files
  <1>3. ASSUME NEW i \in DOMAIN log, NEW class \in AnomalyClass, SetConfirmedLabel(i, class) PROVE RunsAreOrdered'
    BY <1>1, <1>3 DEF SetConfirmedLabel, RunsAreOrdered, files
  <1>4. ASSUME NEW type \in ModelType, NEW rows \in {LoadPredictionsFromDb, {}}, StartRun(type, rows) PROVE RunsAreOrdered'
    <2>1. stage' = "loaded" /\ runs' = runs + 1 /\ registry' = registry /\ server' = server
      BY <1>4 DEF StartRun, files
    <2>2. \A m \in Nat : m <= runs => m < runs' /\ m <= runs'
      BY <1>1, <2>1
    <2>3. /\ \A t \in ModelType : IsCheckpoint(registry[t]) => registry[t].run <= runs
          /\ server # None => server.run <= runs
      BY <1>1 DEF RunsAreOrdered
    <2>4. \A t \in ModelType : IsCheckpoint(registry[t]) => registry[t].run < runs' /\ registry[t].run <= runs'
      BY <1>1, <2>2, <2>3
    <2>5. server # None => server.run < runs' /\ server.run <= runs'
      BY <1>1, <2>2, <2>3
    <2>. QED BY <2>1, <2>4, <2>5 DEF RunsAreOrdered
  <1>5. CASE Oversample \/ (\E loss \in Loss \cup {NaN} : TrainEpoch(loss)) \/ LoadBestState
    <2>1. /\ stage \in {"loaded", "training", "trained"} /\ stage' \in {"training", "trained", "restored", "idle"}
          /\ registry' = registry /\ server' = server /\ runs' = runs
      BY <1>5 DEF Oversample, TrainEpoch, LoadBestState, files
    <2>. QED BY <1>1, <2>1 DEF RunsAreOrdered
  <1>6. CASE OpenLatest
    <2>1. /\ stage = "restored" /\ stage' = "writing" /\ server' = server /\ runs' = runs
          /\ registry' = [registry EXCEPT ![job.type] = Broken]
      BY <1>6 DEF OpenLatest
    <2>2. registry \in [ModelType -> CheckpointType \cup {None, Broken}]
      BY DEF TrainingInv, TrainingTypeOK, FilesOK
    <2>3. \A t \in ModelType : IsCheckpoint(registry'[t]) => IsCheckpoint(registry[t]) /\ registry'[t] = registry[t]
      BY <2>1, <2>2 DEF IsCheckpoint
    <2>. QED BY <1>1, <2>1, <2>3 DEF RunsAreOrdered
  <1>7. CASE SaveLatest
    <2>1. /\ stage = "writing" /\ stage' = "saved" /\ server' = server /\ runs' = runs /\ job' = job
          /\ registry' = [registry EXCEPT ![job.type] = Checkpoint]
      BY <1>7 DEF SaveLatest
    <2>2. /\ registry \in [ModelType -> CheckpointType \cup {None, Broken}] /\ job.type \in ModelType
          /\ job.stats \in SUBSET Origin /\ fit.weights \in Nat
      BY <2>1 DEF TrainingInv, TrainingTypeOK, FilesOK, JobType, FitType
    <2>3. Checkpoint \in CheckpointType /\ Checkpoint.run = runs /\ Checkpoint.stats = job.stats
      BY <1>1, <2>2 DEF Checkpoint, CheckpointType
    <2>4. registry'[job.type] = Checkpoint /\ \A t \in ModelType \ {job.type} : registry'[t] = registry[t]
      BY <2>1, <2>2
    <2>5. IsCheckpoint(registry'[job.type])
      BY <2>3, <2>4, CheckpointsAreTyped
    <2>. QED BY <1>1, <2>1, <2>3, <2>4, <2>5 DEF RunsAreOrdered
  <1>8. CASE SaveStats
    <2>1. /\ stage = "saved" /\ stage' = "stats saved" /\ registry' = registry /\ server' = server /\ runs' = runs /\ job' = job
      BY <1>8 DEF SaveStats
    <2>. QED BY <1>1, <2>1 DEF RunsAreOrdered
  <1>9. CASE SaveSplit \/ Crash
    <2>1. stage' = "idle" /\ registry' = registry /\ server' = server /\ runs' = runs
      BY <1>9 DEF SaveSplit, Crash, files
    <2>. QED BY <1>1, <2>1 DEF RunsAreOrdered
  <1>10. CASE LoadModel
    <2>1. /\ IsCheckpoint(registry["baseline"]) /\ server'.run = registry["baseline"].run
          /\ registry' = registry /\ runs' = runs /\ stage' = stage /\ job' = job
      BY <1>10 DEF LoadModel, Served, Loaded, files
    <2>2. "baseline" \in ModelType
      BY DEF ModelType
    <2>. QED BY <1>1, <2>1, <2>2 DEF RunsAreOrdered
  <1>11. CASE ReadsForEvaluation \/ UNCHANGED trainingVars
    BY <1>1, <1>11 DEF ReadsForEvaluation, ReadTestSplit, ReadBaseline, ReadHybrid, trainingVars, files, RunsAreOrdered
  <1>. QED BY <1>2, <1>3, <1>4, <1>5, <1>6, <1>7, <1>8, <1>9, <1>10, <1>11 DEF TrainingNext, ReadsForEvaluation

\* A step keeps the split with the run that is last.
LEMMA SplitFollows ==
  ASSUME TrainingInv, [TrainingNext]_trainingVars
  PROVE  SplitIsOfLastRun'
  <1>1. SplitIsOfLastRun /\ RunsAreOrdered /\ interrupted \in BOOLEAN
    BY DEF TrainingInv, TrainingTypeOK
  <1>2. CASE /\ registry' = registry /\ split' = split
             /\ stage \in Saving => stage' \in Saving \/ interrupted'
             /\ interrupted => interrupted'
    BY <1>1, <1>2 DEF SplitIsOfLastRun
  <1>3. CASE OpenLatest \/ SaveLatest
    BY <1>3 DEF OpenLatest, SaveLatest, SplitIsOfLastRun, Saving
  <1>4. CASE SaveSplit
    <2>1. stage = "stats saved" /\ split' = job.stats /\ registry' = registry
      BY <1>4 DEF SaveSplit
    <2>2. job.type \in ModelType
      BY <2>1 DEF TrainingInv, TrainingTypeOK, JobType
    <2>3. \A t \in ModelType : IsCheckpoint(registry[t]) => registry[t].run \in Nat
      BY CheckpointsAreTyped
    <2>4. /\ registry[job.type].run = runs /\ registry[job.type].stats = job.stats /\ IsCheckpoint(registry[job.type])
          /\ \A t \in ModelType \ {job.type} : IsCheckpoint(registry[t]) => registry[t].run < runs
      BY <1>1, <2>1 DEF RunsAreOrdered
    <2>5. \A t \in ModelType :
            /\ IsCheckpoint(registry[t])
            /\ \A u \in ModelType : IsCheckpoint(registry[u]) => registry[u].run <= registry[t].run
            => t = job.type
      BY <2>2, <2>3, <2>4
    <2>. QED BY <2>1, <2>4, <2>5 DEF SplitIsOfLastRun
  <1>5. ASSUME NEW window \in {"whole", "broken"}, Predict(window) PROVE SplitIsOfLastRun'
    BY <1>2, <1>5 DEF Predict, files
  <1>6. ASSUME NEW i \in DOMAIN log, NEW class \in AnomalyClass, SetConfirmedLabel(i, class) PROVE SplitIsOfLastRun'
    BY <1>2, <1>6 DEF SetConfirmedLabel, files
  <1>7. ASSUME NEW type \in ModelType, NEW rows \in {LoadPredictionsFromDb, {}}, StartRun(type, rows) PROVE SplitIsOfLastRun'
    BY <1>2, <1>7 DEF StartRun, files, Saving
  <1>8. ASSUME NEW loss \in Loss \cup {NaN}, TrainEpoch(loss) PROVE SplitIsOfLastRun'
    BY <1>2, <1>8 DEF TrainEpoch, files, Saving
  <1>9. CASE Oversample \/ LoadBestState
    BY <1>2, <1>9 DEF Oversample, LoadBestState, files, Saving
  <1>10. CASE SaveStats
    BY <1>2, <1>10 DEF SaveStats, Saving
  <1>11. CASE Crash
    BY <1>2, <1>11 DEF Crash, files
  <1>12. CASE LoadModel \/ ReadsForEvaluation \/ UNCHANGED trainingVars
    BY <1>2, <1>12 DEF LoadModel, ReadsForEvaluation, ReadTestSplit, ReadBaseline, ReadHybrid, trainingVars, files
  <1>. QED BY <1>3, <1>4, <1>5, <1>6, <1>7, <1>8, <1>9, <1>10, <1>11, <1>12 DEF TrainingNext, ReadsForEvaluation

\* A step leaves an evaluation with what there is, or disturbs it.
LEMMA EvaluationFollows ==
  ASSUME TrainingInv, [TrainingNext]_trainingVars
  PROVE  EvaluationIsCurrent'
  <1>1. EvaluationIsCurrent /\ interrupted \in BOOLEAN
    BY DEF TrainingInv, TrainingTypeOK
  <1>2. CASE /\ evaluation' = evaluation /\ registry' = registry /\ split' = split
             /\ stage' \in Saving => stage \in Saving
             /\ interrupted => interrupted'
    BY <1>1, <1>2 DEF EvaluationIsCurrent
  <1>3. CASE OpenLatest
    <2>1. evaluation # None => evaluation'.disturbed
      <3>1. ASSUME evaluation # None PROVE evaluation'.disturbed
        <4>1. evaluation \in EvaluationType /\ evaluation' = [evaluation EXCEPT !.disturbed = TRUE]
          BY <1>3, <3>1 DEF OpenLatest, TrainingInv, TrainingTypeOK, FilesOK
        <4>. QED BY <4>1 DEF EvaluationType
      <3>. QED BY <3>1
    <2>2. evaluation = None => evaluation' = None
      BY <1>3 DEF OpenLatest
    <2>. QED BY <2>1, <2>2 DEF EvaluationIsCurrent
  <1>4. CASE SaveLatest \/ SaveStats \/ SaveSplit
    <2>1. stage \in Saving /\ evaluation' = evaluation /\ interrupted' = interrupted
      BY <1>4 DEF SaveLatest, SaveStats, SaveSplit, Saving, evaluations
    <2>. QED BY <1>1, <2>1 DEF EvaluationIsCurrent
  <1>5. CASE Crash
    <2>1. evaluation' = evaluation /\ registry' = registry /\ split' = split /\ stage' \notin Saving
      BY <1>5 DEF Crash, evaluations, files, Saving
    <2>2. interrupted => interrupted'
      BY <1>5 DEF Crash
    <2>. QED BY <1>2, <2>1, <2>2
  <1>6. CASE ReadTestSplit
    BY <1>6 DEF ReadTestSplit, EvaluationIsCurrent, files
  <1>7. CASE ReadBaseline
    <2>1. /\ evaluation # None /\ registry' = registry /\ split' = split /\ stage' = stage /\ interrupted' = interrupted
          /\ evaluation' \in {None, [evaluation EXCEPT !.baseline = registry["baseline"]]}
      BY <1>7 DEF ReadBaseline, files
    <2>2. evaluation \in EvaluationType
      BY <2>1 DEF TrainingInv, TrainingTypeOK, FilesOK
    <2>3. CASE evaluation' = [evaluation EXCEPT !.baseline = registry["baseline"]]
      <3>1. /\ evaluation'.given = evaluation.given /\ evaluation'.disturbed = evaluation.disturbed
            /\ evaluation'.baseline = registry["baseline"]
        BY <2>2, <2>3 DEF EvaluationType
      <3>. QED BY <1>1, <2>1, <3>1 DEF EvaluationIsCurrent
    <2>. QED BY <2>1, <2>3 DEF EvaluationIsCurrent
  <1>8. CASE ReadHybrid
    BY <1>8 DEF ReadHybrid, EvaluationIsCurrent
  <1>9. ASSUME NEW window \in {"whole", "broken"}, Predict(window) PROVE EvaluationIsCurrent'
    BY <1>2, <1>9 DEF Predict, files, evaluations
  <1>10. ASSUME NEW i \in DOMAIN log, NEW class \in AnomalyClass, SetConfirmedLabel(i, class) PROVE EvaluationIsCurrent'
    BY <1>2, <1>10 DEF SetConfirmedLabel, files, evaluations
  <1>11. ASSUME NEW type \in ModelType, NEW rows \in {LoadPredictionsFromDb, {}}, StartRun(type, rows)
         PROVE  EvaluationIsCurrent'
    BY <1>2, <1>11 DEF StartRun, files, evaluations, Saving
  <1>12. ASSUME NEW loss \in Loss \cup {NaN}, TrainEpoch(loss) PROVE EvaluationIsCurrent'
    BY <1>2, <1>12 DEF TrainEpoch, files, evaluations, Saving
  <1>13. CASE Oversample \/ LoadBestState
    BY <1>2, <1>13 DEF Oversample, LoadBestState, files, evaluations, Saving
  <1>14. CASE LoadModel \/ UNCHANGED trainingVars
    BY <1>2, <1>14 DEF LoadModel, trainingVars, files, evaluations
  <1>. QED BY <1>3, <1>4, <1>5, <1>6, <1>7, <1>8, <1>9, <1>10, <1>11, <1>12, <1>13, <1>14 DEF TrainingNext

\* A step keeps weights with their statistics.
LEMMA StatsFollow ==
  ASSUME TrainingInv, [TrainingNext]_trainingVars
  PROVE  StatsBelongToWeights'
  <1>1. /\ ServedWithItsStats /\ LastTrainedIsJudgedFairly /\ RunsAreOrdered /\ SplitIsOfLastRun
        /\ EvaluationIsCurrent /\ interrupted \in BOOLEAN
    BY DEF TrainingInv, StatsBelongToWeights, TrainingTypeOK
  <1>2. ServedWithItsStats'
    <2>1. CASE registry' = registry /\ server' = server
      BY <1>1, <2>1 DEF ServedWithItsStats
    <2>2. CASE OpenLatest \/ SaveLatest
      <3>1. /\ stage \in {"restored", "writing"} /\ server' = server
            /\ registry' = [registry EXCEPT ![job.type] = Broken] \/ registry' = [registry EXCEPT ![job.type] = Checkpoint]
        BY <2>2 DEF OpenLatest, SaveLatest
      <3>2. registry \in [ModelType -> CheckpointType \cup {None, Broken}] /\ "baseline" \in ModelType
        BY DEF TrainingInv, TrainingTypeOK, FilesOK, ModelType
      <3>3. CASE registry'["baseline"] = registry["baseline"]
        BY <1>1, <3>1, <3>3 DEF ServedWithItsStats
      <3>4. CASE registry'["baseline"] = Broken
        BY <3>4 DEF ServedWithItsStats, IsCheckpoint
      <3>5. CASE registry'["baseline"] = Checkpoint
        <4>1. registry'["baseline"].run = runs
          BY <3>5 DEF Checkpoint
        <4>2. server # None => server.run < runs /\ server.run \in Nat /\ runs \in Nat
          BY <1>1, <3>1, CheckpointsAreTyped DEF RunsAreOrdered
        <4>. QED BY <3>1, <4>1, <4>2 DEF ServedWithItsStats
      <3>. QED BY <3>1, <3>2, <3>3, <3>4, <3>5
    <2>3. CASE LoadModel
      BY <2>3 DEF LoadModel, Served, Loaded, ServedWithItsStats, files
    <2>4. ASSUME NEW window \in {"whole", "broken"}, Predict(window) PROVE ServedWithItsStats'
      BY <2>1, <2>4 DEF Predict, files
    <2>5. ASSUME NEW i \in DOMAIN log, NEW class \in AnomalyClass, SetConfirmedLabel(i, class) PROVE ServedWithItsStats'
      BY <2>1, <2>5 DEF SetConfirmedLabel, files
    <2>6. ASSUME NEW type \in ModelType, NEW rows \in {LoadPredictionsFromDb, {}}, StartRun(type, rows) PROVE ServedWithItsStats'
      BY <2>1, <2>6 DEF StartRun, files
    <2>7. ASSUME NEW loss \in Loss \cup {NaN}, TrainEpoch(loss) PROVE ServedWithItsStats'
      BY <2>1, <2>7 DEF TrainEpoch, files
    <2>8. CASE Oversample \/ LoadBestState \/ SaveStats \/ SaveSplit \/ Crash \/ ReadsForEvaluation \/ UNCHANGED trainingVars
      BY <2>1, <2>8 DEF Oversample, LoadBestState, SaveStats, SaveSplit, Crash, ReadsForEvaluation, ReadTestSplit,
             ReadBaseline, ReadHybrid, trainingVars, files
    <2>. QED BY <2>2, <2>3, <2>4, <2>5, <2>6, <2>7, <2>8 DEF TrainingNext, ReadsForEvaluation
  <1>3. LastTrainedIsJudgedFairly'
    <2>1. CASE verdict' = verdict /\ (interrupted => interrupted')
      BY <1>1, <2>1 DEF LastTrainedIsJudgedFairly
    <2>2. CASE ReadHybrid /\ IsCheckpoint(registry["hybrid"])
      <3>1. /\ evaluation # None /\ evaluation.baseline # None /\ interrupted' = interrupted
            /\ verdict' = [given |-> evaluation.given, during |-> evaluation.disturbed,
                           of |-> [t \in ModelType |-> Judged(IF t = "baseline" THEN evaluation.baseline
                                                              ELSE registry["hybrid"])]]
        BY <2>2 DEF ReadHybrid
      <3>2. ASSUME ~ verdict'.during, ~ interrupted', NEW t \in ModelType,
                   \A u \in ModelType : verdict'.of[u].run <= verdict'.of[t].run
            PROVE  verdict'.of[t].stats = verdict'.given
        <4>1. ~ evaluation.disturbed /\ ~ interrupted
          BY <3>1, <3>2
        <4>2. stage \notin Saving /\ evaluation.given = split /\ evaluation.baseline = registry["baseline"]
          BY <1>1, <3>1, <4>1 DEF EvaluationIsCurrent
        <4>3. \A u \in ModelType : verdict'.of[u].run = registry[u].run /\ verdict'.of[u].stats = registry[u].stats
          BY <3>1, <4>2 DEF Judged, ModelType
        <4>4. \A u \in ModelType : registry[u].run <= registry[t].run
          BY <3>2, <4>3
        <4>5. evaluation.baseline \in CheckpointType
          <5>1. evaluation \in EvaluationType
            BY <3>1 DEF TrainingInv, TrainingTypeOK, FilesOK
          <5>. QED BY <3>1, <5>1 DEF EvaluationType
        <4>6. IsCheckpoint(registry["baseline"])
          BY <4>2, <4>5, CheckpointsAreTyped
        <4>7. IsCheckpoint(registry[t])
          BY <2>2, <4>6 DEF ModelType
        <4>8. registry[t].stats = split
          BY <1>1, <4>1, <4>2, <4>4, <4>7 DEF SplitIsOfLastRun
        <4>. QED BY <3>1, <4>2, <4>3, <4>8
      <3>. QED BY <3>2 DEF LastTrainedIsJudgedFairly
    <2>11. CASE ReadTestSplit \/ ReadBaseline \/ (ReadHybrid /\ ~ IsCheckpoint(registry["hybrid"]))
      BY <2>1, <2>11 DEF ReadTestSplit, ReadBaseline, ReadHybrid
    <2>3. ASSUME NEW window \in {"whole", "broken"}, Predict(window) PROVE LastTrainedIsJudgedFairly'
      BY <2>1, <2>3 DEF Predict, evaluations
    <2>4. ASSUME NEW i \in DOMAIN log, NEW class \in AnomalyClass, SetConfirmedLabel(i, class) PROVE LastTrainedIsJudgedFairly'
      BY <2>1, <2>4 DEF SetConfirmedLabel, evaluations
    <2>5. ASSUME NEW type \in ModelType, NEW rows \in {LoadPredictionsFromDb, {}}, StartRun(type, rows)
          PROVE  LastTrainedIsJudgedFairly'
      BY <2>1, <2>5 DEF StartRun, evaluations
    <2>6. ASSUME NEW loss \in Loss \cup {NaN}, TrainEpoch(loss) PROVE LastTrainedIsJudgedFairly'
      BY <2>1, <2>6 DEF TrainEpoch, evaluations
    <2>7. CASE Oversample \/ LoadBestState \/ OpenLatest \/ SaveLatest
      BY <2>1, <2>7 DEF Oversample, LoadBestState, OpenLatest, SaveLatest, evaluations
    <2>8. CASE SaveStats \/ SaveSplit \/ LoadModel
      BY <2>1, <2>8 DEF SaveStats, SaveSplit, LoadModel, evaluations
    <2>9. CASE Crash
      BY <2>1, <2>9 DEF Crash, evaluations
    <2>10. CASE UNCHANGED trainingVars
      BY <2>1, <2>10 DEF trainingVars, evaluations
    <2>. QED BY <2>2, <2>3, <2>4, <2>5, <2>6, <2>7, <2>8, <2>9, <2>10, <2>11 DEF TrainingNext
  <1>. QED BY <1>2, <1>3 DEF StatsBelongToWeights

-----------------------------------------------------------------------------
LEMMA TrainingInvariant == TrainingSpec => []TrainingInv
  <1>1. TrainingInit => TrainingInv
    <2>. SUFFICES ASSUME TrainingInit PROVE TrainingInv
      OBVIOUS
    <2>1. FilesOK
      BY DEF TrainingInit, FilesOK
    <2>2. TrainingTypeOK
      <3>1. log \in Seq(Row) /\ runs \in 0 .. MaxRuns
        BY TrainingAssumption DEF TrainingInit
      <3>. QED BY <2>1, <3>1 DEF TrainingInit, TrainingTypeOK, Stage
    <2>3. RowsAreWhole /\ JobIsLabelled
      BY DEF TrainingInit, RowsAreWhole, JobIsLabelled
    <2>4. FitIsSound
      BY DEF TrainingInit, FitIsSound, BestIsKept, Saving
    <2>5. RunsAreOrdered /\ SplitIsOfLastRun /\ EvaluationIsCurrent /\ StatsBelongToWeights
      BY DEF TrainingInit, RunsAreOrdered, SplitIsOfLastRun, EvaluationIsCurrent, StatsBelongToWeights, ServedWithItsStats,
             LastTrainedIsJudgedFairly, IsCheckpoint
    <2>. QED BY <2>2, <2>3, <2>4, <2>5 DEF TrainingInv
  <1>2. TrainingInv /\ [TrainingNext]_trainingVars => TrainingInv'
    BY TypesStay, LabelsFollow, FitFollows, RunsFollow, SplitFollows, EvaluationFollows, StatsFollow
    DEF TrainingInv
  <1>. QED BY <1>1, <1>2, PTL DEF TrainingSpec

(***************************************************************************)
(* Rows, jobs, training loops, checkpoints and verdicts are what the code  *)
(* makes of them.                                                          *)
(***************************************************************************)
THEOREM TrainingTypeCorrect == TrainingSpec => []TrainingTypeOK
  <1>1. TrainingInv => TrainingTypeOK
    BY DEF TrainingInv
  <1>. QED BY <1>1, TrainingInvariant, PTL

(***************************************************************************)
(* The split of the calibrated data set is clean in all its 960 readings   *)
(* of 15 nodes (load_clean_split_dataset 92-169).                          *)
(***************************************************************************)
THEOREM SplitStaysClean == TrainingSpec => []SplitIsClean
  <1>1. TrainingInv => SplitIsClean
    BY SplitIsSound DEF SplitIsClean
  <1>. QED BY <1>1, TrainingInvariant, PTL

(***************************************************************************)
(* Every example is trained on with its own label, for any number of rows, *)
(* confirmations and runs (load_confirmed_real_predictions 172-209).       *)
(***************************************************************************)
THEOREM LabelsAreKept == TrainingSpec => []LabelsStay
  <1>1. TrainingInv => LabelsStay
    <2>. SUFFICES ASSUME TrainingInv, stage = "training"
                  PROVE  /\ Len(job.X) = Len(job.y)
                         /\ \A e \in Examples : e[2] = IF e[1][1] = "data" THEN e[1][2] ELSE job.loaded[e[1][2]].label
      BY DEF LabelsStay
    <2>1. Len(job.X) = Len(job.y) /\ \A k \in DOMAIN job.X : job.y[k] = OwnLabel(job.loaded, job.X[k])
      BY DEF TrainingInv, JobIsLabelled
    <2>2. ASSUME NEW e \in Examples
          PROVE  e[2] = IF e[1][1] = "data" THEN e[1][2] ELSE job.loaded[e[1][2]].label
      <3>1. PICK k \in DOMAIN job.X : e = <<job.X[k], job.y[k]>>
        BY DEF Examples
      <3>2. e[1] = job.X[k] /\ e[2] = job.y[k]
        BY <3>1
      <3>. QED BY <2>1, <3>2 DEF OwnLabel
    <2>. QED BY <2>1, <2>2
  <1>. QED BY <1>1, TrainingInvariant, PTL

(***************************************************************************)
(* The weights that are saved are those of the first best epoch, for any   *)
(* losses, epochs and patience (the training loop 411-539).                *)
(***************************************************************************)
THEOREM BestStaysKept == TrainingSpec => []BestIsKept
  <1>1. TrainingInv => BestIsKept
    BY DEF TrainingInv, FitIsSound
  <1>. QED BY <1>1, TrainingInvariant, PTL

(***************************************************************************)
(* Weights are used with their own statistics, by the server always and by *)
(* evaluate.py for the model trained last (app.py 59-95; evaluate.py       *)
(* 209-234).                                                               *)
(***************************************************************************)
THEOREM StatsStayWithWeights == TrainingSpec => []StatsBelongToWeights
  <1>1. TrainingInv => StatsBelongToWeights
    BY DEF TrainingInv
  <1>. QED BY <1>1, TrainingInvariant, PTL

=============================================================================
