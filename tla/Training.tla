------------------------------ MODULE Training ------------------------------
(***************************************************************************)
(* Offline training: the calibrated data set and its split, predictions    *)
(* confirmed by operators as further examples, the training loop with      *)
(* early stopping, the model registry, and who reads it: evaluate.py and   *)
(* the inference server.                                                   *)
(*                                                                         *)
(* Weights are the epoch that made them; normalization statistics are the  *)
(* confirmed rows that went into them, all else being the same each time;  *)
(* a loss is a number, or NaN.  A run may crash anywhere, a file it was    *)
(* writing is then broken.                                                 *)
(***************************************************************************)
EXTENDS Integers, FiniteSets, SequencesExt

CONSTANTS
  Loss,            (* validation losses                                    *)
  NaN, Inf, None, Broken,
  Epochs,          (* --epochs                                             *)
  PatienceLimit,   (* 15                                                   *)
  MaxRows,         (* bound: predictions logged                            *)
  MaxRuns          (* bound: training runs                                 *)

ASSUME TrainingAssumption ==
  /\ Loss \subseteq Nat
  /\ Inf \notin Loss /\ NaN \notin Loss /\ NaN # Inf
  /\ Broken # None
  /\ None \notin Nat
  /\ {Epochs, PatienceLimit} \subseteq Nat \ {0}
  /\ {MaxRows, MaxRuns} \subseteq Nat

-----------------------------------------------------------------------------
(***************************************************************************)
(* The data set: 15 nodes, 960 readings each, and when each is at risk or  *)
(* disturbed by machines.                                                  *)
(***************************************************************************)
Normal == 0
EquipmentNoise == 1
SubsidenceRisk == 2
AnomalyClass == {Normal, EquipmentNoise, SubsidenceRisk}

ReadingsPerNode == 960

NoiseWindows ==
  {<<1, 200, 240>>, <<1, 500, 530>>, <<2, 350, 390>>, <<3, 180, 220>>, <<3, 600, 640>>, <<4, 400, 440>>,
   <<10, 250, 290>>, <<12, 300, 340>>, <<12, 700, 740>>, <<15, 450, 490>>}

HazardStart ==
  [n \in 1 .. 15 |-> CASE n \in 5 .. 9 -> 650
                       [] n = 11 -> 700
                       [] n = 13 -> 720
                       [] n = 14 -> 816
                       [] OTHER -> ReadingsPerNode]

\* Does a stretch of readings [from, to) have one of that label?
HasLabel(n, from, to, class) ==
  CASE class = SubsidenceRisk -> to > HazardStart[n]
    [] class = EquipmentNoise -> \E w \in NoiseWindows : w[1] = n /\ from < w[3] /\ w[2] < to
    [] OTHER -> TRUE

-----------------------------------------------------------------------------
(***************************************************************************)
(* Windows of 32 readings, and the split by node and by time.              *)
(***************************************************************************)
WINDOW_LEN == 32
WINDOW_STRIDE == 8

\* A window is at risk, or else disturbed, if one of its readings is.
WindowClass(n, from, to) ==
  IF HasLabel(n, from, to, SubsidenceRisk) THEN SubsidenceRisk
  ELSE IF HasLabel(n, from, to, EquipmentNoise) THEN EquipmentNoise ELSE Normal

WindowReadingsSegment(n, from, to, stride) ==
  {[node |-> n, from |-> s, to |-> s + WINDOW_LEN, class |-> WindowClass(n, s, s + WINDOW_LEN)] :
     s \in {t \in from .. to - WINDOW_LEN : (t - from) % stride = 0}}

WholeNodes(nodes) == UNION {WindowReadingsSegment(n, 0, ReadingsPerNode, WINDOW_STRIDE) : n \in nodes}

\* Mutation: training goes on to where validation starts, a window later.
TrainWindowsLonger ==
  WholeNodes(1 .. 9) \cup WindowReadingsSegment(13, 0, 720, WINDOW_STRIDE)
                     \cup WindowReadingsSegment(13, 720, 912, 1)
TrainWindows ==
  WholeNodes(1 .. 9) \cup WindowReadingsSegment(13, 0, 720, WINDOW_STRIDE)
                     \cup WindowReadingsSegment(13, 720, 880, 1)

ValWindows == WholeNodes(10 .. 12) \cup WindowReadingsSegment(13, 880, 960, 1)

TestWindows ==
  WholeNodes({15}) \cup WindowReadingsSegment(14, 0, 816, WINDOW_STRIDE)
                   \cup WindowReadingsSegment(14, 816, 960, 1)

Overlap(these, those) ==
  \E v \in these, w \in those : v.node = w.node /\ v.from < w.to /\ w.from < v.to

\* The integrity audit of train.py: it looks at training and test only.
LeakageDetected == Overlap(TestWindows, TrainWindows)

-----------------------------------------------------------------------------
VARIABLES
  log,         (* prediction_logs, oldest first: window and confirmed label *)
  runs,        (* training runs so far                                     *)
  stage,       (* where the current one is                                 *)
  job,         (* what it trains on                                        *)
  fit,         (* its training loop                                        *)
  registry,    (* the latest checkpoint of each model type                 *)
  statsFile,   (* normalization_stats.json                                 *)
  split,       (* test_split.npz: the statistics it was normalized with    *)
  server,      (* the checkpoint the inference server runs, if it runs     *)
  evaluation,  (* evaluate.py under way: what it has read so far           *)
  verdict,     (* its last result: the statistics each model was given     *)
  interrupted  (* history: a run crashed while it was saving               *)

files == <<registry, statsFile, split>>
evaluations == <<evaluation, verdict>>
trainingVars == <<log, runs, stage, job, fit, files, server, evaluations, interrupted>>

ModelType == {"baseline", "hybrid"}

NoJob == [type |-> None, loaded |-> <<>>, X |-> <<>>, y |-> <<>>, stats |-> None]
NoFit == [epoch |-> 0, weights |-> 0, losses |-> <<>>, bestLoss |-> Inf, bestState |-> None, patience |-> 0]

TrainingInit ==
  /\ log = <<>>
  /\ runs = 0
  /\ stage = "idle"
  /\ job = NoJob
  /\ fit = NoFit
  /\ registry = [t \in ModelType |-> None]
  /\ statsFile = None
  /\ split = None
  /\ server = None
  /\ evaluation = None
  /\ verdict = None
  /\ interrupted = FALSE

-----------------------------------------------------------------------------
(***************************************************************************)
(* The log of predictions: what the server answered, and labels.           *)
(***************************************************************************)
\* 32 rows of 9 numbers.  Mutation: whatever is sent is evaluated.
IsValidAny(window) == TRUE
IsValid(window) == window = "whole"

\* Anything else is answered with an error, and the backend logs nothing.
Predict(window) ==
  /\ server # None
  /\ IsValid(window)
  /\ Len(log) < MaxRows
  /\ log' = Append(log, [window |-> window, label |-> None])
  /\ UNCHANGED <<runs, stage, job, fit, files, server, evaluations, interrupted>>

\* From the dashboard, or by hand with export_predictions.py --confirm-id.
SetConfirmedLabel(i, class) ==
  /\ log[i].label # class
  /\ log' = [log EXCEPT ![i].label = class]
  /\ UNCHANGED <<runs, stage, job, fit, files, server, evaluations, interrupted>>

-----------------------------------------------------------------------------
(***************************************************************************)
(* Data of a run.  An example is told by its origin: a window of the data  *)
(* set by its class, a confirmed one by its row.                           *)
(***************************************************************************)
\* One window for each class, normal ones in the majority.
SyntheticX == << <<"data", Normal>>, <<"data", Normal>>, <<"data", EquipmentNoise>>, <<"data", SubsidenceRisk>> >>
SyntheticY == <<Normal, Normal, EquipmentNoise, SubsidenceRisk>>

\* Rows come in the order of their time stamps; all that matters is that it
\* is the same for windows and labels.
InOrder(rows) == SetToSeq(rows)

LoadPredictionsFromDb == {i \in DOMAIN log : log[i].label # None}

\* Windows that are not whole are left out, labels are taken of all rows.
ExtractWindowArrays(rows) == InOrder({i \in rows : log[i].window = "whole"})

LoadConfirmed(rows) ==
  [X |-> [k \in DOMAIN ExtractWindowArrays(rows) |-> <<"row", ExtractWindowArrays(rows)[k]>>],
   y |-> [k \in DOMAIN InOrder(rows) |-> log[InOrder(rows)[k]].label]]

\* The rows, or none: a store that is missing or cannot be read is no error.
StartRun(type, rows) ==
  LET confirmed == LoadConfirmed(rows) IN
  /\ stage = "idle"
  /\ runs < MaxRuns
  /\ runs' = runs + 1
  /\ ~ LeakageDetected
  /\ stage' = "loaded"
  /\ job' = [type |-> type, loaded |-> log,
             X |-> SyntheticX \o confirmed.X,
             y |-> SyntheticY \o (IF confirmed.X = <<>> THEN <<>> ELSE confirmed.y),
             stats |-> Range(confirmed.X)]
  /\ fit' = NoFit
  /\ UNCHANGED <<log, files, server, evaluations, interrupted>>

CountOf(class) == Cardinality({k \in DOMAIN job.y : job.y[k] = class})
Minority == {c \in AnomalyClass : CountOf(c) > 0 /\ \E d \in AnomalyClass : CountOf(c) < CountOf(d)}

\* Examples of the smaller classes are repeated; here each class repeats one.
\* An index beyond the windows is an error.
Oversample ==
  /\ stage = "loaded"
  /\ \E pick \in [Minority -> DOMAIN job.y] :
       LET more == SetToSeq(Minority) IN
       /\ \A c \in Minority : job.y[pick[c]] = c
       /\ IF \A c \in Minority : pick[c] \in DOMAIN job.X
          THEN /\ stage' = "training"
               /\ job' = [job EXCEPT !.X = @ \o [k \in DOMAIN more |-> job.X[pick[more[k]]]],
                                     !.y = @ \o [k \in DOMAIN more |-> job.y[pick[more[k]]]]]
          ELSE stage' = "idle" /\ job' = NoJob
  /\ UNCHANGED <<log, runs, fit, files, server, evaluations, interrupted>>

\* Windows and labels are permuted alike and read by the same index.
Examples == {<<job.X[k], job.y[k]>> : k \in DOMAIN job.X \cap DOMAIN job.y}

-----------------------------------------------------------------------------
(***************************************************************************)
(* The training loop.                                                      *)
(***************************************************************************)
\* A comparison with NaN is false.
IsBetter(loss) == loss # NaN /\ (fit.bestLoss = Inf \/ loss < fit.bestLoss)

TrainEpoch(loss) ==
  LET epoch == fit.epoch + 1
      patience == IF IsBetter(loss) THEN 0 ELSE fit.patience + 1
      next == [epoch |-> epoch, weights |-> epoch, losses |-> Append(fit.losses, loss),
               bestLoss |-> IF IsBetter(loss) THEN loss ELSE fit.bestLoss,
               bestState |-> IF IsBetter(loss) THEN epoch ELSE fit.bestState,
               patience |-> patience]
  IN
  /\ stage = "training"
  /\ fit' = next
  /\ stage' = IF patience >= PatienceLimit \/ epoch = Epochs THEN "trained" ELSE "training"
  /\ UNCHANGED <<log, runs, job, files, server, evaluations, interrupted>>

\* Mutation: the weights of the last epoch are saved.
RestoredNot == fit.weights
Restored == IF fit.bestState = None THEN fit.weights ELSE fit.bestState

LoadBestState ==
  /\ stage = "trained"
  /\ stage' = "restored"
  /\ fit' = [fit EXCEPT !.weights = Restored]
  /\ UNCHANGED <<log, runs, job, files, server, evaluations, interrupted>>

-----------------------------------------------------------------------------
(***************************************************************************)
(* The registry.  Files are replaced where they are, one after the other.  *)
(***************************************************************************)
Checkpoint == [run |-> runs, weights |-> fit.weights, stats |-> job.stats]

OpenLatest ==
  /\ stage = "restored"
  /\ stage' = "writing"
  /\ registry' = [registry EXCEPT ![job.type] = Broken]
  /\ evaluation' = IF evaluation = None THEN None ELSE [evaluation EXCEPT !.disturbed = TRUE]
  /\ UNCHANGED <<log, runs, job, fit, statsFile, split, server, verdict, interrupted>>

SaveLatest ==
  /\ stage = "writing"
  /\ stage' = "saved"
  /\ registry' = [registry EXCEPT ![job.type] = Checkpoint]
  /\ UNCHANGED <<log, runs, job, fit, statsFile, split, server, evaluations, interrupted>>

SaveStats ==
  /\ stage = "saved"
  /\ stage' = "stats saved"
  /\ statsFile' = job.stats
  /\ UNCHANGED <<log, runs, job, fit, registry, split, server, evaluations, interrupted>>

SaveSplit ==
  /\ stage = "stats saved"
  /\ stage' = "idle"
  /\ split' = job.stats
  /\ job' = NoJob
  /\ fit' = NoFit
  /\ UNCHANGED <<log, runs, registry, statsFile, server, evaluations, interrupted>>

Saving == {"writing", "saved", "stats saved"}

Crash ==
  /\ stage # "idle"
  /\ interrupted' = (interrupted \/ stage \in Saving)
  /\ stage' = "idle"
  /\ job' = NoJob
  /\ fit' = NoFit
  /\ UNCHANGED <<log, runs, files, server, evaluations>>

-----------------------------------------------------------------------------
(***************************************************************************)
(* Readers of the registry.                                                *)
(***************************************************************************)
IsCheckpoint(c) == c # None /\ c # Broken

Loaded(c, stats) == [run |-> c.run, weights |-> c.weights, stats |-> stats]

\* Mutation: the statistics are read from the file of their own.
ServedFromFile(c) == Loaded(c, statsFile)
Served(c) == Loaded(c, c.stats)

\* Startup, with the default ML_MODEL_CHECKPOINT.
LoadModel ==
  /\ IsCheckpoint(registry["baseline"])
  /\ server' = Served(registry["baseline"])
  /\ UNCHANGED <<log, runs, stage, job, fit, files, evaluations, interrupted>>

\* Both models on the same split, as it was normalized when it was saved.
\* The three files are read one after the other, and runs may save meanwhile.
ReadTestSplit ==
  /\ evaluation = None
  /\ split # None
  /\ evaluation' = [given |-> split, disturbed |-> stage \in Saving, baseline |-> None]
  /\ UNCHANGED <<log, runs, stage, job, fit, files, server, verdict, interrupted>>

\* A file that is missing or broken ends the evaluation.
ReadBaseline ==
  /\ evaluation # None
  /\ evaluation.baseline = None
  /\ evaluation' = IF registry["hybrid"] # None /\ IsCheckpoint(registry["baseline"])
                   THEN [evaluation EXCEPT !.baseline = registry["baseline"]]
                   ELSE None
  /\ UNCHANGED <<log, runs, stage, job, fit, files, server, verdict, interrupted>>

Judged(c) == [run |-> c.run, stats |-> c.stats]

ReadHybrid ==
  /\ evaluation # None
  /\ evaluation.baseline # None
  /\ evaluation' = None
  /\ verdict' = IF IsCheckpoint(registry["hybrid"])
                THEN [given |-> evaluation.given, during |-> evaluation.disturbed,
                      of |-> [t \in ModelType |-> Judged(IF t = "baseline" THEN evaluation.baseline
                                                         ELSE registry["hybrid"])]]
                ELSE verdict
  /\ UNCHANGED <<log, runs, stage, job, fit, files, server, interrupted>>

TrainingNext ==
  \/ \E window \in {"whole", "broken"} : Predict(window)
  \/ \E i \in DOMAIN log, class \in AnomalyClass : SetConfirmedLabel(i, class)
  \/ \E type \in ModelType, rows \in {LoadPredictionsFromDb, {}} : StartRun(type, rows)
  \/ Oversample
  \/ \E loss \in Loss \cup {NaN} : TrainEpoch(loss)
  \/ LoadBestState
  \/ OpenLatest
  \/ SaveLatest
  \/ SaveStats
  \/ SaveSplit
  \/ Crash
  \/ LoadModel
  \/ ReadTestSplit
  \/ ReadBaseline
  \/ ReadHybrid

TrainingSpec == TrainingInit /\ [][TrainingNext]_trainingVars

-----------------------------------------------------------------------------
Stage == {"idle", "loaded", "training", "trained", "restored"} \cup Saving

Row == [window : {"whole", "broken"}, label : AnomalyClass \cup {None}]

Origin == ({"data"} \X AnomalyClass) \cup ({"row"} \X Nat)

CheckpointType == [run : Nat, weights : Nat, stats : SUBSET Origin]

ASSUME FileAssumption == None \notin CheckpointType /\ Broken \notin CheckpointType

FitType ==
  [epoch : Nat, weights : Nat, losses : Seq(Loss \cup {NaN}), bestLoss : Loss \cup {Inf},
   bestState : Nat \cup {None}, patience : Nat]

JobType ==
  [type : ModelType, loaded : Seq(Row), X : Seq(Origin), y : Seq(AnomalyClass), stats : SUBSET Origin]

EvaluationType ==
  [given : SUBSET Origin, disturbed : BOOLEAN, baseline : CheckpointType \cup {None}]

VerdictType ==
  [given : SUBSET Origin, during : BOOLEAN,
   of : [ModelType -> [run : Nat, stats : SUBSET Origin]]]

FilesOK ==
  /\ registry \in [ModelType -> CheckpointType \cup {None, Broken}]
  /\ {statsFile, split} \subseteq (SUBSET Origin) \cup {None}
  /\ server \in CheckpointType \cup {None}
  /\ evaluation \in EvaluationType \cup {None}
  /\ verdict \in VerdictType \cup {None}

TrainingTypeOK ==
  /\ log \in Seq(Row)
  /\ runs \in 0 .. MaxRuns
  /\ stage \in Stage
  /\ IF stage = "idle" THEN job = NoJob /\ fit = NoFit ELSE job \in JobType /\ fit \in FitType
  /\ FilesOK
  /\ interrupted \in BOOLEAN

CleanSplit ==
  /\ ~ Overlap(TrainWindows, ValWindows)
  /\ ~ Overlap(TrainWindows, TestWindows)
  /\ ~ Overlap(ValWindows, TestWindows)
  /\ \A part \in {TrainWindows, ValWindows, TestWindows} : {w.class : w \in part} = AnomalyClass

(***************************************************************************)
(* A run that has its data has a clean split: no reading is in windows of  *)
(* two of training, validation and test, though train.py audits only one   *)
(* pair, and each of the three has windows of every class, though where a  *)
(* hazard starts is written in another file (load_clean_split_dataset      *)
(* 92-169; generate_calibrated_dataset.py 36-165).                         *)
(***************************************************************************)
SplitIsClean == stage # "idle" => CleanSplit

(***************************************************************************)
(* An example is trained on with its own label: that of its window, or the *)
(* one an operator had confirmed.  Windows are filtered and labels are     *)
(* not, so this rests on the server refusing windows the exporter would    *)
(* leave out (load_confirmed_real_predictions 172-209, 315-334; app.py     *)
(* 140-156; export_predictions.py 156-193).                                *)
(***************************************************************************)
LabelsStay ==
  stage = "training" =>
    /\ Len(job.X) = Len(job.y)
    /\ \A e \in Examples :
         e[2] = IF e[1][1] = "data" THEN e[1][2] ELSE job.loaded[e[1][2]].label

(***************************************************************************)
(* What is saved are the weights of the first of the epochs with the least *)
(* validation loss, whatever came after it, and no more than the patience  *)
(* came after it; without any loss, those of the last epoch (411-539).     *)
(***************************************************************************)
IsBest(w, losses) ==
  LET known == {e \in DOMAIN losses : losses[e] # NaN} IN
  IF known = {}
  THEN w = Len(losses)
  ELSE /\ w \in known
       /\ \A e \in known : losses[e] > losses[w] \/ (losses[e] = losses[w] /\ e >= w)
       /\ Len(losses) <= w + PatienceLimit

BestIsKept == stage \in {"restored"} \cup Saving => IsBest(fit.weights, fit.losses)

(***************************************************************************)
(* Weights are used with the statistics they were trained with.  The       *)
(* server does so always, although it may start while a run saves or after *)
(* one crashed doing so.  Of two models evaluated on one split the one     *)
(* trained last does so, although the split and the models are read one    *)
(* after the other, unless a run was saving meanwhile or had crashed doing *)
(* so; the other one need not (app.py 59-95; train.py 499-561; evaluate.py *)
(* 73-94, 209-234).                                                        *)
(***************************************************************************)
ServedWithItsStats ==
  server # None /\ IsCheckpoint(registry["baseline"]) /\ registry["baseline"].run = server.run =>
    server.stats = registry["baseline"].stats

LastTrainedIsJudgedFairly ==
  LET lastRun(t) == \A u \in ModelType : verdict.of[u].run <= verdict.of[t].run IN
  verdict # None /\ ~ verdict.during /\ ~ interrupted =>
    \A t \in ModelType : lastRun(t) => verdict.of[t].stats = verdict.given

StatsBelongToWeights == ServedWithItsStats /\ LastTrainedIsJudgedFairly

=============================================================================
