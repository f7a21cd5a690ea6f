-------------------------- MODULE PredictionStore --------------------------
(***************************************************************************)
(* MlPredictionStoreService: predictions wait in a write queue and are     *)
(* inserted in batches, one transaction each, by a timer, by the callback  *)
(* every prediction schedules, and before every query.                     *)
(*                                                                         *)
(* The listener of ml.prediction.generated is asynchronous: it runs in a   *)
(* later turn of the event loop than the emit.  A drain is one synchronous *)
(* call.  The order within a batch makes no difference to the table, whose *)
(* key is unique, so queues are sets.  Any statement may fail.             *)
(***************************************************************************)
EXTENDS Naturals, FiniteSets

CONSTANTS
  Prediction,   (* predictionIds; randomUUID() gives each once             *)
  Label,        (* the labels an operator may confirm                      *)
  Unlabelled,   (* confirmed_label IS NULL                                 *)
  Absent,       (* no such row                                             *)
  MaxStops      (* bound: how often the process ends                       *)

ASSUME PredictionStoreAssumption ==
  /\ MaxStops \in Nat
  /\ Unlabelled # Absent
  /\ Unlabelled \notin Label
  /\ Absent \notin Label

VARIABLES
  process,      (* "up", "closed" once db = null, "down"                   *)
  emitted,      (* emitted, the listener not run yet                       *)
  writeQueue,   (* writeQueue                                              *)
  isFlushing,   (* isFlushing                                              *)
  rows,         (* prediction_logs: the label of each row                  *)
  stops,        (* how often the process ended                             *)
  generated,    (* history: predictions emitted                            *)
  lost,         (* history: rolled back, or in memory when it ended        *)
  confirmed     (* history: the label last reported as set                 *)

memory == <<emitted, writeQueue, isFlushing>>
history == <<generated, lost, confirmed>>
vars == <<process, memory, rows, stops, history>>

Init ==
  /\ process = "up"
  /\ emitted = {}
  /\ writeQueue = {}
  /\ isFlushing = FALSE
  /\ rows = [p \in Prediction |-> Absent]
  /\ stops = 0
  /\ generated = {}
  /\ lost = {}
  /\ confirmed = [p \in Prediction |-> Unlabelled]

Stored(table) == {p \in Prediction : table[p] # Absent}

-----------------------------------------------------------------------------
(***************************************************************************)
(* The write path.                                                         *)
(***************************************************************************)
\* executePrediction's emit; the answer of a call may come after the end.
Generate(p) ==
  /\ process # "down"
  /\ p \notin generated
  /\ generated' = generated \cup {p}
  /\ emitted' = emitted \cup {p}
  /\ UNCHANGED <<process, writeQueue, isFlushing, rows, stops, lost, confirmed>>

HandlePredictionGenerated ==
  /\ \E p \in emitted :
       /\ emitted' = emitted \ {p}
       /\ writeQueue' = writeQueue \cup {p}
  /\ UNCHANGED <<process, isFlushing, rows, stops, history>>

\* INSERT OR REPLACE: a prediction comes without a label.
Inserted(batch) ==
  [p \in Prediction |-> IF p \in batch THEN Unlabelled ELSE rows[p]]

\* The table after a batch: all of it, or none of it after ROLLBACK.
InsertBatch(table) ==
  \/ /\ table = Inserted(writeQueue)
     /\ UNCHANGED lost
  \/ /\ table = rows
     /\ lost' = lost \cup writeQueue

\* Mutation: the batch is copied out of the queue, not taken out of it.
RemainingAll == writeQueue
Remaining == {}

\* Mutation: no finally, a failure leaves the flag set.
FlagAfterLeft(table) == table = rows
FlagAfter(table) == FALSE

\* The table after drainQueue, which does nothing when there is no need.
DrainTo(table) ==
  \/ /\ isFlushing \/ writeQueue = {}
     /\ table = rows
     /\ UNCHANGED <<writeQueue, isFlushing, lost>>
  \/ /\ ~ isFlushing
     /\ writeQueue # {}
     /\ InsertBatch(table)
     /\ writeQueue' = Remaining
     /\ isFlushing' = FlagAfter(table)

\* From the 200 ms timer and from setImmediate, and all that getPredictions
\* and getStoreStats change.
DrainQueue ==
  /\ process = "up"
  /\ \E table \in {rows, Inserted(writeQueue)} : DrainTo(table) /\ rows' = table
  /\ UNCHANGED <<process, emitted, stops, generated, confirmed>>

-----------------------------------------------------------------------------
(***************************************************************************)
(* Labels.                                                                 *)
(***************************************************************************)
\* UPDATE ... WHERE prediction_id = p, and changes > 0.
SetConfirmedLabel(p, l) ==
  /\ process = "up"
  /\ \E table \in {rows, Inserted(writeQueue)} :
       /\ DrainTo(table)
       /\ \/ /\ p \in Stored(table)
             /\ rows' = [table EXCEPT ![p] = l]
             /\ confirmed' = [confirmed EXCEPT ![p] = l]
          \/ /\ rows' = table
             /\ UNCHANGED confirmed
  /\ UNCHANGED <<process, emitted, stops, generated>>

\* set_confirmed_label_db of export_predictions.py writes to the file itself.
SetConfirmedLabelDb(p, l) ==
  /\ p \in Stored(rows)
  /\ rows' = [rows EXCEPT ![p] = l]
  /\ confirmed' = [confirmed EXCEPT ![p] = l]
  /\ UNCHANGED <<process, memory, stops, generated, lost>>

-----------------------------------------------------------------------------
(***************************************************************************)
(* The end of the process, and its next start.                             *)
(***************************************************************************)
\* app.close(), which only the tests call: main.ts enables no shutdown hook.
OnModuleDestroy ==
  /\ process = "up"
  /\ process' = "closed"
  /\ \E table \in {rows, Inserted(writeQueue)} :
       InsertBatch(table) /\ rows' = table
  /\ writeQueue' = {}
  /\ UNCHANGED <<emitted, isFlushing, stops, generated, confirmed>>

\* A signal, a crash, or the end of a closed application.
Exit ==
  /\ process # "down"
  /\ process = "up" => stops < MaxStops
  /\ process' = "down"
  /\ stops' = IF process = "up" THEN stops + 1 ELSE stops
  /\ lost' = lost \cup emitted \cup writeQueue
  /\ emitted' = {}
  /\ writeQueue' = {}
  /\ UNCHANGED <<isFlushing, rows, generated, confirmed>>

OnModuleInit ==
  /\ process = "down"
  /\ process' = "up"
  /\ isFlushing' = FALSE
  /\ UNCHANGED <<emitted, writeQueue, rows, stops, history>>

Next ==
  \/ \E p \in Prediction : Generate(p)
  \/ HandlePredictionGenerated
  \/ DrainQueue
  \/ \E p \in Prediction, l \in Label :
       SetConfirmedLabel(p, l) \/ SetConfirmedLabelDb(p, l)
  \/ OnModuleDestroy
  \/ Exit
  \/ OnModuleInit

\* The event loop runs what is due, and a closed application ends.
Fairness ==
  /\ WF_vars(HandlePredictionGenerated)
  /\ WF_vars(DrainQueue)
  /\ WF_vars(process = "closed" /\ Exit)

Spec == Init /\ [][Next]_vars /\ Fairness

-----------------------------------------------------------------------------
TypeOK ==
  /\ process \in {"up", "closed", "down"}
  /\ emitted \subseteq Prediction
  /\ writeQueue \subseteq Prediction
  /\ isFlushing = FALSE
  /\ rows \in [Prediction -> Label \cup {Unlabelled, Absent}]
  /\ stops \in Nat
  /\ generated \subseteq Prediction
  /\ lost \subseteq Prediction
  /\ confirmed \in [Prediction -> Label \cup {Unlabelled}]

(***************************************************************************)
(* Every prediction emitted is in one place: on its way, in the queue, in  *)
(* the table or lost; none is inserted twice, and none turns up again      *)
(* after it was lost (handlePredictionGenerated to insertBatch, 134-227).  *)
(***************************************************************************)
Accounted ==
  /\ generated = emitted \cup writeQueue \cup Stored(rows) \cup lost
  /\ emitted \cap writeQueue = {}
  /\ (emitted \cup writeQueue) \cap (Stored(rows) \cup lost) = {}
  /\ Stored(rows) \cap lost = {}

(***************************************************************************)
(* A label whose confirmation was reported stays on the row, although      *)
(* inserts replace rows and start without a label (171-213, 333-349).      *)
(***************************************************************************)
LabelsKept ==
  \A p \in Prediction : confirmed[p] # Unlabelled => rows[p] = confirmed[p]

(***************************************************************************)
(* The store implements PredictionLog: what is stored stays stored, and a  *)
(* label changes only by a confirmation (134-227, 333-349).                *)
(***************************************************************************)
StageOf(p) ==
  IF p \in Stored(rows) THEN "stored"
  ELSE IF p \in lost THEN "lost"
  ELSE IF p \in generated THEN "waiting"
  ELSE "unknown"

Log == INSTANCE PredictionLog WITH
  stage <- [p \in Prediction |-> StageOf(p)],
  label <- [p \in Prediction |-> IF rows[p] = Absent THEN Unlabelled ELSE rows[p]]

ImplementsLog == Log!Spec

(***************************************************************************)
(* No prediction waits for ever: each is stored or lost, whatever fails    *)
(* (57-64, 147-163).                                                       *)
(***************************************************************************)
Settles ==
  \A p \in Prediction : p \in generated ~> p \in Stored(rows) \cup lost

=============================================================================
