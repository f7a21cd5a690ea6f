-------------------------- MODULE PredictionReview --------------------------
(***************************************************************************)
(* Operators label predictions: the log of MlValidationStudio and the      *)
(* inspector of the alerts page, on top of PredictionStore.                *)
(*                                                                         *)
(* A request may be lost, answered late or answered with an error, and     *)
(* answers overtake each other.                                            *)
(***************************************************************************)
EXTENDS PredictionStore

CONSTANTS
  None,             (* no prediction is selected                           *)
  MadeUp,           (* records the log makes up when it has no others      *)
  Prelabelled,      (* those of them, a quarter, that come with a label,   *)
  PretendedClass,   (* the class they pretend was predicted                *)
  MaxFetches        (* bound: how often the log is fetched                 *)

ASSUME PredictionReviewAssumption ==
  /\ None \notin Prediction
  /\ MadeUp \cap Prediction = {}
  /\ Prelabelled \subseteq MadeUp
  /\ PretendedClass \in Label
  /\ MaxFetches \in Nat
  /\ Label \cap {"Unconfirmed", ""} = {}

VARIABLES
  fetches,     (* requests for the log on their way, by number             *)
  replies,     (* answers on their way: number and records                 *)
  fetched,     (* how many requests were made                              *)
  shown,       (* predictionHistory: the label of each record, or Absent   *)
  patches,     (* confirmations on their way to the backend                *)
  inspector,   (* selectedMlPrediction, isOpen, isSubmitting, feedback     *)
  chosen       (* history: predictions and the labels chosen for them      *)

studio == <<fetches, replies, fetched, shown>>
review == <<studio, patches, inspector, chosen>>
allVars == <<vars, review>>

Record == Prediction \cup MadeUp
Listed == {r \in Record : shown[r] # Absent}

ReviewInit ==
  /\ Init
  /\ fetches = {}
  /\ replies = {}
  /\ fetched = 0
  /\ shown = [r \in Record |-> Absent]
  /\ patches = {}
  /\ inspector = [selected |-> None, open |-> FALSE, submitting |-> Unlabelled, feedback |-> Unlabelled]
  /\ chosen = {}

-----------------------------------------------------------------------------
(***************************************************************************)
(* The log.                                                                *)
(***************************************************************************)
\* On mounting, and by the refresh button, which is never disabled.
FetchPredictionHistory ==
  /\ fetched < MaxFetches
  /\ fetched' = fetched + 1
  /\ fetches' = fetches \cup {fetched + 1}
  /\ UNCHANGED <<vars, replies, shown, patches, inspector, chosen>>

\* getPredictions, which drains first.
GetPredictions(k) ==
  /\ k \in fetches
  /\ process = "up"
  /\ \E table \in {rows, Inserted(writeQueue)} :
       /\ DrainTo(table)
       /\ rows' = table
       /\ replies' = replies \cup {[number |-> k, records |-> table]}
  /\ fetches' = fetches \ {k}
  /\ UNCHANGED <<process, emitted, stops, generated, confirmed,
                 fetched, shown, patches, inspector, chosen>>

\* In the place of no records: made-up ones, some of them with a label.
MadeUpRecords ==
  [r \in Record |-> IF r \in Prelabelled THEN PretendedClass
                   ELSE IF r \in MadeUp THEN Unlabelled ELSE Absent]

RecordsOf(table) == [r \in Record |-> IF r \in Prediction THEN table[r] ELSE Absent]

ReceiveRecords(reply) ==
  /\ reply \in replies
  /\ replies' = replies \ {reply}
  /\ shown' = IF Stored(reply.records) # {} THEN RecordsOf(reply.records) ELSE MadeUpRecords
  /\ UNCHANGED <<vars, fetches, fetched, patches, inspector, chosen>>

\* No answer, or an error.  An answer cut short leaves the list as it was.
FetchFails(k) ==
  /\ k \in fetches
  /\ fetches' = fetches \ {k}
  /\ shown' \in {MadeUpRecords, shown}
  /\ UNCHANGED <<vars, replies, fetched, patches, inspector, chosen>>

\* The table of the log: the first 15 records that pass the operator's filters,
\* all of them here.
LogTable == [r \in Listed |-> IF shown[r] = Unlabelled THEN "Unconfirmed" ELSE shown[r]]

\* Its download ignores the filters.  Neither tells a made-up record from one
\* of the backend.
ExportedCsv == {<<r, IF shown[r] = Unlabelled THEN "" ELSE shown[r]>> : r \in Listed}

\* Mutation: every record takes the label.
RelabelAll(r, l) == [q \in Record |-> IF shown[q] = Absent THEN Absent ELSE l]
Relabel(r, l) == [shown EXCEPT ![r] = l]

\* Shown at once; the answer is not looked at.
HandleConfirm(r, l) ==
  /\ r \in DOMAIN LogTable
  /\ shown' = Relabel(r, l)
  /\ patches' = patches \cup {<<r, l>>}
  /\ chosen' = chosen \cup {<<r, l>>}
  /\ UNCHANGED <<vars, fetches, replies, fetched, inspector>>

-----------------------------------------------------------------------------
(***************************************************************************)
(* The inspector, one for all predictions of the alerts page.              *)
(***************************************************************************)
HandleInspect(p) ==
  /\ p \in generated
  /\ inspector' = [inspector EXCEPT !.selected = p, !.open = TRUE]
  /\ UNCHANGED <<vars, studio, patches, chosen>>

\* Its three buttons, whichever prediction is selected by now.
ButtonsDisabled == inspector.submitting # Unlabelled \/ inspector.feedback # Unlabelled

\* The request goes to port 3001, the dashboard's own: the backend never sees
\* it.
HandleConfirmLabel(l) ==
  /\ inspector.open
  /\ ~ ButtonsDisabled
  /\ inspector' = [inspector EXCEPT !.submitting = l]
  /\ chosen' = chosen \cup {<<inspector.selected, l>>}
  /\ UNCHANGED <<vars, studio, patches>>

\* An answer of any kind, or none.
FeedbackSubmitted ==
  /\ inspector.submitting # Unlabelled
  /\ inspector' = [inspector EXCEPT !.submitting = Unlabelled, !.feedback = inspector.submitting]
  /\ UNCHANGED <<vars, studio, patches, chosen>>

Close ==
  /\ inspector.open
  /\ inspector' = [inspector EXCEPT !.open = FALSE]
  /\ UNCHANGED <<vars, studio, patches, chosen>>

-----------------------------------------------------------------------------
\* confirmLabel of the controller, which finds no row of a made-up record; a
\* request that is lost changes nothing.
ConfirmLabel(r, l) ==
  /\ <<r, l>> \in patches
  /\ patches' = patches \ {<<r, l>>}
  /\ SetConfirmedLabel(r, l) \/ UNCHANGED vars
  /\ UNCHANGED <<studio, inspector, chosen>>

\* The exporter's own way to a label.
LabelDb(p, l) ==
  /\ SetConfirmedLabelDb(p, l)
  /\ chosen' = chosen \cup {<<p, l>>}
  /\ UNCHANGED <<studio, patches, inspector>>

StoreStep ==
  /\ \/ \E p \in Prediction : Generate(p)
     \/ HandlePredictionGenerated
     \/ DrainQueue
     \/ OnModuleDestroy
     \/ Exit
     \/ OnModuleInit
  /\ UNCHANGED review

ReviewNext ==
  \/ StoreStep
  \/ FetchPredictionHistory
  \/ \E k \in fetches : GetPredictions(k) \/ FetchFails(k)
  \/ \E reply \in replies : ReceiveRecords(reply)
  \/ \E r \in Record, l \in Label : HandleConfirm(r, l) \/ ConfirmLabel(r, l)
  \/ \E p \in Prediction, l \in Label : LabelDb(p, l)
  \/ \E p \in Prediction : HandleInspect(p)
  \/ \E l \in Label : HandleConfirmLabel(l)
  \/ FeedbackSubmitted
  \/ Close

ReviewSpec == ReviewInit /\ [][ReviewNext]_allVars /\ Fairness

-----------------------------------------------------------------------------
(***************************************************************************)
(* A label in the studio's log, in the file downloaded from it or in the   *)
(* backend's table was chosen by an operator for that very record,         *)
(* whatever requests are lost, late or overtaken; but a made-up record     *)
(* comes with a label nobody chose, and it is shown and downloaded like    *)
(* one that was (MlValidationStudio 85-112, 145-207, 582-592;              *)
(* setConfirmedLabel 333-349).                                             *)
(***************************************************************************)
ComesLabelled(r, l) == r \in Prelabelled /\ l = PretendedClass

LabelWasChosen ==
  \A r \in Record, l \in Label :
    \/ r \in Prediction /\ rows[r] = l
    \/ r \in DOMAIN LogTable /\ LogTable[r] = l
    \/ <<r, l>> \in ExportedCsv
    => <<r, l>> \in chosen \/ ComesLabelled(r, l)

=============================================================================
