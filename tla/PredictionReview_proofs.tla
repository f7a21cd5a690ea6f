---------------------- MODULE PredictionReview_proofs ----------------------
(***************************************************************************)
(* Proofs about PredictionStore and PredictionReview, for any predictions, *)
(* labels, number of stops and fetches: every prediction is accounted for, *)
(* labels are kept and were chosen, and the store implements               *)
(* PredictionLog.                                                          *)
(*                                                                         *)
(* Whatever calls drainQueue, the table is filled by DrainTo; a lemma says *)
(* once what that does to the parts of the invariant.                      *)
(***************************************************************************)
EXTENDS PredictionReview, TLAPS

\* A closed application has drained its queue.
IInv ==
  /\ TypeOK
  /\ Accounted
  /\ LabelsKept
  /\ process = "down" => emitted = {} /\ writeQueue = {}

Labels == Label \cup {Unlabelled, Absent}

\* A batch of waiting predictions is inserted without labels, or rolled back.
LEMMA InsertKeeps ==
  ASSUME IInv, NEW table, InsertBatch(table)
  PROVE  /\ table \in [Prediction -> Labels]
         /\ \/ lost' = lost /\ Stored(table) = Stored(rows) \cup writeQueue
            \/ lost' = lost \cup writeQueue /\ Stored(table) = Stored(rows)
         /\ \A p \in Stored(rows) : table[p] = rows[p]
         /\ \A p \in Stored(table) \ Stored(rows) : table[p] = Unlabelled
  <1>. USE DEF IInv, TypeOK, Accounted, Labels, Stored
  <1>1. CASE table = Inserted(writeQueue) /\ UNCHANGED lost
    <2>1. table \in [Prediction -> Labels]
      BY <1>1 DEF Inserted
    <2>2. \A p \in Prediction :
            table[p] = IF p \in writeQueue THEN Unlabelled ELSE rows[p]
      BY <1>1 DEF Inserted
    <2>3. Stored(table) = Stored(rows) \cup writeQueue
      BY <2>2, PredictionStoreAssumption
    <2>. QED BY <1>1, <2>1, <2>2, <2>3
  <1>2. CASE table = rows /\ lost' = lost \cup writeQueue
    BY <1>2
  <1>. QED BY <1>1, <1>2 DEF InsertBatch

\* A drain settles the queue or leaves everything as it is.
LEMMA DrainKeeps ==
  ASSUME IInv, NEW table, DrainTo(table)
  PROVE  /\ table \in [Prediction -> Labels]
         /\ \/ UNCHANGED <<writeQueue, lost>> /\ Stored(table) = Stored(rows)
            \/ /\ writeQueue' = {}
               /\ \/ lost' = lost /\ Stored(table) = Stored(rows) \cup writeQueue
                  \/ lost' = lost \cup writeQueue /\ Stored(table) = Stored(rows)
         /\ isFlushing' = FALSE
         /\ \A p \in Stored(rows) : table[p] = rows[p]
         /\ \A p \in Stored(table) \ Stored(rows) : table[p] = Unlabelled
  <1>1. CASE table = rows /\ UNCHANGED <<writeQueue, isFlushing, lost>>
    BY <1>1 DEF IInv, TypeOK, Labels
  <1>2. CASE InsertBatch(table) /\ writeQueue' = Remaining /\ isFlushing' = FlagAfter(table)
    BY <1>2, InsertKeeps DEF Remaining, FlagAfter
  <1>. QED BY <1>1, <1>2 DEF DrainTo

\* Confirmed labels are those of stored rows, and an insert never touches them.
LEMMA ConfirmedIsStored ==
  ASSUME IInv, NEW p \in Prediction, confirmed[p] # Unlabelled
  PROVE  p \in Stored(rows) /\ rows[p] \in Label
  BY PredictionStoreAssumption DEF IInv, TypeOK, LabelsKept, Stored

LEMMA InitIInv == Init => IInv
  BY PredictionStoreAssumption DEF Init, IInv, TypeOK, Accounted, LabelsKept, Stored

LEMMA GenerateIInv ==
  ASSUME IInv, NEW p \in Prediction, Generate(p)
  PROVE  IInv'
  <1>1. p \notin emitted \cup writeQueue \cup Stored(rows) \cup lost
    BY DEF Generate, IInv, Accounted
  <1>. QED BY <1>1 DEF Generate, IInv, TypeOK, Accounted, LabelsKept, Stored

LEMMA HandleIInv ==
  ASSUME IInv, HandlePredictionGenerated
  PROVE  IInv'
  BY DEF HandlePredictionGenerated, IInv, TypeOK, Accounted, LabelsKept, Stored, history

LEMMA DrainIInv ==
  ASSUME IInv, DrainQueue
  PROVE  IInv'
  <1>1. DrainTo(rows')
    BY DEF DrainQueue
  <1>2. UNCHANGED <<process, emitted, stops, generated, confirmed>> /\ process = "up"
    BY DEF DrainQueue
  <1>3. TypeOK'
    BY <1>1, <1>2, DrainKeeps DEF IInv, TypeOK, Labels
  <1>4. Accounted'
    BY <1>1, <1>2, DrainKeeps DEF IInv, Accounted, Stored
  <1>5. LabelsKept'
    BY <1>1, <1>2, DrainKeeps, ConfirmedIsStored DEF IInv, LabelsKept
  <1>. QED BY <1>2, <1>3, <1>4, <1>5 DEF IInv

LEMMA SetLabelIInv ==
  ASSUME IInv, NEW p \in Prediction, NEW l \in Label, SetConfirmedLabel(p, l)
  PROVE  IInv'
  <1>1. PICK table : /\ DrainTo(table)
                     /\ \/ /\ p \in Stored(table)
                           /\ rows' = [table EXCEPT ![p] = l]
                           /\ confirmed' = [confirmed EXCEPT ![p] = l]
                        \/ rows' = table /\ UNCHANGED confirmed
    BY DEF SetConfirmedLabel
  <1>2. UNCHANGED <<process, emitted, stops, generated>> /\ process = "up"
    BY DEF SetConfirmedLabel
  <1>3. table \in [Prediction -> Labels] /\ rows' \in [Prediction -> Labels]
    <2>1. table \in [Prediction -> Labels] /\ l \in Labels
      BY <1>1, DrainKeeps DEF Labels
    <2>. QED BY <1>1, <2>1
  <1>4. Stored(rows') = Stored(table)
    <2>1. l # Absent
      BY PredictionStoreAssumption
    <2>2. CASE rows' = table
      BY <2>2
    <2>3. CASE p \in Stored(table) /\ rows' = [table EXCEPT ![p] = l]
      <3>1. \A q \in Prediction : rows'[q] = IF q = p THEN l ELSE table[q]
        BY <1>3, <2>3
      <3>. QED BY <2>1, <2>3, <3>1 DEF Stored
    <2>. QED BY <1>1, <2>2, <2>3
  <1>5. TypeOK'
    <2>1. writeQueue' \subseteq Prediction /\ lost' \subseteq Prediction /\ isFlushing' = FALSE
      BY <1>1, DrainKeeps DEF IInv, TypeOK
    <2>2. confirmed' \in [Prediction -> Label \cup {Unlabelled}]
      BY <1>1 DEF IInv, TypeOK
    <2>. QED BY <1>2, <1>3, <2>1, <2>2 DEF IInv, TypeOK, Labels
  <1>6. Accounted'
    BY <1>1, <1>2, <1>4, DrainKeeps DEF IInv, Accounted, Stored
  <1>7. LabelsKept'
    <2>1. \A q \in Prediction : confirmed[q] # Unlabelled => table[q] = confirmed[q]
      BY <1>1, DrainKeeps, ConfirmedIsStored DEF IInv, LabelsKept
    <2>. QED BY <1>1, <1>3, <2>1 DEF IInv, TypeOK, LabelsKept
  <1>. QED BY <1>2, <1>5, <1>6, <1>7 DEF IInv

LEMMA SetLabelDbIInv ==
  ASSUME IInv, NEW p \in Prediction, NEW l \in Label, SetConfirmedLabelDb(p, l)
  PROVE  IInv'
  <1>1. Stored(rows') = Stored(rows)
    BY PredictionStoreAssumption DEF SetConfirmedLabelDb, IInv, TypeOK, Stored
  <1>. QED BY <1>1 DEF SetConfirmedLabelDb, IInv, TypeOK, Accounted, LabelsKept, memory, Stored

LEMMA DestroyIInv ==
  ASSUME IInv, OnModuleDestroy
  PROVE  IInv'
  <1>1. InsertBatch(rows')
    BY DEF OnModuleDestroy
  <1>2. /\ UNCHANGED <<emitted, isFlushing, stops, generated, confirmed>>
        /\ process' = "closed"
        /\ writeQueue' = {}
    BY DEF OnModuleDestroy
  <1>3. TypeOK'
    BY <1>1, <1>2, InsertKeeps DEF IInv, TypeOK, Labels
  <1>4. Accounted'
    BY <1>1, <1>2, InsertKeeps DEF IInv, Accounted, Stored
  <1>5. LabelsKept'
    BY <1>1, <1>2, InsertKeeps, ConfirmedIsStored DEF IInv, LabelsKept
  <1>. QED BY <1>2, <1>3, <1>4, <1>5 DEF IInv

LEMMA StopsAndStarts ==
  ASSUME IInv, Exit \/ OnModuleInit
  PROVE  IInv'
  <1>1. CASE Exit
    BY <1>1, PredictionStoreAssumption DEF Exit, IInv, TypeOK, Accounted, LabelsKept, Stored
  <1>2. CASE OnModuleInit
    BY <1>2 DEF OnModuleInit, IInv, TypeOK, Accounted, LabelsKept, Stored, history
  <1>. QED BY <1>1, <1>2

LEMMA NextIInv ==
  ASSUME IInv, [Next]_vars
  PROVE  IInv'
  <1>1. CASE UNCHANGED vars
    BY <1>1 DEF vars, memory, history, IInv, TypeOK, Accounted, LabelsKept, Stored
  <1>. QED BY <1>1, GenerateIInv, HandleIInv, DrainIInv, SetLabelIInv, SetLabelDbIInv,
              DestroyIInv, StopsAndStarts DEF Next

(***************************************************************************)
(* The types of the store; in particular the flushing flag, which keeps    *)
(* drains from running into one another, is never left set (147-163).      *)
(***************************************************************************)
THEOREM TypeCorrect == Spec => []TypeOK
  <1>1. IInv => TypeOK
    BY DEF IInv
  <1>. QED BY <1>1, InitIInv, NextIInv, PTL DEF Spec

(***************************************************************************)
(* Every prediction emitted is on its way, queued, stored or lost, and in  *)
(* one of these places only, however often the process ends (134-227).     *)
(***************************************************************************)
THEOREM AllAccounted == Spec => []Accounted
  <1>1. IInv => Accounted
    BY DEF IInv
  <1>. QED BY <1>1, InitIInv, NextIInv, PTL DEF Spec

(***************************************************************************)
(* A label whose confirmation was reported stays on its row, although an   *)
(* insert replaces rows and brings none (171-213, 333-349).                *)
(***************************************************************************)
THEOREM LabelsStayOn == Spec => []LabelsKept
  <1>1. IInv => LabelsKept
    BY DEF IInv
  <1>. QED BY <1>1, InitIInv, NextIInv, PTL DEF Spec

-----------------------------------------------------------------------------
(***************************************************************************)
(* The refinement: a batch of the log is what a step takes out of memory.  *)
(***************************************************************************)
Stage == [p \in Prediction |-> StageOf(p)]
LabelOf == [p \in Prediction |-> IF rows[p] = Absent THEN Unlabelled ELSE rows[p]]

LEMMA StageIs ==
  ASSUME IInv, NEW p \in Prediction
  PROVE  /\ Stage[p] = "stored" <=> p \in Stored(rows)
         /\ Stage[p] = "lost" <=> p \in lost
         /\ Stage[p] = "waiting" <=> p \in emitted \cup writeQueue
         /\ Stage[p] = "unknown" <=> p \notin generated
  BY DEF Stage, StageOf, IInv, Accounted

\* Some of what waits is stored, or lost.
LEMMA SettleStep ==
  ASSUME IInv, NEW batch \in SUBSET (emitted \cup writeQueue), generated' = generated,
         \/ Stored(rows)' = Stored(rows) \cup batch /\ lost' = lost
         \/ Stored(rows)' = Stored(rows) /\ lost' = lost \cup batch
  PROVE  \E b \in SUBSET Log!Waiting, outcome \in {"stored", "lost"} : Log!Settle(b, outcome)
  <1>1. batch \in SUBSET Log!Waiting
    BY StageIs DEF Log!Waiting, Stage, IInv, TypeOK
  <1>2. batch \cap (Stored(rows) \cup lost) = {}
    BY DEF IInv, Accounted
  <1>3. CASE Stored(rows)' = Stored(rows) \cup batch /\ lost' = lost
    <2>1. \A p \in Prediction :
            StageOf(p)' = IF p \in batch THEN "stored" ELSE StageOf(p)
      BY <1>3 DEF StageOf
    <2>2. Log!Settle(batch, "stored")
      BY <2>1 DEF Log!Settle
    <2>. QED BY <1>1, <2>2
  <1>4. CASE Stored(rows)' = Stored(rows) /\ lost' = lost \cup batch
    <2>1. \A p \in Prediction :
            StageOf(p)' = IF p \in batch THEN "lost" ELSE StageOf(p)
      BY <1>2, <1>4 DEF StageOf
    <2>2. Log!Settle(batch, "lost")
      BY <2>1 DEF Log!Settle
    <2>. QED BY <1>1, <2>2
  <1>. QED BY <1>3, <1>4

\* Rows that only come in, without labels, leave all labels as they are.
LEMMA LabelsUnchanged ==
  ASSUME IInv, NEW table,
         table \in [Prediction -> Labels],
         \A p \in Stored(rows) : table[p] = rows[p],
         \A p \in Stored(table) \ Stored(rows) : table[p] = Unlabelled
  PROVE  \A p \in Prediction :
           (IF table[p] = Absent THEN Unlabelled ELSE table[p]) = LabelOf[p]
  BY DEF LabelOf, Stored, IInv, TypeOK

LEMMA DrainImplements ==
  ASSUME IInv, DrainQueue \/ OnModuleDestroy
  PROVE  Log!Next
  <1>1. /\ rows' \in [Prediction -> Labels]
        /\ \A p \in Stored(rows) : rows'[p] = rows[p]
        /\ \A p \in Stored(rows') \ Stored(rows) : rows'[p] = Unlabelled
        /\ generated' = generated
        /\ \/ lost' = lost /\ Stored(rows') = Stored(rows)
           \/ lost' = lost /\ Stored(rows') = Stored(rows) \cup writeQueue
           \/ lost' = lost \cup writeQueue /\ Stored(rows') = Stored(rows)
    BY DrainKeeps, InsertKeeps DEF DrainQueue, OnModuleDestroy
  <1>2. PICK batch \in {{}, writeQueue} :
          \/ Stored(rows)' = Stored(rows) \cup batch /\ lost' = lost
          \/ Stored(rows)' = Stored(rows) /\ lost' = lost \cup batch
    BY <1>1 DEF Stored
  <1>3. \E b \in SUBSET Log!Waiting, outcome \in {"stored", "lost"} : Log!Settle(b, outcome)
    BY <1>1, <1>2, SettleStep
  <1>4. LabelOf' = LabelOf
    BY <1>1, LabelsUnchanged DEF LabelOf
  <1>. QED BY <1>3, <1>4 DEF Log!Next, LabelOf

LEMMA ExitImplements ==
  ASSUME IInv, Exit
  PROVE  Log!Next
  <1>1. \E b \in SUBSET Log!Waiting, outcome \in {"stored", "lost"} : Log!Settle(b, outcome)
    <2>1. /\ Stored(rows)' = Stored(rows) /\ lost' = lost \cup (emitted \cup writeQueue)
          /\ generated' = generated
      BY DEF Exit, Stored
    <2>. QED BY <2>1, SettleStep
  <1>2. UNCHANGED rows
    BY DEF Exit
  <1>. QED BY <1>1, <1>2 DEF Log!Next

\* A confirmation: first the queue, then the label of a row that is stored.
LEMMA SetLabelImplements ==
  ASSUME IInv, NEW p \in Prediction, NEW l \in Label,
         SetConfirmedLabel(p, l) \/ SetConfirmedLabelDb(p, l)
  PROVE  Log!Next
  <1>1. PICK table :
          /\ table \in [Prediction -> Labels]
          /\ \A q \in Stored(rows) : table[q] = rows[q]
          /\ \A q \in Stored(table) \ Stored(rows) : table[q] = Unlabelled
          /\ \/ lost' = lost /\ Stored(table) = Stored(rows)
             \/ lost' = lost /\ Stored(table) = Stored(rows) \cup writeQueue
             \/ lost' = lost \cup writeQueue /\ Stored(table) = Stored(rows)
          /\ rows' = table \/ (p \in Stored(table) /\ rows' = [table EXCEPT ![p] = l])
    <2>1. CASE SetConfirmedLabel(p, l)
      BY <2>1, DrainKeeps DEF SetConfirmedLabel
    <2>2. CASE SetConfirmedLabelDb(p, l)
      <3>1. rows \in [Prediction -> Labels] /\ lost' = lost
        BY <2>2 DEF SetConfirmedLabelDb, IInv, TypeOK, Labels
      <3>2. p \in Stored(rows) /\ rows' = [rows EXCEPT ![p] = l]
        BY <2>2 DEF SetConfirmedLabelDb
      <3>. QED BY <3>1, <3>2
    <2>. QED BY <2>1, <2>2
  <1>2. generated' = generated
    BY DEF SetConfirmedLabel, SetConfirmedLabelDb
  <1>3. l # Absent /\ l \in Labels
    BY PredictionStoreAssumption DEF Labels
  <1>4. Stored(rows)' = Stored(table)
    BY <1>1, <1>3 DEF Stored
  <1>5. \E b \in SUBSET Log!Waiting, outcome \in {"stored", "lost"} : Log!Settle(b, outcome)
    <2>1. PICK batch \in {{}, writeQueue} :
            \/ Stored(rows)' = Stored(rows) \cup batch /\ lost' = lost
            \/ Stored(rows)' = Stored(rows) /\ lost' = lost \cup batch
      BY <1>1, <1>4
    <2>. QED BY <1>2, <2>1, SettleStep
  <1>6. CASE rows' = table
    <2>1. LabelOf' = LabelOf
      BY <1>1, <1>6, LabelsUnchanged DEF LabelOf
    <2>. QED BY <1>5, <2>1 DEF Log!Next, LabelOf
  <1>7. CASE p \in Stored(table) /\ rows' = [table EXCEPT ![p] = l]
    <2>1. LabelOf' = [LabelOf EXCEPT ![p] = l]
      <3>1. \A q \in Prediction : q # p => rows'[q] = table[q]
        BY <1>1, <1>7
      <3>2. rows'[p] = l
        BY <1>1, <1>7
      <3>3. \A q \in Prediction :
              (IF table[q] = Absent THEN Unlabelled ELSE table[q]) = LabelOf[q]
        BY <1>1, LabelsUnchanged
      <3>4. \A q \in Prediction :
              (IF rows'[q] = Absent THEN Unlabelled ELSE rows'[q]) = IF q = p THEN l ELSE LabelOf[q]
        BY <1>3, <3>1, <3>2, <3>3
      <3>. QED BY <3>4 DEF LabelOf
    <2>2. StageOf(p)' = "stored"
      BY <1>4, <1>7 DEF StageOf
    <2>3. Log!Confirm(p, l)
      BY <2>1, <2>2 DEF Log!Confirm, LabelOf
    <2>. QED BY <1>5, <2>3 DEF Log!Next
  <1>. QED BY <1>1, <1>6, <1>7

LEMMA GenerateImplements ==
  ASSUME IInv, NEW p \in Prediction, Generate(p)
  PROVE  Log!Next
  <1>1. p \notin generated /\ generated' = generated \cup {p} /\ UNCHANGED <<rows, lost>>
    BY DEF Generate
  <1>2. \A q \in Prediction : StageOf(q)' = IF q = p THEN "waiting" ELSE StageOf(q)
    BY <1>1 DEF StageOf, Stored, IInv, Accounted
  <1>3. StageOf(p) = "unknown"
    BY <1>1 DEF StageOf, Stored, IInv, Accounted
  <1>4. Log!Accept(p)
    BY <1>1, <1>2, <1>3 DEF Log!Accept
  <1>. QED BY <1>4 DEF Log!Next

\* The listener, a start and a stutter change nothing the log knows of.
LEMMA OtherStutters ==
  ASSUME HandlePredictionGenerated \/ OnModuleInit \/ UNCHANGED vars
  PROVE  UNCHANGED Log!vars
  BY DEF HandlePredictionGenerated, OnModuleInit, vars, history, memory, Log!vars, StageOf, Stored

LEMMA InitImplements == Init => Log!Init
  BY DEF Init, Log!Init, StageOf, Stored

(***************************************************************************)
(* The store, with its queue, rollbacks, shutdown and crashes, implements  *)
(* PredictionLog: what is stored stays stored, what is lost stays lost,    *)
(* and a label changes only by a confirmation of a stored prediction.      *)
(***************************************************************************)
THEOREM Implements == Spec => ImplementsLog
  <1>1. IInv /\ [Next]_vars => [Log!Next]_(Log!vars)
    BY DrainImplements, ExitImplements, SetLabelImplements, GenerateImplements, OtherStutters DEF Next
  <1>. QED BY <1>1, InitImplements, InitIInv, NextIInv, PTL DEF Spec, ImplementsLog, Log!Spec

-----------------------------------------------------------------------------
(***************************************************************************)
(* The review on top of the store.                                         *)
(***************************************************************************)
ChosenIn(table) ==
  \A p \in Prediction, l \in Label : table[p] = l => <<p, l>> \in chosen

\* Of the log, or made up with its label.
ShownIsChosen ==
  \A r \in Record, l \in Label : shown[r] = l => <<r, l>> \in chosen \/ ComesLabelled(r, l)

RInv ==
  /\ IInv
  /\ ChosenIn(rows)
  /\ shown \in [Record -> Labels]
  /\ ShownIsChosen
  /\ \A reply \in replies : reply.records \in [Prediction -> Labels] /\ ChosenIn(reply.records)
  /\ patches \subseteq chosen

\* A made-up record has no row: confirming it drains the queue, no more.
LEMMA UnknownIsDrain ==
  ASSUME NEW r, r \notin Prediction, NEW l, SetConfirmedLabel(r, l)
  PROVE  DrainQueue
  <1>1. \A table : r \notin Stored(table)
    BY DEF Stored
  <1>. QED BY <1>1 DEF SetConfirmedLabel, DrainQueue

\* To the store, a step of the review is one of its own.
LEMMA ReviewStepIsStoreStep == ASSUME ReviewNext PROVE [Next]_vars
  <1>1. ASSUME NEW k \in fetches, GetPredictions(k) PROVE DrainQueue
    BY <1>1 DEF GetPredictions, DrainQueue
  <1>2. ASSUME NEW r \in Record, NEW l \in Label, ConfirmLabel(r, l) PROVE [Next]_vars
    <2>1. CASE r \in Prediction
      BY <1>2, <2>1 DEF ConfirmLabel, Next
    <2>2. CASE r \notin Prediction
      BY <1>2, <2>2, UnknownIsDrain DEF ConfirmLabel, Next
    <2>. QED BY <2>1, <2>2
  <1>3. ASSUME NEW p \in Prediction, NEW l \in Label, LabelDb(p, l) PROVE Next
    BY <1>3 DEF LabelDb, Next
  <1>4. ASSUME StoreStep PROVE Next
    BY <1>4 DEF StoreStep, Next
  <1>5. CASE \/ FetchPredictionHistory \/ FeedbackSubmitted \/ Close
             \/ \E k \in fetches : FetchFails(k)
             \/ \E reply \in replies : ReceiveRecords(reply)
             \/ \E r \in Record, l \in Label : HandleConfirm(r, l)
             \/ \E p \in Prediction : HandleInspect(p)
             \/ \E l \in Label : HandleConfirmLabel(l)
    BY <1>5 DEF FetchPredictionHistory, FeedbackSubmitted, Close, FetchFails, ReceiveRecords,
                HandleConfirm, HandleInspect, HandleConfirmLabel
  <1>. QED BY <1>1, <1>2, <1>3, <1>4, <1>5 DEF ReviewNext, Next

\* Rows that come in carry no label.
LEMMA InsertIsChosen ==
  ASSUME RInv, NEW table,
         table \in [Prediction -> Labels],
         \A p \in Stored(rows) : table[p] = rows[p],
         \A p \in Stored(table) \ Stored(rows) : table[p] = Unlabelled
  PROVE  ChosenIn(table)
  <1>1. ASSUME NEW p \in Prediction, NEW l \in Label, table[p] = l PROVE rows[p] = l
    BY <1>1, PredictionStoreAssumption DEF Stored
  <1>. QED BY <1>1 DEF RInv, ChosenIn

LEMMA DrainIsChosen ==
  ASSUME RInv, NEW table, DrainTo(table) \/ InsertBatch(table)
  PROVE  table \in [Prediction -> Labels] /\ ChosenIn(table)
  BY DrainKeeps, InsertKeeps, InsertIsChosen DEF RInv

LEMMA SetLabelIsChosen ==
  ASSUME RInv, NEW p \in Prediction, NEW l \in Label, <<p, l>> \in chosen',
         chosen \subseteq chosen',
         SetConfirmedLabel(p, l) \/ SetConfirmedLabelDb(p, l)
  PROVE  ChosenIn(rows)'
  <1>1. PICK table \in [Prediction -> Labels] :
          ChosenIn(table) /\ (rows' = table \/ rows' = [table EXCEPT ![p] = l])
    <2>1. CASE SetConfirmedLabel(p, l)
      BY <2>1, DrainIsChosen DEF SetConfirmedLabel
    <2>2. CASE SetConfirmedLabelDb(p, l)
      BY <2>2 DEF SetConfirmedLabelDb, RInv, IInv, TypeOK, Labels
    <2>. QED BY <2>1, <2>2
  <1>2. \A q \in Prediction : rows'[q] = table[q] \/ (q = p /\ rows'[q] = l)
    BY <1>1
  <1>. QED BY <1>1, <1>2 DEF ChosenIn

LEMMA StoreStepRInv ==
  ASSUME RInv, StoreStep
  PROVE  RInv'
  <1>1. IInv'
    BY ReviewStepIsStoreStep, NextIInv DEF RInv, ReviewNext
  <1>2. UNCHANGED <<shown, replies, patches, chosen>>
    BY DEF StoreStep, review, studio
  <1>3. ChosenIn(rows)'
    <2>1. CASE DrainQueue \/ OnModuleDestroy
      BY <1>2, <2>1, DrainIsChosen DEF DrainQueue, OnModuleDestroy, ChosenIn
    <2>2. CASE UNCHANGED rows
      BY <1>2, <2>2 DEF RInv, ChosenIn
    <2>. QED BY <2>1, <2>2 DEF StoreStep, Generate, HandlePredictionGenerated, Exit, OnModuleInit
  <1>. QED BY <1>1, <1>2, <1>3 DEF RInv, ChosenIn, ShownIsChosen

\* The labels of made-up records are those they come with.
LEMMA MadeUpIsKnown ==
  /\ MadeUpRecords \in [Record -> Labels]
  /\ \A r \in Record, l \in Label : MadeUpRecords[r] = l => ComesLabelled(r, l)
  BY PredictionStoreAssumption, PredictionReviewAssumption DEF MadeUpRecords, ComesLabelled, Labels

\* A fetch: its answer is a copy of the table.
LEMMA FetchRInv ==
  ASSUME RInv,
         \/ FetchPredictionHistory
         \/ \E k \in fetches : GetPredictions(k) \/ FetchFails(k)
         \/ \E reply \in replies : ReceiveRecords(reply)
  PROVE  RInv'
  <1>1. IInv'
    BY ReviewStepIsStoreStep, NextIInv DEF RInv, ReviewNext
  <1>2. UNCHANGED <<patches, chosen>>
    BY DEF FetchPredictionHistory, GetPredictions, FetchFails, ReceiveRecords
  <1>3. CASE FetchPredictionHistory
    BY <1>1, <1>2, <1>3 DEF FetchPredictionHistory, RInv, ChosenIn, ShownIsChosen, vars
  <1>4. ASSUME NEW k \in fetches, GetPredictions(k) PROVE RInv'
    <2>1. PICK table : /\ DrainTo(table)
                       /\ rows' = table
                       /\ replies' = replies \cup {[number |-> k, records |-> table]}
      BY <1>4 DEF GetPredictions
    <2>2. table \in [Prediction -> Labels] /\ ChosenIn(table)
      BY <2>1, DrainIsChosen
    <2>3. UNCHANGED shown
      BY <1>4 DEF GetPredictions
    <2>. QED BY <1>1, <1>2, <2>1, <2>2, <2>3 DEF RInv, ChosenIn, ShownIsChosen
  <1>5. ASSUME NEW k \in fetches, FetchFails(k) PROVE RInv'
    <2>1. shown' = MadeUpRecords \/ shown' = shown
      BY <1>5 DEF FetchFails
    <2>2. UNCHANGED <<rows, replies>>
      BY <1>5 DEF FetchFails, vars
    <2>3. shown' \in [Record -> Labels] /\ ShownIsChosen'
      BY <1>2, <2>1, MadeUpIsKnown DEF RInv, ShownIsChosen
    <2>. QED BY <1>1, <1>2, <2>2, <2>3 DEF RInv, ChosenIn
  <1>6. ASSUME NEW reply \in replies, ReceiveRecords(reply) PROVE RInv'
    <2>1. /\ shown' = MadeUpRecords \/ shown' = RecordsOf(reply.records)
          /\ replies' \subseteq replies
          /\ UNCHANGED rows
      BY <1>6 DEF ReceiveRecords, vars
    <2>2. /\ RecordsOf(reply.records) \in [Record -> Labels]
          /\ \A r \in Record, l \in Label : RecordsOf(reply.records)[r] = l => <<r, l>> \in chosen
      BY PredictionStoreAssumption DEF RInv, ChosenIn, RecordsOf, Labels
    <2>3. shown' \in [Record -> Labels] /\ ShownIsChosen'
      <3>1. CASE shown' = MadeUpRecords
        BY <1>2, <3>1, MadeUpIsKnown DEF ShownIsChosen
      <3>2. CASE shown' = RecordsOf(reply.records)
        BY <1>2, <2>2, <3>2 DEF ShownIsChosen
      <3>. QED BY <2>1, <3>1, <3>2
    <2>. QED BY <1>1, <1>2, <2>1, <2>3 DEF RInv, ChosenIn
  <1>. QED BY <1>3, <1>4, <1>5, <1>6

\* What the operator does in the log: the label is shown, and asked for.
LEMMA ConfirmRInv ==
  ASSUME RInv, NEW r \in Record, NEW l \in Label, HandleConfirm(r, l)
  PROVE  RInv'
  <1>1. IInv'
    BY ReviewStepIsStoreStep, NextIInv DEF RInv, ReviewNext
  <1>2. /\ shown' = [shown EXCEPT ![r] = l]
        /\ chosen' = chosen \cup {<<r, l>>}
        /\ patches' = patches \cup {<<r, l>>}
        /\ UNCHANGED <<rows, replies>>
    BY DEF HandleConfirm, Relabel, vars
  <1>3. shown' \in [Record -> Labels]
    BY <1>2 DEF RInv, Labels
  <1>4. \A q \in Record : shown'[q] = shown[q] \/ (q = r /\ shown'[q] = l)
    BY <1>2 DEF RInv
  <1>5. ShownIsChosen'
    BY <1>2, <1>4 DEF RInv, ShownIsChosen
  <1>. QED BY <1>1, <1>2, <1>3, <1>5 DEF RInv, ChosenIn

\* What the request does to the table.
LEMMA PatchRInv ==
  ASSUME RInv, NEW r \in Record, NEW l \in Label, ConfirmLabel(r, l)
  PROVE  RInv'
  <1>1. IInv'
    BY ReviewStepIsStoreStep, NextIInv DEF RInv, ReviewNext
  <1>2. /\ <<r, l>> \in chosen
        /\ patches' \subseteq patches
        /\ UNCHANGED <<shown, replies, chosen>>
        /\ SetConfirmedLabel(r, l) \/ UNCHANGED rows
    BY DEF ConfirmLabel, RInv, studio, vars
  <1>3. ChosenIn(rows)'
    <2>1. CASE UNCHANGED rows
      BY <1>2, <2>1 DEF RInv, ChosenIn
    <2>2. CASE SetConfirmedLabel(r, l) /\ r \in Prediction
      BY <1>2, <2>2, SetLabelIsChosen
    <2>3. CASE SetConfirmedLabel(r, l) /\ r \notin Prediction
      <3>1. DrainTo(rows')
        BY <2>3, UnknownIsDrain DEF DrainQueue
      <3>. QED BY <1>2, <3>1, DrainIsChosen DEF ChosenIn
    <2>. QED BY <1>2, <2>1, <2>2, <2>3
  <1>. QED BY <1>1, <1>2, <1>3 DEF RInv, ChosenIn, ShownIsChosen

LEMMA LabelDbRInv ==
  ASSUME RInv, NEW p \in Prediction, NEW l \in Label, LabelDb(p, l)
  PROVE  RInv'
  <1>1. IInv'
    BY ReviewStepIsStoreStep, NextIInv DEF RInv, ReviewNext
  <1>2. /\ chosen' = chosen \cup {<<p, l>>}
        /\ UNCHANGED <<shown, replies, patches>>
        /\ SetConfirmedLabelDb(p, l)
    BY DEF LabelDb, studio
  <1>3. ChosenIn(rows)'
    BY <1>2, SetLabelIsChosen
  <1>. QED BY <1>1, <1>2, <1>3 DEF RInv, ChosenIn, ShownIsChosen

LEMMA InspectorRInv ==
  ASSUME RInv,
         \/ \E p \in Prediction : HandleInspect(p)
         \/ \E l \in Label : HandleConfirmLabel(l)
         \/ FeedbackSubmitted
         \/ Close
  PROVE  RInv'
  <1>1. IInv'
    BY ReviewStepIsStoreStep, NextIInv DEF RInv, ReviewNext
  <1>2. chosen \subseteq chosen' /\ UNCHANGED <<rows, shown, replies, patches>>
    BY DEF HandleInspect, HandleConfirmLabel, FeedbackSubmitted, Close, studio, vars
  <1>. QED BY <1>1, <1>2 DEF RInv, ChosenIn, ShownIsChosen

LEMMA ReviewInitRInv == ReviewInit => RInv
  BY InitIInv, PredictionStoreAssumption DEF ReviewInit, Init, RInv, ChosenIn, ShownIsChosen, Labels

LEMMA ReviewNextRInv ==
  ASSUME RInv, [ReviewNext]_allVars
  PROVE  RInv'
  <1>1. CASE UNCHANGED allVars
    <2>1. IInv'
      BY <1>1, NextIInv DEF allVars, RInv
    <2>2. UNCHANGED <<rows, shown, replies, patches, chosen>>
      BY <1>1 DEF allVars, vars, review, studio
    <2>. QED BY <2>1, <2>2 DEF RInv, ChosenIn, ShownIsChosen
  <1>2. CASE ReviewNext
    BY <1>2, StoreStepRInv, FetchRInv, ConfirmRInv, PatchRInv, LabelDbRInv, InspectorRInv DEF ReviewNext
  <1>. QED BY <1>1, <1>2

(***************************************************************************)
(* No label is shown, downloaded or stored that no operator chose for that *)
(* record, for any number of predictions, labels and fetches, whatever     *)
(* requests are lost, late or overtaken, but for the labels that made-up   *)
(* records come with (MlValidationStudio 85-112, 145-207;                  *)
(* setConfirmedLabel 333-349).                                             *)
(***************************************************************************)
THEOREM LabelsWereChosen == ReviewSpec => []LabelWasChosen
  <1>1. RInv => LabelWasChosen
    <2>. SUFFICES ASSUME RInv, NEW r \in Record, NEW l \in Label,
                         \/ r \in Prediction /\ rows[r] = l
                         \/ r \in DOMAIN LogTable /\ LogTable[r] = l
                         \/ <<r, l>> \in ExportedCsv
                  PROVE  <<r, l>> \in chosen \/ ComesLabelled(r, l)
      BY DEF LabelWasChosen
    <2>1. l \notin {"Unconfirmed", ""}
      BY PredictionReviewAssumption
    <2>2. (r \in Prediction /\ rows[r] = l) \/ shown[r] = l
      BY <2>1 DEF LogTable, ExportedCsv, Listed
    <2>. QED BY <2>2 DEF RInv, ChosenIn, ShownIsChosen
  <1>. QED BY <1>1, ReviewInitRInv, ReviewNextRInv, PTL DEF ReviewSpec

=============================================================================
