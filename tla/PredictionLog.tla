--------------------------- MODULE PredictionLog ---------------------------
(***************************************************************************)
(* What the prediction store promises, without its queues: an accepted     *)
(* prediction waits until it is stored or lost, once and for all, and only *)
(* a stored one carries a label, which stays until it is given another.    *)
(***************************************************************************)
CONSTANTS Prediction, Label, Unlabelled

VARIABLES
  stage,   (* how far each prediction is                                   *)
  label    (* what operators confirmed of it                               *)

vars == <<stage, label>>

Stage == {"unknown", "waiting", "stored", "lost"}

Init ==
  /\ stage = [p \in Prediction |-> "unknown"]
  /\ label = [p \in Prediction |-> Unlabelled]

Accept(p) ==
  /\ stage[p] = "unknown"
  /\ stage' = [stage EXCEPT ![p] = "waiting"]
  /\ UNCHANGED label

Waiting == {p \in Prediction : stage[p] = "waiting"}

Settle(batch, outcome) ==
  stage' = [p \in Prediction |-> IF p \in batch THEN outcome ELSE stage[p]]

Confirm(p, l) ==
  /\ stage'[p] = "stored"
  /\ label' = [label EXCEPT ![p] = l]

\* A confirmation settles what waits first.
Next ==
  \/ \E p \in Prediction : Accept(p)
  \/ \E batch \in SUBSET Waiting, outcome \in {"stored", "lost"} :
       /\ Settle(batch, outcome)
       /\ \/ UNCHANGED label
          \/ \E p \in Prediction, l \in Label : Confirm(p, l)

Spec == Init /\ [][Next]_vars

=============================================================================
