----------------------------- MODULE MCTraining -----------------------------
(***************************************************************************)
(* Two predictions, two runs of three epochs with a patience of two.  The  *)
(* split is the real one.                                                  *)
(***************************************************************************)
EXTENDS Training

=============================================================================
