--------------------------- MODULE MCMlInference ---------------------------
(***************************************************************************)
(* Checks MlInference with TLC: model values for nodes and channels, and a *)
(* window of two packets.                                                  *)
(***************************************************************************)
EXTENDS MlInference
=============================================================================
