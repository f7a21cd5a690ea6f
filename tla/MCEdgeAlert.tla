----------------------------- MODULE MCEdgeAlert -----------------------------
(***************************************************************************)
(* Checks EdgeAlert with TLC.  Levels decide nothing on the command path,  *)
(* so one is enough.                                                       *)
(***************************************************************************)
EXTENDS EdgeAlert

MCOneLevel == {"NORMAL"}
=============================================================================
