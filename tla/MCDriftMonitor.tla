--------------------------- MODULE MCDriftMonitor ---------------------------
(***************************************************************************)
(* Checks DriftMonitor with TLC; threads are interchangeable, but liveness *)
(* rules symmetry out.                                                     *)
(***************************************************************************)
EXTENDS DriftMonitor

MCThread == 1 .. 2
=============================================================================
