------------------------------ MODULE MCAlerts ------------------------------
(***************************************************************************)
(* Constant values for checking Alerts with TLC: tilt values that are      *)
(* normal, a warning on the sensor's offset, and critical.                 *)
(***************************************************************************)
EXTENDS Alerts

MCChannel == {"tilt"}
MCValue == {0, 730, 120}
MCSeverity == {1, 9}
=============================================================================
