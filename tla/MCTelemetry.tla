----------------------------- MODULE MCTelemetry -----------------------------
(***************************************************************************)
(* Constant values for checking Telemetry with TLC: a filtered channel and *)
(* a numbering too short for a forward jump, so that every gap is counted. *)
(***************************************************************************)
EXTENDS Telemetry

MCWindowSize == [s \in Sensor |-> 2]
MCSeqNum == 1 .. MaxSeq
=============================================================================
