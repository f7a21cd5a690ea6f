----------------------------- MODULE MCIngestion -----------------------------
(***************************************************************************)
(* Checks GatewayBadge with TLC: two LoRa nodes and the ghost decoded from    *)
(* text, in strings because the watchdog and the handlers compare them.    *)
(***************************************************************************)
EXTENDS GatewayBadge

MCNode == {"NODE_01", "NODE_02"}
=============================================================================
