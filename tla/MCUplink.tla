------------------------------ MODULE MCUplink ------------------------------
(***************************************************************************)
(* Checks Uplink with TLC: a boot of three packets, then one of one, and   *)
(* two beacons.  The two sensors do not depend on each other, so they fail *)
(* side by side: both work, or both fail first; then neither gives a value *)
(* to hold; then both do; after the reboot one more of each kind.          *)
(***************************************************************************)
EXTENDS Uplink

Both(motion, climate) == [motion |-> motion, climate |-> climate]

MCSamples ==
  << <<{Both("good", "good"), Both("failed", "failed")}, {Both("failed", "implausible")}, {Both("good", "good")}>>,
     <<{Both("good", "failed"), Both("implausible", "implausible")}>> >>

=============================================================================
