---------------------------- MODULE MCDashboard ----------------------------
EXTENDS Console, TLC

CONSTANTS n1, n2, z1, z2

MCNode == {n1, n2}
MCZone == {z1, z2}
MCZoneOf == (n1 :> z1) @@ (n2 :> z2)

\* The hardware filter, one zone, and one node searched for in the other.
MCFilters ==
  LET everything == [zone |-> "all", search |-> [given |-> FALSE, matches |-> MCNode],
                     status |-> "all", onlyOpPp |-> FALSE]
      zone1 == [everything EXCEPT !.zone = z1]
  IN {[everything EXCEPT !.onlyOpPp = TRUE], zone1,
      [zone1 EXCEPT !.search = [given |-> TRUE, matches |-> {n2}]]}

=============================================================================
