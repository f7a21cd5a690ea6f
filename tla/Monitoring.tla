----------------------------- MODULE Monitoring -----------------------------
(***************************************************************************)
(* What the monitoring page and the nodes page show of the context's       *)
(* state.  Neither keeps data of its own: each figure is an operator of    *)
(* readings, nodeStatuses and activeZones, and of the operator's filter f. *)
(* The pages compute their figures apart from one another, zone by zone,   *)
(* for the fleet, for the header and for the directory.                    *)
(*                                                                         *)
(* The one sensor of a node is its crack gauge.  A tripwire reports 0 or   *)
(* 1, an edge node its raw potentiometer, far above 1.  Filters by gaps    *)
(* and by the model's class test one field of a node like those by status. *)
(***************************************************************************)
EXTENDS Dashboard, FiniteSets

CONSTANTS
  OpPp,        (* nodes with NODE_OP or NODE_PP in their name              *)
  Broken,      (* readings of a broken tripwire                            *)
  Raw,         (* readings of a potentiometer                              *)
  Filters      (* settings of the filter                                   *)

AnySearch == [given |-> FALSE, matches |-> Node]

Filter ==
  [zone : {"all"} \cup Zone,
   search : {AnySearch} \cup [given : {TRUE}, matches : SUBSET Node],
   status : {"all", "online", "offline"},
   onlyOpPp : BOOLEAN]

ASSUME MonitoringAssumption ==
  /\ IsFiniteSet(Node)
  /\ OpPp \subseteq Node
  /\ {Broken, Raw} \subseteq SUBSET Nat
  /\ Broken \cap Raw = {}
  /\ "all" \notin Zone         \* a setting of its own
  /\ Filters \subseteq Filter

Known == DOMAIN readings \cup DOMAIN nodeStatuses

\* For the context's figures, the directory and the charts they do not exist.
OnlyPredicted == mlPredictions \ Known

Online(n) == n \in DOMAIN nodeStatuses /\ nodeStatuses[n] = "online"

-----------------------------------------------------------------------------
(***************************************************************************)
(* The filter (useZoneFilter).                                             *)
(***************************************************************************)
HardwareOnly(nodes, onlyOpPp) == IF onlyOpPp THEN nodes \cap OpPp ELSE nodes

ContextZones == activeZones \cup ZonesOf(readings) \cup ZonesOf(nodeStatuses)
AllKnownZones == ContextZones \cup {ZoneOf[n] : n \in mlPredictions}

NodesInZone(z) == {n \in Known \cup mlPredictions : ZoneOf[n] = z}

Passes(n, status) ==
  \/ status = "all"
  \/ status = "online" /\ Online(n)
  \/ status = "offline" /\ ~ Online(n)

MatchingNodes(z, f) ==
  {n \in HardwareOnly(NodesInZone(z), f.onlyOpPp) \cap f.search.matches : Passes(n, f.status)}

\* A zone chosen by hand stays even if empty, unless another filter is on.
FilteredZones(f) ==
  {z \in AllKnownZones :
     /\ f.zone \in {"all", z}
     /\ MatchingNodes(z, f) # {} \/ (f.zone = z /\ ~ f.search.given /\ ~ f.onlyOpPp)}

\* What the controls let the operator set.
FilterChoices == {f \in Filter : f.zone \in {"all"} \cup AllKnownZones}

FilteredNodes(f) == UNION {MatchingNodes(z, f) : z \in FilteredZones(f)}

Counts(zones, nodes, offline) ==
  [zones |-> Cardinality(zones), nodes |-> Cardinality(nodes),
   online |-> Cardinality(nodes \ offline), offline |-> Cardinality(offline)]

FilteredStats(f) ==
  LET nodes == FilteredNodes(f)
  IN Counts(FilteredZones(f), nodes, {n \in nodes : ~ Online(n)})

\* The context's own figures, which take a node without a status for online.
Stats == Counts(ContextZones, Known, {n \in DOMAIN nodeStatuses : ~ Online(n)})

\* What the page's title shows: the fleet's figures if the filter leaves none.
TitleStats(f) ==
  LET filtered == FilteredStats(f)
  IN IF f.onlyOpPp /\ filtered.nodes > 0 THEN filtered ELSE Stats

\* Below the title: a guide for the first node, a note, or a card per zone.
Body(f) ==
  IF Known = {} THEN "awaiting"
  ELSE IF FilteredZones(f) = {} THEN "no match"
  ELSE "zones"

-----------------------------------------------------------------------------
(***************************************************************************)
(* A zone (ZoneContainer) and its nodes (NodeCard).                        *)
(***************************************************************************)
ZoneTotals(nodes) ==
  [nodes |-> Cardinality(nodes), online |-> Cardinality({n \in nodes : Online(n)})]

\* The green badge of the zone's header.
Healthy(nodes) == ZoneTotals(nodes).online = Cardinality(nodes) /\ nodes # {}

\* The gauges of some nodes taken together; offline nodes count with their
\* last reading.  Once one of them is raw they are averaged, and the card says
\* that none is broken.
Tripwires(nodes) ==
  LET reporting == nodes \cap DOMAIN readings
      broken == {n \in reporting : readings[n] \in Broken}
      binary == \A n \in reporting : readings[n] \notin Raw
  IN [reporting |-> reporting, broken |-> IF binary THEN broken ELSE {}]

CardSays(tripwires) ==
  IF tripwires.reporting = {} THEN "awaiting"
  ELSE IF tripwires.broken # {} THEN "RUPTURE"
  ELSE "SECURE"

\* The zone's averages and its threat badge.
ZoneSays(nodes) == CardSays(Tripwires(nodes))

\* The figures under a card.
Caption(tripwires) ==
  [reporting |-> Cardinality(tripwires.reporting), broken |-> Cardinality(tripwires.broken)]

\* A node's card: its badge and the gauge under it.
Card(n) ==
  [status |-> IF Online(n) THEN "Online" ELSE "Offline / LWT",
   reading |-> IF n \in DOMAIN readings THEN {readings[n]} ELSE {}]

\* The cards of a zone's nodes, and the count above them.
Carousel(nodes) ==
  [cards |-> [n \in nodes |-> Card(n)],
   inactive |-> Cardinality(nodes) - ZoneTotals(nodes).online]

-----------------------------------------------------------------------------
(***************************************************************************)
(* The whole mine (GlobalZoneAverages).  The component remembers its       *)
(* figures until readings, statuses or zones change (258), so a switch of  *)
(* the filter shows in them with the next of these only; the figures here  *)
(* are the ones worked out with the filter as it is.                       *)
(***************************************************************************)
\* Mutation: a node counts in spite of the filter.
FleetUnfiltered(onlyOpPp) == Known
Fleet(onlyOpPp) == HardwareOnly(Known, onlyOpPp)

\* Only online nodes lend their zone's name.
FleetTripwires(onlyOpPp) ==
  LET tripwires == Tripwires(Fleet(onlyOpPp))
  IN [reporting |-> tripwires.reporting,
      broken |-> tripwires.broken,
      zones |-> {ZoneOf[n] : n \in {m \in tripwires.broken : Online(m)}}]

\* The mine's averages and its threat badge.
FleetSays(onlyOpPp) == CardSays(FleetTripwires(onlyOpPp))

-----------------------------------------------------------------------------
(***************************************************************************)
(* The nodes page: those with a status, then those with readings only.     *)
(***************************************************************************)
AllNodes ==
  {[node |-> n, status |-> {nodeStatuses[n]}] : n \in DOMAIN nodeStatuses}
    \cup {[node |-> n, status |-> {}] : n \in DOMAIN readings \ DOMAIN nodeStatuses}

\* The badge in a row of the table.
TableStatus(row) == IF row.status = {} THEN "offline" ELSE CHOOSE status \in row.status : TRUE

\* The cards above the table: the context's figures, and the table's length.
FleetCards ==
  [nodes |-> Stats.nodes, online |-> Stats.online, offline |-> Stats.offline,
   tone |-> IF Stats.offline = 0 THEN "All Nodes Connected" ELSE "Attention Required",
   cataloged |-> Cardinality(AllNodes)]

-----------------------------------------------------------------------------
(***************************************************************************)
(* Figures computed apart agree.                                           *)
(***************************************************************************)
Everything(onlyOpPp) ==
  [zone |-> "all", search |-> AnySearch, status |-> "all", onlyOpPp |-> onlyOpPp]

\* The setting that asks for one node only, as it is.
JustThis(n) ==
  [zone |-> ZoneOf[n], search |-> [given |-> TRUE, matches |-> {n}],
   status |-> IF Online(n) THEN "online" ELSE "offline", onlyOpPp |-> n \in OpPp]

\* Numbers taken together, each of them as that many pairs.
SumOf(g) == Cardinality(UNION {{x} \X (1 .. g[x]) : x \in DOMAIN g})

\* Under every filter the zones' totals add up to the filtered ones and each
\* node shown passes as online or offline, never both or neither; without a
\* filter none is missing, and the controls can single each one out.  The title
\* counts nodes over a page that still waits for some only if they are known by
\* predictions and nothing else.
FiltersAgree ==
  /\ \A f \in Filters :
       LET stats == FilteredStats(f)
           totals == [z \in FilteredZones(f) |-> ZoneTotals(MatchingNodes(z, f))]
           passing(status) == FilteredNodes([f EXCEPT !.status = status])
       IN /\ stats.online = SumOf([z \in DOMAIN totals |-> totals[z].online])
          /\ stats.nodes = SumOf([z \in DOMAIN totals |-> totals[z].nodes])
          /\ passing("offline") = passing("all") \ passing("online")
          /\ TitleStats(f).nodes = 0 => Body(f) = "awaiting"
          /\ Body(f) = "awaiting" =>
               TitleStats(f).nodes = 0 \/ TitleStats(f).nodes = Cardinality(FilteredNodes(f) \cap OnlyPredicted)
  /\ FilteredNodes(Everything(FALSE)) = Known \cup OnlyPredicted
  /\ LET choices == FilterChoices
     IN \A n \in Known \cup OnlyPredicted : JustThis(n) \in choices /\ FilteredNodes(JustThis(n)) = {n}

\* Each node with a card has one row in the directory, with the card's status,
\* unless it is known by a prediction only.  Rows without a status say offline,
\* and the page's own cards do not count them so.
DirectoryAgrees ==
  LET rows == AllNodes
      cards == FleetCards
      unannounced == Known \ DOMAIN nodeStatuses
      offline == {row \in rows : TableStatus(row) # "online"}
  IN /\ \A n \in FilteredNodes(Everything(FALSE)) \ OnlyPredicted : \E row \in rows :
          /\ {other \in rows : other.node = n} = {row}
          /\ TableStatus(row) = "online" <=> Card(n).status = "Online"
     /\ \A n \in OnlyPredicted : Card(n).status # "Online" /\ \A row \in rows : row.node # n
     /\ cards.cataloged = cards.nodes
     /\ Cardinality(offline) = cards.offline + Cardinality(unannounced)
     /\ cards.tone = "All Nodes Connected" <=> \A row \in offline : row.node \in unannounced

\* The mine's figures are its zones' together; a zone it names as ruptured is
\* on the page and says so itself, with a broken gauge among its cards.
MineAgrees ==
  \A onlyOpPp \in BOOLEAN :
    LET f == Everything(onlyOpPp)
        zones == FilteredZones(f)
        captions == [z \in zones |-> Caption(Tripwires(MatchingNodes(z, f)))]
        mine == FleetTripwires(onlyOpPp)
    IN /\ Caption(mine).reporting = SumOf([z \in zones |-> captions[z].reporting])
       /\ Caption(mine).broken <= SumOf([z \in zones |-> captions[z].broken])
       /\ \A z \in mine.zones :
            /\ z \in zones
            /\ ZoneSays(MatchingNodes(z, f)) = "RUPTURE"
            /\ \E n \in DOMAIN Carousel(MatchingNodes(z, f)).cards :
                 Card(n).status = "Online" /\ Card(n).reading \subseteq Broken
       /\ \A z \in zones :
            LET carousel == Carousel(MatchingNodes(z, f))
            IN carousel.inactive = Cardinality({n \in DOMAIN carousel.cards : carousel.cards[n].status # "Online"})

(***************************************************************************)
(* Once the connection holds, the page comes to show every reading and     *)
(* status as the backend has it, except for what the dashboard removed or  *)
(* made up itself and nobody sent again: the node's card is there with     *)
(* both, and a broken tripwire makes its zone and the mine say so, as long *)
(* as no raw gauge is averaged with it (RealtimeContext 1007-1205,         *)
(* 1332-1337; useZoneFilter 78-145; ZoneContainer 134-257, 544-572).       *)
(***************************************************************************)
ShowsReading(n) ==
  /\ n \in FilteredNodes(Everything(FALSE))
  /\ Card(n).reading = {snapshot[n]}
  /\ snapshot[n] \in Broken /\ (\A m \in DOMAIN readings : readings[m] \notin Raw)
       => /\ ZoneSays(NodesInZone(ZoneOf[n])) = "RUPTURE"
          /\ FleetSays(FALSE) = "RUPTURE"

ShowsStatus(n) ==
  /\ n \in FilteredNodes(Everything(FALSE))
  /\ Card(n).status = "Online" <=> statusSnapshot[n] = "online"

ScreenCatchesUp ==
  <>[] connected =>
    <>[] (/\ \A n \in DOMAIN snapshot : <<n, "reading">> \notin touched => ShowsReading(n)
          /\ \A n \in DOMAIN statusSnapshot : <<n, "status">> \notin touched => ShowsStatus(n))

=============================================================================
