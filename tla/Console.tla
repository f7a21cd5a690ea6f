------------------------------ MODULE Console ------------------------------
(***************************************************************************)
(* The rest of the dashboard that shows the context's readings, statuses   *)
(* and zones: the frame around every page (AppHeader, LiveStatusBar,       *)
(* AppSidebar), the map of the digital twin, the analytics page with its   *)
(* charts.  Like the monitoring page they keep none of it themselves.      *)
(*                                                                         *)
(* The crack gauge stands for the sensor that the charts show too.  The    *)
(* map's warning colour belongs to other sensors, and is absent.  Its list *)
(* of nodes is a library's, which the repository does not have.            *)
(***************************************************************************)
EXTENDS Monitoring, Integers

CONSTANTS
  Registered,      (* nodes on the map, MINING_NODE_REGISTRY               *)
  ProjectedNode,   (* the one a look into the future paints red, NODE_03   *)
  DefaultNodes     (* those the analytics page begins with                 *)

ASSUME ConsoleAssumption ==
  /\ Registered \subseteq Node
  /\ ProjectedNode \in Registered
  /\ DefaultNodes \subseteq OpPp
  /\ DefaultNodes # {}

-----------------------------------------------------------------------------
(***************************************************************************)
(* The frame around every page.                                            *)
(***************************************************************************)
Header ==
  [online |-> Stats.online, nodes |-> Stats.nodes, zones |-> Stats.zones,
   link |-> IF connected THEN "LIVE WS" ELSE "OFFLINE",
   simRunning |-> simulating]

\* What it calls rooms are the zones it knows.
StatusBar ==
  [broker |-> IF connected THEN "BROKER ONLINE" ELSE "BROKER OFFLINE",
   rooms |-> activeZones \cup ZonesOf(readings) \cup ZonesOf(nodeStatuses)]

\* The badge of the monitoring page in the menu; none while it would say 0.
LiveBadge == IF Stats.online > 0 THEN {Stats.online} ELSE {}

-----------------------------------------------------------------------------
(***************************************************************************)
(* The map of the digital twin, now or so many hours ahead.                *)
(***************************************************************************)
TimeOffsets == {-24, 0, 2, 6}

IsCritical(n, hours) ==
  \/ n \in DOMAIN readings /\ readings[n] \in Broken \cup Raw
  \/ hours > 0 /\ n = ProjectedNode

\* The dot that pings in its corner does not ask whether the node is online.
Marker(n, hours) ==
  [colour |-> IF ~ Online(n) THEN "slate" ELSE IF IsCritical(n, hours) THEN "red" ELSE "emerald",
   pings |-> IsCritical(n, hours)]

Popup(n, hours) ==
  [light |-> IF Online(n) THEN "emerald" ELSE "slate",
   badge |-> IF IsCritical(n, hours) THEN "critical" ELSE "normal",
   status |-> IF n \in DOMAIN nodeStatuses THEN nodeStatuses[n] ELSE "Active"]

\* Lines to the gateway.
MeshLinks(hours) ==
  [n \in {m \in Registered : Online(m)} |-> IF IsCritical(n, hours) THEN "red" ELSE "amber"]

-----------------------------------------------------------------------------
(***************************************************************************)
(* The analytics page.                                                     *)
(***************************************************************************)
AllDiscoveredNodes == IF Known # {} THEN Known ELSE DefaultNodes

\* The hardware filter, unless it would leave none.
DynamicNodes(onlyOpPp) ==
  LET opPp == AllDiscoveredNodes \cap OpPp
  IN IF onlyOpPp /\ opPp # {} THEN opPp ELSE AllDiscoveredNodes

\* A selection no longer offered gives way to the first that is.
SelectedNodes(selected, onlyOpPp) ==
  IF selected \in DynamicNodes(onlyOpPp) THEN {selected} ELSE DynamicNodes(onlyOpPp)

\* The point drawn for a node; none while there are no readings at all.
Frame(selected) ==
  IF readings = Empty THEN {}
  ELSE {[node |-> selected,
         value |-> IF selected \in DOMAIN readings THEN readings[selected] ELSE 0,
         columns |-> readings]}

\* All readings, whatever the filter, and nodes offered that have none.
ChartData(onlyOpPp) ==
  [n \in DOMAIN readings \cup DynamicNodes(onlyOpPp) |->
     IF n \in DOMAIN readings THEN [value |-> readings[n], isReal |-> TRUE]
     ELSE [value |-> 0, isReal |-> FALSE]]

\* A bar of the chart and what it says when pointed at.
Bar(point) ==
  [slate |-> ~ point.isReal,
   tooltip |-> IF point.isReal THEN {point.value} ELSE {}]

Beacon ==
  IF simulating THEN "Simulation Engine Active"
  ELSE IF Stats.online > 0 THEN "Hardware Nodes Online"
  ELSE "Awaiting Hardware Packets"

\* The first of the cards above the charts.
FleetKpi ==
  [online |-> Stats.online, nodes |-> Stats.nodes,
   mode |-> IF simulating THEN "SIM ACTIVE" ELSE "LIVE MESH"]

-----------------------------------------------------------------------------
OnlineCards == {n \in Known : Card(n).status = "Online"}

\* The header counts a node online whose card says offline until its status
\* is announced.  Its zones are the status bar's rooms, each page's zones are
\* among them but for those known by predictions only, and the zones joined are
\* too until the operator purges or simulates.
HeadersAgree ==
  LET header == Header
      known == StatusBar.rooms
      body == Body(Everything(FALSE))
      online == OnlineCards
  IN /\ header.online = Cardinality(online) + Cardinality(Known \ DOMAIN nodeStatuses)
     /\ header.nodes = 0 <=> body = "awaiting"
     /\ body # "no match"
     /\ LiveBadge = {} => online = {}
     /\ header.zones = Cardinality(known)
     /\ \A f \in Filters : \A z \in FilteredZones(f) :
          z \in known <=> ~ NodesInZone(z) \subseteq OnlyPredicted \/ z \in activeZones
     /\ clicks = 0 => joined \subseteq known
     /\ header.link = "LIVE WS" <=> StatusBar.broker = "BROKER ONLINE"

\* A marker is red, today, for a node whose zone's card says RUPTURE, unless a
\* raw gauge is averaged with it; and a zone all on the map that says RUPTURE
\* has a marker that pings.  A line is drawn to the nodes whose card says
\* online, red with its marker.  A popup that says Active knows no status, and
\* the marker is slate then and the directory says offline.
TwinAgrees ==
  /\ \A n \in Registered :
       LET zone == NodesInZone(ZoneOf[n])
           raw == {m \in zone \cap DOMAIN readings : readings[m] \in Raw}
       IN /\ Marker(n, 0).colour = "red" /\ raw = {} => ZoneSays(zone) = "RUPTURE"
          /\ ZoneSays(zone) = "RUPTURE" /\ zone \ OnlyPredicted \subseteq Registered
               => \E m \in zone : Marker(m, 0).pings
          /\ Popup(n, 0).status = "Active" =>
               /\ Marker(n, 0).colour = "slate"
               /\ \A row \in AllNodes : row.node = n => TableStatus(row) = "offline"
  /\ \A hours \in TimeOffsets :
       /\ DOMAIN MeshLinks(hours) = OnlineCards \cap Registered
       /\ \A n \in DOMAIN MeshLinks(hours) :
            MeshLinks(hours)[n] = "red" <=> Marker(n, hours).colour = "red"

\* The page offers what the monitoring page shows under the same filter, but
\* for nodes known by predictions only, or all if that is nothing; the node
\* selected has a bar, and the bar, the point and the node's card tell one
\* reading.  The beacon waits only while no card says online.
AnalyticsAgrees ==
  /\ \A onlyOpPp \in BOOLEAN :
       LET shown == FilteredNodes(Everything(onlyOpPp)) \ OnlyPredicted
           offered == DynamicNodes(onlyOpPp)
           chart == ChartData(onlyOpPp)
           selected == UNION {SelectedNodes(n, onlyOpPp) : n \in Node}
       IN /\ shown # {} => offered = shown
          /\ \A n \in DOMAIN chart :
               LET bar == Bar(chart[n])
                   reading == Card(n).reading
               IN bar.tooltip = reading /\ (bar.slate <=> reading = {})
          /\ \A n \in selected :
               n \in DOMAIN chart /\ \A frame \in Frame(n) : frame.value = chart[n].value
  /\ Beacon = "Awaiting Hardware Packets" => OnlineCards = {}
  /\ FleetKpi.online = Header.online /\ FleetKpi.nodes = FleetCards.nodes

(***************************************************************************)
(* Everything on the screen that is computed apart from one and the same   *)
(* state agrees: the zones, the mine and the directory under every filter; *)
(* the header, the status bar and the menu; the map; the analytics page.   *)
(* The filter of the monitoring page goes by the predictions too, so after *)
(* a purge, which keeps them, or a demo event it shows nodes and zones the *)
(* others do not.  They differ in those known by predictions only, which   *)
(* have neither a reading nor a status, and in nothing else                *)
(* (useZoneFilter 60-174, ZoneContainer 120-257, GlobalZoneAverages        *)
(* 107-200, nodes/page 14-49, LiveStatusBar 12-18, DigitalTwinMap 353-505, *)
(* analytics/page 87-248, NodeFleetComparisonChart 37-82).                 *)
(***************************************************************************)
PagesAgree ==
  /\ FiltersAgree
  /\ DirectoryAgrees
  /\ MineAgrees
  /\ HeadersAgree
  /\ TwinAgrees
  /\ AnalyticsAgrees

=============================================================================
