SPECIFICATION Spec
CONSTANTS
  n1 = n1
  n2 = n2
  z1 = z1
  z2 = z2
  Node <- MCNode
  Zone <- MCZone
  ZoneOf <- MCZoneOf
  SimNode = {n1}
  DemoNode = {n1}
  MaxReadings = 2
  MaxPredictions = 1
  MaxOutages = 1
  MaxDrops = 1
  MaxClicks = 1
  MaxUpsets = 2
  OpPp = {n1}
  Broken = {1}
  Raw = {2}
  Filters <- MCFilters
  Registered = {n1}
  ProjectedNode = n1
  DefaultNodes = {n1}
CHECK_DEADLOCK FALSE
INVARIANTS
  PagesAgree
PROPERTIES
  NeverOlder
  ScreenCatchesUp
