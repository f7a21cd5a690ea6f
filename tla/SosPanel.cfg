SPECIFICATION Spec
CONSTANTS
  Level = {"CRITICAL", "NORMAL"}
  None = None
  MaxToggles = 1
  MaxClicks = 2
  MaxOther = 1
  MaxDrops = 1
  MaxLosses = 1
CHECK_DEADLOCK FALSE
INVARIANTS
  AckShownIsReal
PROPERTIES
  PanelCatchesUp
