SPECIFICATION FeedSpec
CONSTANTS
  LiveNode = {"NODE_03"}
  None = None
  ClocksAgree = TRUE
  MaxAlerts = 2
  LiveSeverity = {10, 60, 91}
  MaxPredictions = 2
  MaxToggles = 2
  MaxDrops = 1
CHECK_DEADLOCK FALSE
INVARIANTS
  OneAlertPerPrediction
  
PROPERTIES
  DangerIsListed
