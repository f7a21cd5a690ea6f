SPECIFICATION Spec
CONSTANTS
  Node = {n1}
  Channel <- MCChannel
  Value <- MCValue
  Severity <- MCSeverity
  Cooldown = 2
  MaxAlerts = 4
  MaxTime = 6
INVARIANTS
  NoAlertStorm
  CauseIsOnRecord
CHECK_DEADLOCK FALSE
