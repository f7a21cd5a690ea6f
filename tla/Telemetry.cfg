SPECIFICATION TelemetrySpec
CONSTANTS
  Node = {n1}
  Zone = {z1}
  Sensor = {tilt}
  SeqNum <- MCSeqNum
  NoSeq = NoSeq
  SeenCap = 3
  ForwardSpan = 5
  ReorderSpan = 1
  WindowSize <- MCWindowSize
  StaleTimeout = 2
  CheckPeriod = 2
  MaxReadings = 5
  MaxSeq = 3
  MaxBoots = 2
  RedeliveryWindow = 2
CHECK_DEADLOCK FALSE
INVARIANTS
  StoredOnce
  ArrivedIsStoredWithinBoot
  GapCountCoversLoss
  OnlineIsFresh
PROPERTIES
  ResetStartsAfresh
