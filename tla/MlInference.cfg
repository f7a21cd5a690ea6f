SPECIFICATION Spec
CONSTANTS
  Node = {n1}
  Channel = {c1, c2}
  MaxSeq = 4
  WindowLen = 2
  AllowWarmup = FALSE
  WholePackets = TRUE
  None = None
CHECK_DEADLOCK FALSE
INVARIANTS
  OncePerPacket
  WindowsAreWhole
  FailingServiceIsSpared
PROPERTIES
  PendingIsEvaluated
