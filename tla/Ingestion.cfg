SPECIFICATION BadgeSpec
CONSTANTS
  LoraNode <- MCNode
  DefaultNode = "NODE_01"
  GhostNode = "comman"
  PacketTimeout = 2
  BadgeTimeout = 1
  MaxBatches = 1
INVARIANTS
  AnnouncedIsCurrent
PROPERTIES
  LossIsSeen
  LossReachesNodes
