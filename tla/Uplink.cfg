SPECIFICATION UplinkSpec
CONSTANTS
  QueueLength = 2
  SeqLimit = 3
  SeqWidth = 2
  None = None
  Ack = Ack
  Substitute = Substitute
  Samples <- MCSamples
  MaxBeacons = 2
  MaxCommands = 1
  MaxBreaks = 1
CHECK_DEADLOCK FALSE
INVARIANTS
  ShownIsOneCommand
  GapsAreLosses
  BeaconAtMostTwice
  HeldIsLatestGood
