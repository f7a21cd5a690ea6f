SPECIFICATION Spec
CONSTANTS
  Node = {n1, n2}
  Level <- MCOneLevel
  MaxCommands = 2
  MaxLosses = 1
  MaxRestarts = 1
CHECK_DEADLOCK FALSE
INVARIANTS
  AckMeansApplied
  ViewFollowsRecord
PROPERTIES
  NodeNeverGoesBack
  ImplementsRegister
  DispatchEnds
