SPECIFICATION Spec
CONSTANTS
  Thread <- MCThread
  WindowSize = 3
  LogInterval = 2
  MinSamples = 2
  MaxPredictions = 4
  MaxTimeouts = 1
CHECK_DEADLOCK FALSE
INVARIANTS
  NoEvaluationMissed
PROPERTIES
  BarShowsVerdict
