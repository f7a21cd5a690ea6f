SPECIFICATION TrainingSpec
CONSTANTS
  Loss = {1, 2}
  NaN = NaN
  Inf = Inf
  None = None
  Broken = Broken
  Epochs = 3
  PatienceLimit = 2
  MaxRows = 2
  MaxRuns = 2
CHECK_DEADLOCK FALSE
INVARIANTS
  SplitIsClean
  LabelsStay
  BestIsKept
  StatsBelongToWeights
