SPECIFICATION ReviewSpec
CONSTANTS
  Prediction = {p1, p2}
  Label = {normal, risk}
  Unlabelled = Unlabelled
  Absent = Absent
  None = None
  MadeUp = {m1}
  Prelabelled = {m1}
  PretendedClass = risk
  MaxStops = 1
  MaxFetches = 1
CHECK_DEADLOCK FALSE
INVARIANTS
  LabelWasChosen
PROPERTIES
  ImplementsLog
  Settles
