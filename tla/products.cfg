SPECIFICATION Spec
CONSTANTS
  Start <- Products_
  Numbers = {1, 2, 10}
  LabelOrder <- Labels
  Cardinal <- CardinalLabels
INVARIANTS
  MeaningKept
  OneForm
  NoNeedlessDelta
PROPERTY ReductionEnds
CHECK_DEADLOCK FALSE
