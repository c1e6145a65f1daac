SPECIFICATION Spec
CONSTANTS
  Start <- Chains_
  Numbers = {1, 2, 10}
  LabelOrder <- Labels
  Cardinal <- CardinalLabels
INVARIANT MeaningKept
