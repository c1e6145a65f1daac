SPECIFICATION Spec
CONSTANTS
  MaxRank = 3
  MaxSteps = 6
  Start <- Inputs
  Canonical <- CanonicalForm
INVARIANTS
  MeaningKept
  NeverFails
CHECK_DEADLOCK FALSE
