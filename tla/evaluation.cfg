SPECIFICATION Spec
CONSTANTS
  Values = {1, 2}
  Depth = 4
  Start <- Expressions
  Contexts <- Amplitudes
  MaxSwaps = 1
INVARIANTS
  EvaluationIsExact
  HashIsCurrent
  CountIsWork
CHECK_DEADLOCK FALSE
