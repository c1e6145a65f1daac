SPECIFICATION Spec
CONSTANTS
  Names <- MCNames
  Calls <- MCCalls
  Start <- MCStart
  Contract <- MCContract
  MaxCalls = 2
  Consumes = TRUE
  SortsSums = TRUE
INVARIANTS ComputesTheAlgebra
CHECK_DEADLOCK FALSE
