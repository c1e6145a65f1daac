SPECIFICATION Spec
CONSTANTS
  Names <- MCNames
  Calls <- MCCalls
  Start <- MCStart
  Contract <- MCContract
  MaxCalls = 3
  Consumes = TRUE
  SortsSums = FALSE
INVARIANTS ComputesTheAlgebra TreesStayTrees SimplifiedIsNormal
CHECK_DEADLOCK FALSE
