CONSTANT Objects <- AllObjects
CONSTANT PairSets <- Pairs
CONSTANT PartitionLists <- Lists
CONSTANT MaxComputes = 2
CONSTANT MaxDivisions = 1
SPECIFICATION Spec
INVARIANT InputIsTheProduct
