CONSTANT Objects <- AllObjects
CONSTANT PairSets <- Pairs
CONSTANT PartitionLists <- Lists
CONSTANT MaxComputes = 2
CONSTANT MaxDivisions = 1
SPECIFICATION Spec
INVARIANT TypeOK
INVARIANT InputIsAccumulated
INVARIANT ConnectionsAreHonoured
INVARIANT PartitionsAreOrbits
INVARIANT IndexCheckIsSound
INVARIANT EngineInputIsValid
