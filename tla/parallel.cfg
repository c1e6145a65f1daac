CONSTANT MaxThreads = 3
CONSTANT MaxTasks = 3
CONSTANT Outputs <- MixedOutputs
SPECIFICATION Spec
INVARIANT TypeOK
INVARIANT SumIsComplete
INVARIANT ConstantIsUnique
INVARIANT StatsAreTotals
INVARIANT NoSilentFailure
INVARIANT NoThreadOutlivesCall
PROPERTY ImplementsForEach
PROPERTY Ends
