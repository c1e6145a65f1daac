CONSTANT Inputs <- AllInputs
SPECIFICATION Spec
INVARIANT TypeOK
INVARIANT Bookkeeping
INVARIANT Connectability
INVARIANT TermsAreContractions
INVARIANT TermsAreConnected
INVARIANT TermsAreDistinct
INVARIANT UsefulAreBeginnings
PROPERTY ImplementsTerms
PROPERTY Terminates
