CONSTANT Types = {"p", "i"}
CONSTANT Replacements <- SameType
CONSTANT MaxOps = 5
SPECIFICATION Spec
INVARIANT TypeOK
INVARIANT CreatorsAreFirst
INVARIANT HugIsCurrent
INVARIANT RestoreUndoesErase
PROPERTY GroupsAreStable
