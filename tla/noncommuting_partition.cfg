CONSTANT Inputs <- NonCommutingInputs
SPECIFICATION Spec
INVARIANT NothingLost
