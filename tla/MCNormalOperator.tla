--------------------------- MODULE MCNormalOperator ---------------------------
EXTENDS NormalOperator

\* index maps as TensorNetwork::canonicalize makes them keep the type
SameType == {<<t, t>> : t \in Types}
=============================================================================
