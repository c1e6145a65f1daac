--------------------------- MODULE MCWickParallel ---------------------------
(***************************************************************************)
(* Small outcomes of a summand: zero, a sum of a term and a constant, and  *)
(* an exception.                                                           *)
(***************************************************************************)
EXTENDS WickParallel

Constant(n) == [kind |-> "constant", value |-> n]
TermX == [kind |-> "x", value |-> 1]

Outcome(summands, a, u) ==
  [summands |-> summands, attempted |-> a, useful |-> u, throws |-> FALSE]

Exception == [summands |-> <<>>, attempted |-> 0, useful |-> 0, throws |-> TRUE]

MixedOutputs ==
  {Outcome(<<Constant(0)>>, 2, 0), Outcome(<<TermX, Constant(-2)>>, 3, 2), Exception}
=============================================================================
