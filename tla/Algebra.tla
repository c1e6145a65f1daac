------------------------------ MODULE Algebra ------------------------------
(***************************************************************************)
(* What expressions promise: a program is a sequence of calls that compute *)
(* polynomials in named variables.  Rearranging an expression does not     *)
(* change its value; no call changes any other variable than the one it is *)
(* applied to, unless it takes the value of its second operand away.       *)
(***************************************************************************)
EXTENDS Polynomials

CONSTANTS Names, Consumes

VARIABLES call, value

Products == {"times", "power", "times_by", "append_nested"}
Sums     == {"plus", "add_to", "prepend_summand"}
Differences == {"minus", "subtract_from"}

\* the value a call gives the variable it is applied to
Meaning(c, v) ==
  CASE c.op \in Products    -> PMul(v[c.a], v[c.b])
    [] c.op = "prepend"     -> PMul(v[c.b], v[c.a])
    [] c.op \in Sums        -> PAdd(v[c.a], v[c.b])
    [] c.op \in Differences -> PAdd(v[c.a], PScale(v[c.b], <<-1, 0>>))
    [] c.op = "adjoint"     -> PAdjoint(v[c.a])
    [] c.op = "clone"       -> v[c.b]
    [] OTHER                -> v[c.a]

Takes(c) == Consumes /\ c.op \in Products \cup Sums \cup Differences \cup {"prepend"}

Do(c) ==
  /\ call' = c
  /\ value' = [n \in Names |-> CASE n = c.a -> Meaning(c, value)
                                [] n # c.a /\ n = c.b /\ Takes(c) -> PZero
                                [] OTHER -> value[n]]

=============================================================================
