--------------------------- MODULE MCExpressions ---------------------------
(***************************************************************************)
(* Programs of two variables.  Tensors 1 and 2, operators 3 and 4, of      *)
(* which the first can be contracted with the second.                      *)
(***************************************************************************)
EXTENDS Expressions

T(n)     == <<"tensor", n>>
Odd(n)   == <<"odd", n>>
Op(n)    == <<"operator", n>>
C(re, im) == <<"constant", <<re, im>>>>
Pr(c, s) == <<"product", c, s>>
Su(s)    == <<"sum", s>>

\* an expression, made by the constructors
RECURSIVE Build(_, _)
BuildAll(h, seq) ==
  FoldLeft(LAMBDA a, e : LET k == Build(a.h, e)
                         IN [h |-> k.h, s |-> Append(a.s, k.r)],
           [h |-> h, s |-> <<>>], seq)

Build(h, e) ==
  CASE e[1] = "tensor"   -> New(h, Leaf("Tensor", e[2], FALSE))
    [] e[1] = "odd"      -> New(h, Leaf("Tensor", e[2], TRUE))
    [] e[1] = "operator" -> New(h, Leaf("Operator", e[2], FALSE))
    [] e[1] = "constant" -> New(h, Constant(e[2]))
    [] e[1] = "product"  -> LET a == BuildAll(h, e[3]) IN MakeProduct(a.h, e[2], a.s)
    [] e[1] = "sum"      -> LET a == BuildAll(h, e[2]) IN MakeSum(a.h, a.s)

Shapes ==
  << T(1), Odd(1), Op(3), C(2, 1),
     Pr(<<2, 0>>, <<T(2), Odd(1)>>),
     Pr(One, <<Op(4), T(1)>>),
     Su(<<T(1), C(-2, 0)>>),
     Su(<<Op(3), Op(4)>>),
     Su(<<Pr(MinusOne, <<T(1)>>), C(1, 1), Pr(<<2, 0>>, <<Odd(1)>>)>>),
     Pr(One, <<Su(<<T(2), Op(3)>>), Su(<<C(1, 0), Op(4)>>)>>) >>

MCNames == {"x", "y"}

Pairs(ops) == {[op |-> o, a |-> a, b |-> b] : o \in ops, a, b \in MCNames}
MCCalls ==
  {c \in Pairs({"times", "power", "plus", "minus", "times_by", "append_nested",
                "add_to", "prepend_summand", "subtract_from", "clone"}) : c.a # c.b}
  \cup {c \in Pairs({"canonicalize", "expand", "rapid_simplify", "simplify",
                     "adjoint"}) : c.a = c.b}

StartOf(i, j) ==
  LET x == Build([r \in {} |-> Sum], Shapes[i])
      y == Build(x.h, Shapes[j])
  IN [heap |-> y.h, var |-> ("x" :> x.r @@ "y" :> y.r)]

MCStart == {StartOf(i, j) : i, j \in DOMAIN Shapes}

MCContract == {<<3, 4>>}
=============================================================================
