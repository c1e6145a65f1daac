---------------------------- MODULE Expressions ----------------------------
(***************************************************************************)
(* A program that computes with expressions: each of its variables is an   *)
(* ExprPtr, and each call an operator, a member function or an algorithm   *)
(* applied to one or two of them.                                          *)
(*                                                                         *)
(* Trees are the expressions the algorithms are made for.  A program that  *)
(* keeps its expressions trees gives away the operand of an operation or   *)
(* clones it (Consumes); one that does not goes on using an operand whose  *)
(* nodes are now part of the result too.                                   *)
(***************************************************************************)
EXTENDS ExprAlgorithms, Polynomials

CONSTANTS
  Names,      \* the variables of the program
  Calls,      \* the calls it may make: op, and the variables a and b
  MaxCalls,   \* how many it makes
  Consumes,   \* whether the second operand of an operation is given away
  SortsSums,  \* whether canonicalize() may meet a sum among the factors
              \* of a product (simplify() expands those first)
  Start       \* the heaps and variables it may start from

VARIABLES
  heap,
  var,        \* the expression each variable points to
  call,       \* the last call
  calls,      \* how many calls were made
  value       \* what the calls so far compute, by the algebra

vars == <<heap, var, call, calls, value>>

Promise == INSTANCE Algebra

NoCall == [op |-> "none", a |-> "", b |-> ""]

\* nodes are freed with their last owner
RECURSIVE Below(_, _)
Below(h, r) == {r} \cup UNION {Below(h, k) : k \in ToSet(h[r].kids)}

Used(h, v) == UNION {Below(h, v[n]) : n \in {m \in Names : v[m] # Null}}

Free(h, v) ==
  [r \in (IF Failed(h) THEN {Null} ELSE {}) \cup Used(h, v) |-> h[r]]

-----------------------------------------------------------------------------
(***************************************************************************)
(* The value of an expression                                              *)
(***************************************************************************)
RECURSIVE Value(_, _)
Value(h, r) ==
  LET node   == h[r]
      letter == 2 * node.leaf.name + IF node.leaf.dag THEN 1 ELSE 0
      sign   == IF node.leaf.odd THEN MinusOne ELSE One
  IN CASE IsConstant(h, r) -> PNumber(node.c)
       [] IsTensor(h, r)   -> [w \in {<<<<letter>>, <<>>>>} |-> sign]
       [] IsOperator(h, r) -> [w \in {<<<<>>, <<letter>>>>} |-> One]
       [] IsProduct(h, r)  -> FoldLeft(LAMBDA p, k : PMul(p, Value(h, k)),
                                       PNumber(node.c), node.kids)
       [] IsSum(h, r)      -> FoldLeft(LAMBDA p, k : PAdd(p, Value(h, k)),
                                       PZero, node.kids)

-----------------------------------------------------------------------------
(***************************************************************************)
(* The operators of expr_operator.hpp                                      *)
(***************************************************************************)
\* a product with the factors of r, of the class of "empty"
Copy(h, r, empty) == New(h, [h[r] EXCEPT !.type = empty.type])

TimesBackwards(h, left, right, empty) ==   \* mutation: appended to the right one
  IF IsProduct(h, right) THEN TimesFactor(Copy(h, right, empty), left)
  ELSE FoldLeft(TimesFactor, New(h, empty), <<left, right>>)

\* left * right and left ^ right: a copy of the one that is a product, the
\* left one first, with the other one appended or prepended
Times(h, left, right, empty) ==
  LET Before(x) == [h |-> PrependFactor(x.h, x.r, left), r |-> x.r]
  IN CASE IsProduct(h, left) -> TimesFactor(Copy(h, left, empty), right)
       [] ~IsProduct(h, left) /\ IsProduct(h, right) -> Before(Copy(h, right, empty))
       [] OTHER -> FoldLeft(TimesFactor, New(h, empty), <<left, right>>)

Plus(h, left, right) ==
  LET Before(x) == [h |-> PrependSummand(x.h, x.r, left), r |-> x.r]
  IN CASE IsSum(h, left) -> PlusSummand(New(h, h[left]), right)
       [] ~IsSum(h, left) /\ IsSum(h, right) -> Before(New(h, h[right]))
       [] OTHER -> MakeSum(h, <<left, right>>)

\* -right, as operator- makes it
Negative(h, right) ==
  IF IsConstant(h, right) THEN New(h, Constant(CMul(MinusOne, h[right].c)))
                          ELSE MakeProduct(h, MinusOne, <<right>>)

Minus(h, left, right) ==
  LET Add(neg) == IF IsSum(h, left) THEN PlusSummand(New(neg.h, h[left]), neg.r)
                    ELSE MakeSum(neg.h, <<left, neg.r>>)
  IN Add(Negative(h, right))

\* canonicalize(ExprPtr&) and simplify(ExprPtr&)
TimesConstant(x, c) ==
  LET OnLeft(by) == Times(by.h, by.r, x.r, Product(One))
  IN IF c = One THEN [h |-> x.h, r |-> x.r] ELSE OnLeft(New(x.h, Constant(c)))

CanonicalizePtr(x) ==
  LET Byproduct(y) == TimesConstant([h |-> y.h, r |-> x.r], y.by)
  IN Byproduct(Canonicalize(x.h, x.r, FALSE))

Simplify(x) == RapidSimplify(CanonicalizePtr(RapidSimplify(Expand(x))))

-----------------------------------------------------------------------------
(***************************************************************************)
(* The calls.  A member function is called on an expression of its class.  *)
(***************************************************************************)
\* the outcome of an operation on the expressions a and b
Binary(op, h, a, b) ==
  CASE op = "times" -> Times(h, a, b, Product(One))
    [] op = "power" -> Times(h, a, b, NCProduct)
    [] op = "plus"  -> Plus(h, a, b)
    [] op = "minus" -> Minus(h, a, b)
    [] op = "times_by" -> [h |-> AppendFactor(h, a, b), r |-> a]
    [] op = "append_nested" -> [h |-> AddFactor(h, a, b), r |-> a]
    [] op = "prepend" -> [h |-> PrependFactor(h, a, b), r |-> a]
    [] op = "add_to"  -> [h |-> AppendSummand(h, a, b), r |-> a]
    [] op = "prepend_summand" -> [h |-> PrependSummand(h, a, b), r |-> a]
    [] op = "subtract_from" ->
         LET Add(neg) == PlusSummand([h |-> neg.h, r |-> a], neg.r) IN Add(Negative(h, b))

Unary(op, x) ==
  CASE op = "canonicalize"   -> CanonicalizePtr(x)
    [] op = "expand"         -> Expand(x)
    [] op = "rapid_simplify" -> RapidSimplify(x)
    [] op = "simplify"       -> Simplify(x)
    [] op = "adjoint"        -> AdjointInPlace(x)

OfProduct == {"times_by", "append_nested", "prepend"}
OfSum     == {"add_to", "prepend_summand", "subtract_from"}

Ready(c) ==
  /\ calls < MaxCalls /\ ~Failed(heap)
  /\ calls' = calls + 1 /\ call' = c

\* variable n is made to point to x, and nodes without owners are freed
Assigned(n, x, v) ==
  /\ heap' = Free(x.h, [v EXCEPT ![n] = x.r])
  /\ var'  = [v EXCEPT ![n] = x.r]

Operate(c) ==
  /\ c.op \in OfProduct \cup OfSum \cup {"times", "power", "plus", "minus"}
  /\ var[c.a] # Null /\ var[c.b] # Null /\ c.a # c.b
  /\ c.op \in OfProduct => IsProduct(heap, var[c.a])
  /\ c.op \in OfSum     => IsSum(heap, var[c.a])
  /\ Assigned(c.a, Binary(c.op, heap, var[c.a], var[c.b]),
              IF Consumes THEN [var EXCEPT ![c.b] = Null] ELSE var)

Rearrange(c) ==
  /\ c.op \in {"canonicalize", "expand", "rapid_simplify", "simplify", "adjoint"}
  /\ var[c.a] # Null
  /\ c.op = "canonicalize" => SortsSums \/ \A r \in Below(heap, var[c.a]) :
       IsProduct(heap, r) => AllTensors(heap, heap[r].kids)
  /\ Assigned(c.a, Unary(c.op, [h |-> heap, r |-> var[c.a]]), var)

CloneInto(c) ==
  /\ c.op = "clone" /\ var[c.b] # Null /\ c.a # c.b
  /\ Assigned(c.a, Clone(heap, var[c.b]), var)

Next == \E c \in Calls : /\ Ready(c) /\ Promise!Do(c)
                         /\ Operate(c) \/ Rearrange(c) \/ CloneInto(c)

ValueOf(h, v) == [n \in Names |-> IF v[n] = Null THEN PZero ELSE Value(h, v[n])]

Init ==
  /\ \E s \in Start : heap = s.heap /\ var = s.var
  /\ value = ValueOf(heap, var)
  /\ call = NoCall /\ calls = 0

Spec == Init /\ [][Next]_vars

-----------------------------------------------------------------------------
(***************************************************************************)
(* Properties                                                              *)
(***************************************************************************)
\* Whatever the expressions are made of and however they are rearranged, the
\* calls compute what the algebra says: products keep the order of their
\* operators, signs and scalars are neither lost nor applied twice, and the
\* program's other expressions keep their values (a call that fails an
\* assertion computes nothing).
ComputesTheAlgebra == Failed(heap) \/ ValueOf(heap, var) = value

\* A program that gives its operands away keeps trees: no node ever has two
\* owners, so that no change in place is seen through another expression.
\* expand, which distributes the factors of a product over many terms, has to
\* clone them, and may use the summands of the sum it expands once only.
Owners(r) ==
  {n \in Names : var[n] = r} \cup
  UNION {{<<p, i>> : i \in {k \in DOMAIN heap[p].kids : heap[p].kids[k] = r}} :
           p \in DOMAIN heap}

TreesStayTrees ==
  Consumes => \A r \in DOMAIN heap \ {Null} : Cardinality(Owners(r)) = 1

\* simplify() leaves a sum of distinct products of leaves: no sum is left in a
\* product, no like terms, no trivial factors, and at most one number.
IsTerm(r) ==
  \/ IsProduct(heap, r) /\ heap[r].c # Zero /\ AllTensors(heap, heap[r].kids)
     /\ heap[r].kids # <<>> /\ (Len(heap[r].kids) = 1 => heap[r].c # One)
  \/ IsTensor(heap, r) /\ ~heap[r].leaf.odd
  \/ IsOperator(heap, r) \/ IsConstant(heap, r)

IsNormal(r) ==
  LET kids == heap[r].kids
  IN IF ~IsSum(heap, r) THEN IsTerm(r)
     ELSE /\ Len(kids) > 1
          /\ \A i \in DOMAIN kids : IsTerm(kids[i])
          /\ \A i, j \in DOMAIN kids : i # j =>
               /\ IsProduct(heap, kids[i]) => Key(heap, kids[i]) # Key(heap, kids[j])
               /\ ~(IsConstant(heap, kids[i]) /\ IsConstant(heap, kids[j]))

SimplifiedIsNormal ==
  call.op = "simplify" /\ ~Failed(heap) => IsNormal(var[call.a])
=============================================================================
