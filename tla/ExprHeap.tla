------------------------------ MODULE ExprHeap ------------------------------
(***************************************************************************)
(* Expression trees as the program holds them: nodes on a heap, reached    *)
(* through shared pointers.  A node may be owned by several others, and a  *)
(* member function that changes a node changes it for all of its owners.   *)
(*                                                                         *)
(* A heap is a function from references to nodes.  Operators that create   *)
(* or change nodes return the new heap; those that return a pointer too    *)
(* return an expression: a record of the heap "h" and the reference "r".   *)
(* Reference 0 is the null pointer; a heap that holds it is one where an   *)
(* assertion of the program failed, or a loop of it never ends.            *)
(*                                                                         *)
(* Leaves are numbered: the numbers stand for labels and indices, and give *)
(* the order of the tensors.  A tensor is "odd" while its antisymmetric    *)
(* indices are out of order.  Numbers are complex, pairs of integers.      *)
(***************************************************************************)
EXTENDS Integers, SequencesExt, TLC

CONSTANTS
  Contract   \* the pairs of operators <<l, r>> with an index of l that can
             \* be contracted with one of r, in this order

Null == 0

CAdd(c, d) == <<c[1] + d[1], c[2] + d[2]>>
CMul(c, d) == <<c[1] * d[1] - c[2] * d[2], c[1] * d[2] + c[2] * d[1]>>
Conj(c)    == <<c[1], -c[2]>>
Zero       == <<0, 0>>
One        == <<1, 0>>
MinusOne   == <<-1, 0>>

NoLeaf == [name |-> 0, dag |-> FALSE, odd |-> FALSE]

Node(type, c) == [type |-> type, c |-> c, kids |-> <<>>, idx |-> 0,
                  leaf |-> NoLeaf]

Constant(c) == Node("Constant", c)
Product(c)  == Node("Product", c)
NCProduct   == Node("NCProduct", One)
Sum         == Node("Sum", One)
Leaf(type, name, odd) ==
  [Node(type, One) EXCEPT !.leaf = [name |-> name, dag |-> FALSE, odd |-> odd]]

Fresh(h) == Min((1..Cardinality(DOMAIN h) + 1) \ DOMAIN h)

New(h, node) == LET r == Fresh(h) IN [h |-> h @@ (r :> node), r |-> r]

Failed(h) == Null \in DOMAIN h
Fail(h)   == h @@ (Null :> Constant(Zero))

IsProduct(h, r)  == h[r].type \in {"Product", "NCProduct"}
IsSum(h, r)      == h[r].type = "Sum"
IsConstant(h, r) == h[r].type = "Constant"
IsTensor(h, r)   == h[r].type = "Tensor"
IsOperator(h, r) == h[r].type = "Operator"
IsAtom(h, r)     == h[r].kids = <<>>

-----------------------------------------------------------------------------
(***************************************************************************)
(* The member functions that build products and sums.                      *)
(***************************************************************************)
Scale(h, p, c) == [h EXCEPT ![p].c = CMul(@, c)]

\* Product::append(ExprPtr), without flattening
AddFactor(h, p, f) ==
  IF IsConstant(h, f) THEN Scale(h, p, h[f].c)
                      ELSE [h EXCEPT ![p].kids = Append(@, f)]

\* Product::append(1, f)
RECURSIVE AppendFactor(_, _, _)
AppendFactor(h, p, f) ==
  IF IsProduct(h, f)
  THEN FoldLeft(LAMBDA g, k : AppendFactor(g, p, k),
                Scale(h, p, h[f].c), h[f].kids)
  ELSE AddFactor(h, p, f)

\* Product::prepend(1, f): the factors of a product are prepended one by one
RECURSIVE PrependFactor(_, _, _)
PrependFactor(h, p, f) ==
  CASE IsProduct(h, f)  -> FoldLeft(LAMBDA g, k : PrependFactor(g, p, k),
                                    Scale(h, p, h[f].c), h[f].kids)
    [] IsConstant(h, f) -> Scale(h, p, h[f].c)
    [] OTHER            -> [h EXCEPT ![p].kids = <<f>> \o @]

\* the summand that constant_summand_idx_ points to is no Constant
IsStale(h, s) ==
  LET i == h[s].idx
  IN i # 0 /\ ~(i <= Len(h[s].kids) /\ IsConstant(h, h[s].kids[i]))

\* *summands_[*constant_summand_idx_] += *f, in place
AddConstant(h, s, f) ==
  IF IsStale(h, s) THEN Fail(h)
  ELSE [h EXCEPT ![h[s].kids[h[s].idx]].c = CAdd(@, h[f].c)]

\* Sum::append
RECURSIVE AppendSummand(_, _, _)
AppendSummand(h, s, f) ==
  CASE IsSum(h, f) -> FoldLeft(LAMBDA g, k : AppendSummand(g, s, k), h, h[f].kids)
    [] IsConstant(h, f) /\ h[s].idx # 0 -> AddConstant(h, s, f)
    [] IsConstant(h, f) /\ h[s].idx = 0 /\ h[f].c = Zero -> h
    [] IsConstant(h, f) /\ h[s].idx = 0 /\ h[f].c # Zero ->
         [h EXCEPT ![s].kids = Append(@, f), ![s].idx = Len(h[s].kids) + 1]
    [] OTHER -> [h EXCEPT ![s].kids = Append(@, f)]

\* Sum::prepend
RECURSIVE PrependSummand(_, _, _)
PrependSummand(h, s, f) ==
  CASE IsSum(h, f) -> FoldLeft(LAMBDA g, k : PrependSummand(g, s, k), h, h[f].kids)
    [] IsConstant(h, f) /\ h[s].idx # 0 -> AddConstant(h, s, f)
    [] IsConstant(h, f) /\ h[s].idx = 0 /\ h[f].c = Zero -> h
    [] IsConstant(h, f) /\ h[s].idx = 0 /\ h[f].c # Zero ->
         [h EXCEPT ![s].kids = <<f>> \o @, ![s].idx = 1]
    [] OTHER -> [h EXCEPT ![s].kids = <<f>> \o @,
                          ![s].idx = IF @ = 0 THEN 0 ELSE @ + 1]

\* ex<Product>(c, factors) and ex<Sum>(summands)
TimesFactor(x, f) == [h |-> AppendFactor(x.h, x.r, f), r |-> x.r]
PlusSummand(x, f) == [h |-> AppendSummand(x.h, x.r, f), r |-> x.r]

MakeProduct(h, c, factors) == FoldLeft(TimesFactor, New(h, Product(c)), factors)
MakeSum(h, summands)       == FoldLeft(PlusSummand, New(h, Sum), summands)

-----------------------------------------------------------------------------
(***************************************************************************)
(* clone() and adjoint()                                                   *)
(***************************************************************************)
\* the copies of a sequence of expressions: a heap "h" and the sequence "s"
Also(copies, x) == [h |-> x.h, s |-> Append(copies.s, x.r)]
None(h)         == [h |-> h, s |-> <<>>]

ProductOf(copies, c) == MakeProduct(copies.h, c, copies.s)
SumOf(copies)        == MakeSum(copies.h, copies.s)

\* clones of a sequence of expressions; null pointers stay null
RECURSIVE Clone(_, _)
CloneAll(h, seq) ==
  FoldLeft(LAMBDA a, f : IF f = Null THEN [a EXCEPT !.s = Append(@, Null)]
                                     ELSE Also(a, Clone(a.h, f)),
           None(h), seq)

Clone(h, r) ==
  CASE IsProduct(h, r) -> ProductOf(CloneAll(h, h[r].kids), h[r].c)
    [] IsSum(h, r)     -> SumOf(CloneAll(h, h[r].kids))
    [] OTHER           -> New(h, h[r])

\* adjoint() of a node, in place; the factors and summands become adjoint
\* clones, and those of a product are reversed
RECURSIVE AdjointInPlace(_)
Adjoint(h, r) == AdjointInPlace(Clone(h, r))

AdjointAll(h, seq) ==
  FoldLeft(LAMBDA a, f : Also(a, Adjoint(a.h, f)), None(h), seq)

Reversed(copies) == [copies EXCEPT !.s = Reverse(@)]

\* *this = made, which keeps its class
Assign(made, r, type) ==
  [h |-> [made.h EXCEPT ![r] = [made.h[made.r] EXCEPT !.type = type]], r |-> r]

AdjointInPlace(x) ==
  LET node == x.h[x.r]
  IN CASE IsProduct(x.h, x.r) ->
            Assign(ProductOf(Reversed(AdjointAll(x.h, node.kids)), Conj(node.c)),
                   x.r, node.type)
       [] IsSum(x.h, x.r) -> Assign(SumOf(AdjointAll(x.h, node.kids)), x.r, "Sum")
       [] IsConstant(x.h, x.r) -> [x EXCEPT !.h = [@ EXCEPT ![x.r].c = Conj(@)]]
       [] OTHER -> [x EXCEPT !.h = [@ EXCEPT ![x.r].leaf.dag = ~@]]

-----------------------------------------------------------------------------
(***************************************************************************)
(* Commutativity, and the order of expressions                             *)
(***************************************************************************)
RECURSIVE IsCNumber(_, _)
IsCNumber(h, r) ==
  IF IsAtom(h, r) THEN ~IsOperator(h, r)
                  ELSE \A k \in ToSet(h[r].kids) : IsCNumber(h, k)

\* NormalOperator::commutes_with_atom looks for a contraction of a with b,
\* and not for one of b with a
Contracts(h, a, b) == <<h[a].leaf.name, h[b].leaf.name>> \in Contract

RECURSIVE CommutesWith(_, _, _)
CommutesWith(h, a, b) ==
  IF ~IsAtom(h, a)
  THEN \A k \in ToSet(h[a].kids) : CommutesWith(h, k, b)
  ELSE \/ IsCNumber(h, a)
       \/ IF IsAtom(h, b)
          THEN IsCNumber(h, b) \/ ~Contracts(h, a, b)
          ELSE \A k \in ToSet(h[b].kids) : CommutesWith(h, a, k)

\* the type identifiers, in one of the orders their use can give them
TypeId(h, r) ==
  CASE IsConstant(h, r) -> 1 [] IsTensor(h, r) -> 2 [] IsProduct(h, r) -> 3
    [] IsSum(h, r) -> 4 [] IsOperator(h, r) -> 5

(***************************************************************************)
(* What hash_value() and the order of tensors depend on: the whole tree,   *)
(* but not the scalar of a product.                                        *)
(***************************************************************************)
RECURSIVE Key(_, _)
Key(h, r) ==
  <<TypeId(h, r)>> \o
  CASE IsConstant(h, r) -> h[r].c
    [] IsTensor(h, r) \/ IsOperator(h, r) ->
         <<h[r].leaf.name, IF h[r].leaf.dag THEN 1 ELSE 0,
                           IF h[r].leaf.odd THEN 1 ELSE 0>>
    [] OTHER -> FlattenSeq([i \in DOMAIN h[r].kids |-> Key(h, h[r].kids[i])])
                \o <<0>>

SeqLess(s, t) ==
  \/ IsStrictPrefix(s, t)
  \/ \E i \in 1..Min({Len(s), Len(t)}) :
        s[i] < t[i] /\ \A j \in 1..i - 1 : s[j] = t[j]

Less(h, a, b) == SeqLess(Key(h, a), Key(h, b))
=============================================================================
