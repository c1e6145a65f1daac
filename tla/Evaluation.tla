----------------------------- MODULE Evaluation -----------------------------
(***************************************************************************)
(* The life of an evaluation tree: it is constructed, labels of its leaves *)
(* are exchanged, its operations are counted, and it is evaluated again    *)
(* and again while the arrays of the amplitudes change, with arrays from a *)
(* context that is keyed by the hashes of leaves, or made for each leaf.   *)
(*                                                                         *)
(* The left operand of a node is evaluated before the right one; nothing   *)
(* depends on it.                                                          *)
(***************************************************************************)
EXTENDS EvalTree, TLC

CONSTANTS
  Start,       \* the expressions, and whether the bra and ket of leaves may
               \* be exchanged to bring them into a canonical order
  Contexts,    \* the contexts, one after the other
  MaxSwaps     \* bound: the number of calls of swap_labels

ASSUME StartAssumption == Start \subseteq [expr : Exprs[Depth], canonize : BOOLEAN]

VARIABLES
  expr, canonize,
  nodes,       \* the tree
  pc,          \* "new", "ready", evaluating from a "context", to "make", or "failed"
  context,     \* the number of the context
  swaps,       \* how often labels were exchanged
  values,      \* the arrays of the nodes evaluated so far
  result,      \* the array of the last evaluation, if the context is still the same
  work,        \* the number of terms the contractions of an evaluation added up
  ops          \* the operations counted, -1 before

vars == <<expr, canonize, nodes, pc, context, swaps, values, result, work, ops>>

-----------------------------------------------------------------------------
(***************************************************************************)
(* What an expression means: sums over the values of the contracted        *)
(* indices, and over the permutations of the indices that A and S name.    *)
(***************************************************************************)
ArrayOf(t) == LeafHash(t, FALSE)

\* tensors are real: bra and ket may be exchanged
TensorValue(t, v) ==
  IF ArrayOf(t) \in DOMAIN Contexts[context]
  THEN At(Contexts[context][ArrayOf(t)], LeafIndices(t, FALSE), v)
  ELSE At(Contexts[context][LeafHash(t, TRUE)], LeafIndices(t, TRUE), v)

Free[d \in 0..Depth] ==
  [e \in Exprs[d] |->
     CASE e.kind = "tensor" -> ToSet(e.bra \o e.ket)
       [] e.kind = "sum" \/ (e.kind = "product" /\ IsOperator(e.parts[1])) -> Free[d - 1][e.parts[1]]
       [] e.kind = "product" /\ ~IsOperator(e.parts[1]) ->
            LET free == [k \in DOMAIN e.parts |-> Free[d - 1][e.parts[k]]]
            IN {i \in UNION ToSet(free) : Cardinality({k \in DOMAIN free : i \in free[k]}) = 1}]

Orders(n) == {p \in [1..n -> 1..n] : IsInjective(p)}

Parity(p) ==
  IF Cardinality({x \in (DOMAIN p) \X (DOMAIN p) : x[1] < x[2] /\ p[x[2]] < p[x[1]]}) % 2 = 0
  THEN 1 ELSE -1

PermutedValues(v, t, p, q) ==
  [i \in DOMAIN v |->
     CASE i \in ToSet(t.bra) -> v[t.bra[p[SelectInSeq(t.bra, LAMBDA j : j = i)]]]
       [] i \in ToSet(t.ket) -> v[t.ket[q[SelectInSeq(t.ket, LAMBDA j : j = i)]]]]

Exact[d \in 0..Depth] ==
  [e \in Exprs[d] |-> [v \in [Free[d][e] -> Values] |->
     LET value(f, w) == Exact[d - 1][f][[i \in Free[d - 1][f] |-> w[i]]]
         product(factors, w) ==
           LET bound == UNION {Free[d - 1][f] : f \in ToSet(factors)} \ DOMAIN w
           IN Total([bound -> Values],
                    LAMBDA y : FoldLeft(LAMBDA x, f : x * value(f, w @@ y), e.c, factors))
         pairs(t) == IF t.label = "A" THEN Orders(Len(t.bra)) \X Orders(Len(t.ket))
                     ELSE {<<p, p>> : p \in Orders(Len(t.bra))}
     IN CASE e.kind = "tensor" -> TensorValue(e, v)
          [] e.kind = "sum"    -> FoldLeft(LAMBDA x, s : x + value(s, v), 0, e.parts)
          [] e.kind = "product" /\ ~IsOperator(e.parts[1]) -> product(e.parts, v)
          [] e.kind = "product" /\ IsOperator(e.parts[1]) ->
               LET t == e.parts[1]
               IN Total(pairs(t), LAMBDA pq :
                    (IF t.label = "A" THEN Parity(pq[1]) * Parity(pq[2]) ELSE 1)
                      * product(Tail(e.parts), PermutedValues(v, t, pq[1], pq[2])))]]

-----------------------------------------------------------------------------
None == [x \in {} |-> 0]

Init ==
  /\ \E s \in Start : expr = s.expr /\ canonize = s.canonize
  /\ nodes = <<>> /\ pc = "new" /\ context = 1 /\ swaps = 0
  /\ values = None /\ result = None /\ work = 0 /\ ops = -1

Root == Len(nodes)

Construct ==
  /\ pc = "new"
  /\ nodes' = BuildExpr(expr, canonize)
  /\ pc' = IF Mismatched(nodes') THEN "failed" ELSE "ready"
  /\ UNCHANGED <<expr, canonize, context, swaps, values, result, work, ops>>

SwapLabelsOf ==
  /\ pc = "ready" /\ swaps < MaxSwaps
  /\ \E n \in {m \in DOMAIN nodes : nodes[m].op = "leaf"} :
       nodes' = SwapLabels(nodes, nodes[n].tensor)
  /\ swaps' = swaps + 1
  /\ UNCHANGED <<expr, canonize, pc, context, values, result, work, ops>>

CountOperations ==
  /\ pc = "ready"
  /\ ops' = OpsCount(nodes)
  /\ UNCHANGED <<expr, canonize, nodes, pc, context, swaps, values, result, work>>

\* the arrays that are made have the indices of the tensor in their order, so
\* no leaf may have its labels exchanged
StartEvaluation ==
  /\ pc = "ready"
  /\ \/ pc' = "context"
     \/ pc' = "make" /\ \A n \in DOMAIN nodes : nodes[n].op = "leaf" => ~nodes[n].swapped
  /\ values' = None /\ result' = None /\ work' = 0
  /\ UNCHANGED <<expr, canonize, nodes, context, swaps, ops>>

\* the array of node n is there
Evaluated(n, array) ==
  /\ values' = [m \in DOMAIN values \cup {n} |-> IF m = n THEN array ELSE values[m]]
  /\ UNCHANGED <<expr, canonize, nodes, pc, context, swaps, result, ops>>

Fails ==
  /\ pc' = "failed" /\ values' = None
  /\ UNCHANGED <<expr, canonize, nodes, context, swaps, result, work, ops>>

Evaluating == pc \in {"context", "make"}

\* the operators on the left of their nodes are not evaluated
Awaited(n) == n \notin DOMAIN values /\ (nodes[n].op = "leaf" => ~IsOperator(nodes[n].tensor))

EvaluateLeaf(n) ==
  /\ nodes[n].op = "leaf"
  /\ \/ /\ pc = "context" /\ nodes[n].hash \in DOMAIN Contexts[context]
        /\ Evaluated(n, Contexts[context][nodes[n].hash])
     \/ /\ pc = "make" /\ ArrayOf(nodes[n].tensor) \in DOMAIN Contexts[context]
        /\ Evaluated(n, Contexts[context][ArrayOf(nodes[n].tensor)])
  /\ UNCHANGED work

MissingLeaf(n) ==
  /\ nodes[n].op = "leaf" /\ pc = "context"
  /\ nodes[n].hash \notin DOMAIN Contexts[context]
  /\ Fails

Operands(n, S) == nodes[n].op \in S /\ {nodes[n].left, nodes[n].right} \subseteq DOMAIN values

EvaluateSum(n) ==
  /\ Operands(n, {"sum"})
  /\ Evaluated(n, SumArray(nodes[n], nodes[nodes[n].left], nodes[nodes[n].right],
                           values[nodes[n].left], values[nodes[n].right]))
  /\ UNCHANGED work

EvaluateProduct(n) ==
  /\ Operands(n, {"product"}) /\ nodes[n].indices # <<>>
  /\ Evaluated(n, ProductArray(nodes[n], nodes[nodes[n].left], nodes[nodes[n].right],
                               values[nodes[n].left], values[nodes[n].right]))
  /\ work' = work + Cardinality(Tuples(Len(nodes[n].indices)))
                      * Cardinality([ToSet(nodes[nodes[n].left].indices)
                                       \cap ToSet(nodes[nodes[n].right].indices) -> Values])

\* the annotation of a number cannot be written
NumberAnnotated(n) ==
  /\ nodes[n].op \in {"sum", "product"} /\ nodes[n].indices = <<>>
  /\ Fails

RightOf(n, op) == nodes[n].op = op /\ nodes[n].right \in DOMAIN values

EvaluateAntisymmetrized(n) ==
  /\ RightOf(n, "antisymmetrize")
  /\ LET rank == Len(nodes[n].indices)
     IN Evaluated(n, Antisymmetrize(values[nodes[n].right], rank \div 2, rank - rank \div 2,
                                    nodes[nodes[n].right].scalar))
  /\ UNCHANGED work

EvaluateSymmetrized(n) ==
  /\ RightOf(n, "symmetrize") /\ Len(nodes[n].indices) % 2 = 0
  /\ Evaluated(n, Symmetrize(values[nodes[n].right], Len(nodes[n].indices) \div 2,
                             nodes[nodes[n].right].scalar))
  /\ UNCHANGED work

OddSymmetrized(n) ==
  /\ nodes[n].op = "symmetrize" /\ Len(nodes[n].indices) % 2 = 1
  /\ Fails

EvaluateNode ==
  /\ Evaluating
  /\ \E n \in {m \in DOMAIN nodes : Awaited(m) /\ \A k \in 1..m - 1 : ~Awaited(k)} :
       \/ EvaluateLeaf(n) \/ MissingLeaf(n)
       \/ EvaluateSum(n) \/ EvaluateProduct(n) \/ NumberAnnotated(n)
       \/ EvaluateAntisymmetrized(n) \/ EvaluateSymmetrized(n) \/ OddSymmetrized(n)

Finish ==
  /\ Evaluating /\ Root \in DOMAIN values
  /\ pc' = "ready" /\ result' = values[Root] /\ values' = None
  /\ UNCHANGED <<expr, canonize, nodes, context, swaps, work, ops>>

\* a step of the iteration for the amplitudes
UpdateAmplitudes ==
  /\ pc = "ready" /\ result # None /\ context < Len(Contexts)
  /\ context' = context + 1 /\ result' = None
  /\ UNCHANGED <<expr, canonize, nodes, pc, swaps, values, work, ops>>

Next ==
  \/ Construct \/ SwapLabelsOf \/ CountOperations
  \/ StartEvaluation \/ EvaluateNode \/ Finish
  \/ UpdateAmplitudes

Spec == Init /\ [][Next]_vars

-----------------------------------------------------------------------------
(***************************************************************************)
(* Properties                                                              *)
(***************************************************************************)
\* The array an evaluation gives has the value of the expression for all values
\* of its indices: factors are bound in the order they have, sums add elements
\* of the same indices whatever their order in the operands, scalars count
\* once, the operators permute the indices they name, and an exchange of labels
\* changes nothing.
EvaluationIsExact ==
  result # None =>
    \A x \in Tuples(Len(nodes[Root].indices)) :
      result[x] = Exact[Depth][expr][Named(nodes[Root].indices, x)]

\* The hash of each node is that of its operands as they are now, whatever
\* labels were exchanged.
HashIsCurrent ==
  \A n \in DOMAIN nodes : nodes[n].op # "leaf" =>
    nodes[n].hash = NodeHash(nodes[n].op, nodes[n].indices,
                             nodes[nodes[n].left], nodes[nodes[n].right])

\* The operations counted are the terms an evaluation adds up.
CountIsWork == result # None /\ ops # -1 => work = ops
=============================================================================
