------------------------------ MODULE EvalTree ------------------------------
(***************************************************************************)
(* Binary evaluation trees: how they are built from an expression, their   *)
(* hashes, the exchange of the bra and ket labels of leaves, the count of  *)
(* operations, and what each kind of node computes from its operands.      *)
(*                                                                         *)
(* An expression is a tensor, a sum of expressions, or a product of them   *)
(* with a scalar.  A tree is the sequence of its nodes, operands before    *)
(* their node; the last one is the root.  An array is a function from the  *)
(* values of its indices, in their order, to numbers.                      *)
(***************************************************************************)
EXTENDS Integers, SequencesExt

CONSTANTS
  Values,   \* the values of an index
  Depth     \* how deep sums and products are nested

ASSUME ValuesAssumption == IsFiniteSet(Values)

ASSUME DepthAssumption == Depth \in Nat

-----------------------------------------------------------------------------
Index(space, n) == [space |-> space, n |-> n]

Indices == [space : {"occ", "unocc"}, n : Nat]

Less(i, j) ==
  \/ i.space = "occ" /\ j.space = "unocc"
  \/ i.space = j.space /\ i.n < j.n

Tensor(label, bra, ket) == [kind |-> "tensor", label |-> label, bra |-> bra, ket |-> ket]
Sum(s)                  == [kind |-> "sum", parts |-> s]
Product(c, f)           == [kind |-> "product", c |-> c, parts |-> f]

IsOperator(e) == e.kind = "tensor" /\ e.label \in {"A", "S"}

\* the indices of a tensor differ
Tensors ==
  {t \in [kind : {"tensor"}, label : STRING, bra : Seq(Indices), ket : Seq(Indices)] :
     IsInjective(t.bra \o t.ket)}

Parts(S) == Seq(S) \ {<<>>}

\* a product does not consist of operators
Exprs[d \in 0..Depth] ==
  Tensors \cup
    IF d = 0 THEN {}
    ELSE [kind : {"sum"}, parts : Parts(Exprs[d - 1])] \cup
         {e \in [kind : {"product"}, c : Int, parts : Parts(Exprs[d - 1])] :
            \E k \in DOMAIN e.parts : ~IsOperator(e.parts[k])}

-----------------------------------------------------------------------------
(***************************************************************************)
(* Nodes.  The numbers hashed for a product are the positions that are     *)
(* passed before an index of the result is found among those of a child.   *)
(***************************************************************************)
SpacesOf(indices) == [k \in DOMAIN indices |-> indices[k].space]

LeafIndices(t, swapped) == IF swapped THEN t.ket \o t.bra ELSE t.bra \o t.ket

LeafHash(t, swapped) == <<"leaf", t.label, SpacesOf(LeafIndices(t, swapped))>>

\* whether the space of the ket index is less where they first differ
CanonizeSwap(t) ==
  \E k \in DOMAIN t.bra \cap DOMAIN t.ket :
    /\ t.bra[k].space = "unocc" /\ t.ket[k].space = "occ"
    /\ \A j \in 1..k - 1 : t.bra[j].space = t.ket[j].space

Leaf(t, canonize) ==
  LET swapped == canonize /\ CanonizeSwap(t)
  IN [op |-> "leaf", left |-> 0, right |-> 0, scalar |-> 1, tensor |-> t, swapped |-> swapped,
      indices |-> LeafIndices(t, swapped), hash |-> LeafHash(t, swapped)]

Passed(indices, child) ==
  FlattenSeq([k \in DOMAIN indices |->
    LET found == SelectInSeq(child, LAMBDA i : i = indices[k])
    IN [p \in 1..(IF found = 0 THEN Len(child) ELSE found - 1) |-> p - 1]])

\* some order of the hash values
Before(h, k) == h # k /\ h = CHOOSE x \in {h, k} : TRUE

NodeHash(op, indices, left, right) ==
  CASE op \in {"antisymmetrize", "symmetrize"} -> <<op, left.hash>>
    [] op = "sum" -> <<op, {left.hash, right.hash}, left.hash = right.hash>>
    [] op = "product" /\ Before(left.hash, right.hash) ->
         <<op, left.hash, right.hash, Passed(indices, left.indices) \o Passed(indices, right.indices)>>
    [] op = "product" /\ ~Before(left.hash, right.hash) ->
         <<op, right.hash, left.hash, Passed(indices, right.indices) \o Passed(indices, left.indices)>>

\* a set of indices in its order
Sorted(S) == [k \in 1..Cardinality(S) |-> CHOOSE i \in S : Cardinality({j \in S : Less(j, i)}) = k - 1]

NodeIndices(op, left, right) ==
  LET l == ToSet(left.indices)
      r == ToSet(right.indices)
  IN CASE op = "sum" /\ left.op # "leaf" -> left.indices
       [] op = "sum" /\ left.op = "leaf" /\ right.op # "leaf" -> right.indices
       [] op = "sum" /\ left.op = "leaf" /\ right.op = "leaf" -> Sorted(l)
       [] op = "product" -> Sorted((l \ r) \cup (r \ l))
       [] op \in {"antisymmetrize", "symmetrize"} -> Sorted(l)

Internal(nodes, op, l, r) ==
  LET indices == NodeIndices(op, nodes[l], nodes[r])
  IN [op |-> op, left |-> l, right |-> r, scalar |-> 1, indices |-> indices,
      hash |-> NodeHash(op, indices, nodes[l], nodes[r])]

-----------------------------------------------------------------------------
(***************************************************************************)
(* Construction.  The scalar of a product is that of the node of its first *)
(* factor, in the place of one it has; behind A or S the scalar is that of *)
(* the product that follows.                                               *)
(***************************************************************************)
Moved(node, k) ==
  IF node.op = "leaf" THEN node ELSE [node EXCEPT !.left = @ + k, !.right = @ + k]

Joined(op, l, r) ==   \* the trees l and r below a new root
  LET both == l \o [n \in DOMAIN r |-> Moved(r[n], Len(l))]
  IN Append(both, Internal(both, op, Len(l), Len(both)))

Chain(op, trees) ==
  LET joined[k \in DOMAIN trees] ==
        IF k = 1 THEN trees[1] ELSE Joined(op, joined[k - 1], trees[k])
  IN joined[Len(trees)]

Scaled(nodes, c) == [nodes EXCEPT ![Len(nodes)].scalar = c]

\* from the trees of the factors
BuildProduct(e, trees) ==
  LET from[k \in DOMAIN trees] ==
        IF IsOperator(e.parts[k]) /\ k < Len(trees)
        THEN Joined(IF e.parts[k].label = "A" THEN "antisymmetrize" ELSE "symmetrize",
                    trees[k], from[k + 1])
        ELSE Chain("product", [SubSeq(trees, k, Len(trees)) EXCEPT ![1] = Scaled(@, e.c)])
  IN from[1]

BuildExpr(e, canonize) ==
  LET tree[d \in 0..Depth] ==
        [x \in Exprs[d] |->
           CASE x.kind = "tensor"  -> <<Leaf(x, canonize)>>
             [] x.kind = "sum"     -> Chain("sum", [k \in DOMAIN x.parts |-> tree[d - 1][x.parts[k]]])
             [] x.kind = "product" -> BuildProduct(x, [k \in DOMAIN x.parts |-> tree[d - 1][x.parts[k]]])]
  IN tree[Depth][e]

\* the exception of the construction of a sum
Mismatched(nodes) ==
  \E n \in DOMAIN nodes : nodes[n].op = "sum" /\
    Len(nodes[nodes[n].left].indices) # Len(nodes[nodes[n].right].indices)

-----------------------------------------------------------------------------
(***************************************************************************)
(* swap_labels: the first leaf of the tensor, left before right, and the   *)
(* hashes of the nodes above it.                                           *)
(***************************************************************************)
SwapLeaf(nodes, n) ==
  LET t == nodes[n].tensor
      swapped == ~nodes[n].swapped
  IN [nodes EXCEPT ![n].swapped = swapped, ![n].indices = LeafIndices(t, swapped),
                   ![n].hash = LeafHash(t, swapped)]

\* mutant: the hashes above the leaf are not updated
UpdateHashNever(nodes, n) == nodes

UpdateHash(nodes, n) ==
  [nodes EXCEPT ![n].hash = NodeHash(nodes[n].op, nodes[n].indices,
                                     nodes[nodes[n].left], nodes[nodes[n].right])]

SwapLabels(nodes, t) ==   \* the same nodes if there is none of t
  LET below[n \in DOMAIN nodes] ==
        IF nodes[n].op = "leaf"
        THEN IF nodes[n].tensor = t THEN SwapLeaf(nodes, n) ELSE nodes
        ELSE LET left  == below[nodes[n].left]
                 right == below[nodes[n].right]
             IN IF left # nodes THEN UpdateHash(left, n)
                ELSE IF right # nodes THEN UpdateHash(right, n) ELSE nodes
  IN below[Len(nodes)]

-----------------------------------------------------------------------------
(***************************************************************************)
(* ops_count                                                               *)
(***************************************************************************)
Power(b, n) ==
  LET p[k \in 0..n] == IF k = 0 THEN 1 ELSE b * p[k - 1]
  IN p[n]

IndicesBelow(nodes, n) ==
  ToSet(nodes[nodes[n].left].indices) \cup ToSet(nodes[nodes[n].right].indices)

\* mutant: the indices of both operands, contracted ones twice
ContractionOpsTwice(nodes, n) ==
  Power(Cardinality(Values), Len(nodes[nodes[n].left].indices) + Len(nodes[nodes[n].right].indices))

ContractionOps(nodes, n) == Power(Cardinality(Values), Cardinality(IndicesBelow(nodes, n)))

OpsCount(nodes) ==
  LET count[n \in DOMAIN nodes] ==
        IF nodes[n].op = "leaf" THEN 0
        ELSE (IF nodes[n].op = "product" THEN ContractionOps(nodes, n) ELSE 0)
             + count[nodes[n].left] + count[nodes[n].right]
  IN count[Len(nodes)]

-----------------------------------------------------------------------------
(***************************************************************************)
(* What the nodes compute                                                  *)
(***************************************************************************)
Tuples(n) == [1..n -> Values]

\* the element of an array with these indices where they have the values v
At(array, indices, v) == array[[k \in DOMAIN indices |-> v[indices[k]]]]

Named(indices, x) ==
  [i \in ToSet(indices) |-> x[SelectInSeq(indices, LAMBDA j : j = i)]]

Total(S, F(_)) == FoldSet(LAMBDA x, sum : sum + F(x), 0, S)

SumArray(node, left, right, l, r) ==
  [x \in Tuples(Len(node.indices)) |->
     left.scalar * At(l, left.indices, Named(node.indices, x))
       + right.scalar * At(r, right.indices, Named(node.indices, x))]

ProductArray(node, left, right, l, r) ==
  LET contracted == ToSet(left.indices) \cap ToSet(right.indices)
      Element(x, y) ==
        LET v == [i \in ToSet(node.indices) \cup contracted |->
                    IF i \in contracted THEN y[i] ELSE Named(node.indices, x)[i]]
        IN left.scalar * At(l, left.indices, v) * right.scalar * At(r, right.indices, v)
  IN [x \in Tuples(Len(node.indices)) |->
        Total([contracted -> Values], LAMBDA y : Element(x, y))]

Exchanged(s, i, j) == [k \in DOMAIN s |-> s[CASE k = i -> j [] k = j -> i [] OTHER -> k]]

\* mutant: an element swapped with itself counts
PhasePermCounting(n) ==
  LET from[begin \in 1..n, ords \in [1..n -> 1..n], swaps \in 0..n] ==
        IF begin = n THEN {<<IF swaps % 2 = 0 THEN 1 ELSE -1, ords>>}
        ELSE UNION {from[begin + 1, Exchanged(ords, begin, i), swaps + 1] : i \in begin..n}
  IN IF n = 0 THEN {} ELSE from[1, [k \in 1..n |-> k], 0]

\* the permutations with their signs; none if there is nothing to permute
PhasePerm(n) ==
  LET from[begin \in 1..n, ords \in [1..n -> 1..n], swaps \in 0..n] ==
        IF begin = n THEN {<<IF swaps % 2 = 0 THEN 1 ELSE -1, ords>>}
        ELSE UNION {from[begin + 1, Exchanged(ords, begin, i), IF i = begin THEN swaps ELSE swaps + 1] :
                    i \in begin..n}
  IN IF n = 0 THEN {} ELSE from[1, [k \in 1..n |-> k], 0]

Combined(p, q) == p \o [k \in DOMAIN q |-> q[k] + Len(p)]

Permuted(array, x, ords) == array[[k \in DOMAIN ords |-> x[ords[k]]]]

Antisymmetrize(array, braRank, ketRank, scalar) ==
  [x \in Tuples(braRank + ketRank) |->
     scalar * Total(PhasePerm(braRank) \X PhasePerm(ketRank),
                    LAMBDA pq : pq[1][1] * pq[2][1]
                                  * Permuted(array, x, Combined(pq[1][2], pq[2][2])))]

Symmetrize(array, rank, scalar) ==
  [x \in Tuples(2 * rank) |->
     scalar * Total({p \in [1..rank -> 1..rank] : IsInjective(p)},
                    LAMBDA p : Permuted(array, x, Combined(p, p)))]
=============================================================================
