---------------------------- MODULE SpinTensors ----------------------------
(***************************************************************************)
(* Sums of products of tensors over spin orbitals, and the expansion of    *)
(* the operators A, P and S and of antisymmetric tensors in them.          *)
(*                                                                         *)
(* An expression is the sequence of its summands, a summand is a product:  *)
(* a number c and tensors t.  A sum appended to a sum, or a product to a   *)
(* product, gives its members, so expressions stay that flat.              *)
(***************************************************************************)
EXTENDS Integers, SequencesExt, TLC

CONSTANT MaxRank   \* the largest rank of a tensor

-----------------------------------------------------------------------------
(* Indices have a spin, or none, and a tag that says they were replaced.   *)

Index(space, n) == [space |-> space, n |-> n, spin |-> "none", tagged |-> FALSE]

Untagged(i)  == [i EXCEPT !.tagged = FALSE]
SpinOf(i, s) == [Untagged(i) EXCEPT !.spin = s]

Spins == {"alpha", "beta"}

\* spaces are ordered by spin first
Rank(i) == 1000 * (CASE i.spin = "none" -> 0 [] i.spin = "alpha" -> 1 [] i.spin = "beta" -> 2)
           + 100 * (CASE i.space = "occ" -> 1 [] i.space = "unocc" -> 2)
           + i.n

Less(i, j) == Rank(i) < Rank(j)

InOrder(S) ==
  [k \in 1..Cardinality(S) |-> CHOOSE i \in S : Cardinality({j \in S : Less(j, i)}) = k - 1]

\* the sign of the swaps a bubble sort makes
Sign(seq) ==
  IF Cardinality({p \in (DOMAIN seq) \X (DOMAIN seq) :
                    p[1] < p[2] /\ Less(seq[p[2]], seq[p[1]])}) % 2 = 0
  THEN 1 ELSE -1

Tensor(label, symm, bra, ket) ==
  [label |-> label, symm |-> symm, bra |-> bra, ket |-> ket]

Term(c, t) == [c |-> c, t |-> t]

OnIndices(t, F(_)) ==
  [t EXCEPT !.bra = [k \in DOMAIN @ |-> F(@[k])], !.ket = [k \in DOMAIN @ |-> F(@[k])]]

OnTensors(p, F(_)) == [p EXCEPT !.t = [k \in DOMAIN @ |-> OnIndices(@[k], F)]]

ResetTags(expr) == [k \in DOMAIN expr |-> OnTensors(expr[k], Untagged)]

IndicesOf(p) ==
  UNION {ToSet(p.t[k].bra \o p.t[k].ket) : k \in DOMAIN p.t}

\* F makes an expression of a product
Each(expr, F(_)) == FlattenSeq([k \in DOMAIN expr |-> F(expr[k])])

-----------------------------------------------------------------------------
(***************************************************************************)
(* Replacement.  The keys of a map are compared without their tags, and an *)
(* index that has a tag is not replaced.                                   *)
(***************************************************************************)
Transformed(i, map) ==
  IF i \in DOMAIN map THEN [map[i] EXCEPT !.tagged = TRUE] ELSE i

TransformIndices(p, map) == OnTensors(p, LAMBDA i : Transformed(i, map))

TransformExpression(expr, map, factor) ==
  [k \in DOMAIN expr |->
     Term(factor * expr[k].c,
          OnTensors(TransformIndices(expr[k], map), Untagged).t)]

SwapBraKet(expr) ==
  [k \in DOMAIN expr |->
     [expr[k] EXCEPT !.t = [m \in DOMAIN @ |-> [@[m] EXCEPT !.bra = expr[k].t[m].ket,
                                                            !.ket = expr[k].t[m].bra]]]]

-----------------------------------------------------------------------------
(***************************************************************************)
(* The maps of A, P and S: the permutations of their indices in the order  *)
(* of next_permutation, those of bra and ket by themselves or together.    *)
(***************************************************************************)
LexLess(p, q) == \E k \in DOMAIN p : p[k] < q[k] /\ \A j \in 1..k - 1 : p[j] = q[j]

Permuted == [n \in 1..MaxRank |->
               SetToSortSeq({p \in [1..n -> 1..n] : IsInjective(p)}, LexLess)]

Moves(list, p) ==
  [i \in {Untagged(list[k]) : k \in DOMAIN list} |->
     Untagged(list[p[CHOOSE k \in DOMAIN list : Untagged(list[k]) = i]])]

MapsOfList(list) ==
  [k \in DOMAIN Permuted[Len(list)] |-> Moves(list, Permuted[Len(list)][k])]

AReplacementMaps(A) ==
  FlattenSeq([k \in DOMAIN MapsOfList(A.ket) |->
     [b \in DOMAIN MapsOfList(A.bra) |-> MapsOfList(A.bra)[b] @@ MapsOfList(A.ket)[k]]])

SReplacementMaps(S) ==
  [k \in DOMAIN MapsOfList(S.bra) |-> MapsOfList(S.bra)[k] @@ MapsOfList(S.ket)[k]]

\* the sign of the values of a map, in the order of its keys
PhaseOf(map) == Sign([k \in 1..Cardinality(DOMAIN map) |->
                        map[InOrder(DOMAIN map)[k]]])

NoPhase(map) == 1

RemoveTensor(p, label) == [p EXCEPT !.t = SelectSeq(@, LAMBDA t : t.label # label)]

\* the sum over maps of a product without an operator, behind "front"
SumOverMaps(p, front, maps, Phase(_)) ==
  [k \in DOMAIN maps |-> Term(p.c * Phase(maps[k]), front \o TransformIndices(p, maps[k]).t)]

HasLabel(p, label) == \E k \in DOMAIN p.t : p.t[k].label = label

FirstOf(p, label) == p.t[SelectInSeq(p.t, LAMBDA t : t.label = label)]

ExpandAOperator(p) ==
  CASE ~HasLabel(p, "A") -> <<p>>
    [] HasLabel(p, "A") /\ Len(FirstOf(p, "A").bra) = 1 -> <<RemoveTensor(p, "A")>>
    [] HasLabel(p, "A") /\ Len(FirstOf(p, "A").bra) > 1 ->
         SumOverMaps(RemoveTensor(p, "A"), <<>>, AReplacementMaps(FirstOf(p, "A")), PhaseOf)

ExpandPOperator(p) ==
  CASE ~HasLabel(p, "P") -> <<p>>
    [] HasLabel(p, "P") /\ Len(FirstOf(p, "P").bra) = 1 -> <<RemoveTensor(p, "P")>>
    [] HasLabel(p, "P") /\ Len(FirstOf(p, "P").bra) > 1 ->
         SumOverMaps(RemoveTensor(p, "P"), <<>>, SReplacementMaps(FirstOf(p, "P")), NoPhase)

ExpandSProduct(p) ==
  IF ~HasLabel(p, "S") THEN <<p>>
  ELSE SumOverMaps(RemoveTensor(p, "S"), <<>>, SReplacementMaps(p.t[1]), NoPhase)

ExpandSOperator(expr) ==
  IF \E k \in DOMAIN expr : HasLabel(expr[k], "S")
  THEN ResetTags(Each(ResetTags(expr), ExpandSProduct))
  ELSE expr

(***************************************************************************)
(* A in terms of S: S permutes the particles, the sum permutes the longer  *)
(* of bra and ket.                                                         *)
(***************************************************************************)
Longer(A)  == IF Len(A.bra) >= Len(A.ket) THEN A.bra ELSE A.ket
Shorter(A) == Min({Len(A.bra), Len(A.ket)})

SymmetrizerOf(A) ==
  Tensor("S", "nonsymm", SubSeq(A.bra, 1, Shorter(A)), SubSeq(A.ket, 1, Shorter(A)))

Symmetrized(p) ==
  IF p.t[1].label # "A" THEN <<p>>
  ELSE IF Len(p.t[1].bra) = 1 /\ Len(p.t[1].ket) = 1 THEN <<RemoveTensor(p, "A")>>
  ELSE SumOverMaps(RemoveTensor(p, "A"), <<SymmetrizerOf(p.t[1])>>,
                    MapsOfList(Longer(p.t[1])), PhaseOf)

-----------------------------------------------------------------------------
(***************************************************************************)
(* Antisymmetric tensors: the sum over the permutations of the sorted bra  *)
(* with matching spins, with the sign relative to the given order.         *)
(***************************************************************************)
SpinsMatch(t) == \A k \in DOMAIN t.bra : t.bra[k].spin = t.ket[k].spin

SpinMatched(t) ==
  LET bra  == SortSeq(t.bra, Less)
      ket  == SortSeq(t.ket, Less)
      With(p) == Tensor(t.label, "nonsymm", [k \in DOMAIN bra |-> bra[p[k]]], ket)
  IN SelectSeq([k \in DOMAIN Permuted[Len(bra)] |-> With(Permuted[Len(bra)][k])], SpinsMatch)

ExpandAntisymm(t) ==
  CASE Len(t.bra) = 1 -> <<Term(1, <<[t EXCEPT !.symm = "nonsymm"]>>)>>
    [] Len(t.bra) > 1 /\ t.symm = "antisymm" ->
         [k \in DOMAIN SpinMatched(t) |->
            Term(Sign(t.bra) * Sign(t.ket) * Sign(SpinMatched(t)[k].bra),
                 <<SpinMatched(t)[k]>>)]
    [] Len(t.bra) > 1 /\ t.symm # "antisymm" -> <<Term(1, <<t>>)>>

\* the product of a product so far and a sum
TimesSum(terms, sum) ==
  Each(terms, LAMBDA p : [k \in DOMAIN sum |-> Term(p.c * sum[k].c, p.t \o sum[k].t)])

ExpandTensors(p) ==
  FoldLeft(LAMBDA terms, t : TimesSum(terms, ExpandAntisymm(t)), <<Term(p.c, <<>>)>>, p.t)
=============================================================================
