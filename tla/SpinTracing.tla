---------------------------- MODULE SpinTracing ----------------------------
(***************************************************************************)
(* Integration of spin out of an expression, in two ways: spintrace sums   *)
(* over the spins of all indices, closed_shell_spintrace counts the loops  *)
(* of each term.  Before and after, the operators A, P and S are expanded, *)
(* S is factored out, indices are replaced, bra and ket exchanged.         *)
(***************************************************************************)
EXTENDS SpinAlgorithms

CONSTANTS
  Start,        \* the expressions: expr, the groups of external indices, and
                \* whether it has spin orbitals ("spin") or not ("spatial")
  MaxSteps      \* bound: the number of operations on an expression

VARIABLES
  expr, groups,
  kind,         \* "spin" or "spatial"
  steps,
  meaning       \* the polynomial the expression stands for

vars == <<expr, groups, kind, steps, meaning>>

-----------------------------------------------------------------------------
(***************************************************************************)
(* What an expression means: a polynomial in products of tensors, up to    *)
(* the names of summation indices.  The operators stand for sums over      *)
(* permutations of the external indices.  An S stands for the pairs of     *)
(* external indices in their order, whatever its indices are called.       *)
(***************************************************************************)
Zero == [m \in {} |-> 0]

Plus(p, q) ==
  LET Coef(f, m) == IF m \in DOMAIN f THEN f[m] ELSE 0
      sum == [m \in DOMAIN p \cup DOMAIN q |-> Coef(p, m) + Coef(q, m)]
  IN [m \in {x \in DOMAIN sum : sum[x] # 0} |-> sum[m]]

Occurrences(p, i) ==
  Cardinality({<<k, m>> \in (DOMAIN p.t) \X (1..2 * MaxRank) :
                 m \in DOMAIN (p.t[k].bra \o p.t[k].ket) /\ (p.t[k].bra \o p.t[k].ket)[m] = i})

Dummies(p) == {i \in IndicesOf(p) : Occurrences(p, i) > 1}

InSpace(S, space) == {i \in S : i.space = space}

Renamings(S) ==
  {r @@ q : r \in {f \in [InSpace(S, "occ") -> InSpace(S, "occ")] : IsInjective(f)},
            q \in {f \in [InSpace(S, "unocc") -> InSpace(S, "unocc")] : IsInjective(f)}}

\* summation indices are called by the first numbers no external index has
Renumbered(p) ==
  LET dummies == Dummies(p)
      named   == IndicesOf(p) \ dummies
      free    == [s \in {"occ", "unocc"} |->
                    InOrder({Index(s, n) : n \in 1..4 * MaxRank} \ named)]
      nth(i)  == Cardinality({j \in InSpace(dummies, i.space) : j.n <= i.n})
  IN OnTensors(p, LAMBDA i : IF i \in dummies THEN free[i.space][nth(i)] ELSE i)

Renamed(p, r) == OnTensors(p, LAMBDA i : IF i \in DOMAIN r THEN r[i] ELSE i)

\* a tensor with its indices in an order that does not matter, and the sign
Written(t) ==
  IF t.symm = "antisymm"
  THEN <<t.label, t.symm, SortSeq(t.bra, Less), SortSeq(t.ket, Less)>>
  ELSE <<t.label, t.symm, {<<t.bra[k], t.ket[k]>> : k \in DOMAIN t.bra}>>

SignOf(t) == IF t.symm = "antisymm" THEN Sign(t.bra) * Sign(t.ket) ELSE 1

Monomial(p) ==
  LET words == [k \in DOMAIN p.t |-> Written(p.t[k])]
  IN [w \in ToSet(words) |-> Cardinality({k \in DOMAIN words : words[k] = w})]

Writings(p) ==
  LET q == Renumbered(p)
  IN {<<Monomial(Renamed(q, r)),
        FoldLeft(LAMBDA s, t : s * SignOf(t), 1, Renamed(q, r).t)>> :
        r \in Renamings(Dummies(q))}

PolynomialOf(p) ==
  LET all   == Writings(p)
      first == CHOOSE w \in {x[1] : x \in all} : TRUE
  IN IF \E x \in all : <<x[1], -x[2]>> \in all THEN Zero
     ELSE [w \in {first} |-> p.c * (CHOOSE s \in {-1, 1} : <<first, s>> \in all)]

IsOperator(t) == t.label \in {"A", "P", "S"}

Bare(p) == [p EXCEPT !.t = SelectSeq(@, LAMBDA t : ~IsOperator(t))]

\* an S with the external indices it stands for
ByPosition(p) ==
  IF ~HasLabel(p, "S") THEN p
  ELSE LET S     == FirstOf(p, "S")
           of(i) == IF i \in ToSet(S.bra)
                    THEN groups[SelectInSeq(S.bra, LAMBDA j : j = i)][1]
                    ELSE groups[SelectInSeq(S.ket, LAMBDA j : j = i)][2]
           ext   == ToSet(S.bra) \cup ToSet(S.ket)
           far(i) == [i EXCEPT !.n = @ + 2 * MaxRank]
       IN OnTensors(p, LAMBDA i : CASE i \in ext -> of(i)
                                    [] i \in Dummies(Bare(p)) -> far(i)
                                    [] OTHER -> i)

Orders(n) == {p \in [1..n -> 1..n] : IsInjective(p)}

Even(p) == Cardinality({x \in (DOMAIN p) \X (DOMAIN p) : x[1] < x[2] /\ p[x[2]] < p[x[1]]}) % 2 = 0

\* the operator t of p as a sum of <<sign, replacement>>
Operator(t) ==
  LET n == Len(t.bra)
      Move(p, q) == [i \in ToSet(t.bra) \cup ToSet(t.ket) |->
                       IF i \in ToSet(t.bra)
                       THEN t.bra[p[SelectInSeq(t.bra, LAMBDA j : j = i)]]
                       ELSE t.ket[q[SelectInSeq(t.ket, LAMBDA j : j = i)]]]
  IN IF t.label = "A" THEN {<<IF Even(p) = Even(q) THEN 1 ELSE -1, Move(p, q)>> :
                               p \in Orders(n), q \in Orders(Len(t.ket))}
     ELSE {<<1, Move(p, p)>> : p \in Orders(n)}

OperatorsOf(p) == SelectSeq(p.t, IsOperator)

MeaningOf(p) ==   \* p has at most one operator
  IF OperatorsOf(p) = <<>> THEN PolynomialOf(p)
  ELSE FoldSet(LAMBDA o, sum : Plus(sum, PolynomialOf(
                 Term(o[1] * p.c, Renamed(Bare(p), o[2]).t))),
               Zero, Operator(OperatorsOf(p)[1]))

RECURSIVE Meaning(_)
Meaning(terms) ==
  CASE terms = <<>>    -> Zero
    [] Len(terms) = 1 -> MeaningOf(ByPosition(OnTensors(terms[1], Untagged)))
    [] Len(terms) > 1 -> LET half == Len(terms) \div 2
                         IN Plus(Meaning(SubSeq(terms, 1, half)),
                                 Meaning(SubSeq(terms, half + 1, Len(terms))))

\* the tensors of a monomial
TensorOf(w) ==
  IF w[2] = "antisymm" THEN Tensor(w[1], w[2], w[3], w[4])
  ELSE LET cols == SetToSeq(w[3])
       IN Tensor(w[1], w[2], [k \in DOMAIN cols |-> cols[k][1]], [k \in DOMAIN cols |-> cols[k][2]])

TensorsIn(m) ==
  LET words == SetToSeq(DOMAIN m)
  IN FlattenSeq([k \in DOMAIN words |-> [j \in 1..m[words[k]] |-> TensorOf(words[k])]])

(***************************************************************************)
(* The trace of a polynomial over spin orbitals.  An antisymmetric tensor  *)
(* is the signed sum over the permutations of its bra of a tensor that     *)
(* conserves the spin of each particle; each loop of particles then counts *)
(* for two spins.  The indices of an external group have the same spin.    *)
(***************************************************************************)
Arranged(t) ==
  IF t.symm # "antisymm" THEN {<<1, t>>}
  ELSE {<<IF Even(p) THEN 1 ELSE -1,
          Tensor(t.label, "nonsymm", [k \in DOMAIN t.bra |-> t.bra[p[k]]], t.ket)>> :
          p \in Orders(Len(t.bra))}

Loops(tensors) ==
  LET Root(i)   == IF \E g \in DOMAIN groups : i \in ToSet(groups[g])
                   THEN groups[CHOOSE g \in DOMAIN groups : i \in ToSet(groups[g])][1] ELSE i
      particles == UNION {{{Root(t.bra[k]), Root(t.ket[k])} : k \in DOMAIN t.bra} : t \in ToSet(tensors)}
  IN Cardinality(FoldSet(LAMBDA p, classes :
                    {UNION ({p} \cup {x \in classes : x \cap p # {}})}
                       \cup {x \in classes : x \cap p = {}},
                  {}, particles))

TraceOfTerm(p) ==
  LET sums == FoldLeft(LAMBDA all, t : {<<x[1] * a[1], Append(x[2], a[2])>> :
                                           x \in all, a \in Arranged(t)},
                        {<<p.c, <<>>>>}, p.t)
  IN FoldSet(LAMBDA x, sum : Plus(sum, PolynomialOf(Term(x[1] * TwoTo(Loops(x[2])), x[2]))),
             Zero, sums)

SumOver(p, F(_)) ==
  FoldSet(LAMBDA m, sum : Plus(sum, F(Term(p[m], TensorsIn(m)))), Zero, DOMAIN p)

TraceOf(p) == SumOver(p, TraceOfTerm)

Scaled(p, n) == [m \in DOMAIN p |-> n * p[m]]

-----------------------------------------------------------------------------
(***************************************************************************)
(* The operations                                                          *)
(***************************************************************************)
Init ==
  /\ \E s \in Start : expr = s.expr /\ groups = s.groups
  /\ kind = "spin" /\ steps = 0
  /\ meaning = Meaning(expr)

Becomes(result) == steps < MaxSteps /\ steps' = steps + 1 /\ expr' = result

Has(label) == \E k \in DOMAIN expr : HasLabel(expr[k], label)

Tagged == \E k \in DOMAIN expr : \E i \in IndicesOf(expr[k]) : i.tagged

\* the members of the groups by name
External == UNION {ToSet(groups[g]) : g \in DOMAIN groups}

Paired == \A g \in DOMAIN groups : Len(groups[g]) = 2

Same(result) == Becomes(result) /\ UNCHANGED <<groups, kind, meaning>>

ExpandAntisymmetrizer == Has("A") /\ Same(Each(expr, ExpandAOperator))

Symmetrize == Has("A") /\ Same(Each(expr, Symmetrized))

ExpandParticlePermutations == Has("P") /\ Same(Each(expr, ExpandPOperator))

\* S permutes the indices it has: they are the external ones
ExpandSymmetrizer ==
  /\ Has("S")
  /\ \A k \in DOMAIN expr : HasLabel(expr[k], "S") =>
       {Untagged(i) : i \in IndicesOf(Term(1, OperatorsOf(expr[k])))} = External
  /\ Same(ExpandSOperator(expr))

Traced(result, value) ==
  /\ kind = "spin" /\ ~Has("P")
  /\ Becomes(result) /\ kind' = "spatial" /\ meaning' = value
  /\ UNCHANGED groups

\* the one empty group of an expression without external indices has two spins
TraceSpins ==
  /\ ~Has("S")
  /\ Traced(SpinTrace(expr, groups),
            Scaled(TraceOf(meaning), IF groups = <<<<>>>> THEN 2 ELSE 1))

TraceClosedShell == Traced(ClosedShellSpinTrace(expr, groups), TraceOf(meaning))

WithoutOperators == \A k \in DOMAIN expr : OperatorsOf(expr[k]) = <<>>

\* two external indices of a space exchange their names; an index with a tag,
\* which the expansions of A and P leave, would keep its name
Transform ==
  \E i, j \in External :
    LET map == (i :> j) @@ (j :> i)
    IN /\ i.space = j.space /\ Less(i, j)
       /\ WithoutOperators /\ ~Tagged
       /\ Becomes(TransformExpression(expr, map, -1))
       /\ meaning' = Scaled(SumOver(meaning, LAMBDA p : PolynomialOf(Renamed(p, map))), -1)
       /\ UNCHANGED <<groups, kind>>

Adjoint(p) ==
  Term(p.c, [k \in DOMAIN p.t |-> Tensor(p.t[k].label, p.t[k].symm, p.t[k].ket, p.t[k].bra)])

ExchangeBraKet ==
  /\ WithoutOperators
  /\ Becomes(SwapBraKet(expr))
  /\ meaning' = SumOver(meaning, LAMBDA p : PolynomialOf(Adjoint(p)))
  /\ groups' = [g \in DOMAIN groups |-> Reverse(groups[g])]
  /\ UNCHANGED kind

\* the tags are reset, canonicalize adds up equal summands
Simplified == Merged(CanonicalTerms(ResetTags(expr)))

Simplify == WithoutOperators /\ Same(Simplified)

\* factorize_S_operator is for an expression that particles can be exchanged
\* in, simplified before; its averages are right for no other
Exchangeable ==
  \A q \in Orders(Len(groups)) :
    LET map == [i \in External |-> LET g == CHOOSE g \in DOMAIN groups : i \in ToSet(groups[g])
                                  IN IF i = groups[g][1] THEN groups[q[g]][1] ELSE groups[q[g]][2]]
    IN SumOver(meaning, LAMBDA p : PolynomialOf(Renamed(p, map))) = meaning

FactorizeSymmetrizer ==
  /\ WithoutOperators /\ Paired /\ Len(groups) > 1
  /\ expr = Simplified /\ Exchangeable
  /\ \A k \in DOMAIN expr : expr[k].c % Len(Permuted[Len(groups)]) = 0   \* whole numbers
  /\ Same(FactorizeSOperator(expr, groups))

Next ==
  \/ ExpandAntisymmetrizer \/ Symmetrize
  \/ ExpandParticlePermutations \/ ExpandSymmetrizer
  \/ TraceSpins \/ TraceClosedShell
  \/ Transform \/ ExchangeBraKet
  \/ Simplify \/ FactorizeSymmetrizer

Spec == Init /\ [][Next]_vars

-----------------------------------------------------------------------------
(***************************************************************************)
(* Properties                                                              *)
(***************************************************************************)
\* Every operation leaves an expression that stands for what it should: the
\* expansions and the factorization keep its value, and both ways to integrate
\* spin out give the trace over the spins, in any order of the operations.
MeaningKept == Meaning(expr) = meaning

\* No loop search or look-up of a hash goes past the end.
NeverFails == ~Has("failure")
=============================================================================
