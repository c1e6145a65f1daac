--------------------------- MODULE SpinAlgorithms ---------------------------
(***************************************************************************)
(* spintrace, closed_shell_spintrace and factorize_S_operator.  A group of *)
(* external indices is the pair of a bra and a ket index of one particle;  *)
(* without external indices there is one empty group.                      *)
(***************************************************************************)
EXTENDS SpinTensors

CONSTANT Canonical(_)   \* the canonical form of a product: see Products

\* an assertion fails, or a search that finds nothing is used
Failure == <<Term(0, <<Tensor("failure", "nonsymm", <<>>, <<>>)>>)>>

RECURSIVE TwoTo(_)
TwoTo(n) == IF n = 0 THEN 1 ELSE 2 * TwoTo(n - 1)

-----------------------------------------------------------------------------
(***************************************************************************)
(* closed_shell_spintrace.  The loops of a term are the cycles that lead   *)
(* from a ket index to the bra where it is again, and to the ket below it. *)
(* Indices of the kets that were passed are overwritten with a dummy.      *)
(***************************************************************************)
Dummy == Index("occ", 50)

PlaceOf(seq, i) == SelectInSeq(seq, LAMBDA j : j = i)

\* the kets after the cycle from "home" is walked, or <<>>
RECURSIVE Walked(_, _, _, _)
Walked(kets, bras, at, home) ==
  IF at = 0 THEN <<>>
  ELSE LET here == PlaceOf(kets, kets[at])
           next == PlaceOf(bras, kets[here])
           rest == [kets EXCEPT ![here] = Dummy]
       IN IF next = home THEN rest ELSE Walked(rest, bras, next, home)

CountCycles(kets, bras) ==
  LET Visit(walk, k) ==
        IF walk.kets = <<>> \/ walk.kets[k] = Dummy THEN walk
        ELSE [n |-> walk.n + 1, kets |-> Walked(walk.kets, bras, PlaceOf(bras, walk.kets[k]), k)]
      walk == FoldLeft(Visit, [n |-> 0, kets |-> kets], [k \in DOMAIN kets |-> k])
  IN IF walk.kets = <<>> THEN -1 ELSE walk.n

\* mutant: the external pairs are not closed to loops
SubstitutedNever(seq, grps) == seq

\* the index of each external pair in the place of the other one
Substituted(seq, grps) ==
  IF Len(grps[1]) # 2 THEN seq
  ELSE FoldLeft(LAMBDA s, g : [k \in DOMAIN s |-> IF s[k] = g[1] THEN g[2] ELSE s[k]], seq, grps)

KetIndices(p) == FlattenSeq([k \in DOMAIN p.t |-> p.t[k].ket])
BraIndices(p) == FlattenSeq([k \in DOMAIN p.t |-> p.t[k].bra])

ClosedShellProduct(p, grps) ==
  LET bare   == IF p.t[1].label = "S" THEN RemoveTensor(p, "S") ELSE p
      cycles == CountCycles(Substituted(KetIndices(bare), grps),
                            Substituted(BraIndices(bare), grps))
  IN IF cycles = -1 THEN Failure ELSE <<Term(p.c * TwoTo(cycles), p.t)>>

HasALabel(expr) == \E k \in DOMAIN expr : expr[k].t[1].label = "A"

ClosedShellSpinTrace(expr, grps) ==
  LET symmetrized == IF HasALabel(expr) THEN Each(expr, Symmetrized) ELSE expr
      expanded    == ResetTags(Each(symmetrized, ExpandTensors))
  IN Each(expanded, LAMBDA p : ClosedShellProduct(p, grps))

-----------------------------------------------------------------------------
(***************************************************************************)
(* spintrace: one term for each assignment of spins to the internal        *)
(* indices and to the groups of external indices.                          *)
(***************************************************************************)
CanExpand(t) ==
  Cardinality({k \in DOMAIN t.bra : t.bra[k].spin = "alpha"}) =
  Cardinality({k \in DOMAIN t.ket : t.ket[k].spin = "alpha"})

\* a tensor whose spins cannot match ends the product: it is zero
SpinTraceProduct(p) ==
  IF \A k \in DOMAIN p.t : CanExpand(p.t[k]) THEN ExpandTensors(p) ELSE <<>>

RemoveSpin(expr) ==
  [k \in DOMAIN expr |-> OnTensors(expr[k], LAMBDA i : SpinOf(i, "none"))]

InternalIndices(p, grps) == IndicesOf(p) \ UNION {ToSet(grps[g]) : g \in DOMAIN grps}

IndexGroups(p, grps) ==
  [k \in 1..Cardinality(InternalIndices(p, grps)) |->
     <<InOrder(InternalIndices(p, grps))[k]>>] \o grps

SpinMap(grps, spins) ==
  [i \in UNION {ToSet(grps[g]) : g \in DOMAIN grps} |->
     SpinOf(i, spins[CHOOSE g \in DOMAIN grps : i \in ToSet(grps[g])])]

\* the bits of the number of a spin case, the first group last
SpinCase(n, number) == [g \in 1..n |-> IF (number \div TwoTo(g - 1)) % 2 = 0 THEN "alpha" ELSE "beta"]

OfSpinCase(p, all, number) ==
  SpinTraceProduct(TransformIndices(p, SpinMap(all, SpinCase(Len(all), number))))

TraceProduct(p, all) ==
  FlattenSeq([k \in 1..TwoTo(Len(all)) |-> RemoveSpin(OfSpinCase(p, all, k - 1))])

SpinTrace(expr, grps) ==
  LET bare == IF \E k \in DOMAIN expr : HasLabel(expr[k], "A")
              THEN Each(expr, ExpandAOperator) ELSE expr
  IN Each(ResetTags(bare), LAMBDA p : TraceProduct(p, IndexGroups(p, grps)))

-----------------------------------------------------------------------------
(***************************************************************************)
(* factorize_S_operator, the fast method.  The hash of a product is that   *)
(* of its tensors, whatever its scalar.  A summand whose images under all  *)
(* permutations of the groups are summands takes their place; any other is *)
(* written as the average of its images.                                   *)
(***************************************************************************)
Hash(p) == p.t

CanonicalTerms(expr) == [k \in DOMAIN expr |-> Canonical(expr[k])]

\* summands with the same tensors are added up, in the place of the first
Merged(expr) ==
  LET Like(p)  == {k \in DOMAIN expr : Hash(expr[k]) = Hash(p)}
      Total(p) == FoldSet(LAMBDA k, sum : sum + expr[k].c, 0, Like(p))
      firsts   == SelectSeq([k \in DOMAIN expr |-> k], LAMBDA k : k = Min(Like(expr[k])))
  IN SelectSeq([k \in DOMAIN firsts |-> Term(Total(expr[firsts[k]]), expr[firsts[k]].t)],
               LAMBDA p : p.c # 0)

SOf(grps) == Tensor("S", "nonsymm", [k \in DOMAIN grps |-> grps[k][1]],
                                    [k \in DOMAIN grps |-> grps[k][2]])

Images(p, maps) ==
  [k \in DOMAIN maps |-> Hash(Canonical(OnTensors(TransformIndices(p, maps[k]), Untagged)))]

Erased(seq, h) == RemoveAt(seq, SelectInSeq(seq, LAMBDA x : x = h))

\* mutant: a summand without images stands for all of S, not for its average
FactorizeStepUnscaled(f, h, p, images, S, n) ==
  LET all == \A k \in DOMAIN images : images[k] \in ToSet(Erased(f.left, h))
  IN [left |-> IF all THEN FoldLeft(Erased, Erased(f.left, h), images) ELSE Erased(f.left, h),
      done |-> Append(f.done, Term(p.c, <<S>> \o p.t))]

\* left: the hashes that are not used yet; done: the result so far
FactorizeStep(f, h, p, images, S, n) ==
  LET all == \A k \in DOMAIN images : images[k] \in ToSet(Erased(f.left, h))
  IN [left |-> IF all THEN FoldLeft(Erased, Erased(f.left, h), images) ELSE Erased(f.left, h),
      done |-> Append(f.done, Term(IF all THEN p.c ELSE p.c \div n, <<S>> \o p.t))]

\* a summand in whose place another one stands is the Constant 0
FactorizeForms(forms, S, maps) ==
  FoldLeft(LAMBDA f, p : IF Hash(p) \notin ToSet(f.left) THEN f
                         ELSE FactorizeStep(f, Hash(p), p, Images(p, maps), S, 1 + Len(maps)),
           [left |-> [k \in DOMAIN forms |-> Hash(forms[k])], done |-> <<>>], forms).done

FactorizeSOperator(expr, grps) ==
  LET forms == CanonicalTerms(expr)
  IN IF \E k \in DOMAIN expr : expr[k].t[1].label = "S" THEN expr
     ELSE IF Cardinality({Hash(forms[k]) : k \in DOMAIN forms}) # Len(forms) THEN Failure
     ELSE Merged(CanonicalTerms(FactorizeForms(forms, SOf(grps), Tail(SReplacementMaps(SOf(grps))))))
=============================================================================
