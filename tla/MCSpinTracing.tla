--------------------------- MODULE MCSpinTracing ---------------------------
EXTENDS SpinTracing

O(n) == Index("occ", n)
U(n) == Index("unocc", n)

A(l, bra, ket) == Tensor(l, "antisymm", bra, ket)
N(l, bra, ket) == Tensor(l, "nonsymm", bra, ket)

Of(terms, grps) == [expr |-> terms, groups |-> grps]

Pairs == <<<<O(1), U(1)>>, <<O(2), U(2)>>>>
A2 == A("A", <<O(1), O(2)>>, <<U(1), U(2)>>)
Triples == Append(Pairs, <<O(3), U(3)>>)
P3 == N("P", <<O(1), O(2), O(3)>>, <<U(1), U(2), U(3)>>)
P2 == N("P", <<O(1), O(2)>>, <<U(1), U(2)>>)

Inputs == {
  \* the energy
  Of(<<Term(2, <<A("g", <<O(1), O(2)>>, <<U(1), U(2)>>), N("t", <<U(1)>>, <<O(1)>>),
                 N("t", <<U(2)>>, <<O(2)>>)>>),
       Term(1, <<A("g", <<O(1), O(2)>>, <<U(1), U(2)>>), A("t", <<U(1), U(2)>>, <<O(1), O(2)>>)>>),
       Term(4, <<N("f", <<O(1)>>, <<U(1)>>), N("t", <<U(1)>>, <<O(1)>>)>>)>>, <<<<>>>>),
  \* singles
  Of(<<Term(1, <<A("A", <<O(1)>>, <<U(1)>>), N("f", <<U(1)>>, <<U(3)>>), N("t", <<U(3)>>, <<O(1)>>)>>),
       Term(-1, <<A("A", <<O(1)>>, <<U(1)>>), A("g", <<O(3), U(1)>>, <<O(1), U(3)>>),
                  N("t", <<U(3)>>, <<O(3)>>)>>)>>, <<<<O(1), U(1)>>>>),
  \* doubles
  Of(<<Term(1, <<A2, A("g", <<U(1), U(2)>>, <<O(1), O(2)>>)>>),
       Term(2, <<A2, N("f", <<U(1)>>, <<U(3)>>), A("t", <<U(2), U(3)>>, <<O(1), O(2)>>)>>)>>, Pairs),
  Of(<<Term(2, <<A2, A("g", <<O(3), U(1)>>, <<O(1), U(3)>>), A("t", <<U(2), U(3)>>, <<O(2), O(3)>>)>>)>>, Pairs),
  Of(<<Term(2, <<A2, A("g", <<U(1), U(2)>>, <<O(1), U(3)>>), N("t", <<U(3)>>, <<O(2)>>)>>)>>, Pairs),
  Of(<<Term(1, <<P2, A("g", <<U(1), U(2)>>, <<O(1), U(3)>>), N("t", <<U(3)>>, <<O(2)>>)>>)>>, Pairs),
  Of(<<Term(2, <<N("f", <<U(1)>>, <<O(1)>>), N("t", <<U(2)>>, <<O(2)>>)>>),
       Term(2, <<N("f", <<U(2)>>, <<O(2)>>), N("t", <<U(1)>>, <<O(1)>>)>>),
       Term(4, <<N("t", <<U(1)>>, <<O(1)>>), N("t", <<U(2)>>, <<O(2)>>)>>)>>, Pairs),
  \* triples
  Of(<<Term(6, <<P3, N("t", <<U(1)>>, <<O(1)>>), A("t", <<U(2), U(3)>>, <<O(2), O(3)>>)>>)>>, Triples)}

-----------------------------------------------------------------------------
\* a canonical form: one of the ways to write a product, operators first
Sorted(t) ==
  IF t.symm = "antisymm" THEN [t EXCEPT !.bra = SortSeq(@, Less), !.ket = SortSeq(@, Less)]
  ELSE LET cols == SetToSeq({<<t.bra[k], t.ket[k]>> : k \in DOMAIN t.bra})
       IN [t EXCEPT !.bra = [k \in DOMAIN cols |-> cols[k][1]],
                    !.ket = [k \in DOMAIN cols |-> cols[k][2]]]

\* S keeps the order of its particles
Ordered(t) == IF IsOperator(t) THEN t ELSE Sorted(t)

Forms(q, r) ==
  LET renamed == Renamed(q, r)
      tensors == [k \in DOMAIN q.t |-> Ordered(renamed.t[k])]
      sign    == FoldLeft(LAMBDA s, t : s * (IF IsOperator(t) THEN 1 ELSE SignOf(t)), 1, renamed.t)
  IN {<<[k \in DOMAIN tensors |-> tensors[o[k]]], sign>> :
        o \in {o \in Orders(Len(tensors)) : IsOperator(tensors[1]) => o[1] = 1}}

CanonicalForm(p) ==
  LET q     == Renumbered(p)
      forms == UNION {Forms(q, r) : r \in Renamings(Dummies(q))}
      first == CHOOSE t \in {f[1] : f \in forms} : TRUE
  IN Term(p.c * (CHOOSE s \in {-1, 1} : <<first, s>> \in forms), first)
=============================================================================
