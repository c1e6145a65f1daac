----------------------------- MODULE MCProducts -----------------------------
EXTENDS Products

O(n) == Index({"occ"}, n)
U(n) == Index({"unocc"}, n)
P(n) == Index({"occ", "unocc"}, n)

A(l, bra, ket) == Tensor(l, "antisymm", bra, ket)
N(l, bra, ket) == Tensor(l, "nonsymm", bra, ket)
D(i, j)        == N("s", <<i>>, <<j>>)

Net(tensors, ext, rewrites) ==
  [c |-> 1, t |-> tensors, external |-> ext, may |-> rewrites]

Anyhow == {"order", "names", "signs", "canonicalize"}

\* an energy with two equal amplitudes, a residual with external indices and
\* a ladder of tensors without symmetry
Canonical ==
  << Net(<<A("g", <<O(1), O(2)>>, <<U(1), U(2)>>), N("t", <<U(1)>>, <<O(1)>>),
          N("t", <<U(2)>>, <<O(2)>>)>>, {}, Anyhow),
    Net(<<A("g", <<O(1), O(2)>>, <<U(1), U(3)>>), A("t", <<U(1), U(2)>>, <<O(1), O(3)>>),
          N("t", <<U(3)>>, <<O(2)>>)>>, {U(2), O(3)}, Anyhow),
    Net(<<N("g", <<O(1), O(2)>>, <<U(1), U(2)>>), N("g", <<U(1), U(2)>>, <<O(1), O(2)>>)>>,
        {}, Anyhow),
    Net(<<N("g", <<O(1), O(2)>>, <<U(1), U(2)>>), N("t", <<U(1), U(2)>>, <<O(2), O(1)>>)>>,
        {}, Anyhow),
    Net(<<N("f", <<O(1)>>, <<O(2)>>), N("f", <<O(2)>>, <<O(1)>>), N("f", <<O(10)>>, <<U(1)>>)>>,
        {O(10), U(1)}, Anyhow),
    Net(<<A("g", <<O(1), O(2)>>, <<U(1), U(2)>>), A("g", <<U(1), U(2)>>, <<O(2), O(1)>>)>>,
        {}, Anyhow),
    Net(<<A("A", <<O(1), O(2)>>, <<U(1)>>), N("t", <<U(1)>>, <<O(10)>>)>>,
        {O(1), O(2), O(10)}, Anyhow),
    Net(<<N("f", <<P(1)>>, <<P(2)>>), A("g", <<P(2), O(2)>>, <<P(1), O(2)>>)>>, {}, Anyhow) >>

\* what Wick's theorem makes of products: each index in one overlap, or two
\* general indices bound through an index of their common space; products in
\* which the rules of a pass leave a factor as it is, an amplitude or a delta
\* of external indices; and a product that is zero
WithOverlaps ==
  << Net(<<N("f", <<P(1)>>, <<P(2)>>), N("t", <<U(1)>>, <<O(1)>>),
          D(P(1), O(1)), D(U(1), P(2))>>, {}, {"order", "reduce"}),
    Net(<<A("g", <<P(1), P(2)>>, <<P(3), P(4)>>), N("t", <<U(1)>>, <<O(1)>>),
          D(P(1), O(1)), D(U(1), P(3)), D(P(2), O(2)), D(U(2), P(4))>>,
        {O(2), U(2)}, {"order", "reduce"}),
    Net(<<N("f", <<P(1)>>, <<P(2)>>), N("g", <<P(3)>>, <<P(4)>>),
          D(P(1), O(100)), D(O(100), P(4)), D(P(2), U(101)), D(U(101), P(3))>>,
        {}, {"order", "reduce"}),
    Net(<<N("f", <<P(1)>>, <<P(2)>>), D(P(3), O(100)), D(O(100), P(1)),
          D(P(2), U(100)), D(U(100), P(4))>>, {P(3), P(4)}, {"order", "reduce"}),
    Net(<<N("f", <<O(1)>>, <<U(1)>>), D(P(1), O(1)), D(U(1), P(2))>>,
        {P(1), P(2)}, {"order", "reduce"}),
    Net(<<N("f", <<P(1)>>, <<P(2)>>), D(P(1), O(100)), D(O(100), P(2))>>, {}, {"order", "reduce"}),
    Net(<<D(P(3), O(100)), D(O(100), P(4)), N("f", <<P(1)>>, <<P(2)>>),
          D(P(1), O(1)), D(O(2), P(2))>>, {P(3), P(4), O(1), O(2)}, {"order", "reduce"}),
    Net(<<N("f", <<P(1)>>, <<P(2)>>), N("t", <<U(1)>>, <<O(1)>>),
          D(O(1), P(1)), D(P(2), U(1))>>, {O(1), U(1)}, {"order", "reduce"}),
    Net(<<N("f", <<P(1)>>, <<P(2)>>), D(P(3), P(4)), D(O(1), P(1)), D(P(2), U(1))>>,
        {P(3), P(4), O(1), U(1)}, {"order", "reduce"}),
    Net(<<D(O(1), P(1)), D(P(1), U(1))>>, {O(1), U(1)}, {"order", "reduce"}) >>

Products_ == ToSet(Canonical \o WithOverlaps)

\* a chain of overlaps, as only a user can write one
Chains ==
  << Net(<<N("f", <<P(1)>>, <<P(4)>>), D(P(1), P(2)), D(P(3), P(4)), D(P(2), P(3))>>,
         {}, {"order", "reduce"}) >>

Chains_ == ToSet(Chains)

CardinalLabels == <<"A">>
Labels == <<"A", "f", "g", "s", "t">>
=============================================================================
