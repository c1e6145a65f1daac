---------------------------- MODULE MCEvaluation ----------------------------
EXTENDS Evaluation, TLC

i(n) == Index("occ", n)
a(n) == Index("unocc", n)

T(l, bra, ket) == Tensor(l, bra, ket)

\* arrays without any symmetry but that of real orbitals
Generic(seed, x) == FoldLeft(LAMBDA r, e : (r * r + 3 * r + seed * e) % 11, seed, x) - 5

Halves(x) == SubSeq(x, Len(x) \div 2 + 1, Len(x)) \o SubSeq(x, 1, Len(x) \div 2)

Key(l, spaces) == <<"leaf", l, spaces>>

Real(seed, spaces) ==
  [x \in Tuples(Len(spaces)) |->
     IF Halves(spaces) = spaces THEN Generic(seed, x) + Generic(seed, Halves(x)) ELSE Generic(seed, x)] @@ <<>>

Transposed(array) == [x \in DOMAIN array |-> array[Halves(x)]] @@ <<>>

o == "occ"
v == "unocc"

ContextWith(seed) ==
  (Key("f", <<o, o>>) :> Real(2, <<o, o>>)) @@
  (Key("f", <<v, v>>) :> Real(3, <<v, v>>)) @@
  (Key("f", <<o, v>>) :> Real(5, <<o, v>>)) @@
  (Key("f", <<v, o>>) :> Transposed(Real(5, <<o, v>>))) @@
  (Key("g", <<o, o>>) :> Real(8, <<o, o>>)) @@
  (Key("g", <<o, o, v, v>>) :> Real(6, <<o, o, v, v>>)) @@
  (Key("g", <<o, v, o, v>>) :> Real(7, <<o, v, o, v>>)) @@
  (Key("h", <<o, v, v>>) :> [x \in Tuples(3) |-> Generic(2, x)] @@ <<>>) @@
  (Key("t", <<o, v>>) :> Real(seed, <<o, v>>)) @@
  (Key("t", <<v, o>>) :> Transposed(Real(seed, <<o, v>>))) @@
  (Key("t", <<o, o, v, v>>) :> Real(seed + 1, <<o, o, v, v>>))

Amplitudes == <<ContextWith(4), ContextWith(9)>>

A2 == T("A", <<i(1), i(2)>>, <<a(1), a(2)>>)
S2 == T("S", <<i(1), i(2)>>, <<a(1), a(2)>>)

g_vvoo == T("g", <<a(1), a(2)>>, <<i(1), i(2)>>)
t_vo   == T("t", <<a(1)>>, <<i(2)>>)
t_vvoo == T("t", <<a(2), a(3)>>, <<i(1), i(2)>>)

\* doubles with A, singles in two ways, doubles with S
Residuals == {
  Sum(<<Product(1, <<A2, g_vvoo>>), Product(-2, <<A2, T("f", <<a(1)>>, <<a(3)>>), t_vvoo>>)>>),
  Sum(<<Product(2, <<T("f", <<i(2)>>, <<i(1)>>), t_vo>>),
        Product(-1, <<T("g", <<i(2), a(2)>>, <<i(1), a(1)>>), T("t", <<a(2)>>, <<i(2)>>)>>),
        Product(3, <<t_vo, Sum(<<T("f", <<i(2)>>, <<i(1)>>),
                                 Product(2, <<T("f", <<i(2)>>, <<a(2)>>), T("t", <<a(2)>>, <<i(1)>>)>>)>>)>>)>>),
  Product(2, <<S2, T("f", <<a(1)>>, <<a(3)>>), T("t", <<a(3)>>, <<i(1)>>), T("t", <<a(2)>>, <<i(2)>>)>>)}

\* sums of leaves, products of products, a number, a sum that does not match,
\* an odd number of indices to symmetrize
Written == {
  Sum(<<T("g", <<i(1), i(2)>>, <<a(1), a(2)>>), Product(3, <<T("t", <<i(2), i(1)>>, <<a(1), a(2)>>)>>)>>),
  Product(2, <<T("f", <<i(1)>>, <<i(2)>>), Product(3, <<T("t", <<i(2)>>, <<a(2)>>), T("f", <<a(2)>>, <<a(1)>>)>>)>>),
  Product(2, <<Product(3, <<T("t", <<i(2)>>, <<a(2)>>), T("f", <<a(2)>>, <<a(1)>>)>>), T("f", <<i(1)>>, <<i(2)>>)>>),
  Product(1, <<T("f", <<i(1)>>, <<a(1)>>), T("t", <<a(1)>>, <<i(1)>>)>>),
  Sum(<<T("f", <<i(1)>>, <<a(1)>>), T("g", <<i(1), i(2)>>, <<a(1), a(2)>>)>>),
  Product(1, <<T("S", <<i(1)>>, <<a(1), a(2)>>), T("h", <<i(1)>>, <<a(1), a(2)>>)>>)}

Expressions ==
  {[expr |-> e, canonize |-> TRUE] : e \in Residuals \cup Written}
    \cup {[expr |-> e, canonize |-> FALSE] : e \in Written}
=============================================================================
