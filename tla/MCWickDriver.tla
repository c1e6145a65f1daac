---------------------------- MODULE MCWickDriver ----------------------------
(***************************************************************************)
(* Products of up to six operators with generators of all kinds.          *)
(***************************************************************************)
EXTENDS WickDriver

T1 == <<[action |-> "create", space |-> {"unocc"}], [action |-> "annihilate", space |-> {"occ"}]>>

Repeat(s, n) == [k \in 1..n |-> s]

Permutation(n) == {f \in [1..n -> 1..n] : \A i, j \in 1..n : f[i] = f[j] => i = j}

\* permutations that are their own inverses
Involution(n) == {f \in Permutation(n) : \A i \in 1..n : f[f[i]] = i}

\* n like operators without a side of two indices
Plain(n, auts) == [nops |-> Repeat(T1, n), places |-> <<>>, auts |-> auts]

\* two like operators of which one side has two indices: vertices 1..4, 5 and 6
Wide(auts) ==
  [nops |-> Repeat(T1, 2),
   places |-> <<<<1, "bra">>, <<1, "bra">>, <<2, "bra">>, <<2, "bra">>>>,
   auts |-> auts]

\* one operator whose three indices are on one side, and an external index
Triple(auts) ==
  [nops |-> <<T1>>, places |-> <<<<1, "ket">>, <<1, "ket">>, <<0, "ket">>, <<1, "ket">>>>, auts |-> auts]

WideAuts == {<<2, 1, 3, 4, 5, 6>>, <<1, 2, 4, 3, 5, 6>>, <<3, 4, 1, 2, 6, 5>>,
             <<3, 4, 2, 1, 6, 5>>, <<2, 1, 4, 3, 5, 6>>}

TripleAuts == {<<2, 1, 3, 4, 5>>, <<2, 4, 3, 1, 5>>, <<1, 4, 3, 2, 5>>}

Products ==
  {Plain(0, <<>>)} \cup {Plain(2, a) : a \in SeqOf(Permutation(2), 2)}
    \cup {Plain(3, a) : a \in SeqOf(Permutation(3), 2)}
    \cup {Plain(4, a) : a \in SeqOf(Involution(4), 2)}
    \cup {Plain(6, <<<<2, 1, 4, 3, 6, 5>>, <<3, 4, 1, 2, 5, 6>>>>)}
    \cup {Wide(a) : a \in SeqOf(WideAuts, 2)}
    \cup {Triple(a) : a \in SeqOf(TripleAuts, 2)}

AllObjects ==
  {[kind |-> "product", products |-> <<e>>] : e \in Products}
    \cup {[kind |-> k, products |-> <<Plain(n, <<>>)>>] :
            k \in {"sequence", "sequence expression"}, n \in 2..3}
    \cup {[kind |-> "sum", products |-> <<Plain(n, a), e>>] :
            n \in 2..3, a \in {<<>>}, e \in {Plain(2, <<<<2, 1>>>>), Wide(<<>>)}}

Pairs == {{}, {{1, 2}}, {{2, 3}}, {{1, 2}, {1, 3}}}

Lists == {<<{1, 2}>>, <<{2}, {1}>>, <<{2}>>}
=============================================================================
