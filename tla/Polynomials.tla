---------------------------- MODULE Polynomials ----------------------------
(***************************************************************************)
(* The free algebra over tensors, which commute with everything, and       *)
(* operators, which do not.  A polynomial maps words to nonzero complex    *)
(* coefficients; a word is the sorted sequence of its tensors and the      *)
(* sequence of its operators.  Letters are numbers; the adjoint of an even *)
(* one is the odd one after it.                                            *)
(***************************************************************************)
EXTENDS Integers, Sequences, TLC

PAdd(p, q) ==
  LET Coef(f, w) == IF w \in DOMAIN f THEN f[w] ELSE <<0, 0>>
      sum == [w \in DOMAIN p \cup DOMAIN q |->
                <<Coef(p, w)[1] + Coef(q, w)[1], Coef(p, w)[2] + Coef(q, w)[2]>>]
  IN [w \in {v \in DOMAIN sum : sum[v] # <<0, 0>>} |-> sum[w]]

PScale(p, c) ==
  LET all == [w \in DOMAIN p |-> <<p[w][1] * c[1] - p[w][2] * c[2],
                                   p[w][1] * c[2] + p[w][2] * c[1]>>]
  IN [w \in {v \in DOMAIN all : all[v] # <<0, 0>>} |-> all[w]]

PZero == [w \in {} |-> <<0, 0>>]

PNumber(c) == PScale([w \in {<<<<>>, <<>>>>} |-> <<1, 0>>], c)

Join(v, w) == <<SortSeq(v[1] \o w[1], <), v[2] \o w[2]>>

\* p times the single word w
PTimesWord(p, w) ==
  LET words == {Join(v, w) : v \in DOMAIN p}
  IN [u \in words |-> p[CHOOSE v \in DOMAIN p : Join(v, w) = u]]

RECURSIVE PMul(_, _)
PMul(p, q) ==
  IF DOMAIN q = {} THEN PZero
  ELSE LET w    == CHOOSE v \in DOMAIN q : TRUE
           rest == [v \in DOMAIN q \ {w} |-> q[v]]
       IN PAdd(PScale(PTimesWord(p, w), q[w]), PMul(p, rest))

Dagger(s) == [i \in DOMAIN s |-> IF s[i] % 2 = 0 THEN s[i] + 1 ELSE s[i] - 1]
PAdjoint(p) ==
  LET Adj(w) == <<SortSeq(Dagger(w[1]), <),
                  [i \in DOMAIN w[2] |-> Dagger(w[2])[Len(w[2]) + 1 - i]]>>
  IN [u \in {Adj(w) : w \in DOMAIN p} |->
        LET c == p[CHOOSE w \in DOMAIN p : Adj(w) = u] IN <<c[1], -c[2]>>]
=============================================================================
