------------------------------ MODULE WickTerms ------------------------------
(***************************************************************************)
(* What WickTheorem promises about one product of normal operators: it     *)
(* delivers, one after another and in any order, terms that are sets of    *)
(* contractions of the input, none twice and each with the sign of Wick's  *)
(* theorem, and it stops only when every set of contractions is accounted  *)
(* for, equivalent ones being counted together.  With count_only it only   *)
(* announces how many terms there are.                                     *)
(***************************************************************************)
EXTENDS WickReference

VARIABLES
  inp,         \* the input
  delivered,   \* the terms delivered so far
  number,      \* the number of terms, when only counting
  finished     \* has compute() returned?

vars == <<inp, delivered, number, finished>>

Abs(i) == IF i < 0 THEN -i ELSE i

Orbits == {Orbit(inp, M) : M \in Contractions(inp)}

\* the terms T stand for every set of contractions exactly once
Covers(T) ==
  LET all   == {<<M, Orbit(inp, M)>> : M \in Contractions(inp)}
      given == {<<t, Orbit(inp, t.pairs)>> : t \in T}
  IN  \A orbit \in {c[2] : c \in all} :
        MapThenSumSet(LAMBDA g : Abs(g[1].scalar), {g \in given : g[2] = orbit})
          = Cardinality({c \in all : c[2] = orbit})

\* a set of contractions with its sign, standing for some equivalent ones
IsTerm(t) ==
  /\ t.pairs \in Contractions(inp)
  /\ t.rest = AllOps(inp) \ Ends(t.pairs)
  /\ t.scalar # 0
  /\ t.scalar = Sign(inp, t.pairs) * Abs(t.scalar)

Init == IsInput(inp) /\ delivered = {} /\ number = 0 /\ finished = FALSE

Deliver ==
  /\ ~finished /\ ~inp.countOnly
  /\ \E t \in delivered' \ delivered :
       /\ IsTerm(t)
       /\ \A u \in delivered : u.pairs # t.pairs
       /\ delivered' = delivered \cup {t}
  /\ UNCHANGED <<inp, number, finished>>

CountOne ==
  /\ ~finished /\ inp.countOnly
  /\ number' = number + 1
  /\ number' <= Cardinality(Contractions(inp))
  /\ UNCHANGED <<inp, delivered, finished>>

(***************************************************************************)
(* compute() returns.  The contraction-free term of partial contractions   *)
(* comes in the same step.  With topology, one term is counted for each    *)
(* set of equivalent contractions at least.                                *)
(***************************************************************************)
Stop ==
  /\ ~finished /\ finished' = TRUE
  /\ IF inp.countOnly
     THEN /\ number' = IF inp.full THEN number ELSE number + 1
          /\ number' \in Cardinality(Orbits)..Cardinality(Contractions(inp))
          /\ UNCHANGED delivered
     ELSE /\ delivered' = IF inp.full THEN delivered
                          ELSE delivered \cup {[scalar |-> 1, pairs |-> {},
                                                rest |-> AllOps(inp)]}
          /\ Covers(delivered')
          /\ UNCHANGED number
  /\ UNCHANGED inp

Next == Deliver \/ CountOne \/ Stop

Spec == Init /\ [][Next]_vars
=============================================================================
