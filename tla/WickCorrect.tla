----------------------------- MODULE WickCorrect -----------------------------
(***************************************************************************)
(* What the engine of WickTheorem computes, compared with Wick's theorem.  *)
(***************************************************************************)
EXTENDS WickEngine, WickReference

\* the terms found, as a set
Delivered == {result[i] : i \in DOMAIN result}

Terms == INSTANCE WickTerms
           WITH delivered <- Delivered, number <- count, finished <- (pc = "done")

(***************************************************************************)
(* The engine implements WickTerms: only contractions of the input are     *)
(* delivered, none twice, each with the sign of Wick's theorem, and when   *)
(* compute() returns every one is accounted for with its multiplicity.     *)
(***************************************************************************)
ImplementsTerms == Terms!Spec

\* no set of contractions has two terms
TermsAreDistinct ==
  \A i, j \in DOMAIN result : i # j => result[i].pairs # result[j].pairs

\* compute() returns
Terminates == <>(pc = "done")

(***************************************************************************)
(* num_useful_contractions counts the contractions made that led to a      *)
(* term: one for each distinct beginning of a term, contractions being     *)
(* made from the left.                                                     *)
(***************************************************************************)
Beginnings(M) == {{p \in M : p[1] <= q[1]} : q \in M}

UsefulAreBeginnings ==
  pc = "done" /\ inp.full /\ ~inp.countOnly =>
    useful = Cardinality(UNION {Beginnings(t.pairs) : t \in Delivered})

(***************************************************************************)
(* The promise of use_topology and set_op_partitions as documented:        *)
(* equivalent contractions are left out, none is lost.                     *)
(***************************************************************************)
NothingLost ==
  pc = "done" /\ ~inp.countOnly => Terms!Covers(Delivered)
=============================================================================
