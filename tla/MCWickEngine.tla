---------------------------- MODULE MCWickEngine ----------------------------
(***************************************************************************)
(* Small inputs for the engine, built from the normal operators of coupled *)
(* cluster and of many-body perturbation theory: T_k and A_k create and    *)
(* annihilate k particle-hole pairs, H_k is a k-body operator over the     *)
(* complete space, F an occupied-occupied block.                           *)
(***************************************************************************)
EXTENDS WickCorrect, SequencesExt

Occ == {"occ"}
Uno == {"unocc"}
All == {"occ", "unocc"}

Cre(s) == [action |-> "create", space |-> s]
Ann(s) == [action |-> "annihilate", space |-> s]

T1 == <<Cre(Uno), Ann(Occ)>>
T2 == <<Cre(Uno), Cre(Uno), Ann(Occ), Ann(Occ)>>
A1 == <<Cre(Occ), Ann(Uno)>>
A2 == <<Cre(Occ), Cre(Occ), Ann(Uno), Ann(Uno)>>
H1 == <<Cre(All), Ann(All)>>
H2 == <<Cre(All), Cre(All), Ann(All), Ann(All)>>
F1 == <<Cre(Occ), Ann(Occ)>>
X1 == <<Cre(All)>>
Y1 == <<Ann(All)>>

\* what set_op_connections may be given for m nops
Targets(m) == SUBSET {t \in SUBSET (1..m) : Cardinality(t) = 2}

\* the input made of the sequence s of nops
Make(s, vacuum, target, partition, full, topology, countOnly) ==
  [ops |-> FlattenSeq(s),
   nop |-> [o \in 1..Len(FlattenSeq(s)) |->
              CHOOSE a \in 1..Len(s) :
                /\ Len(FlattenSeq(SubSeq(s, 1, a - 1))) < o
                /\ o <= Len(FlattenSeq(SubSeq(s, 1, a)))],
   nops |-> Len(s), vacuum |-> vacuum, target |-> target,
   partition |-> partition, full |-> full, topology |-> topology,
   countOnly |-> countOnly]

None(s) == [a \in 1..Len(s) |-> 0]

(***************************************************************************)
(* What set_op_partitions is given: like nops that commute (they only      *)
(* create or only annihilate quasiparticles) form a partition; partitions  *)
(* are numbered in the order of their first nops.                          *)
(***************************************************************************)
Alike(s) ==
  LET same(a)  == {b \in 1..Len(s) : s[b] = s[a]}
      first(a) == \A b \in same(a) : a <= b
      many     == {a \in 1..Len(s) : s[a] \in {T1, T2, A1, A2}
                                     /\ Cardinality(same(a)) > 1}
  IN  [a \in 1..Len(s) |->
         IF a \in many
         THEN Cardinality({f \in many : first(f) /\ \E b \in same(a) : f <= b})
         ELSE 0]

-----------------------------------------------------------------------------
\* full contractions, any connectivity
FullStrings ==
  {<<H1, H1>>, <<A1, T1>>, <<A1, H1, T1>>, <<H1, H1, H1>>, <<F1, H1, H1>>,
   <<H2, T2>>, <<A2, T2>>, <<H2, T1, T1>>, <<A1, H1, H1, T1>>, <<A2, H1, T2>>,
   <<X1, Y1>>, <<Y1, H1, X1>>, <<T1, A1>>}

ConstrainedInputs ==
  UNION {{Make(s, "SingleProduct", t, None(s), TRUE, FALSE, c) :
            t \in Targets(Len(s)), c \in BOOLEAN} : s \in FullStrings}

\* full contractions with topologically equivalent ops and nops
TopologyStrings ==
  {<<H2, T2>>, <<A2, T2>>, <<A1, T1>>, <<H2, T1, T1>>, <<A1, A1, T1, T1>>,
   <<A2, T1, T1>>, <<A1, A1, T2>>, <<H1, H1, H1>>, <<H1, H2, T1>>,
   <<A1, H2, T1, T1>>, <<A1, A1, T1, H1, T1>>, <<A2, H1, T2>>}

TopologyInputs ==
  {in \in UNION {{Make(s, "SingleProduct", t, p, TRUE, u, c) :
                     p \in {None(s), Alike(s)}, t \in Targets(3) \cap Targets(Len(s)),
                     u \in BOOLEAN, c \in BOOLEAN} : s \in TopologyStrings} :
     IsSymmetric(in)}

FullInputs == ConstrainedInputs \cup TopologyInputs

\* all contractions, partial ones included, with both vacua
PartialStrings ==
  {<<T1>>, <<A1, T1>>, <<H1, H1>>, <<A1, H1, T1>>, <<H1, H1, H1>>, <<Y1, X1>>,
   <<X1, Y1, X1, Y1>>, <<H2, T1>>, <<F1, T1, H1>>, <<A2, T2>>}

PartialInputs ==
  UNION {{Make(s, v, t, None(s), FALSE, FALSE, c) :
            v \in {"Physical", "SingleProduct"}, t \in Targets(Len(s)),
            c \in BOOLEAN} : s \in PartialStrings}

AllInputs == FullInputs \cup PartialInputs

\* two like operators that do not commute, which have a graph automorphism
NonCommutingInputs ==
  {Make(s, "SingleProduct", {}, [a \in 1..Len(s) |-> 1], TRUE, TRUE, FALSE) :
     s \in {<<H1, H1>>, <<H2, H2>>}}
=============================================================================
