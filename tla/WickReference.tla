---------------------------- MODULE WickReference ----------------------------
(***************************************************************************)
(* Wick's theorem itself, written down without an algorithm: which sets of *)
(* contractions an input has, with which sign, and which of them are       *)
(* topologically equivalent.  The engine is checked against it.            *)
(***************************************************************************)
EXTENDS WickInput, FiniteSetsExt

Ends(M) == UNION {{p[1], p[2]} : p \in M}

\* sets of disjoint contractions between ops 1..k of different nops
Matchings(in) ==
  LET upTo[k \in 0..Len(in.ops)] ==
        IF k = 0 THEN {{}}
        ELSE upTo[k - 1] \cup
             {c[1] \cup {<<c[2], k>>} :
                c \in {d \in upTo[k - 1] \X (1..(k - 1)) :
                         /\ d[2] \notin Ends(d[1])
                         /\ in.nop[d[2]] # in.nop[k]
                         /\ CanContract(in, d[2], k)}}
  IN upTo[Len(in.ops)]

\* the contractions of M that join nops a and b
Joining(in, M, a, b) == {p \in M : {in.nop[p[1]], in.nop[p[2]]} = {a, b}}

\* the promise of set_op_connections: these pairs of nops are connected
IsConnected(in, M) == \A t \in in.target : \A a, b \in t :
                        a # b => Joining(in, M, a, b) # {}

IsComplete(in, M) == Ends(M) = AllOps(in)

(***************************************************************************)
(* What can still be made of a partial contraction: a nop it touches has   *)
(* at least one free op for every nop it must yet be connected to.         *)
(***************************************************************************)
MayConnect(in, M) ==
  \A a \in {in.nop[o] : o \in Ends(M)} :
    Cardinality({b \in Nops(in) : {a, b} \in in.target /\ Joining(in, M, a, b) = {}})
      <= Cardinality(OpsOf(in, a) \ Ends(M))

\* the sets of contractions the result has a term for
Contractions(in) ==
  IF in.full
  THEN {M \in Matchings(in) : IsComplete(in, M) /\ IsConnected(in, M)}
  ELSE {M \in Matchings(in) : MayConnect(in, M)}

-----------------------------------------------------------------------------
(***************************************************************************)
(* The sign of a term: the parity of the permutation that takes the ops    *)
(* from their order in the string to <<l1, r1, l2, r2, ..., rest>>, i.e.   *)
(* of the number of pairs of ops whose order it inverts.                   *)
(***************************************************************************)
\* the place of op o in that order: contracted ops by the left end of their
\* contraction, then the free ops
Place(in, M, o) ==
  IF o \in Ends(M)
  THEN LET p == CHOOSE q \in M : o \in {q[1], q[2]}
       IN  2 * p[1] + (IF o = p[2] THEN 1 ELSE 0)
  ELSE 2 * End(in) + o

Inversions(in, M) ==
  {c \in AllOps(in) \X AllOps(in) :
     c[1] < c[2] /\ Place(in, M, c[1]) > Place(in, M, c[2])}

Sign(in, M) == IF Cardinality(Inversions(in, M)) % 2 = 1 THEN -1 ELSE 1

-----------------------------------------------------------------------------
(***************************************************************************)
(* Topological equivalence.  With use_topology_, ops of one type in a nop  *)
(* are interchangeable; nops of one partition always are.                  *)
(***************************************************************************)
\* what op o is known by when interchangeable ops are not told apart
OpClass(in, o) ==
  LET same == {p \in OpsOf(in, in.nop[o]) : in.ops[p] = in.ops[o]}
  IN  <<in.ops[o], IF in.topology THEN 0 ELSE Cardinality({p \in same : p < o})>>

NopSymmetries(in) ==
  {s \in [Nops(in) -> Nops(in)] :
     /\ \A a, b \in Nops(in) : s[a] = s[b] => a = b
     /\ \A a \in Nops(in) : /\ in.partition[s[a]] = in.partition[a]
                            /\ in.partition[a] = 0 => s[a] = a}

\* how many contractions of M join each pair of classes, once nops move by s
Shape(in, M, s) ==
  LET class(o) == <<s[in.nop[o]], OpClass(in, o)>>
      pair(p)  == {class(p[1]), class(p[2])}
  IN  {<<pair(p), Cardinality({q \in M : pair(q) = pair(p)})>> : p \in M}

\* two sets of contractions are equivalent iff they have one orbit
Orbit(in, M) == {Shape(in, M, s) : s \in NopSymmetries(in)}

(***************************************************************************)
(* The partitions are symmetries of the input: the nops of one partition   *)
(* are alike, the required connections do not tell them apart, and moving  *)
(* them does not change the order of two nops that can be contracted.      *)
(***************************************************************************)
CanContractNops(in, a, b) ==
  \E l \in OpsOf(in, a), r \in OpsOf(in, b) : CanContract(in, l, r)

IsSymmetric(in) ==
  \A s \in NopSymmetries(in) :
    /\ {{s[a] : a \in t} : t \in in.target} = in.target
    /\ \A a \in Nops(in) :
         {OpClass(in, o) : o \in OpsOf(in, a)} = {OpClass(in, o) : o \in OpsOf(in, s[a])}
    /\ \A a, b \in Nops(in) : a < b /\ CanContractNops(in, a, b) => s[a] < s[b]
=============================================================================
