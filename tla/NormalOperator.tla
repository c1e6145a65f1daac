---------------------------- MODULE NormalOperator ----------------------------
(***************************************************************************)
(* A NormalOperator: creators, then annihilators, with a count of the      *)
(* creators and, once hug() was called, a HugenholtzVertex of the ops that *)
(* erase() and insert() keep up to date and adjoint() drops.               *)
(*                                                                         *)
(* An op is what Op::TypeEquality compares: its action and its type, the   *)
(* space of the index and of its proto-indices.                            *)
(***************************************************************************)
EXTENDS HugenholtzVertex

CONSTANTS
  Types,         \* the types of indices
  Replacements,  \* the <<old, new>> types of transform_indices' index maps
  MaxOps         \* bound on the number of ops

ASSUME NormalOperatorAssumption ==
  /\ Replacements \subseteq Types \X Types
  /\ MaxOps \in Nat

VARIABLES
  ops,           \* the ops
  ncreators,     \* ncreators_
  hug            \* *hug_, or NoHug

vars == <<ops, ncreators, hug>>

Op == [action : {"create", "annihilate"}, type : Types]

NoHug == [none |-> TRUE]

HasHug == hug # NoHug

IsCreator(op) == op.action = "create"

Dagger(op) == [op EXCEPT !.action = IF IsCreator(op) THEN "annihilate" ELSE "create"]

\* creators are to the left of annihilators
IsNormalOrdered(s) ==
  \A i, j \in DOMAIN s : i < j /\ IsCreator(s[j]) => IsCreator(s[i])

\* the ops of types ts[1], ts[2], ... with one action
Ops(action, ts) == [i \in 1..Len(ts) |-> [action |-> action, type |-> ts[i]]]

\* the constructors take the creators and the annihilators
Init ==
  \E cre, ann \in SeqOf(Types, MaxOps) :
    /\ Len(cre) + Len(ann) <= MaxOps
    /\ ops = Ops("create", cre) \o Ops("annihilate", Reverse(ann))
    /\ ncreators = Len(cre)
    /\ hug = NoHug

\* hug() makes the vertex when it is first asked for
Hug ==
  /\ ~HasHug
  /\ hug' = Vertex(ops)
  /\ UNCHANGED <<ops, ncreators>>

EraseCountsAll(i) ==           \* mutation: every op is counted as a creator
  /\ ncreators' = ncreators - 1
  /\ hug' = IF HasHug THEN Erase(hug, i) ELSE hug
  /\ ops' = RemoveAt(ops, i)

EraseAt(i) ==
  /\ ncreators' = IF IsCreator(ops[i]) THEN ncreators - 1 ELSE ncreators
  /\ hug' = IF HasHug THEN Erase(hug, i) ELSE hug
  /\ ops' = RemoveAt(ops, i)

\* the callers put ops in such that the string stays normal-ordered
InsertAtPlace(i, op) ==
  /\ IsNormalOrdered(InsertAt(ops, i, op))
  /\ ncreators' = IF IsCreator(op) THEN ncreators + 1 ELSE ncreators
  /\ ops' = InsertAt(ops, i, op)
  /\ hug' = IF HasHug THEN Insert(hug, i, op) ELSE hug

AdjointKeepsCount ==           \* mutation: ncreators_ is not updated
  /\ ops' = [i \in DOMAIN ops |-> Dagger(Reverse(ops)[i])]
  /\ hug' = NoHug
  /\ UNCHANGED ncreators

\* the ops are reversed and their actions changed
Adjoint ==
  /\ ops' = [i \in DOMAIN ops |-> Dagger(Reverse(ops)[i])]
  /\ hug' = NoHug
  /\ ncreators' = Len(ops) - ncreators

\* the indices of some ops are replaced; the vertex is left as it is
TransformIndices ==
  /\ \E new \in [DOMAIN ops -> Types] :
       /\ \A i \in DOMAIN ops : <<ops[i].type, new[i]>> \in Replacements
       /\ ops' = [i \in DOMAIN ops |-> [ops[i] EXCEPT !.type = new[i]]]
  /\ UNCHANGED <<ncreators, hug>>

Next ==
  \/ Hug
  \/ \E i \in DOMAIN ops : EraseAt(i)
  \/ /\ Len(ops) < MaxOps
     /\ \E i \in 1..(Len(ops) + 1), op \in Op : InsertAtPlace(i, op)
  \/ Adjoint
  \/ TransformIndices

Spec == Init /\ [][Next]_vars

-----------------------------------------------------------------------------
TypeOK ==
  /\ ops \in Seq(Op) /\ Len(ops) <= MaxOps
  /\ ncreators \in 0..Len(ops)
  /\ HasHug => hug \in Vertices(Op)

(***************************************************************************)
(* creators() and annihilators() take the first ncreators_ ops for the     *)
(* creators and the rest for the annihilators, after any calls.            *)
(***************************************************************************)
CreatorsAreFirst ==
  \A i \in DOMAIN ops : IsCreator(ops[i]) <=> i <= ncreators

(***************************************************************************)
(* hug() returns the representation of the operator as it is now: each op  *)
(* is in the group of the ops of its type, and no group holds anything     *)
(* else.  The assertions of HugenholtzVertex::erase and insert follow.     *)
(***************************************************************************)
HugIsCurrent ==
  HasHug =>
    /\ Len(hug.edgeToGroup) = Len(ops)
    /\ \A i \in DOMAIN ops : /\ hug.groups[hug.edgeToGroup[i]].edge = ops[i]
                             /\ Group(hug, i) = {j \in DOMAIN ops : ops[j] = ops[i]}
    /\ \A g \in DOMAIN hug.groups :
         hug.groups[g].members = {i \in DOMAIN ops : hug.edgeToGroup[i] = g}

(***************************************************************************)
(* An op that is erased and put back leaves no trace in the vertex, as the *)
(* backtracking search of WickTheorem relies on: the groups it looks at    *)
(* after a contraction was taken back are those from before.               *)
(***************************************************************************)
RestoreUndoesErase ==
  HasHug => \A i \in DOMAIN ops : Insert(Erase(hug, i), i, ops[i]) = hug

\* A group once made keeps its number and its edge as long as there is a vertex.
GroupsAreStable ==
  [][HasHug /\ hug' # NoHug =>
       \A g \in DOMAIN hug.groups :
         /\ g \in DOMAIN hug'.groups
         /\ hug'.groups[g].edge = hug.groups[g].edge]_vars
=============================================================================
