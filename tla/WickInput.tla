------------------------------ MODULE WickInput ------------------------------
(***************************************************************************)
(* What WickTheorem is given: a sequence of normal operators, i.e. a flat  *)
(* string of creation and annihilation operators (Op) cut into normal      *)
(* operators (nops), with the options and constraints set before           *)
(* compute().  Ops are numbered 1..n from left to right and nops 1..m.     *)
(*                                                                         *)
(* An index space is abstracted to the set of base spaces it is made of:   *)
(* occupied orbitals and unoccupied orbitals of the vacuum's reference     *)
(* determinant.  This is all occupancy_class() and intersection() tell     *)
(* apart.  Op::TypeEquality compares action and space: the record itself.  *)
(***************************************************************************)
EXTENDS Integers, Sequences, FiniteSets

Occupied            == {"occ"}
CompleteUnoccupied  == {"unocc"}
NullSpace           == {}
IndexSpaces         == {{"occ"}, {"unocc"}, {"occ", "unocc"}}

Op == [action : {"create", "annihilate"}, space : IndexSpaces]

(***************************************************************************)
(* An input: the operators, the nop of each, the vacuum, the pairs of nops *)
(* that must be connected ({} when set_op_connections was not called), the *)
(* topological partition of each nop (0 for none), and the switches        *)
(* full_contractions_, use_topology_ and count_only.                       *)
(*                                                                         *)
(* Every nop holds an op, nops are contiguous and in order, partitions are *)
(* numbered without gaps (set_op_partitions does) and use_topology is only *)
(* accepted with full contractions.                                        *)
(***************************************************************************)
IsInput(in) ==
  /\ in = [ops |-> in.ops, nop |-> in.nop, nops |-> in.nops,
           vacuum |-> in.vacuum, target |-> in.target,
           partition |-> in.partition, full |-> in.full,
           topology |-> in.topology, countOnly |-> in.countOnly]
  /\ in.ops \in Seq(Op)
  /\ Len(in.ops) >= 1
  /\ in.nops \in Nat \ {0}
  /\ in.nop \in [1..Len(in.ops) -> 1..in.nops]
  /\ \A o, p \in 1..Len(in.ops) : o <= p => in.nop[o] <= in.nop[p]
  /\ \A a \in 1..in.nops : \E o \in 1..Len(in.ops) : in.nop[o] = a
  /\ in.vacuum \in {"Physical", "SingleProduct"}
  /\ \A t \in in.target : \E a, b \in 1..in.nops : a # b /\ t = {a, b}
  /\ in.partition \in [1..in.nops -> 0..in.nops]
  /\ \A a \in 1..in.nops : \A k \in 1..in.partition[a] :
        \E b \in 1..in.nops : in.partition[b] = k
  /\ in.full \in BOOLEAN
  /\ in.topology \in BOOLEAN
  /\ in.topology => in.full
  /\ in.countOnly \in BOOLEAN

AllOps(in)   == 1..Len(in.ops)
Nops(in)     == 1..in.nops
OpsOf(in, a) == {o \in AllOps(in) : in.nop[o] = a}
End(in)      == Len(in.ops) + 1          \* the end iterator of the flat view

\* the topological partitions: 1..n for some n, as partitions have no gaps
PartitionIds(in) == {in.partition[a] : a \in Nops(in)} \ {0}

-----------------------------------------------------------------------------
(***************************************************************************)
(* Quasiparticle classification of an op with respect to the vacuum.       *)
(***************************************************************************)
\* -1 if the space holds occupied states only, 1 if unoccupied only, 0 if both
OccupancyClass(space) ==
  CASE space = Occupied           -> -1
    [] space = CompleteUnoccupied -> 1
    [] OTHER                      -> 0

IsQpAnnihilator(op, vacuum) ==
  \/ vacuum = "Physical" /\ op.action = "annihilate"
  \/ /\ vacuum = "SingleProduct"
     /\ \/ OccupancyClass(op.space) >= 0 /\ op.action = "annihilate"
        \/ OccupancyClass(op.space) <= 0 /\ op.action = "create"

IsQpCreator(op, vacuum) ==
  \/ vacuum = "Physical" /\ op.action = "create"
  \/ /\ vacuum = "SingleProduct"
     /\ \/ OccupancyClass(op.space) <= 0 /\ op.action = "annihilate"
        \/ OccupancyClass(op.space) >= 0 /\ op.action = "create"

\* the part of the op's space on which it annihilates a quasiparticle
QpAnnihilatorSpace(op, vacuum) ==
  IF vacuum = "Physical"
  THEN IF op.action = "annihilate" THEN op.space ELSE NullSpace
  ELSE op.space \cap (IF op.action = "create" THEN Occupied
                                              ELSE CompleteUnoccupied)

\* the part of the op's space on which it creates a quasiparticle
QpCreatorSpace(op, vacuum) ==
  IF vacuum = "Physical"
  THEN IF op.action = "create" THEN op.space ELSE NullSpace
  ELSE op.space \cap (IF op.action = "annihilate" THEN Occupied
                                                  ELSE CompleteUnoccupied)

\* can op l contract with op r, l being to the left of r?
CanContract(in, l, r) ==
  LET left  == in.ops[l]
      right == in.ops[r]
  IN  /\ IsQpAnnihilator(left, in.vacuum)
      /\ IsQpCreator(right, in.vacuum)
      /\ QpAnnihilatorSpace(left, in.vacuum)
           \cap QpCreatorSpace(right, in.vacuum) # NullSpace
=============================================================================
