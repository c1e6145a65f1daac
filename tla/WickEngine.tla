----------------------------- MODULE WickEngine -----------------------------
(***************************************************************************)
(* The engine of WickTheorem: compute_nontensor_wick and the backtracking  *)
(* search recursive_nontensor_wick over NontensorWickState.  The recursion *)
(* is a state machine with an explicit call stack: a frame holds what one  *)
(* call keeps in its local variables while a nested call runs.             *)
(*                                                                         *)
(* A contraction removes two ops from the string and a return puts them    *)
(* back at the place they came from, so the string is the set "live" of    *)
(* the ops not contracted, in the order of their numbers.                  *)
(***************************************************************************)
EXTENDS WickInput

CONSTANT Inputs     \* the inputs and settings compute_nopseq is called with

ASSUME InputsAssumption == \A in \in Inputs : IsInput(in)

VARIABLES
  inp,         \* input_, op_connections_, op_topological_partition_, switches
  live,        \* state.opseq: the ops not contracted
  sp,          \* state.sp: scalar, and the contracted pairs <<left op, right op>>
  offset,      \* state.left_op_offset
  conn,        \* state.op_connections: the nops each nop is connected to
  adj,         \* state.adjacency_matrix, by unordered pair of nops
  nconn,       \* state.op_nconnections
  parts,       \* state.topological_partitions
  result,      \* the terms found so far
  count,       \* state.count
  attempted,   \* stats_.num_attempted_contractions
  useful,      \* stats_.num_useful_contractions
  left,        \* op_left_iter of the running call
  leftOffset,  \* left_op_offset of the running call
  right,       \* op_right_iter of the running call
  stack,       \* the suspended calls
  pc           \* "enter", "scan", "return" or "done"

state  == <<live, sp, conn, adj, nconn, parts>>
output == <<result, count, attempted, useful>>
cursor == <<left, leftOffset, right>>
vars   == <<inp, offset, stack, pc, state, output, cursor>>

NopPairs(in) == {t \in SUBSET Nops(in) : \E a, b \in Nops(in) : a # b /\ t = {a, b}}

-----------------------------------------------------------------------------
(***************************************************************************)
(* Iterators over the flat view of the ops.  \E x : IsNextLive(S, o, x)    *)
(* names the op after o in S, or the end.                                  *)
(***************************************************************************)
IsNextOrSame(S, o, x) ==      \* mutation: the iterator is not advanced
  /\ x \in S \cup {End(inp)}
  /\ x >= o
  /\ \A y \in S : y >= o => x <= y

IsNextLive(S, o, x) ==
  /\ x \in S \cup {End(inp)}
  /\ x > o
  /\ \A y \in S : y > o => x <= y

\* the op with k ops of "live" before it, or the end
IsAtOffset(k, x) ==
  /\ x \in live \cup {End(inp)}
  /\ Cardinality({y \in live : y < x}) = k

-----------------------------------------------------------------------------
(***************************************************************************)
(* Topological degeneracy of the right op: 0 if an equivalent contraction  *)
(* stands for this one, else the number of contractions it stands for.     *)
(***************************************************************************)
\* the Hugenholtz group of op o: the live ops of its nop with its type
HugGroup(o) ==
  {p \in live : inp.nop[p] = inp.nop[o] /\ inp.ops[p] = inp.ops[o]}

IsFirst(S, x) == \A y \in S : x <= y

OpDegeneracy(r) ==
  IF ~inp.topology THEN 1
  ELSE IF IsFirst(HugGroup(r), r) THEN Cardinality(HugGroup(r)) ELSE 0

\* the factor due to the nops equivalent to nop a
NopDegeneracy(a) ==
  LET p == inp.partition[a]
  IN  IF p = 0 THEN 1
      ELSE IF a \notin parts[p] THEN 1       \* already connected: unique
      ELSE IF IsFirst(parts[p], a) THEN Cardinality(parts[p]) ELSE 0

TopologicalDegeneracy(r) == OpDegeneracy(r) * NopDegeneracy(inp.nop[r])

-----------------------------------------------------------------------------
(***************************************************************************)
(* connect() and disconnect()                                              *)
(***************************************************************************)
Constrained == inp.target # {}

\* the nops that nop a must still be connected to, given connections c
Needs(a, c) == {b \in Nops(inp) : {a, b} \in inp.target} \ c[a]

Joined(a, b) == [conn EXCEPT ![a] = @ \cup {b}, ![b] = @ \cup {a}]

\* the number of ops of nop a left once one more of them is contracted
RemainWithThis(a) ==           \* mutation: the op itself is counted too
  Cardinality(live \cap OpsOf(inp, a))

Remain(a) == Cardinality(live \cap OpsOf(inp, a)) - 1

ConnectableRight(a, b) ==      \* mutation: only op1 is tested
  Constrained =>
    Cardinality(Needs(a, Joined(a, b))) <= Remain(a)

\* connect() accepts the contraction of two ops of the nops a and b
Connectable(a, b) ==
  Constrained =>
    \A c \in {a, b} : Cardinality(Needs(c, Joined(a, b))) <= Remain(c)

Connect(a, b) ==
  /\ IF Constrained
     THEN conn' = Joined(a, b) /\ adj' = [adj EXCEPT ![{a, b}] = @ + 1]
     ELSE UNCHANGED <<conn, adj>>
  /\ nconn' = [nconn EXCEPT ![a] = @ + 1, ![b] = @ + 1]
  /\ parts' = [p \in DOMAIN parts |->
                 parts[p] \ {c \in {a, b} : inp.partition[c] = p /\ nconn[c] = 0}]

DisconnectForgets(a, b) ==     \* mutation: no return to the partition
  /\ nconn' = [nconn EXCEPT ![a] = @ - 1, ![b] = @ - 1]
  /\ UNCHANGED parts
  /\ IF Constrained
     THEN /\ adj' = [adj EXCEPT ![{a, b}] = @ - 1]
          /\ conn' = IF adj[{a, b}] - 1 = 0
                     THEN [conn EXCEPT ![a] = @ \ {b}, ![b] = @ \ {a}]
                     ELSE conn
     ELSE UNCHANGED <<conn, adj>>

DisconnectAlways(a, b) ==      \* mutation: the bits are reset on any disconnect
  /\ nconn' = [nconn EXCEPT ![a] = @ - 1, ![b] = @ - 1]
  /\ parts' = [p \in DOMAIN parts |->
                 parts[p] \cup
                   {c \in {a, b} : inp.partition[c] = p /\ nconn[c] - 1 = 0}]
  /\ IF Constrained
     THEN /\ adj' = [adj EXCEPT ![{a, b}] = @ - 1]
          /\ conn' = [conn EXCEPT ![a] = @ \ {b}, ![b] = @ \ {a}]
     ELSE UNCHANGED <<conn, adj>>

Disconnect(a, b) ==
  /\ nconn' = [nconn EXCEPT ![a] = @ - 1, ![b] = @ - 1]
  /\ parts' = [p \in DOMAIN parts |->
                 parts[p] \cup
                   {c \in {a, b} : inp.partition[c] = p /\ nconn[c] - 1 = 0}]
  /\ IF Constrained
     THEN /\ adj' = [adj EXCEPT ![{a, b}] = @ - 1]
          /\ conn' = IF adj[{a, b}] - 1 = 0
                     THEN [conn EXCEPT ![a] = @ \ {b}, ![b] = @ \ {a}]
                     ELSE conn
     ELSE UNCHANGED <<conn, adj>>

-----------------------------------------------------------------------------
(***************************************************************************)
(* recursive_nontensor_wick                                                *)
(***************************************************************************)
\* full contractions are impossible if the first op is no qp annihilator
ReturnEarly ==
  /\ pc = "enter"
  /\ \E x \in live :
       /\ IsAtOffset(offset, x)
       /\ inp.full
       /\ ~IsQpAnnihilator(inp.ops[x], inp.vacuum)
  /\ pc' = "return"
  /\ UNCHANGED <<inp, offset, stack, state, output, cursor>>

\* no op is left for the left end of a further contraction
NoLeftOp ==
  /\ pc = "enter"
  /\ ~inp.full
  /\ IsAtOffset(offset, End(inp))
  /\ pc' = "return"
  /\ UNCHANGED <<inp, offset, stack, state, output, cursor>>

Enter ==
  /\ pc = "enter"
  /\ \E x \in live :
       /\ IsAtOffset(offset, x)
       /\ inp.full => IsQpAnnihilator(inp.ops[x], inp.vacuum)
       /\ left' = x
       /\ leftOffset' = offset
       /\ \E y \in live \cup {End(inp)} : IsNextLive(live, x, y) /\ right' = y
  /\ pc' = "scan"
  /\ UNCHANGED <<inp, offset, stack, state, output>>

Scanning == pc = "scan" /\ right # End(inp)

ContractibleAnywhere(l, r) ==  \* mutation: ops of one nop may be contracted
  /\ CanContract(inp, l, r)
  /\ TopologicalDegeneracy(r) > 0

Contractible(l, r) ==
  /\ inp.nop[l] # inp.nop[r]
  /\ CanContract(inp, l, r)
  /\ TopologicalDegeneracy(r) > 0

AdvanceRightTwice == right' = right + 2      \* mutation: advanced twice

AdvanceRight ==
  \E y \in live \cup {End(inp)} : IsNextLive(live, right, y) /\ right' = y

\* same nop, not contractible, or topologically equivalent to another
Skip ==
  /\ Scanning
  /\ ~Contractible(left, right)
  /\ AdvanceRight
  /\ UNCHANGED <<inp, offset, stack, pc, state, output, left, leftOffset>>

\* connect() returns false and leaves the state as it was
Refuse ==
  /\ Scanning
  /\ Contractible(left, right)
  /\ ~Connectable(inp.nop[right], inp.nop[left])
  /\ AdvanceRight
  /\ UNCHANGED <<inp, offset, stack, pc, state, output, left, leftOffset>>

PhaseByNumber(l, r) ==         \* mutation: places in the original string
  IF (r - l - 1) % 2 = 1 THEN -1 ELSE 1

\* -1 if the two ops are an odd number of places apart
Phase(l, r) ==
  IF Cardinality({y \in live : l < y /\ y < r}) % 2 = 1 THEN -1 ELSE 1

Term(product, rest) ==
  [scalar |-> product.scalar, pairs |-> product.pairs, rest |-> rest]

NestedFromFirst == 0           \* mutation: the nested call starts over

\* where the nested call looks for its left op
NestedOffset == leftOffset

Contract ==
  /\ Scanning
  /\ Contractible(left, right)
  /\ Connectable(inp.nop[right], inp.nop[left])
  /\ Connect(inp.nop[right], inp.nop[left])
  /\ sp' = [scalar |-> sp.scalar * (TopologicalDegeneracy(right) * Phase(left, right)),
            pairs  |-> sp.pairs \cup {<<left, right>>}]
  /\ attempted' = attempted + 1
  /\ live' = live \ {left, right}
  /\ IF ~inp.full \/ live' = {}
     THEN /\ IF inp.countOnly
             THEN count' = count + 1 /\ UNCHANGED result
             ELSE result' = Append(result, Term(sp', live')) /\ UNCHANGED count
          /\ useful' = useful + 1
     ELSE UNCHANGED <<result, count, useful>>
  /\ stack' = Append(stack, [left |-> left, leftOffset |-> leftOffset,
                             right |-> right, sp |-> sp, useful |-> useful'])
  /\ IF live' = {}
     THEN pc' = "return" /\ UNCHANGED offset     \* nothing to recurse into
     ELSE pc' = "enter" /\ offset' = NestedOffset
  /\ UNCHANGED <<inp, cursor>>

\* partial contractions only: the next left op
AdvanceLeft ==
  /\ pc = "scan"
  /\ right = End(inp)
  /\ ~inp.full
  /\ \E x \in live :
       /\ IsNextLive(live, left, x)
       /\ left' = x
       /\ \E y \in live \cup {End(inp)} : IsNextLive(live, x, y) /\ right' = y
  /\ leftOffset' = leftOffset + 1
  /\ UNCHANGED <<inp, offset, stack, pc, state, output>>

\* both loops are over
Return ==
  /\ pc = "scan"
  /\ right = End(inp)
  /\ inp.full \/ IsNextLive(live, left, End(inp))
  /\ pc' = "return"
  /\ UNCHANGED <<inp, offset, stack, state, output, cursor>>

UsefulAlways(f) == useful + 1   \* mutation: dead ends are counted too

\* a contraction is useful if the nested call found useful ones
UsefulAfter(f) == IF useful # f.useful THEN useful + 1 ELSE useful

IsSamePlace(S, o, y) == y = o  \* mutation: the right op is tried again

\* y is where the scan goes on after right op o was put back
IsResumePlace(S, o, y) == IsNextLive(S, o, y)

\* the caller takes its contraction back and goes on with the next right op
Restore ==
  /\ pc = "return"
  /\ stack # <<>>
  /\ LET f == stack[Len(stack)]
     IN  /\ useful' = UsefulAfter(f)
         /\ sp' = f.sp
         /\ live' = live \cup {f.left, f.right}
         /\ Disconnect(inp.nop[f.right], inp.nop[f.left])
         /\ left' = f.left
         /\ leftOffset' = f.leftOffset
         /\ \E y \in live' \cup {End(inp)} :
              IsResumePlace(live', f.right, y) /\ right' = y
  /\ stack' = SubSeq(stack, 1, Len(stack) - 1)
  /\ pc' = "scan"
  /\ UNCHANGED <<inp, offset, result, count, attempted>>

(***************************************************************************)
(* compute_nontensor_wick, after the search: the contraction-free term is  *)
(* added unless full contractions were asked for.                          *)
(***************************************************************************)
Finish ==
  /\ pc = "return"
  /\ stack = <<>>
  /\ IF inp.full THEN UNCHANGED <<result, count>>
     ELSE IF inp.countOnly THEN count' = count + 1 /\ UNCHANGED result
     ELSE /\ result' = Append(result, Term([scalar |-> 1, pairs |-> {}], AllOps(inp)))
          /\ UNCHANGED count
  /\ pc' = "done"
  /\ UNCHANGED <<inp, offset, stack, state, attempted, useful, cursor>>

Done == pc = "done" /\ UNCHANGED vars

-----------------------------------------------------------------------------
Init ==
  /\ inp \in Inputs
  /\ live = AllOps(inp)
  /\ sp = [scalar |-> 1, pairs |-> {}]
  /\ offset = 0
  /\ conn = [a \in Nops(inp) |-> {}]
  /\ adj = [t \in NopPairs(inp) |-> 0]
  /\ nconn = [a \in Nops(inp) |-> 0]
  /\ parts = [p \in PartitionIds(inp) |->
                {a \in Nops(inp) : inp.partition[a] = p}]
  /\ result = <<>>
  /\ count = 0 /\ attempted = 0 /\ useful = 0
  /\ left = 1 /\ leftOffset = 0 /\ right = 1
  /\ stack = <<>>
  /\ pc = "enter"

Next ==
  \/ ReturnEarly \/ NoLeftOp \/ Enter
  \/ Skip \/ Refuse \/ Contract \/ AdvanceLeft
  \/ Return \/ Restore \/ Finish \/ Done

\* compute() is a sequential call: it goes on as long as it has a step to take
Spec == Init /\ [][Next]_vars /\ WF_vars(Next)

-----------------------------------------------------------------------------
(***************************************************************************)
(* Invariants                                                              *)
(***************************************************************************)
Pairs == AllOps(inp) \X AllOps(inp)

Product == [scalar : Int, pairs : SUBSET Pairs]

TermRecord == [scalar : Int, pairs : SUBSET Pairs, rest : SUBSET AllOps(inp)]

Frame == [left : AllOps(inp), leftOffset : Nat, right : AllOps(inp),
          sp : Product, useful : Nat]

\* adj and nconn are size_t in the code: Bookkeeping says they never wrap
TypeOK ==
  /\ IsInput(inp)
  /\ live \in SUBSET AllOps(inp)
  /\ sp \in Product
  /\ offset \in Nat
  /\ conn \in [Nops(inp) -> SUBSET Nops(inp)]
  /\ adj \in [NopPairs(inp) -> Int]
  /\ nconn \in [Nops(inp) -> Int]
  /\ parts \in [PartitionIds(inp) -> SUBSET Nops(inp)]
  /\ result \in Seq(TermRecord)
  /\ count \in Nat /\ attempted \in Nat /\ useful \in Nat
  /\ left \in AllOps(inp) /\ leftOffset \in Nat
  /\ right \in AllOps(inp) \cup {End(inp)}
  /\ stack \in Seq(Frame)
  /\ pc \in {"enter", "scan", "return", "done"}

OpsIn(P) == UNION {{p[1], p[2]} : p \in P}

\* P is a set of contractions the vacuum allows, in which no op occurs twice
IsContraction(P) ==
  /\ \A p \in P : /\ p[1] < p[2]
                  /\ inp.nop[p[1]] # inp.nop[p[2]]
                  /\ CanContract(inp, p[1], p[2])
  /\ \A p, q \in P : p # q => {p[1], p[2]} \cap {q[1], q[2]} = {}

\* the contractions of P between nops a and b
Between(P, a, b) == {p \in P : {inp.nop[p[1]], inp.nop[p[2]]} = {a, b}}

(***************************************************************************)
(* The string and the prefactor always belong together: what was erased    *)
(* from one is contracted in the other, however deep the search has gone   *)
(* and come back.                                                          *)
(***************************************************************************)
StringMatchesPrefactor ==
  /\ IsContraction(sp.pairs)
  /\ live = AllOps(inp) \ OpsIn(sp.pairs)

(***************************************************************************)
(* The counters and bit sets that connect() and disconnect() update are at *)
(* all times those of the contractions in the prefactor, and the           *)
(* topological partitions hold exactly their free nops.  In particular no  *)
(* assertion of update_topology and disconnect fails and no counter wraps. *)
(***************************************************************************)
Bookkeeping ==
  /\ StringMatchesPrefactor
  /\ \A a \in Nops(inp) :
       nconn[a] = Cardinality(OpsOf(inp, a)) - Cardinality(live \cap OpsOf(inp, a))
  /\ \A p \in DOMAIN parts :
       parts[p] = {a \in Nops(inp) : inp.partition[a] = p /\ nconn[a] = 0}
  /\ Constrained =>
       \A a, b \in Nops(inp) : a # b =>
         /\ adj[{a, b}] = Cardinality(Between(sp.pairs, a, b))
         /\ b \in conn[a] <=> Between(sp.pairs, a, b) # {}

(***************************************************************************)
(* A nop that takes part in a contraction keeps enough free ops to reach   *)
(* every nop it must still be connected to: the search never walks into a  *)
(* branch in which set_op_connections cannot be honoured.                  *)
(***************************************************************************)
Connectability ==
  \A a \in Nops(inp) :
    nconn[a] > 0 =>
      Cardinality(Needs(a, conn)) <= Cardinality(live \cap OpsOf(inp, a))

(***************************************************************************)
(* Every term found is a set of contractions of the input, its normal      *)
(* operator is made of the ops left over, and there are none of these when *)
(* full contractions are asked for.                                        *)
(***************************************************************************)
TermsAreContractions ==
  \A i \in DOMAIN result :
    /\ IsContraction(result[i].pairs)
    /\ result[i].rest = AllOps(inp) \ OpsIn(result[i].pairs)
    /\ inp.full => result[i].rest = {}

(***************************************************************************)
(* set_op_connections: every term of a full contraction connects the pairs *)
(* of nops it was told to connect.                                         *)
(***************************************************************************)
TermsAreConnected ==
  inp.full =>
    \A i \in DOMAIN result :
      \A a, b \in Nops(inp) :
        a # b /\ {a, b} \in inp.target => Between(result[i].pairs, a, b) # {}
=============================================================================
