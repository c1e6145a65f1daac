----------------------------- MODULE WickDriver -----------------------------
(***************************************************************************)
(* A WickTheorem object under the calls a user makes: the setters in any   *)
(* order, then compute(), then perhaps more of both.  The object is given  *)
(* a sequence of normal operators, an expression that is one, a product or *)
(* a sum of products.  For a product with use_topology(true), compute()    *)
(* turns the automorphisms of the product's graph into partitions of the   *)
(* operators.  Then the engine is called: "made" is what it was given.     *)
(***************************************************************************)
EXTENDS WickInput, SequencesExt

CONSTANTS
  Objects,         \* what WickTheorem is constructed with
  PairSets,        \* what set_op_connections is given, a pair being a set
  PartitionLists,  \* what set_op_partitions is given: sequences of sets
  MaxComputes,     \* bound on the calls of compute() that append to input_
  MaxDivisions     \* bound on the calls of set_op_partitions

(***************************************************************************)
(* A product: its normal operators, the place of each index (the operator, *)
(* 0 if there is none, and the side of it), and generators of its          *)
(* automorphism group.  The graph's vertices are the indices, then the     *)
(* operators, then others that are left out.                               *)
(***************************************************************************)
Indices(e)     == 1..Len(e.places)
NopVertices(e) == Len(e.places) + 1 .. Len(e.places) + Len(e.nops)
Vertices(e)    == Indices(e) \cup NopVertices(e)

IsProduct(e) ==
  /\ e.nops \in Seq(Seq(Op) \ {<<>>})
  /\ e.places \in Seq((0..Len(e.nops)) \X {"bra", "ket"})
  /\ e.auts \in Seq([Vertices(e) -> Vertices(e)])
  /\ \A i \in DOMAIN e.auts :
       /\ IsInjective(e.auts[i])
       /\ \A v \in NopVertices(e) : e.auts[i][v] \in NopVertices(e)

Kinds == {"sequence", "sequence expression", "product", "sum"}

\* a sequence has an operator: the largest partition of its operators is looked for
ASSUME ObjectsAssumption ==
  \A o \in Objects :
    /\ o.kind \in Kinds
    /\ \A k \in DOMAIN o.products : IsProduct(o.products[k])
    /\ 1 \in DOMAIN o.products
    /\ o.kind \in {"sequence", "sequence expression"} => o.products[1].nops # <<>>

\* a connection is one of two operators
ASSUME PairsAssumption ==
  \A pairs \in PairSets : \A p \in pairs : \E a, b \in p : a # b /\ p = {a, b}

\* a list of partitions: none is empty, disjoint, and of operators that are there
ASSUME ListsAssumption ==
  \A lists \in PartitionLists :
    /\ lists \in Seq((SUBSET Nat) \ {{}})
    /\ \A k, l \in DOMAIN lists : k # l => lists[k] \cap lists[l] = {}
    /\ \A o \in Objects : o.kind = "sequence" =>
         UNION Range(lists) \subseteq 1..Len(o.products[1].nops)

ASSUME BoundsAssumption == MaxComputes \in Nat /\ MaxDivisions \in Nat

VARIABLES
  object,      \* what the object was constructed with
  wt,          \* the object
  asked,       \* history: the connections that may be in force
  computes,    \* history: the number of calls of compute() that appended to input_
  divisions,   \* history: the number of calls of set_op_partitions
  made,        \* the calls of the engine by the latest compute()
  outcome      \* of the latest call: "returned", "threw" or "terminated"

vars == <<object, wt, asked, computes, divisions, made, outcome>>

HasExpr == object.kind # "sequence"

Init ==
  /\ object \in Objects
  /\ wt = [input       |-> IF object.kind = "sequence" THEN object.products[1].nops
                           ELSE <<>>,
           full        |-> TRUE,
           topology    |-> FALSE,
           spinfree    |-> FALSE,
           connections |-> {},      \* op_connections_: the pairs,
           entries     |-> 0,       \* and the operators it has an entry for
           cached      |-> {},      \* op_connections_input_
           partition   |-> <<>>]    \* op_topological_partition_
  /\ asked = {{}}
  /\ computes = 0 /\ divisions = 0
  /\ made = {}
  /\ outcome = "returned"

-----------------------------------------------------------------------------
(***************************************************************************)
(* The setters.                                                            *)
(***************************************************************************)
Set(w) ==
  /\ outcome # "terminated"
  /\ wt' = w
  /\ made' = {}
  /\ UNCHANGED <<object, computes>>

\* "currently is only supported if full contractions are requested"
FullContractions ==
  /\ ~wt.topology
  /\ \E fc \in BOOLEAN : Set([wt EXCEPT !.full = fc])
  /\ outcome' = "returned"
  /\ UNCHANGED <<asked, divisions>>

Spinfree ==
  /\ \E sf \in BOOLEAN : Set([wt EXCEPT !.spinfree = sf])
  /\ outcome' = "returned"
  /\ UNCHANGED <<asked, divisions>>

UseTopology ==
  /\ wt.full
  /\ \E ut \in BOOLEAN : Set([wt EXCEPT !.topology = ut])
  /\ outcome' = "returned"
  /\ UNCHANGED <<asked, divisions>>

OutOfRange(w, pairs) == \E p \in pairs : ~(p \subseteq 1..Len(w.input))

\* op_connections_ is resized to the operators there are now
Register(w, pairs) ==
  [w EXCEPT !.connections = IF pairs # {} THEN pairs ELSE @,
            !.entries     = IF pairs # {} THEN Len(w.input) ELSE @,
            !.cached      = {}]

\* before the operators are known the pairs are only kept for later
SetOpConnections(pairs) ==
  /\ IF HasExpr /\ wt.cached = {}
     THEN Set([wt EXCEPT !.cached = pairs]) /\ outcome' = "returned"
     ELSE IF OutOfRange(wt, pairs)
     THEN Set(wt) /\ outcome' = "threw"
     ELSE Set(Register(wt, pairs)) /\ outcome' = "returned"
  /\ asked' = CASE outcome' = "threw" -> asked
                [] pairs = {}         -> asked \cup {wt.connections}
                [] OTHER              -> {pairs}
  /\ UNCHANGED divisions

AssignedOnly(partition, lists) ==   \* mutation: the vector is not resized
  [a \in UNION Range(lists) |->
     CHOOSE k \in DOMAIN lists : a \in lists[k] /\ \A l \in DOMAIN lists : a \in lists[l] => l <= k]

\* op_topological_partition_ after set_op_partitions(lists)
Assigned(partition, lists) ==
  LET listed == UNION Range(lists)
  IN  [a \in 1..Max({Len(partition)} \cup listed) |->
         IF a \in listed
         THEN Max({k \in DOMAIN lists : a \in lists[k]})
         ELSE IF a \in DOMAIN partition THEN partition[a] ELSE 0]

\* for a sequence of operators; a product's partitions are computed
SetOpPartitions(lists) ==
  /\ ~HasExpr
  /\ divisions < MaxDivisions
  /\ Set([wt EXCEPT !.partition = Assigned(@, lists)])
  /\ divisions' = divisions + 1
  /\ outcome' = "returned"
  /\ UNCHANGED asked

-----------------------------------------------------------------------------
(***************************************************************************)
(* The partitions of the vertices of a graph under the generators of its   *)
(* automorphism group: "of" maps vertices to partitions, "last" is the     *)
(* largest partition so far.                                               *)
(***************************************************************************)
Emplaced(of, v, k) ==
  [u \in DOMAIN of \cup {v} |-> IF u \in DOMAIN of THEN of[u] ELSE k]

MergedNever(p, v1, v2) ==      \* mutation: two partitions are never merged
  IF v1 \in DOMAIN p.of /\ v2 \in DOMAIN p.of THEN p
  ELSE IF v1 \in DOMAIN p.of THEN [p EXCEPT !.of = Emplaced(@, v2, p.of[v1])]
  ELSE IF v2 \in DOMAIN p.of THEN [p EXCEPT !.of = Emplaced(@, v1, p.of[v2])]
  ELSE [of   |-> Emplaced(Emplaced(p.of, v1, p.last + 1), v2, p.last + 1),
        last |-> p.last + 1]

\* v1 and v2 are put into one partition
Merged(p, v1, v2) ==
  IF v1 \in DOMAIN p.of /\ v2 \in DOMAIN p.of
  THEN LET both == {p.of[v1], p.of[v2]}
       IN  [p EXCEPT !.of = [v \in DOMAIN p.of |->
                               IF p.of[v] \in both THEN Min(both) ELSE p.of[v]]]
  ELSE IF v1 \in DOMAIN p.of THEN [p EXCEPT !.of = Emplaced(@, v2, p.of[v1])]
  ELSE IF v2 \in DOMAIN p.of THEN [p EXCEPT !.of = Emplaced(@, v1, p.of[v2])]
  ELSE [of   |-> Emplaced(Emplaced(p.of, v1, p.last + 1), v2, p.last + 1),
        last |-> p.last + 1]

\* what the pair m of a vertex and its image does to the partitions
Taken(p, m, excluded) ==
  IF m[1] = m[2] \/ m \in excluded THEN p ELSE Merged(p, m[1], m[2])

\* the vertices of a kind, in their order
IndexOrder(e) == [k \in 1..Len(e.places) |-> k]
NopOrder(e)   == [k \in 1..Len(e.nops) |-> Len(e.places) + k]

\* the pairs <<v1, v2>> of vertices, in the order compute_partitions takes them
Mappings(auts, vertices) ==
  FlattenSeq([i \in DOMAIN auts |->
                [k \in DOMAIN vertices |-> <<vertices[k], auts[i][vertices[k]]>>]])

ComputePartitions(auts, vertices, excluded) ==
  FoldLeft(LAMBDA p, m : Taken(p, m, excluded),
           [of |-> <<>>, last |-> -1],
           Mappings(auts, vertices))

\* the operators of partition k
Members(e, p, k) == {v - Len(e.places) : v \in {u \in DOMAIN p.of : p.of[u] = k}}

NopListsWithGaps(e) ==         \* mutation: partitions merged away are kept
  LET p == ComputePartitions(e.auts, NopOrder(e), {})
  IN  [k \in 1..(p.last + 1) |-> Members(e, p, k - 1)]

\* the partitions of the operators, without gaps
NopLists(e) ==
  LET p == ComputePartitions(e.auts, NopOrder(e), {})
  IN  FlattenSeq([k \in 1..(p.last + 1) |->
                    IF Members(e, p, k - 1) = {} THEN <<>> ELSE <<Members(e, p, k - 1)>>])

\* indices are compared only if they are on one side of one operator
ExcludedIndices(e) ==
  {m \in Indices(e) \X Indices(e) :
     e.places[m[1]][1] = 0 \/ e.places[m[1]] # e.places[m[2]]}

\* the sides of operators that have more than one index
WideSides(e) ==
  {S \in {{i \in Indices(e) : e.places[i] = p} : p \in {q \in Range(e.places) : q[1] # 0}} :
     Cardinality(S) > 1}

MissingIgnored(e) ==           \* mutation: an index in no partition is passed over
  LET p == ComputePartitions(e.auts, IndexOrder(e), ExcludedIndices(e))
  IN  \A S \in WideSides(e) : \A i, j \in S \cap DOMAIN p.of : p.of[i] = p.of[j]

\* each side has all its indices in one partition
TopologyApplies(e) ==
  LET p == ComputePartitions(e.auts, IndexOrder(e), ExcludedIndices(e))
  IN  \A S \in WideSides(e) :
        /\ S \subseteq DOMAIN p.of
        /\ \A i, j \in S : p.of[i] = p.of[j]

-----------------------------------------------------------------------------
(***************************************************************************)
(* compute().  The result of a part of it: the object afterwards, whether  *)
(* an exception was thrown, and the calls of the engine.                   *)
(***************************************************************************)
Returns(w, calls) == [wt |-> w, threw |-> FALSE, calls |-> calls]
Throws(w)         == [wt |-> w, threw |-> TRUE, calls |-> {}]

\* as many zeros are appended as there are operators that have no entry
Upsized(partition, n) ==
  [a \in 1..Max({n, Len(partition)}) |-> IF a <= Len(partition) THEN partition[a] ELSE 0]

EngineCall(w, e) ==
  [product |-> e, nops |-> w.input, target |-> w.connections, entries |-> w.entries,
   partition |-> w.partition, full |-> w.full, topology |-> w.topology]

NopseqNoCache(w, e) ==         \* mutation: cached connections are not registered
  IF w.spinfree THEN Throws(w)
  ELSE LET ready == [w EXCEPT !.partition = Upsized(@, Len(w.input))]
       IN  Returns(ready, {EngineCall(ready, e)})

\* compute_nopseq; e is the product w was given
ComputeNopseq(w, e) ==
  IF w.spinfree \/ (w.cached # {} /\ OutOfRange(w, w.cached)) THEN Throws(w)
  ELSE LET known == IF w.cached # {} THEN Register(w, w.cached) ELSE w
           ready == [known EXCEPT !.partition = Upsized(@, Len(w.input))]
       IN  Returns(ready, {EngineCall(ready, e)})

ComputeProduct(w, e) ==
  IF e.nops = <<>> THEN Returns(w, {})     \* nothing to contract
  ELSE LET divided == IF w.topology /\ NopLists(e) # <<>>
                      THEN [w EXCEPT !.partition = Assigned(@, NopLists(e))]
                      ELSE w
       IN  IF w.topology /\ ~TopologyApplies(e) THEN Throws(divided)
           ELSE ComputeNopseq([divided EXCEPT !.input = @ \o e.nops], e)

Finish(r) ==
  /\ wt' = r.wt
  /\ made' = r.calls
  /\ outcome' = IF r.threw THEN "threw" ELSE "returned"

ComputeOneAppends ==           \* mutation: a sequence is appended, as a product is
  LET e == object.products[1]
  IN  \/ object.kind = "sequence" /\ Finish(ComputeNopseq(wt, e))
      \/ /\ object.kind = "sequence expression"
         /\ Finish(ComputeNopseq([wt EXCEPT !.input = @ \o e.nops], e))
      \/ object.kind = "product" /\ Finish(ComputeProduct(wt, e))

\* the operators of a product are appended to input_, a sequence replaces it
ComputeOne ==
  LET e == object.products[1]
  IN  \/ object.kind = "sequence" /\ Finish(ComputeNopseq(wt, e))
      \/ /\ object.kind = "sequence expression"
         /\ Finish(ComputeNopseq([wt EXCEPT !.input = e.nops], e))
      \/ object.kind = "product" /\ Finish(ComputeProduct(wt, e))

(***************************************************************************)
(* Each summand is computed by a copy of the object.  An exception leaves  *)
(* compute() or ends the program, and some summands may not be computed.   *)
(***************************************************************************)
ComputeSum ==
  /\ object.kind = "sum"
  /\ LET results == {ComputeProduct(wt, object.products[k]) : k \in DOMAIN object.products}
         calls   == UNION {r.calls : r \in results}
     IN  IF \E r \in results : r.threw
         THEN /\ made' \in SUBSET calls
              /\ outcome' \in {"threw", "terminated"}
         ELSE /\ made' = calls
              /\ outcome' = "returned"
  /\ UNCHANGED wt

Compute ==
  /\ outcome # "terminated"
  /\ object.kind = "product" => computes < MaxComputes
  /\ ComputeOne \/ ComputeSum
  /\ computes' = IF object.kind = "product" /\ wt'.input # wt.input THEN computes + 1 ELSE computes
  /\ UNCHANGED <<object, asked, divisions>>

Terminated == outcome = "terminated" /\ UNCHANGED vars

Next ==
  \/ FullContractions \/ Spinfree \/ UseTopology
  \/ \E pairs \in PairSets : SetOpConnections(pairs)
  \/ \E lists \in PartitionLists : SetOpPartitions(lists)
  \/ Compute \/ Terminated

Spec == Init /\ [][Next]_vars

-----------------------------------------------------------------------------
TypeOK ==
  /\ wt.input \in Seq(Seq(Op))
  /\ wt.full \in BOOLEAN /\ wt.topology \in BOOLEAN /\ wt.spinfree \in BOOLEAN
  /\ wt.connections \in PairSets \cup {{}}
  /\ wt.entries \in Nat
  /\ wt.cached \in PairSets \cup {{}}
  /\ DOMAIN wt.partition = 1..Cardinality(DOMAIN wt.partition)
  /\ Range(wt.partition) \subseteq Nat
  /\ computes \in 0..MaxComputes /\ divisions \in 0..MaxDivisions
  /\ outcome \in {"returned", "threw", "terminated"}

(***************************************************************************)
(* What wick.hpp says: compute() is the result of applying Wick's theorem  *)
(* to what the object was constructed with, and the options control the    *)
(* next call.  So the engine is given the operators of the product or      *)
(* sequence, whatever was called, and computed, before.  It holds up to    *)
(* the first call of compute() that appends a product's operators.         *)
(***************************************************************************)
InputIsTheProduct == \A c \in made : c.nops = c.product.nops

(***************************************************************************)
(* What the engine is given instead, whatever was called, computed and     *)
(* aborted before: the operators of the product once for every call of     *)
(* compute() that appended them, a call that threw afterwards included.    *)
(* The operators of a sequence or of a summand are given once, always.     *)
(***************************************************************************)
AppendedTimes(s, n) == FlattenSeq([k \in 1..n |-> s])

InputIsAccumulated ==
  \A c \in made :
    c.nops = IF object.kind = "product" THEN AppendedTimes(c.product.nops, computes)
             ELSE c.product.nops

(***************************************************************************)
(* The connections in force are those of the last successful call of       *)
(* set_op_connections, whether they were registered at once or kept until  *)
(* the operators were known.  A call with no pairs may drop those kept,    *)
(* which brings back the ones that were registered before.                 *)
(***************************************************************************)
ConnectionsAreHonoured == \A c \in made : c.target \in asked

\* v and w are equivalent: every set the generators map to itself has both or none
SameOrbit(auts, S, v, w) ==
  \A closed \in SUBSET S :
    (\A i \in DOMAIN auts : {auts[i][u] : u \in closed} = closed) =>
      (v \in closed <=> w \in closed)

(***************************************************************************)
(* Two operators of a product are in one partition only if an automorphism *)
(* takes one to the other, however the generators are chosen and ordered;  *)
(* with use_topology(true) all such operators are.                         *)
(***************************************************************************)
PartitionsAreOrbits ==
  \A c \in made : object.kind \in {"product", "sum"} =>
    \A v, w \in NopVertices(c.product) : v # w =>
      LET a         == v - Len(c.product.places)
          b         == w - Len(c.product.places)
          together  == c.partition[a] # 0 /\ c.partition[a] = c.partition[b]
          alike     == SameOrbit(c.product.auts, NopVertices(c.product), v, w)
      IN  /\ together => alike
          /\ c.topology /\ alike => together

(***************************************************************************)
(* With use_topology(true) the engine takes all ops of one type in an      *)
(* operator for equivalent.  compute() goes on only if an automorphism     *)
(* takes any index of a side of an operator to any other.                  *)
(***************************************************************************)
IndexCheckIsSound ==
  \A c \in made : object.kind \in {"product", "sum"} /\ c.topology =>
    \A S \in WideSides(c.product) : \A i, j \in S :
      SameOrbit(c.product.auts, Indices(c.product), i, j)

\* what the engine's model takes for its input
EngineInput(c) ==
  LET ops == FlattenSeq(c.nops)
  IN  [ops |-> ops,
       nop |-> FlattenSeq([a \in DOMAIN c.nops |-> [o \in DOMAIN c.nops[a] |-> a]]),
       nops |-> Len(c.nops), vacuum |-> "SingleProduct", target |-> c.target,
       partition |-> c.partition, full |-> c.full, topology |-> c.topology,
       countOnly |-> FALSE]

(***************************************************************************)
(* The engine's preconditions hold at every call: connections name pairs   *)
(* of its operators, every operator has a partition, and no partition is   *)
(* empty, which NontensorWickState asserts.  op_connections_ is empty or   *)
(* has an entry for every operator, which connect() does not check, up to  *)
(* the second time compute() appends the operators of a product: then      *)
(* connections registered before have too few entries.                     *)
(***************************************************************************)
EngineInputIsValid ==
  \A c \in made : /\ IsInput(EngineInput(c))
                  /\ computes <= 1 => c.entries \in {0, Len(c.nops)}
=============================================================================
