--------------------------- MODULE TensorNetwork ---------------------------
(***************************************************************************)
(* Products of tensors and their canonicalization: the order of tensors,   *)
(* the names of summation indices and the order of the indices of a tensor *)
(* with its sign.                                                          *)
(***************************************************************************)
EXTENDS Indices

CONSTANTS
  LabelOrder,  \* the labels of tensors, in the order of strings
  Cardinal     \* the cardinal labels, whose tensors come first

Tensor(label, symm, bra, ket) ==
  [label |-> label, symm |-> symm, bra |-> bra, ket |-> ket]

\* the tensors with indices of a set
Tensors(S) == [label : STRING, symm : {"antisymm", "symm", "nonsymm"}, bra : Seq(S), ket : Seq(S)]

IndicesOf(t)   == ToSet(t.bra) \cup ToSet(t.ket)
AllIndices(ts) == UNION {IndicesOf(t) : t \in ToSet(ts)}

TransformIndices(t, rules) ==
  [t EXCEPT !.bra = ReplacedIn(rules, @), !.ket = ReplacedIn(rules, @)]

-----------------------------------------------------------------------------
(***************************************************************************)
(* DefaultTensorCanonicalizer: bubble sorts of the indices, named ones     *)
(* first.  The swaps of a bubble sort are the inversions of the sequence.  *)
(***************************************************************************)
TaggedLess(named, i, j) ==
  IF (i \in named) = (j \in named) THEN IndexLess(i, j) ELSE i \in named

Swaps(named, seq) ==
  Cardinality({p \in (DOMAIN seq) \X (DOMAIN seq) :
                 p[1] < p[2] /\ TaggedLess(named, seq[p[2]], seq[p[1]])})

SortedIndices(named, seq) == SortedBy(seq, LAMBDA i, j : TaggedLess(named, i, j))

\* the particles with both a bra and a ket index, then the other indices
ColumnLess(named, c, d) ==
  \/ TaggedLess(named, c[1], d[1])
  \/ ~TaggedLess(named, d[1], c[1]) /\ TaggedLess(named, c[2], d[2])

Particles(t) == Min({Len(t.bra), Len(t.ket)})

Columns(t) == [k \in 1..Particles(t) |-> <<t.bra[k], t.ket[k]>>]

Rest(seq, k) == SubSeq(seq, k + 1, Len(seq))

SortedColumns(named, t) ==
  LET cols == SortedBy(Columns(t), LAMBDA c, d : ColumnLess(named, c, d))
  IN [t EXCEPT !.bra = [k \in DOMAIN cols |-> cols[k][1]]
                         \o SortedIndices(named, Rest(@, Particles(t))),
               !.ket = [k \in DOMAIN cols |-> cols[k][2]]
                         \o SortedIndices(named, Rest(@, Particles(t)))]

CanonicalTensor(named, t) ==
  CASE Len(t.bra) = 1 /\ Len(t.ket) = 1 -> t
    [] (Len(t.bra) # 1 \/ Len(t.ket) # 1) /\ t.symm # "nonsymm" ->
         [t EXCEPT !.bra = SortedIndices(named, @), !.ket = SortedIndices(named, @)]
    [] (Len(t.bra) # 1 \/ Len(t.ket) # 1) /\ t.symm = "nonsymm" ->
         SortedColumns(named, t)

PhaseOfBra(named, t) ==   \* mutation: swaps in the ket are not counted
  IF t.symm = "antisymm" /\ Swaps(named, t.bra) % 2 = 1 THEN -1 ELSE 1

Phase(named, t) ==
  IF t.symm = "antisymm" /\ (Swaps(named, t.bra) + Swaps(named, t.ket)) % 2 = 1
  THEN -1 ELSE 1

-----------------------------------------------------------------------------
(***************************************************************************)
(* The first order of the tensors: cardinal labels first, then by label,   *)
(* ranks and indices.                                                      *)
(***************************************************************************)
Place(label, seq) == SelectInSeq(seq, LAMBDA l : l = label)

TensorRank(t) ==
  <<IF Place(t.label, Cardinal) > 0 THEN Place(t.label, Cardinal)
    ELSE Len(Cardinal) + Place(t.label, LabelOrder),
    Len(t.bra), Len(t.ket)>> \o RanksOf(t.bra) \o RanksOf(t.ket)

TensorsSorted(ts) ==
  SortedBy(ts, LAMBDA t, u : LexLess(TensorRank(t), TensorRank(u)))

(***************************************************************************)
(* Edges: the terminals <<tensor, position>> an index is attached to, and  *)
(* their order.  The positions are 0 in tensors with a symmetry.           *)
(***************************************************************************)
Position(t, seq, i) ==
  IF t.symm = "nonsymm" THEN SelectInSeq(seq, LAMBDA j : j = i) - 1 ELSE 0

TerminalsIn(k, t, i) ==
  (IF i \in ToSet(t.bra) THEN <<<<k, Position(t, t.bra, i)>>>> ELSE <<>>) \o
  (IF i \in ToSet(t.ket) THEN <<<<k, Position(t, t.ket, i)>>>> ELSE <<>>)

Terminals(ts, i) == FlattenSeq([k \in DOMAIN ts |-> TerminalsIn(k, ts[k], i)])

Edge(e) == CASE Len(e) = 1 -> <<0, 0>> \o e[1]
             [] Len(e) = 2 /\ e[1][1] < e[2][1]  -> e[1] \o e[2]
             [] Len(e) = 2 /\ e[1][1] >= e[2][1] -> e[2] \o e[1]

EdgeRank(ts, i) == Edge(Terminals(ts, i))

Ends(ts, i) == {e \in (DOMAIN ts) \X {"bra", "ket"} : i \in ToSet(ts[e[1]][e[2]])}

Named(ts)     == {i \in AllIndices(ts) : Cardinality(Ends(ts, i)) = 1}
Anonymous(ts) == AllIndices(ts) \ Named(ts)

(***************************************************************************)
(* The orders of the members of a set within each of their kinds, such as  *)
(* the spaces of indices.                                                  *)
(***************************************************************************)
Orders(S) == {r \in [S -> 1..Cardinality(S)] : IsInjective(r)}

Rankings(S, Kind(_)) ==
  LET kinds  == {Kind(x) : x \in S}
      orders == [kind \in kinds |-> Orders({x \in S : Kind(x) = kind})]
  IN {[x \in S |-> choice[Kind(x)][x]] :
        choice \in {f \in [kinds -> UNION {orders[kind] : kind \in kinds}] :
                       \A kind \in kinds : f[kind] \in orders[kind]}}

\* new names of the anonymous indices, from 1 in each space
Renaming(named, ranking) ==
  [i \in DOMAIN ranking |-> NthIndex(named, 1, i.space, ranking[i])]

IndexRankings(ts) == Rankings(Anonymous(ts), LAMBDA i : i.space)

\* the fast approach: the order of the edges, ties in any order
FastRankings(ts) ==
  LET edge == [i \in Anonymous(ts) |-> EdgeRank(ts, i)]
  IN {r \in IndexRankings(ts) :
        \A i, j \in DOMAIN edge :
          i.space = j.space /\ LexLess(edge[i], edge[j]) => r[i] < r[j]}

-----------------------------------------------------------------------------
(***************************************************************************)
(* The slow approach: a canonical form of the graph whose vertices are the *)
(* indices, the tensors and their terminals.  The form is a matter of      *)
(* bliss: it is the same for isomorphic graphs.  With the indices and the  *)
(* tensors of a label ranked, the graph is the set of its edges: those of  *)
(* the bra and the ket of a tensor with a symmetry, or of the two vertices *)
(* of each particle.                                                       *)
(***************************************************************************)
VertexOf(r, i) == IF i \in DOMAIN r THEN <<0, SpaceRank(i.space), r[i]>>
                                    ELSE <<1, SpaceRank(i.space), i.n>>

VerticesOf(r, seq) == {VertexOf(r, i) : i \in ToSet(seq)}

Bundles(r, t) ==
  IF t.symm # "nonsymm" THEN {<<VerticesOf(r, t.bra), VerticesOf(r, t.ket)>>}
  ELSE {<<VerticesOf(r, SubSeq(t.bra, k, Min({k, Len(t.bra)}))),
          VerticesOf(r, SubSeq(t.ket, k, Min({k, Len(t.ket)})))>> :
            k \in 1..Max({Len(t.bra), Len(t.ket)})}

GraphUnsided(ts, r, q) ==   \* mutation: the bra is not told from the ket
  {<<ts[k].label, q[k], {ToSet(b) : b \in Bundles(r, ts[k])}>> : k \in DOMAIN ts}

Graph(ts, r, q) ==
  {<<ts[k].label, q[k], ts[k].symm # "nonsymm", Bundles(r, ts[k])>> : k \in DOMAIN ts}

Labellings(ts) ==
  IndexRankings(ts) \X Rankings(DOMAIN ts, LAMBDA k : ts[k].label)

CanonicalLabellings(ts) ==
  LET graph == [l \in Labellings(ts) |-> Graph(ts, l[1], l[2])]
      canonical == CHOOSE g \in {graph[l] : l \in DOMAIN graph} : TRUE
  IN {l \in DOMAIN graph : graph[l] = canonical}

\* the tensors of each label, which are c-numbers, in the places they have
Reordered(ts, q) ==
  [k \in DOMAIN ts |->
     LET alike == {m \in DOMAIN ts : ts[m].label = ts[k].label}
         nth   == Cardinality({m \in alike : m <= k})
     IN ts[CHOOSE m \in alike : q[m] = nth]]

-----------------------------------------------------------------------------
(***************************************************************************)
(* TensorNetwork::canonicalize: the tensors and their phase.               *)
(***************************************************************************)
Recanonized(named, ts) ==
  [t |-> [k \in DOMAIN ts |-> CanonicalTensor(named, ts[k])],
   c |-> FoldLeft(LAMBDA c, t : c * Phase(named, t), 1, ts)]

Renamed(ts, named, ranking) ==
  Recanonized(named, [k \in DOMAIN ts |->
                        TransformIndices(ts[k], Renaming(named, ranking))])

FastForms(ts) ==
  LET Of(sorted) == {Renamed(sorted, Named(ts), r) : r \in FastRankings(sorted)}
  IN Of(TensorsSorted(ts))

SlowForms(ts) ==
  LET Of(sorted) == {Renamed(Reordered(sorted, l[2]), Named(ts), l[1]) :
                       l \in CanonicalLabellings(sorted)}
  IN Of(TensorsSorted(ts))
=============================================================================
