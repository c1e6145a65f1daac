--------------------------- MODULE HugenholtzVertex ---------------------------
(***************************************************************************)
(* HugenholtzVertex: a sequence of edges arranged into groups of equal     *)
(* ones.  A vertex is the record of edge_to_group_ and groups_; an edge is *)
(* what EdgeEquality compares.  Edges and groups are numbered from 1.      *)
(***************************************************************************)
EXTENDS Integers, SequencesExt

NoEdges == [edgeToGroup |-> <<>>, groups |-> <<>>]

Vertices(E) ==
  [edgeToGroup : Seq(Nat), groups : Seq([edge : E, members : SUBSET Nat])]

\* find_if over groups_: the first group of an edge, 0 if there is none
GroupOf(v, e) == SelectInSeq(v.groups, LAMBDA g : g.edge = e)

GroupFor(v, e) == IF GroupOf(v, e) = 0 THEN Len(v.groups) + 1 ELSE GroupOf(v, e)

\* edge i becomes a member of the group of e, which is made if need be
Enrol(v, i, e) ==
  IF GroupOf(v, e) = 0
  THEN Append(v.groups, [edge |-> e, members |-> {i}])
  ELSE [v.groups EXCEPT ![GroupOf(v, e)].members = @ \cup {i}]

\* the constructor
Vertex(edges) ==
  LET add[k \in 0..Len(edges)] ==
        IF k = 0 THEN NoEdges
        ELSE [edgeToGroup |-> Append(add[k - 1].edgeToGroup,
                                     GroupFor(add[k - 1], edges[k])),
              groups      |-> Enrol(add[k - 1], k, edges[k])]
  IN  add[Len(edges)]

\* every group with its members renumbered
Renumbered(groups, new(_)) ==
  [g \in DOMAIN groups |->
     [edge |-> groups[g].edge, members |-> {new(m) : m \in groups[g].members}]]

EraseOwnGroupOnly(v, i) ==     \* mutation: other groups keep their numbers
  [edgeToGroup |-> RemoveAt(v.edgeToGroup, i),
   groups |-> [v.groups EXCEPT ![v.edgeToGroup[i]].members =
                 {IF m >= i THEN m - 1 ELSE m : m \in @ \ {i}}]]

EraseGroups(v, i) ==           \* mutation: empty groups are erased
  LET erased == Renumbered([v.groups EXCEPT ![v.edgeToGroup[i]].members = @ \ {i}],
                           LAMBDA m : IF m >= i THEN m - 1 ELSE m)
  IN  [edgeToGroup |-> RemoveAt(v.edgeToGroup, i),
       groups      |-> SelectSeq(erased, LAMBDA g : g.members # {})]

\* groups are never erased
Erase(v, i) ==
  [edgeToGroup |-> RemoveAt(v.edgeToGroup, i),
   groups |-> Renumbered([v.groups EXCEPT ![v.edgeToGroup[i]].members = @ \ {i}],
                         LAMBDA m : IF m >= i THEN m - 1 ELSE m)]

InsertNoShift(v, i, e) ==      \* mutation: edge i keeps its number
  LET moved == [v EXCEPT !.groups =
                  Renumbered(v.groups, LAMBDA m : IF m > i THEN m + 1 ELSE m)]
  IN  [edgeToGroup |-> InsertAt(v.edgeToGroup, i, GroupFor(v, e)),
       groups      |-> Enrol(moved, i, e)]

\* edge e becomes edge i of a vertex with i - 1 edges at least
Insert(v, i, e) ==
  LET moved == [v EXCEPT !.groups =
                  Renumbered(v.groups, LAMBDA m : IF m >= i THEN m + 1 ELSE m)]
  IN  [edgeToGroup |-> InsertAt(v.edgeToGroup, i, GroupFor(v, e)),
       groups      |-> Enrol(moved, i, e)]

\* group(i): the edges equivalent to edge i
Group(v, i) == v.groups[v.edgeToGroup[i]].members
=============================================================================
