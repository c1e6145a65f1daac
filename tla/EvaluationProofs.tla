--------------------------- MODULE EvaluationProofs ---------------------------
(***************************************************************************)
(* Proofs about evaluation trees: the hash of every node is that of its    *)
(* operands, whatever labels were exchanged, and the operations counted    *)
(* are the terms an evaluation adds up.                                    *)
(***************************************************************************)
EXTENDS Evaluation, DataInduction

-----------------------------------------------------------------------------
(***************************************************************************)
(* Trees.  The nodes of a subtree are an interval that ends with its root: *)
(* first[n] is where that of n begins.                                     *)
(***************************************************************************)
LeafFields  == {"op", "left", "right", "scalar", "tensor", "swapped", "indices", "hash"}
InnerFields == {"op", "left", "right", "scalar", "indices", "hash"}
Operations  == {"sum", "product", "antisymmetrize", "symmetrize"}

IsLeaf(x) ==
  /\ DOMAIN x = LeafFields /\ x.op = "leaf"
  /\ x.tensor \in Tensors /\ x.swapped \in BOOLEAN
  /\ x.indices = LeafIndices(x.tensor, x.swapped)

IsInner(x) == DOMAIN x = InnerFields /\ x.op \in Operations

IndicesDiffer(x) == x.indices \in Seq(Indices) /\ IsInjective(x.indices)

IsSequence(s) == Len(s) \in Nat /\ s = [k \in 1..Len(s) |-> s[k]]

Names(x) == ToSet(x.indices)

Parted(tree, first) ==
  /\ first \in [DOMAIN tree -> DOMAIN tree]
  /\ first[Len(tree)] = 1
  /\ \A n \in DOMAIN tree :
       /\ first[n] <= n
       /\ tree[n].op = "leaf" => first[n] = n
       /\ tree[n].op # "leaf" =>
            /\ n - 1 \in DOMAIN tree /\ tree[n].right = n - 1
            /\ tree[n].left = first[n - 1] - 1 /\ tree[n].left \in DOMAIN tree
            /\ first[n] = first[tree[n].left]

HashesAreCurrent(tree) ==
  \A n \in DOMAIN tree : tree[n].op # "leaf" =>
    tree[n].hash = NodeHash(tree[n].op, tree[n].indices,
                             tree[tree[n].left], tree[tree[n].right])

ContractedOnce(tree) ==
  \A n \in DOMAIN tree : tree[n].op = "product" =>
    LET l == Names(tree[tree[n].left])
        r == Names(tree[tree[n].right])
    IN Names(tree[n]) = (l \ r) \cup (r \ l)

IsTree(tree) ==
  /\ IsSequence(tree) /\ Len(tree) >= 1
  /\ \A n \in DOMAIN tree : (IsLeaf(tree[n]) \/ IsInner(tree[n])) /\ IndicesDiffer(tree[n])
  /\ \E first : Parted(tree, first)
  /\ HashesAreCurrent(tree)
  /\ ContractedOnce(tree)

-----------------------------------------------------------------------------
LEMMA SequenceOf ==
  ASSUME NEW n \in Nat, NEW s, s = [k \in 1..n |-> s[k]]
  PROVE  IsSequence(s) /\ Len(s) = n /\ DOMAIN s = 1..n
<1>1. s \in Seq({s[k] : k \in 1..n})
  OBVIOUS
<1>2. Len(s) = n /\ DOMAIN s = 1..n
  BY <1>1
<1>. QED
  BY <1>2 DEF IsSequence

LEMMA SequenceIn ==
  ASSUME NEW s, IsSequence(s)
  PROVE  /\ DOMAIN s = 1..Len(s) /\ Len(s) \in Nat
         /\ \E S : s \in Seq(S)
<1>1. Len(s) \in Nat /\ s = [k \in 1..Len(s) |-> s[k]]
  BY DEF IsSequence
<1>2. s \in Seq({s[k] : k \in 1..Len(s)})
  BY <1>1
<1>3. DOMAIN s = 1..Len(s)
  BY <1>1
<1>. QED
  BY <1>1, <1>2, <1>3

LEMMA SequenceFrom ==
  ASSUME NEW S, NEW s \in Seq(S)
  PROVE  IsSequence(s) /\ DOMAIN s = 1..Len(s) /\ \A k \in 1..Len(s) : s[k] \in S
<1>1. Len(s) \in Nat /\ s \in [1..Len(s) -> S]
  OBVIOUS
<1>. QED
  BY <1>1 DEF IsSequence

LEMMA Concatenated ==
  ASSUME NEW s, NEW t, IsSequence(s), IsSequence(t)
  PROVE  /\ IsSequence(s \o t) /\ Len(s \o t) = Len(s) + Len(t)
         /\ \A k \in 1..Len(s) : (s \o t)[k] = s[k]
         /\ \A k \in 1..Len(t) : (s \o t)[Len(s) + k] = t[k]
<1>1. PICK S : s \in Seq(S)
  BY SequenceIn
<1>2. PICK T : t \in Seq(T)
  BY SequenceIn
<1>3. s \in Seq(S \cup T) /\ t \in Seq(S \cup T)
  BY <1>1, <1>2
<1>4. s \o t \in Seq(S \cup T) /\ Len(s \o t) = Len(s) + Len(t)
  BY <1>3
<1>5. IsSequence(s \o t)
  BY <1>4, SequenceFrom
<1>. QED
  BY <1>3, <1>4, <1>5

LEMMA Appended ==
  ASSUME NEW s, IsSequence(s), NEW x
  PROVE  /\ IsSequence(Append(s, x)) /\ Len(Append(s, x)) = Len(s) + 1
         /\ \A k \in 1..Len(s) : Append(s, x)[k] = s[k]
         /\ Append(s, x)[Len(s) + 1] = x
<1>1. PICK S : s \in Seq(S)
  BY SequenceIn
<1>2. s \in Seq(S \cup {x})
  BY <1>1
<1>3. Append(s, x) \in Seq(S \cup {x}) /\ Len(Append(s, x)) = Len(s) + 1
  BY <1>2
<1>4. IsSequence(Append(s, x))
  BY <1>3, SequenceFrom
<1>. QED
  BY <1>2, <1>3, <1>4

-----------------------------------------------------------------------------
(***************************************************************************)
(* Sets of indices in their order.                                         *)
(***************************************************************************)
LEMMA LessIsAnOrder ==
  /\ \A i, j \in Indices : i # j => Less(i, j) \/ Less(j, i)
  /\ \A i \in Indices : ~Less(i, i)
  /\ \A i, j, k \in Indices : Less(i, j) /\ Less(j, k) => Less(i, k)
BY DEF Less, Indices

LEMMA SortedIs ==
  ASSUME NEW S \in SUBSET Indices, IsFiniteSet(S)
  PROVE  /\ Sorted(S) \in Seq(Indices) /\ Len(Sorted(S)) = Cardinality(S)
         /\ IsInjective(Sorted(S)) /\ ToSet(Sorted(S)) = S
<1>. DEFINE n == Cardinality(S)
            Below(i) == {j \in S : Less(j, i)}
            b == [i \in S |-> Cardinality(Below(i)) + 1]
<1>1. n \in Nat /\ IsFiniteSet(1..n) /\ Cardinality(1..n) = n
  BY FS_CardinalityType, FS_Interval
<1>2. ASSUME NEW i \in S
      PROVE  b[i] \in 1..n /\ IsFiniteSet(Below(i)) /\ Cardinality(Below(i)) \in Nat
  <2>1. Below(i) \in SUBSET (S \ {i})
    BY LessIsAnOrder
  <2>2. IsFiniteSet(S \ {i}) /\ Cardinality(S \ {i}) = n - 1
    BY FS_RemoveElement
  <2>3. IsFiniteSet(Below(i)) /\ Cardinality(Below(i)) <= n - 1
    BY <2>1, <2>2, FS_Subset
  <2>4. Cardinality(Below(i)) \in Nat
    BY <2>3, FS_CardinalityType
  <2>. QED
    BY <1>1, <2>3, <2>4
<1>3. ASSUME NEW i \in S, NEW j \in S, Less(i, j)
      PROVE  b[i] < b[j]
  <2>1. Below(i) \subseteq Below(j) \ {i}
    BY <1>3, LessIsAnOrder
  <2>2. i \in Below(j)
    BY <1>3
  <2>3. IsFiniteSet(Below(j) \ {i}) /\ Cardinality(Below(j) \ {i}) = Cardinality(Below(j)) - 1
    BY <1>2, <2>2, FS_RemoveElement
  <2>4. Cardinality(Below(i)) <= Cardinality(Below(j)) - 1
    BY <2>1, <2>3, FS_Subset
  <2>. QED
    BY <1>2, <2>4
<1>4. \A i, j \in S : i # j => b[i] # b[j]
  BY <1>2, <1>3, LessIsAnOrder
<1>5. b \in Surjection(S, 1..n)
  <2>1. b \in [S -> 1..n]
    BY <1>2
  <2>2. b \in Injection(S, 1..n)
    BY <1>4, <2>1 DEF Injection, IsInjective
  <2>. QED
    BY <1>1, <2>2, FS_Injection
<1>6. \A k \in 1..n : \E i \in S : b[i] = k
  BY <1>5 DEF Surjection
<1>7. \A k \in 1..n : Sorted(S)[k] \in S /\ b[Sorted(S)[k]] = k
  <2>1. ASSUME NEW k \in 1..n
        PROVE  Sorted(S)[k] \in S /\ b[Sorted(S)[k]] = k
    <3>1. PICK i \in S : b[i] = k
      BY <1>6
    <3>2. Cardinality(Below(i)) = k - 1
      BY <1>2, <3>1
    <3>3. Sorted(S)[k] = CHOOSE j \in S : Cardinality(Below(j)) = k - 1
      BY DEF Sorted
    <3>4. Sorted(S)[k] \in S /\ Cardinality(Below(Sorted(S)[k])) = k - 1
      BY <3>2, <3>3
    <3>. QED
      BY <3>4
  <2>. QED
    BY <2>1
<1>8. DOMAIN Sorted(S) = 1..n /\ Sorted(S) = [k \in 1..n |-> Sorted(S)[k]]
  <2>. DEFINE Choice(k) == CHOOSE i \in S : Cardinality(Below(i)) = k - 1
  <2>1. Sorted(S) = [k \in 1..n |-> Choice(k)]
    BY DEF Sorted
  <2>. HIDE DEF Choice, n
  <2>. QED
    BY <2>1
<1>9. Sorted(S) \in Seq(Indices) /\ Len(Sorted(S)) = n
  <2>1. PICK s : s = Sorted(S)
    OBVIOUS
  <2>2. s = [k \in 1..n |-> s[k]] /\ \A k \in 1..n : s[k] \in Indices
    BY <1>7, <1>8, <2>1
  <2>. HIDE DEF n
  <2>3. s \in Seq(Indices) /\ Len(s) = n
    BY <1>1, <2>2
  <2>. QED
    BY <2>1, <2>3
<1>10. IsInjective(Sorted(S))
  BY <1>7, <1>8 DEF IsInjective
<1>11. ASSUME NEW i \in S
       PROVE  \E k \in 1..n : Sorted(S)[k] = i
  <2>1. b[i] \in 1..n
    BY <1>2
  <2>2. b[Sorted(S)[b[i]]] = b[i] /\ Sorted(S)[b[i]] \in S
    BY <1>7, <2>1
  <2>. HIDE DEF b
  <2>. QED
    BY <1>4, <2>1, <2>2
<1>12. ToSet(Sorted(S)) = S
  BY <1>7, <1>8, <1>11 DEF ToSet
<1>. QED
  BY <1>9, <1>10, <1>12

LEMMA NamesAreFinite ==
  ASSUME NEW x, IndicesDiffer(x)
  PROVE  /\ Names(x) \in SUBSET Indices /\ IsFiniteSet(Names(x))
         /\ Len(x.indices) = Cardinality(Names(x))
<1>. DEFINE s == x.indices
<1>1. s \in Seq(Indices) /\ IsInjective(s)
  BY DEF IndicesDiffer
<1>. HIDE DEF s
<1>2. ToSet(s) = {s[k] : k \in 1..Len(s)} /\ Len(s) \in Nat
  BY <1>1 DEF ToSet
<1>3. s \in Bijection(1..Len(s), ToSet(s))
  BY <1>1, <1>2 DEF Bijection, Injection, Surjection, IsInjective
<1>4. IsFiniteSet(ToSet(s)) /\ Cardinality(ToSet(s)) = Cardinality(1..Len(s))
  BY <1>2, <1>3, FS_Interval, FS_Bijection DEF ExistsBijection
<1>5. Cardinality(1..Len(s)) = Len(s)
  BY <1>2, FS_Interval
<1>6. ToSet(s) \in SUBSET Indices
  BY <1>1, <1>2
<1>. QED
  BY <1>4, <1>5, <1>6 DEF Names, s

LEMMA NodeIndicesDiffer ==
  ASSUME NEW l, NEW r, IndicesDiffer(l), IndicesDiffer(r), NEW op \in Operations
  PROVE  /\ NodeIndices(op, l, r) \in Seq(Indices) /\ IsInjective(NodeIndices(op, l, r))
         /\ op = "product" => ToSet(NodeIndices(op, l, r)) =
              (Names(l) \ Names(r)) \cup (Names(r) \ Names(l))
<1>1. /\ Names(l) \in SUBSET Indices /\ IsFiniteSet(Names(l))
      /\ Names(r) \in SUBSET Indices /\ IsFiniteSet(Names(r))
  BY NamesAreFinite
<1>2. CASE op = "product"
  <2>1. PICK S : S = (Names(l) \ Names(r)) \cup (Names(r) \ Names(l))
    OBVIOUS
  <2>2. S \in SUBSET Indices /\ IsFiniteSet(S)
    BY <1>1, <2>1, FS_Difference, FS_Union
  <2>3. NodeIndices(op, l, r) = Sorted(S)
    BY <1>2, <2>1 DEF NodeIndices, Names
  <2>. QED
    BY <2>1, <2>2, <2>3, SortedIs
<1>3. CASE op # "product"
  <2>1. \/ NodeIndices(op, l, r) = Sorted(Names(l))
        \/ NodeIndices(op, l, r) = l.indices
        \/ NodeIndices(op, l, r) = r.indices
    BY <1>3 DEF NodeIndices, Names, Operations
  <2>2. /\ l.indices \in Seq(Indices) /\ IsInjective(l.indices)
        /\ r.indices \in Seq(Indices) /\ IsInjective(r.indices)
    BY DEF IndicesDiffer
  <2>3. Sorted(Names(l)) \in Seq(Indices) /\ IsInjective(Sorted(Names(l)))
    BY <1>1, SortedIs
  <2>. QED
    BY <1>3, <2>1, <2>2, <2>3
<1>. QED
  BY <1>2, <1>3

LEMMA InternalIs ==
  ASSUME NEW tree, NEW op, NEW l, NEW r
  PROVE  LET x == Internal(tree, op, l, r)
         IN /\ DOMAIN x = InnerFields /\ x.op = op /\ x.left = l /\ x.right = r
            /\ x.indices = NodeIndices(op, tree[l], tree[r])
            /\ x.hash = NodeHash(op, x.indices, tree[l], tree[r])
BY DEF Internal, InnerFields

\* the hash of a node is made of the hashes and the indices of its operands
LEMMA HashFrom ==
  ASSUME NEW op, NEW indices, NEW l, NEW r, NEW k, NEW s,
         k.hash = l.hash, k.indices = l.indices, s.hash = r.hash, s.indices = r.indices
  PROVE  NodeHash(op, indices, l, r) = NodeHash(op, indices, k, s)
BY DEF NodeHash

LEMMA MovedIs ==
  ASSUME NEW x, IsLeaf(x) \/ IsInner(x), NEW k
  PROVE  LET y == Moved(x, k)
         IN /\ y.op = x.op /\ y.hash = x.hash /\ y.indices = x.indices
            /\ IsLeaf(x) => IsLeaf(y)
            /\ IsInner(x) => IsInner(y) /\ y.left = x.left + k /\ y.right = x.right + k
<1>1. CASE IsLeaf(x)
  <2>1. Moved(x, k) = x /\ ~IsInner(x)
    BY <1>1 DEF IsLeaf, IsInner, Moved, LeafFields, InnerFields, Operations
  <2>. QED
    BY <1>1, <2>1
<1>2. CASE IsInner(x)
  <2>1. x.op # "leaf" /\ DOMAIN x = InnerFields /\ x.op \in Operations
    BY <1>2 DEF IsInner, Operations
  <2>2. Moved(x, k) = [x EXCEPT !.left = @ + k, !.right = @ + k]
    BY <2>1 DEF Moved
  <2>3. PICK y : y = Moved(x, k)
    OBVIOUS
  <2>4. /\ DOMAIN y = InnerFields /\ y.op = x.op /\ y.hash = x.hash /\ y.indices = x.indices
        /\ y.left = x.left + k /\ y.right = x.right + k
    BY <2>1, <2>2, <2>3 DEF InnerFields
  <2>5. ~IsLeaf(x)
    BY <2>1 DEF IsLeaf
  <2>. QED
    BY <2>1, <2>3, <2>4, <2>5 DEF IsInner
<1>. QED
  BY <1>1, <1>2

LEMMA LeafOrInner ==
  ASSUME NEW x, IsLeaf(x) \/ IsInner(x)
  PROVE  IsLeaf(x) <=> x.op = "leaf"
BY DEF IsLeaf, IsInner, Operations

IsJoined(op, l, r, tree, a, b, n) ==
  /\ IsSequence(tree) /\ Len(tree) = n
  /\ \A k \in 1..a : tree[k] = l[k]
  /\ \A k \in 1..b : tree[a + k] = Moved(r[k], a)
  /\ DOMAIN tree[n] = InnerFields /\ tree[n].op = op
  /\ tree[n].left = a /\ tree[n].right = n - 1
  /\ tree[n].indices = NodeIndices(op, tree[a], tree[n - 1])
  /\ tree[n].hash = NodeHash(op, tree[n].indices, tree[a], tree[n - 1])

LEMMA JoinedNodes ==
  ASSUME NEW op, NEW l, NEW r, IsSequence(l), IsSequence(r), Len(l) >= 1, Len(r) >= 1,
         NEW tree, tree = Joined(op, l, r),
         NEW a, a = Len(l), NEW b, b = Len(r), NEW n, n = a + b + 1
  PROVE  IsJoined(op, l, r, tree, a, b, n)
<1>. DEFINE m == [k \in DOMAIN r |-> Moved(r[k], Len(l))]
            both == l \o m
            x == Internal(both, op, Len(l), Len(both))
<1>1. DOMAIN r = 1..Len(r) /\ Len(r) \in Nat /\ Len(l) \in Nat
  BY SequenceIn
<1>2. IsSequence(m) /\ Len(m) = Len(r) /\ \A k \in 1..Len(r) : m[k] = Moved(r[k], Len(l))
  <2>1. m = [k \in 1..Len(r) |-> m[k]] /\ \A k \in 1..Len(r) : m[k] = Moved(r[k], Len(l))
    BY <1>1
  <2>. HIDE DEF m
  <2>. QED
    BY <1>1, <2>1, SequenceOf
<1>. HIDE DEF m
<1>3. /\ IsSequence(both) /\ Len(both) = Len(l) + Len(r)
      /\ \A k \in 1..Len(l) : both[k] = l[k]
      /\ \A k \in 1..Len(r) : both[Len(l) + k] = m[k]
  BY <1>2, Concatenated
<1>4. Joined(op, l, r) = Append(both, x)
  BY DEF Joined, m
<1>. HIDE DEF both
<1>. HIDE DEF x
<1>6. /\ IsSequence(tree) /\ Len(tree) = Len(l) + Len(r) + 1
      /\ \A k \in 1..Len(both) : tree[k] = both[k]
      /\ tree[Len(l) + Len(r) + 1] = x
  <2>1. /\ IsSequence(Append(both, x)) /\ Len(Append(both, x)) = Len(both) + 1
        /\ \A k \in 1..Len(both) : Append(both, x)[k] = both[k]
        /\ Append(both, x)[Len(both) + 1] = x
    BY <1>3, Appended
  <2>. QED
    BY <1>3, <1>4, <2>1
<1>7. /\ \A k \in 1..Len(l) : tree[k] = l[k]
      /\ \A k \in 1..Len(r) : tree[Len(l) + k] = Moved(r[k], Len(l))
  BY <1>1, <1>2, <1>3, <1>6
<1>8. both[Len(l)] = tree[Len(l)] /\ both[Len(both)] = tree[Len(l) + Len(r)]
  BY <1>1, <1>3, <1>6
<1>9. /\ DOMAIN x = InnerFields /\ x.op = op
      /\ x.left = Len(l) /\ x.right = Len(both)
      /\ x.indices = NodeIndices(op, both[Len(l)], both[Len(both)])
      /\ x.hash = NodeHash(op, x.indices, both[Len(l)], both[Len(both)])
  BY InternalIs DEF x
<1>. QED
  BY <1>1, <1>3, <1>6, <1>7, <1>8, <1>9 DEF IsJoined

LEMMA JoinedIsTree ==
  ASSUME NEW op \in Operations, NEW l, NEW r, IsTree(l), IsTree(r)
  PROVE  IsTree(Joined(op, l, r))
<1>0. PICK a : a = Len(l)
  OBVIOUS
<1>b. PICK b : b = Len(r)
  OBVIOUS
<1>n. PICK n : n = a + b + 1
  OBVIOUS
<1>1. PICK tree : tree = Joined(op, l, r)
  OBVIOUS
<1>2. /\ IsSequence(l) /\ a \in Nat /\ a >= 1 /\ DOMAIN l = 1..a
      /\ IsSequence(r) /\ b \in Nat /\ b >= 1 /\ DOMAIN r = 1..b
  BY <1>0, <1>b, SequenceIn DEF IsTree
<1>3. /\ IsSequence(tree) /\ Len(tree) = n
      /\ \A k \in 1..a : tree[k] = l[k]
      /\ \A k \in 1..b : tree[a + k] = Moved(r[k], a)
      /\ DOMAIN tree[n] = InnerFields /\ tree[n].op = op
      /\ tree[n].left = a /\ tree[n].right = n - 1
      /\ tree[n].indices = NodeIndices(op, tree[a], tree[n - 1])
      /\ tree[n].hash = NodeHash(op, tree[n].indices, tree[a], tree[n - 1])
  <2>1. Len(l) >= 1 /\ Len(r) >= 1
    BY <1>0, <1>b, <1>2
  <2>2. IsJoined(op, l, r, tree, a, b, n)
    BY <1>0, <1>b, <1>n, <1>1, <1>2, <2>1, JoinedNodes
  <2>. QED
    BY <2>2 DEF IsJoined
<1>4. DOMAIN tree = 1..n
  BY <1>3, SequenceIn
<1>5. /\ \A k \in 1..a : (IsLeaf(l[k]) \/ IsInner(l[k])) /\ IndicesDiffer(l[k])
      /\ \A k \in 1..b : (IsLeaf(r[k]) \/ IsInner(r[k])) /\ IndicesDiffer(r[k])
  BY <1>0, <1>b, <1>n, <1>2 DEF IsTree
<1>6. \A k \in 1..b : LET x == tree[a + k] IN
        /\ x.op = r[k].op /\ x.hash = r[k].hash /\ x.indices = r[k].indices
        /\ IsLeaf(x) \/ IsInner(x)
        /\ IsInner(r[k]) => x.left = r[k].left + a /\ x.right = r[k].right + a
  BY <1>3, <1>5, MovedIs
<1>7. \A k \in 1..n : k \in 1..a \/ (k - a \in 1..b /\ k = a + (k - a)) \/ k = n
  BY <1>0, <1>b, <1>n, <1>2
<1>8. ASSUME NEW k \in 1..n
      PROVE  (IsLeaf(tree[k]) \/ IsInner(tree[k])) /\ IndicesDiffer(tree[k])
  <2>1. CASE k \in 1..a
    BY <1>3, <1>5, <2>1
  <2>2. CASE k - a \in 1..b /\ k = a + (k - a)
    BY <1>5, <1>6, <2>2 DEF IndicesDiffer
  <2>3. CASE k = n
    <3>1. n - 1 = a + b /\ a \in 1..a /\ b \in 1..b
      BY <1>0, <1>b, <1>n, <1>2
    <3>2. IndicesDiffer(tree[a]) /\ IndicesDiffer(tree[n - 1])
      BY <1>3, <1>5, <1>6, <3>1 DEF IndicesDiffer
    <3>3. IndicesDiffer(tree[n])
      BY <1>3, <3>2, NodeIndicesDiffer DEF IndicesDiffer
    <3>4. IsInner(tree[n])
      BY <1>3 DEF IsInner
    <3>. QED
      BY <2>3, <3>3, <3>4
  <2>. QED
    BY <1>7, <2>1, <2>2, <2>3
<1>9. PICK f : Parted(l, f)
  BY DEF IsTree
<1>10. PICK g : Parted(r, g)
  BY DEF IsTree
<1>11. /\ \A k \in 1..a : f[k] \in 1..a /\ f[k] <= k
       /\ \A k \in 1..b : g[k] \in 1..b /\ g[k] <= k
       /\ f[a] = 1 /\ g[b] = 1
  BY <1>0, <1>b, <1>n, <1>2, <1>9, <1>10 DEF Parted
<1>12. /\ \A k \in 1..a : l[k].op # "leaf" =>
            /\ k - 1 \in 1..a /\ l[k].right = k - 1
            /\ l[k].left = f[k - 1] - 1 /\ l[k].left \in 1..a
            /\ f[k] = f[l[k].left]
       /\ \A k \in 1..b : r[k].op # "leaf" =>
            /\ k - 1 \in 1..b /\ r[k].right = k - 1
            /\ r[k].left = g[k - 1] - 1 /\ r[k].left \in 1..b
            /\ g[k] = g[r[k].left]
       /\ \A k \in 1..a : l[k].op = "leaf" => f[k] = k
       /\ \A k \in 1..b : r[k].op = "leaf" => g[k] = k
  BY <1>0, <1>b, <1>n, <1>2, <1>9, <1>10 DEF Parted
<1>13. \A k \in 1..b : r[k].op # "leaf" =>
         LET x == tree[a + k] IN
         /\ x.left = a + r[k].left /\ x.right = a + r[k].right
         /\ r[k].left \in 1..b /\ r[k].right \in 1..b
  <2>1. \A k \in 1..b : r[k].op # "leaf" => IsInner(r[k])
    BY <1>5, LeafOrInner
  <2>. QED
    BY <1>0, <1>b, <1>n, <1>2, <1>6, <1>12, <2>1
<1>14. op # "leaf"
  BY DEF Operations
<1>15. \E first : Parted(tree, first)
  <2>1. PICK h : h = [k \in 1..n |-> IF k \in 1..a THEN f[k] ELSE IF k = n THEN 1 ELSE a + g[k - a]]
    OBVIOUS
  <2>2. /\ \A k \in 1..a : h[k] = f[k]
        /\ \A k \in 1..b : h[a + k] = a + g[k]
        /\ h[n] = 1
    BY <1>0, <1>b, <1>n, <1>2, <2>1
  <2>3. \A k \in 1..n : h[k] \in 1..n /\ h[k] <= k
    BY <1>0, <1>b, <1>n, <1>2, <1>11, <2>1
  <2>4. ASSUME NEW k \in 1..n
        PROVE  /\ tree[k].op = "leaf" => h[k] = k
               /\ tree[k].op # "leaf" =>
                    /\ k - 1 \in 1..n /\ tree[k].right = k - 1
                    /\ tree[k].left = h[k - 1] - 1 /\ tree[k].left \in 1..n
                    /\ h[k] = h[tree[k].left]
    <3>1. CASE k \in 1..a
      <4>1. tree[k] = l[k] /\ h[k] = f[k]
        BY <1>3, <2>2, <3>1
      <4>. QED
        BY <1>0, <1>b, <1>n, <1>2, <1>12, <2>2, <3>1, <4>1
    <3>2. CASE k - a \in 1..b /\ k = a + (k - a)
      <4>1. PICK j \in 1..b : k = a + j
        BY <3>2
      <4>2. tree[k].op = r[j].op /\ h[k] = a + g[j]
        BY <1>6, <2>2, <4>1
      <4>3. CASE r[j].op = "leaf"
        BY <1>12, <4>1, <4>2, <4>3
      <4>4. CASE r[j].op # "leaf"
        <5>1. /\ j - 1 \in 1..b /\ r[j].right = j - 1
              /\ r[j].left = g[j - 1] - 1 /\ r[j].left \in 1..b
              /\ g[j] = g[r[j].left]
          BY <1>12, <4>4
        <5>2. tree[k].left = a + r[j].left /\ tree[k].right = a + r[j].right
          BY <1>13, <4>1, <4>4
        <5>3. h[k - 1] = a + g[j - 1] /\ k - 1 = a + (j - 1)
          <6>1. h[a + (j - 1)] = a + g[j - 1]
            BY <2>2, <5>1
          <6>. QED
            BY <1>0, <1>b, <1>n, <1>2, <4>1, <6>1
        <5>4. h[tree[k].left] = a + g[r[j].left]
          BY <2>2, <5>1, <5>2
        <5>5. g[j - 1] \in 1..b
          BY <1>11, <5>1
        <5>6. PICK p, q, y, z : /\ p = g[j - 1] /\ q = r[j].left
                                /\ y = h[k - 1] /\ z = tree[k].left
          OBVIOUS
        <5>7. /\ p \in 1..b /\ q \in 1..b /\ q = p - 1 /\ y = a + p /\ z = a + q
              /\ k - 1 = a + (j - 1) /\ tree[k].right = a + (j - 1)
          BY <5>1, <5>2, <5>3, <5>5, <5>6
        <5>8. k - 1 \in 1..n /\ tree[k].right = k - 1 /\ z = y - 1 /\ z \in 1..n
          BY <1>0, <1>b, <1>n, <1>2, <4>1, <5>7
        <5>9. h[k] = h[tree[k].left]
          BY <4>2, <5>1, <5>4
        <5>10. tree[k].op # "leaf"
          BY <4>2, <4>4
        <5>. QED
          BY <5>6, <5>8, <5>9, <5>10
      <4>. QED
        BY <4>3, <4>4
    <3>3. CASE k = n
      <4>1. h[a] = 1 /\ h[n - 1] = a + 1
        <5>1. a \in 1..a /\ b \in 1..b /\ n - 1 = a + b
          BY <1>0, <1>b, <1>n, <1>2
        <5>. QED
          BY <1>11, <2>2, <5>1
      <4>. QED
        BY <1>0, <1>b, <1>n, <1>2, <1>3, <1>14, <2>2, <3>3, <4>1
    <3>. QED
      BY <1>7, <3>1, <3>2, <3>3
  <2>5. h \in [1..n -> 1..n]
    BY <2>1, <2>3
  <2>6. Parted(tree, h)
    BY <1>3, <1>4, <2>2, <2>3, <2>4, <2>5 DEF Parted
  <2>. QED
    BY <2>6
<1>16. HashesAreCurrent(tree)
  <2>1. ASSUME NEW k \in 1..n, tree[k].op # "leaf"
        PROVE  tree[k].hash = NodeHash(tree[k].op, tree[k].indices,
                                        tree[tree[k].left], tree[tree[k].right])
    <3>1. CASE k \in 1..a
      <4>1. tree[k] = l[k] /\ l[k].left \in 1..a /\ l[k].right \in 1..a
        BY <1>0, <1>b, <1>n, <1>2, <1>3, <1>12, <2>1, <3>1
      <4>2. tree[l[k].left] = l[l[k].left] /\ tree[l[k].right] = l[l[k].right]
        BY <1>3, <4>1
      <4>3. l[k].hash = NodeHash(l[k].op, l[k].indices, l[l[k].left], l[l[k].right])
        BY <1>0, <1>b, <1>n, <1>2, <2>1, <3>1, <4>1 DEF IsTree, HashesAreCurrent
      <4>. QED
        BY <4>1, <4>2, <4>3
    <3>2. CASE k - a \in 1..b /\ k = a + (k - a)
      <4>1. PICK j \in 1..b : k = a + j
        BY <3>2
      <4>2. tree[k].op = r[j].op /\ tree[k].hash = r[j].hash /\ tree[k].indices = r[j].indices
        BY <1>6, <4>1
      <4>3. /\ tree[k].left = a + r[j].left /\ tree[k].right = a + r[j].right
            /\ r[j].left \in 1..b /\ r[j].right \in 1..b
        BY <1>13, <2>1, <4>1, <4>2
      <4>4. /\ tree[tree[k].left].hash = r[r[j].left].hash
            /\ tree[tree[k].left].indices = r[r[j].left].indices
            /\ tree[tree[k].right].hash = r[r[j].right].hash
            /\ tree[tree[k].right].indices = r[r[j].right].indices
        BY <1>6, <4>3
      <4>5. r[j].hash = NodeHash(r[j].op, r[j].indices, r[r[j].left], r[r[j].right])
        BY <1>0, <1>b, <1>n, <1>2, <2>1, <4>2 DEF IsTree, HashesAreCurrent
      <4>6. NodeHash(r[j].op, r[j].indices, r[r[j].left], r[r[j].right])
              = NodeHash(r[j].op, r[j].indices, tree[tree[k].left], tree[tree[k].right])
        BY <4>4, HashFrom
      <4>. QED
        BY <4>2, <4>5, <4>6
    <3>3. CASE k = n
      BY <1>3, <3>3
    <3>. QED
      BY <1>7, <3>1, <3>2, <3>3
  <2>. QED
    BY <1>4, <2>1 DEF HashesAreCurrent
<1>17. ContractedOnce(tree)
  <2>1. ASSUME NEW k \in 1..n, tree[k].op = "product"
        PROVE  LET u == Names(tree[tree[k].left])
                   v == Names(tree[tree[k].right])
               IN Names(tree[k]) = (u \ v) \cup (v \ u)
    <3>1. CASE k \in 1..a
      <4>1. tree[k] = l[k] /\ l[k].left \in 1..a /\ l[k].right \in 1..a
        BY <1>0, <1>b, <1>n, <1>2, <1>3, <1>12, <2>1, <3>1
      <4>2. tree[l[k].left] = l[l[k].left] /\ tree[l[k].right] = l[l[k].right]
        BY <1>3, <4>1
      <4>3. ContractedOnce(l) /\ k \in DOMAIN l /\ l[k].op = "product"
        BY <1>2, <2>1, <3>1, <4>1 DEF IsTree
      <4>. QED
        BY <4>1, <4>2, <4>3 DEF ContractedOnce
    <3>2. CASE k - a \in 1..b /\ k = a + (k - a)
      <4>1. PICK j \in 1..b : k = a + j
        BY <3>2
      <4>2. tree[k].op = r[j].op /\ Names(tree[k]) = Names(r[j])
        BY <1>6, <4>1 DEF Names
      <4>3. /\ tree[k].left = a + r[j].left /\ tree[k].right = a + r[j].right
            /\ r[j].left \in 1..b /\ r[j].right \in 1..b
        BY <1>13, <2>1, <4>1, <4>2
      <4>4. /\ Names(tree[tree[k].left]) = Names(r[r[j].left])
            /\ Names(tree[tree[k].right]) = Names(r[r[j].right])
        BY <1>6, <4>3 DEF Names
      <4>. QED
        BY <1>0, <1>b, <1>n, <1>2, <2>1, <4>2, <4>4 DEF IsTree, ContractedOnce
    <3>3. CASE k = n
      <4>1. n - 1 = a + b /\ a \in 1..a /\ b \in 1..b
        BY <1>0, <1>b, <1>n, <1>2
      <4>2. IndicesDiffer(tree[a]) /\ IndicesDiffer(tree[n - 1])
        BY <1>3, <1>5, <1>6, <4>1 DEF IndicesDiffer
      <4>. QED
        BY <1>3, <2>1, <3>3, <4>2, NodeIndicesDiffer DEF Names
    <3>. QED
      BY <1>7, <3>1, <3>2, <3>3
  <2>. QED
    BY <1>4, <2>1 DEF ContractedOnce
<1>18. Len(tree) >= 1
  BY <1>0, <1>b, <1>n, <1>2, <1>3
<1>19. IsTree(tree)
  BY <1>3, <1>4, <1>8, <1>15, <1>16, <1>17, <1>18 DEF IsTree
<1>. QED
  BY <1>1, <1>19

-----------------------------------------------------------------------------
(***************************************************************************)
(* Leaves.                                                                 *)
(***************************************************************************)
LEMMA OtherOrder ==
  ASSUME NEW s \in Seq(Indices), NEW t \in Seq(Indices), IsInjective(s \o t)
  PROVE  IsInjective(t \o s) /\ ToSet(t \o s) = ToSet(s \o t)
<1>1. /\ Len(s) \in Nat /\ Len(t) \in Nat
      /\ s \o t \in Seq(Indices) /\ Len(s \o t) = Len(s) + Len(t)
      /\ t \o s \in Seq(Indices) /\ Len(t \o s) = Len(t) + Len(s)
  OBVIOUS
<1>2. PICK n : n = Len(s) + Len(t)
  OBVIOUS
<1>3. n \in Nat /\ DOMAIN (s \o t) = 1..n /\ DOMAIN (t \o s) = 1..n
  BY <1>1, <1>2
<1>4. PICK f : f = [k \in 1..n |-> IF k <= Len(t) THEN k + Len(s) ELSE k - Len(t)]
  OBVIOUS
<1>5. \A k \in 1..n : f[k] \in 1..n /\ (t \o s)[k] = (s \o t)[f[k]]
  BY <1>1, <1>2, <1>4
<1>6. \A j, k \in 1..n : f[j] = f[k] => j = k
  BY <1>1, <1>2, <1>4
<1>7. \A k \in 1..n : \E j \in 1..n : f[j] = k
  <2>1. ASSUME NEW k \in 1..n
        PROVE  \E j \in 1..n : f[j] = k
    <3>1. CASE k <= Len(s)
      <4>1. k + Len(t) \in 1..n /\ f[k + Len(t)] = k
        BY <1>1, <1>2, <1>4, <3>1
      <4>. QED
        BY <4>1
    <3>2. CASE ~(k <= Len(s))
      <4>1. k - Len(s) \in 1..n /\ f[k - Len(s)] = k
        BY <1>1, <1>2, <1>4, <3>2
      <4>. QED
        BY <4>1
    <3>. QED
      BY <3>1, <3>2
  <2>. QED
    BY <2>1
<1>8. IsInjective(t \o s)
  <2>1. PICK p, q : p = t \o s /\ q = s \o t
    OBVIOUS
  <2>2. \A j, k \in 1..n : p[j] = p[k] => q[f[j]] = q[f[k]] /\ f[j] \in 1..n /\ f[k] \in 1..n
    BY <1>5, <2>1
  <2>3. \A j, k \in 1..n : q[j] = q[k] => j = k
    BY <1>3, <2>1 DEF IsInjective
  <2>4. \A j, k \in 1..n : p[j] = p[k] => j = k
    BY <1>6, <2>2, <2>3
  <2>5. IsInjective(p)
    BY <1>3, <2>1, <2>4 DEF IsInjective
  <2>. QED
    BY <2>1, <2>5
<1>9. ToSet(t \o s) = ToSet(s \o t)
  <2>1. ToSet(t \o s) = {(t \o s)[k] : k \in 1..n} /\ ToSet(s \o t) = {(s \o t)[k] : k \in 1..n}
    BY <1>3 DEF ToSet
  <2>2. PICK p, q : p = t \o s /\ q = s \o t
    OBVIOUS
  <2>3. \A k \in 1..n : p[k] \in {q[j] : j \in 1..n} /\ q[k] \in {p[j] : j \in 1..n}
    BY <1>5, <1>7, <2>2
  <2>4. ToSet(p) = {p[k] : k \in 1..n} /\ ToSet(q) = {q[k] : k \in 1..n}
    BY <2>1, <2>2
  <2>5. ToSet(p) = ToSet(q)
    BY <2>3, <2>4
  <2>. QED
    BY <2>2, <2>5
<1>. QED
  BY <1>8, <1>9

LEMMA LeafIndicesDiffer ==
  ASSUME NEW t \in Tensors, NEW b \in BOOLEAN
  PROVE  /\ LeafIndices(t, b) \in Seq(Indices) /\ IsInjective(LeafIndices(t, b))
         /\ ToSet(LeafIndices(t, b)) = ToSet(t.bra \o t.ket)
<1>1. t.bra \in Seq(Indices) /\ t.ket \in Seq(Indices) /\ IsInjective(t.bra \o t.ket)
  BY DEF Tensors
<1>2. t.bra \o t.ket \in Seq(Indices) /\ t.ket \o t.bra \in Seq(Indices)
  BY <1>1
<1>3. IsInjective(t.ket \o t.bra) /\ ToSet(t.ket \o t.bra) = ToSet(t.bra \o t.ket)
  BY <1>1, OtherOrder
<1>4. LeafIndices(t, b) = t.ket \o t.bra \/ LeafIndices(t, b) = t.bra \o t.ket
  BY DEF LeafIndices
<1>. QED
  BY <1>1, <1>2, <1>3, <1>4

LEMMA LeafIsTree ==
  ASSUME NEW t \in Tensors, NEW c \in BOOLEAN
  PROVE  IsTree(<<Leaf(t, c)>>)
<1>1. PICK x : x = Leaf(t, c)
  OBVIOUS
<1>2. PICK b : b = (c /\ CanonizeSwap(t))
  OBVIOUS
<1>3. b \in BOOLEAN
  BY <1>2
<1>4. x = [op |-> "leaf", left |-> 0, right |-> 0, scalar |-> 1, tensor |-> t, swapped |-> b,
           indices |-> LeafIndices(t, b), hash |-> LeafHash(t, b)]
  BY <1>1, <1>2, Zenon DEF Leaf
<1>5. DOMAIN x = LeafFields /\ x.op = "leaf" /\ x.tensor = t /\ x.swapped = b /\ x.indices = LeafIndices(t, b)
  BY <1>4 DEF LeafFields
<1>6. IsLeaf(x)
  BY <1>3, <1>5 DEF IsLeaf
<1>7. IndicesDiffer(x)
  BY <1>3, <1>5, LeafIndicesDiffer DEF IndicesDiffer
<1>8. PICK s : s = <<x>>
  OBVIOUS
<1>9. IsSequence(s) /\ Len(s) = 1 /\ DOMAIN s = 1..1 /\ s[1] = x
  <2>1. s = [k \in 1..1 |-> s[k]] /\ s[1] = x
    BY <1>8
  <2>. QED
    BY <2>1, SequenceOf
<1>10. \A k \in DOMAIN s : s[k] = x /\ s[k].op = "leaf"
  BY <1>5, <1>9
<1>11. Parted(s, [k \in 1..1 |-> 1])
  BY <1>9, <1>10 DEF Parted
<1>12. HashesAreCurrent(s) /\ ContractedOnce(s)
  BY <1>10 DEF HashesAreCurrent, ContractedOnce
<1>13. IsTree(s)
  BY <1>6, <1>7, <1>9, <1>10, <1>11, <1>12 DEF IsTree
<1>. QED
  BY <1>1, <1>8, <1>13

-----------------------------------------------------------------------------
(***************************************************************************)
(* Construction.                                                           *)
(***************************************************************************)
\* the scalars do not matter
LEMMA ScaledIsTree ==
  ASSUME NEW t, IsTree(t), NEW c
  PROVE  IsTree(Scaled(t, c))
<1>1. PICK s : s = Scaled(t, c)
  OBVIOUS
<1>2. IsSequence(t) /\ Len(t) \in Nat /\ Len(t) >= 1 /\ DOMAIN t = 1..Len(t)
  BY SequenceIn DEF IsTree
<1>3. PICK n : n = Len(t)
  OBVIOUS
<1>4. s = [t EXCEPT ![n] = [t[n] EXCEPT !.scalar = c]]
  BY <1>1, <1>3 DEF Scaled
<1>5. PICK y : y = [t[n] EXCEPT !.scalar = c]
  OBVIOUS
<1>6. /\ s = [k \in 1..n |-> s[k]] /\ s[n] = y
      /\ \A k \in 1..n : k # n => s[k] = t[k]
  <2>1. s = [k \in 1..n |-> IF k = n THEN y ELSE t[k]]
    BY <1>2, <1>3, <1>4, <1>5
  <2>2. n \in 1..n
    BY <1>2, <1>3
  <2>. QED
    BY <2>1, <2>2
<1>7. IsSequence(s) /\ Len(s) = n /\ DOMAIN s = 1..n
  BY <1>2, <1>3, <1>6, SequenceOf
<1>8. \A k \in 1..n : (IsLeaf(t[k]) \/ IsInner(t[k])) /\ IndicesDiffer(t[k])
  BY <1>2, <1>3 DEF IsTree
<1>9. /\ y.op = t[n].op /\ y.indices = t[n].indices /\ y.hash = t[n].hash
      /\ y.left = t[n].left /\ y.right = t[n].right
      /\ IsLeaf(y) \/ IsInner(y)
  <2>1. n \in 1..n
    BY <1>2, <1>3
  <2>2. CASE IsLeaf(t[n])
    <3>1. /\ DOMAIN y = LeafFields /\ y.op = t[n].op /\ y.indices = t[n].indices /\ y.hash = t[n].hash
          /\ y.left = t[n].left /\ y.right = t[n].right /\ y.tensor = t[n].tensor /\ y.swapped = t[n].swapped
      BY <1>5, <2>2 DEF IsLeaf, LeafFields
    <3>. QED
      BY <2>2, <3>1 DEF IsLeaf
  <2>3. CASE IsInner(t[n])
    <3>1. /\ DOMAIN y = InnerFields /\ y.op = t[n].op /\ y.indices = t[n].indices /\ y.hash = t[n].hash
          /\ y.left = t[n].left /\ y.right = t[n].right
      BY <1>5, <2>3 DEF IsInner, InnerFields
    <3>. QED
      BY <2>3, <3>1 DEF IsInner
  <2>. QED
    BY <1>8, <2>1, <2>2, <2>3
<1>10. \A k \in 1..n :
         /\ s[k].op = t[k].op /\ s[k].indices = t[k].indices /\ s[k].hash = t[k].hash
         /\ s[k].left = t[k].left /\ s[k].right = t[k].right
         /\ IsLeaf(s[k]) \/ IsInner(s[k])
  BY <1>6, <1>8, <1>9
<1>11. PICK f : Parted(t, f)
  BY DEF IsTree
<1>12. \A k \in 1..n : t[k].op # "leaf" => t[k].left \in 1..n /\ t[k].right \in 1..n
  BY <1>2, <1>3, <1>11 DEF Parted
<1>13. Parted(s, f)
  BY <1>2, <1>3, <1>7, <1>10, <1>11 DEF Parted
<1>14. HashesAreCurrent(s)
  <2>1. ASSUME NEW k \in 1..n, s[k].op # "leaf"
        PROVE  s[k].hash = NodeHash(s[k].op, s[k].indices, s[s[k].left], s[s[k].right])
    <3>1. t[k].hash = NodeHash(t[k].op, t[k].indices, t[t[k].left], t[t[k].right])
      BY <1>2, <1>3, <1>10, <2>1 DEF IsTree, HashesAreCurrent
    <3>2. NodeHash(t[k].op, t[k].indices, t[t[k].left], t[t[k].right])
            = NodeHash(t[k].op, t[k].indices, s[t[k].left], s[t[k].right])
      BY <1>10, <1>12, <2>1, HashFrom
    <3>. QED
      BY <1>10, <3>1, <3>2
  <2>. QED
    BY <1>7, <2>1 DEF HashesAreCurrent
<1>15. ContractedOnce(s)
  <2>1. \A k \in 1..n : Names(s[k]) = Names(t[k])
    BY <1>10 DEF Names
  <2>2. ContractedOnce(t)
    BY DEF IsTree
  <2>. QED
    BY <1>2, <1>3, <1>7, <1>10, <1>12, <2>1, <2>2 DEF ContractedOnce
<1>16. \A k \in 1..n : IndicesDiffer(s[k])
  BY <1>8, <1>10 DEF IndicesDiffer
<1>17. IsTree(s)
  BY <1>2, <1>3, <1>7, <1>10, <1>13, <1>14, <1>15, <1>16 DEF IsTree
<1>. QED
  BY <1>1, <1>17

\* the trees joined up to the n-th
IsChain(u, op, trees, n) ==
  \A k \in 1..n : u[k] = IF k = 1 THEN trees[1] ELSE Joined(op, u[k - 1], trees[k])

IsJoining(u, op, trees) ==
  u = [k \in DOMAIN trees |-> IF k = 1 THEN trees[1] ELSE Joined(op, u[k - 1], trees[k])]

LEMMA ChainExists ==
  ASSUME NEW n \in Nat, NEW op, NEW trees, DOMAIN trees = 1..n
  PROVE  \E u : IsJoining(u, op, trees)
<1>. DEFINE Step(u) == [k \in 1..n |-> IF k = 1 THEN trees[1] ELSE Joined(op, u[k - 1], trees[k])]
            R == {m \in 0..n : \E u : IsChain(u, op, trees, m)}
<1>1. \A u : \A k \in 1..n : Step(u)[k] = IF k = 1 THEN trees[1] ELSE Joined(op, u[k - 1], trees[k])
  OBVIOUS
<1>. HIDE DEF Step
<1>2. 0 \in R
  BY DEF IsChain
<1>3. ASSUME NEW m \in 0..(n - 1), m \in R
      PROVE  m + 1 \in R
  <2>1. PICK u : IsChain(u, op, trees, m)
    BY <1>3
  <2>2. PICK v : v = Step(u)
    OBVIOUS
  <2>3. \A k \in 1..m : v[k] = u[k]
    BY <1>1, <2>1, <2>2 DEF IsChain
  <2>4. IsChain(v, op, trees, m + 1)
    BY <1>1, <2>2, <2>3 DEF IsChain
  <2>. QED
    BY <2>4
<1>4. n \in R
  <2>. HIDE DEF R
  <2>1. \A m \in 0..n : m \in R
    BY <1>2, <1>3, IntervalInduction
  <2>. QED
    BY <2>1
<1>5. PICK u : IsChain(u, op, trees, n)
  BY <1>4
<1>6. PICK v : v = Step(u)
  OBVIOUS
<1>7. \A k \in 1..n : v[k] = u[k]
  BY <1>1, <1>5, <1>6 DEF IsChain
<1>8. v = Step(v)
  <2>1. \A k \in 1..n : k # 1 => v[k - 1] = u[k - 1]
    BY <1>7
  <2>. QED
    BY <1>6, <2>1 DEF Step
<1>. QED
  BY <1>8 DEF Step, IsJoining

LEMMA ChainIsTree ==
  ASSUME NEW op \in Operations, NEW n \in Nat, n >= 1, NEW trees, DOMAIN trees = 1..n, Len(trees) = n,
         \A k \in 1..n : IsTree(trees[k])
  PROVE  IsTree(Chain(op, trees))
<1>. DEFINE joined[k \in DOMAIN trees] ==
              IF k = 1 THEN trees[1] ELSE Joined(op, joined[k - 1], trees[k])
<1>1. IsJoining(joined, op, trees)
  <2>1. \E u : IsJoining(u, op, trees)
    BY ChainExists
  <2>. QED
    BY <2>1 DEF IsJoining
<1>2. Chain(op, trees) = joined[n]
  BY DEF Chain
<1>. HIDE DEF joined
<1>3. \A k \in 1..n : joined[k] = IF k = 1 THEN trees[1] ELSE Joined(op, joined[k - 1], trees[k])
  BY <1>1 DEF IsJoining
<1>. DEFINE R == {k \in 0..n : k = 0 \/ IsTree(joined[k])}
<1>4. 0 \in R
  OBVIOUS
<1>5. ASSUME NEW k \in 0..(n - 1), k \in R
      PROVE  k + 1 \in R
  <2>1. CASE k = 0
    BY <1>3, <2>1
  <2>2. CASE k # 0
    <3>1. joined[k + 1] = Joined(op, joined[k], trees[k + 1])
      BY <1>3, <2>2
    <3>2. IsTree(joined[k]) /\ IsTree(trees[k + 1])
      BY <1>5, <2>2
    <3>3. IsTree(joined[k + 1])
      BY <3>1, <3>2, JoinedIsTree
    <3>. QED
      BY <3>3
  <2>. QED
    BY <2>1, <2>2
<1>6. n \in R
  <2>. HIDE DEF R
  <2>1. \A k \in 0..n : k \in R
    BY <1>4, <1>5, IntervalInduction
  <2>. QED
    BY <2>1
<1>. QED
  BY <1>2, <1>6

LEMMA FactorsAreTrees ==
  ASSUME NEW n \in Nat, n >= 1, NEW trees, IsSequence(trees), Len(trees) = n,
         \A k \in 1..n : IsTree(trees[k]), NEW k \in 1..n, NEW c
  PROVE  IsTree(Chain("product", [SubSeq(trees, k, n) EXCEPT ![1] = Scaled(@, c)]))
<1>1. PICK S : trees \in Seq(S)
  BY SequenceIn
<1>2. PICK s : s = SubSeq(trees, k, n)
  OBVIOUS
<1>3. PICK m : m = n - k + 1
  OBVIOUS
<1>4. s \in Seq(S) /\ Len(s) = m /\ m \in Nat /\ m >= 1
  BY <1>1, <1>2, <1>3
<1>5. \A j \in 1..m : s[j] = trees[j + k - 1]
  BY <1>1, <1>2, <1>3
<1>6. DOMAIN s = 1..m
  BY <1>4
<1>7. \A j \in 1..m : IsTree(s[j])
  BY <1>3, <1>5
<1>8. PICK x : x = [s EXCEPT ![1] = Scaled(@, c)]
  OBVIOUS
<1>9. x = [j \in 1..m |-> IF j = 1 THEN Scaled(s[1], c) ELSE s[j]]
  BY <1>6, <1>8
<1>10. x = [j \in 1..m |-> x[j]]
  BY <1>9
<1>11. Len(x) = m /\ DOMAIN x = 1..m
  BY <1>4, <1>10, SequenceOf
<1>12. \A j \in 1..m : IsTree(x[j])
  <2>1. IsTree(Scaled(s[1], c))
    BY <1>4, <1>7, ScaledIsTree
  <2>. QED
    BY <1>7, <1>9, <2>1
<1>13. "product" \in Operations
  BY DEF Operations
<1>14. IsTree(Chain("product", x))
  BY <1>4, <1>11, <1>12, <1>13, ChainIsTree
<1>. QED
  BY <1>2, <1>8, <1>14

\* the tree of a product from its k-th factor on, with that from the next one
ProductFrom(u, e, trees, k) ==
  IF IsOperator(e.parts[k]) /\ k < Len(trees)
  THEN Joined(IF e.parts[k].label = "A" THEN "antisymmetrize" ELSE "symmetrize",
              trees[k], u[k + 1])
  ELSE Chain("product", [SubSeq(trees, k, Len(trees)) EXCEPT ![1] = Scaled(@, e.c)])

IsDescent(u, e, trees) == u = [k \in DOMAIN trees |-> ProductFrom(u, e, trees, k)]

IsDescentTo(u, e, trees, m, n) == \A k \in m..n : u[k] = ProductFrom(u, e, trees, k)

LEMMA DescentExists ==
  ASSUME NEW n \in Nat, NEW e, NEW trees, DOMAIN trees = 1..n, Len(trees) = n
  PROVE  \E u : IsDescent(u, e, trees)
<1>. DEFINE Step(u) == [k \in 1..n |-> ProductFrom(u, e, trees, k)]
            R == {m \in 0..n : \E u : IsDescentTo(u, e, trees, n - m + 1, n)}
<1>1. \A u : \A k \in 1..n : Step(u)[k] = ProductFrom(u, e, trees, k)
  OBVIOUS
<1>2. \A u, v : \A k \in 1..n : (k < n => u[k + 1] = v[k + 1])
                  => ProductFrom(u, e, trees, k) = ProductFrom(v, e, trees, k)
  BY DEF ProductFrom
<1>. HIDE DEF Step
<1>3. 0 \in R
  BY DEF IsDescentTo
<1>4. ASSUME NEW m \in 0..(n - 1), m \in R
      PROVE  m + 1 \in R
  <2>1. PICK u : IsDescentTo(u, e, trees, n - m + 1, n)
    BY <1>4
  <2>2. PICK v : v = Step(u)
    OBVIOUS
  <2>3. \A k \in (n - m + 1)..n : v[k] = u[k]
    BY <1>1, <2>1, <2>2 DEF IsDescentTo
  <2>4. ASSUME NEW k \in (n - (m + 1) + 1)..n
        PROVE  v[k] = ProductFrom(v, e, trees, k)
    <3>1. k \in 1..n /\ (k < n => k + 1 \in (n - m + 1)..n)
      OBVIOUS
    <3>2. v[k] = ProductFrom(u, e, trees, k)
      BY <1>1, <2>2, <3>1
    <3>3. k < n => u[k + 1] = v[k + 1]
      BY <2>3, <3>1
    <3>. QED
      BY <1>2, <3>1, <3>2, <3>3
  <2>5. IsDescentTo(v, e, trees, n - (m + 1) + 1, n)
    BY <2>4 DEF IsDescentTo
  <2>. QED
    BY <2>5
<1>5. n \in R
  <2>. HIDE DEF R
  <2>1. \A m \in 0..n : m \in R
    BY <1>3, <1>4, IntervalInduction
  <2>. QED
    BY <2>1
<1>6. PICK u : IsDescentTo(u, e, trees, 1, n)
  BY <1>5
<1>7. PICK v : v = Step(u)
  OBVIOUS
<1>8. \A k \in 1..n : v[k] = u[k]
  BY <1>1, <1>6, <1>7 DEF IsDescentTo
<1>9. \A k \in 1..n : v[k] = ProductFrom(v, e, trees, k)
  <2>1. ASSUME NEW k \in 1..n
        PROVE  v[k] = ProductFrom(v, e, trees, k)
    <3>1. k < n => u[k + 1] = v[k + 1]
      BY <1>8
    <3>2. v[k] = ProductFrom(u, e, trees, k)
      BY <1>1, <1>7
    <3>. QED
      BY <1>2, <3>1, <3>2
  <2>. QED
    BY <2>1
<1>10. v = [k \in 1..n |-> v[k]]
  BY <1>7 DEF Step
<1>11. v = [k \in 1..n |-> ProductFrom(v, e, trees, k)]
  BY <1>9, <1>10
<1>. QED
  BY <1>11 DEF IsDescent

LEMMA ProductIsTree ==
  ASSUME NEW n \in Nat, n >= 1, NEW trees, IsSequence(trees), Len(trees) = n,
         \A k \in 1..n : IsTree(trees[k]), NEW e
  PROVE  IsTree(BuildProduct(e, trees))
<1>. DEFINE from[k \in DOMAIN trees] ==
              IF IsOperator(e.parts[k]) /\ k < Len(trees)
              THEN Joined(IF e.parts[k].label = "A" THEN "antisymmetrize" ELSE "symmetrize",
                          trees[k], from[k + 1])
              ELSE Chain("product", [SubSeq(trees, k, Len(trees)) EXCEPT ![1] = Scaled(@, e.c)])
<1>1. DOMAIN trees = 1..n
  BY SequenceIn
<1>2. BuildProduct(e, trees) = from[1]
  BY Zenon DEF BuildProduct
<1>3. IsDescent(from, e, trees)
  <2>. DEFINE IsFrom(u) ==
         u = [k \in DOMAIN trees |->
                IF IsOperator(e.parts[k]) /\ k < Len(trees)
                THEN Joined(IF e.parts[k].label = "A" THEN "antisymmetrize" ELSE "symmetrize",
                            trees[k], u[k + 1])
                ELSE Chain("product", [SubSeq(trees, k, Len(trees)) EXCEPT ![1] = Scaled(@, e.c)])]
  <2>1. \A u : IsDescent(u, e, trees) <=> IsFrom(u)
    BY Zenon DEF IsDescent, ProductFrom
  <2>2. \E u : IsFrom(u)
    <3>. HIDE DEF IsFrom
    <3>. QED
      BY <1>1, <2>1, DescentExists
  <2>. QED
    BY <2>1, <2>2
<1>. HIDE DEF from
<1>4. PICK u : u = from
  OBVIOUS
<1>5. \A k \in 1..n : u[k] = ProductFrom(u, e, trees, k)
  BY <1>1, <1>3, <1>4 DEF IsDescent
<1>. DEFINE R == {m \in 0..(n - 1) : IsTree(u[n - m])}
<1>6. ASSUME NEW k \in 1..n, k < n => IsTree(u[k + 1])
      PROVE  IsTree(u[k])
  <2>1. CASE IsOperator(e.parts[k]) /\ k < Len(trees)
    <3>1. PICK op : op = IF e.parts[k].label = "A" THEN "antisymmetrize" ELSE "symmetrize"
      OBVIOUS
    <3>2. op \in Operations
      BY <3>1 DEF Operations
    <3>3. u[k] = Joined(op, trees[k], u[k + 1])
      BY <1>5, <2>1, <3>1 DEF ProductFrom
    <3>4. IsTree(u[k + 1]) /\ IsTree(trees[k])
      BY <1>6, <2>1
    <3>. QED
      BY <3>2, <3>3, <3>4, JoinedIsTree
  <2>2. CASE ~(IsOperator(e.parts[k]) /\ k < Len(trees))
    <3>1. u[k] = Chain("product", [SubSeq(trees, k, n) EXCEPT ![1] = Scaled(@, e.c)])
      BY <1>5, <2>2 DEF ProductFrom
    <3>. QED
      BY <3>1, FactorsAreTrees
  <2>. QED
    BY <2>1, <2>2
<1>7. 0 \in R
  BY <1>6
<1>8. ASSUME NEW m \in 0..(n - 1 - 1), m \in R
      PROVE  m + 1 \in R
  <2>1. PICK k : k = n - (m + 1)
    OBVIOUS
  <2>2. k \in 1..n /\ IsTree(u[k + 1])
    BY <1>8, <2>1
  <2>3. IsTree(u[k])
    BY <1>6, <2>2
  <2>. QED
    BY <2>1, <2>3
<1>9. n - 1 \in R
  <2>. HIDE DEF R
  <2>1. n - 1 \in Nat
    OBVIOUS
  <2>2. \A m \in 0..(n - 1) : m \in R
    BY <1>7, <1>8, <2>1, IntervalInduction
  <2>. QED
    BY <2>2
<1>10. IsTree(u[1])
  BY <1>9
<1>. QED
  BY <1>2, <1>4, <1>10

\* the expressions one level up from those in S
Over(S) ==
  [kind : {"sum"}, parts : Parts(S)] \cup
    {e \in [kind : {"product"}, c : Int, parts : Parts(S)] :
       \E k \in DOMAIN e.parts : ~IsOperator(e.parts[k])}

ExprsAt(u, d) == Tensors \cup IF d = 0 THEN {} ELSE Over(u[d - 1])

LEMMA ExprsIs ==
  \A d \in 0..Depth : Exprs[d] = ExprsAt(Exprs, d)
<1>. DEFINE Step(u) == [d \in 0..Depth |-> ExprsAt(u, d)]
            IsTo(u, m) == \A d \in 0..m : u[d] = ExprsAt(u, d)
            R == {m \in 0..Depth : \E u : IsTo(u, m)}
<1>0. Depth \in Nat
  BY DepthAssumption
<1>1. \A u : \A d \in 0..Depth : Step(u)[d] = ExprsAt(u, d)
  OBVIOUS
<1>2. \A u, v : \A d \in 0..Depth : (d # 0 => u[d - 1] = v[d - 1]) => ExprsAt(u, d) = ExprsAt(v, d)
  BY DEF ExprsAt
<1>. HIDE DEF Step
<1>3. 0 \in R
  <2>1. PICK u : u = [d \in 0..Depth |-> Tensors]
    OBVIOUS
  <2>2. u[0] = ExprsAt(u, 0)
    BY <1>0, <2>1 DEF ExprsAt
  <2>. QED
    BY <1>0, <2>2
<1>4. ASSUME NEW m \in 0..(Depth - 1), m \in R
      PROVE  m + 1 \in R
  <2>1. PICK u : IsTo(u, m)
    BY <1>4
  <2>2. PICK v : v = Step(u)
    OBVIOUS
  <2>3. \A d \in 0..m : v[d] = u[d]
    BY <1>0, <1>1, <2>1, <2>2
  <2>4. ASSUME NEW d \in 0..(m + 1)
        PROVE  v[d] = ExprsAt(v, d)
    <3>1. d \in 0..Depth /\ (d # 0 => d - 1 \in 0..m)
      BY <1>0
    <3>2. d # 0 => u[d - 1] = v[d - 1]
      BY <2>3, <3>1
    <3>3. v[d] = ExprsAt(u, d)
      BY <1>1, <2>2, <3>1
    <3>. QED
      BY <1>2, <3>1, <3>2, <3>3
  <2>. QED
    BY <1>0, <2>4
<1>5. Depth \in R
  <2>. HIDE DEF R
  <2>1. \A m \in 0..Depth : m \in R
    BY <1>0, <1>3, <1>4, IntervalInduction
  <2>. QED
    BY <1>0, <2>1
<1>6. PICK u : IsTo(u, Depth)
  BY <1>5
<1>7. PICK v : v = Step(u)
  OBVIOUS
<1>8. \A d \in 0..Depth : v[d] = u[d]
  BY <1>1, <1>6, <1>7
<1>9. \A d \in 0..Depth : v[d] = ExprsAt(v, d)
  <2>1. ASSUME NEW d \in 0..Depth
        PROVE  v[d] = ExprsAt(v, d)
    <3>1. d # 0 => u[d - 1] = v[d - 1]
      BY <1>0, <1>8
    <3>. QED
      BY <1>1, <1>2, <1>7, <3>1
  <2>. QED
    BY <2>1
<1>10. v = [d \in 0..Depth |-> v[d]]
  BY <1>7 DEF Step
<1>11. v = [d \in 0..Depth |-> ExprsAt(v, d)]
  BY <1>9, <1>10
<1>. DEFINE IsExprs(w) ==
       w = [d \in 0..Depth |->
              Tensors \cup
                IF d = 0 THEN {}
                ELSE [kind : {"sum"}, parts : Parts(w[d - 1])] \cup
                     {e \in [kind : {"product"}, c : Int, parts : Parts(w[d - 1])] :
                        \E k \in DOMAIN e.parts : ~IsOperator(e.parts[k])}]
<1>12. \A w : IsExprs(w) <=> w = [d \in 0..Depth |-> ExprsAt(w, d)]
  BY Zenon DEF ExprsAt, Over
<1>13. IsExprs(Exprs)
  <2>1. \E w : IsExprs(w)
    <3>. HIDE DEF IsExprs
    <3>. QED
      BY <1>11, <1>12, Zenon
  <2>. QED
    BY <2>1, ZenonT(60) DEF Exprs
<1>14. Exprs = [d \in 0..Depth |-> ExprsAt(Exprs, d)]
  <2>. HIDE DEF IsExprs
  <2>. QED
    BY <1>12, <1>13, Zenon
<1>. QED
  <2>1. PICK w : w = Exprs
    OBVIOUS
  <2>2. w = [d \in 0..Depth |-> ExprsAt(w, d)]
    BY <1>14, <2>1
  <2>. QED
    BY <2>1, <2>2

\* the trees of the expressions of a level, with those of the level below
TreeOf(w, c, x) ==
  CASE x.kind = "tensor"  -> <<Leaf(x, c)>>
    [] x.kind = "sum"     -> Chain("sum", [k \in DOMAIN x.parts |-> w[x.parts[k]]])
    [] x.kind = "product" -> BuildProduct(x, [k \in DOMAIN x.parts |-> w[x.parts[k]]])

TreesOver(w, d, c) == [x \in Exprs[d] |-> TreeOf(w, c, x)]

TreesAt(u, d, c) == TreesOver(u[d - 1], d, c)

IsBuild(u, c) == u = [d \in 0..Depth |-> TreesAt(u, d, c)]

LEMMA ExprKinds ==
  ASSUME NEW d \in 0..Depth, NEW x \in Exprs[d]
  PROVE  \/ x \in Tensors /\ x.kind = "tensor"
         \/ /\ d # 0 /\ x.kind \in {"sum", "product"}
            /\ x.parts \in Seq(Exprs[d - 1]) /\ Len(x.parts) >= 1
<1>0. d \in Int
  BY DepthAssumption
<1>1. x \in Tensors \/ (d # 0 /\ x \in Over(Exprs[d - 1]))
  BY ExprsIs DEF ExprsAt
<1>2. CASE x \in Tensors
  BY <1>2 DEF Tensors
<1>3. CASE d # 0 /\ x \in Over(Exprs[d - 1])
  <2>1. x.kind \in {"sum", "product"} /\ x.parts \in Parts(Exprs[d - 1])
    BY <1>3 DEF Over
  <2>2. x.parts \in Seq(Exprs[d - 1]) /\ x.parts # <<>>
    BY <2>1 DEF Parts
  <2>3. Len(x.parts) >= 1
    BY <2>2
  <2>. QED
    BY <1>3, <2>1, <2>2, <2>3
<1>. QED
  BY <1>1, <1>2, <1>3

LEMMA TreesAtSame ==
  ASSUME NEW u, NEW v, NEW c, NEW d \in 0..Depth, d # 0 => u[d - 1] = v[d - 1]
  PROVE  TreesAt(u, d, c) = TreesAt(v, d, c)
<1>1. CASE d # 0
  BY <1>1 DEF TreesAt
<1>2. CASE d = 0
  <2>1. \A x \in Exprs[d] : x.kind = "tensor"
    BY <1>2, ExprKinds
  <2>2. PICK w1, w2 : w1 = u[d - 1] /\ w2 = v[d - 1]
    OBVIOUS
  <2>3. \A x \in Exprs[d] : TreeOf(w1, c, x) = TreeOf(w2, c, x)
    BY <2>1 DEF TreeOf
  <2>4. TreesOver(w1, d, c) = TreesOver(w2, d, c)
    BY <2>3 DEF TreesOver
  <2>. QED
    BY <2>2, <2>4 DEF TreesAt
<1>. QED
  BY <1>1, <1>2

LEMMA BuildExists ==
  ASSUME NEW c
  PROVE  \E u : IsBuild(u, c)
<1>. DEFINE Step(u) == [d \in 0..Depth |-> TreesAt(u, d, c)]
            IsTo(u, m) == \A d \in 0..m : u[d] = TreesAt(u, d, c)
            R == {m \in 0..Depth : \E u : IsTo(u, m)}
<1>0. Depth \in Nat
  BY DepthAssumption
<1>1. \A u : \A d \in 0..Depth : Step(u)[d] = TreesAt(u, d, c)
  OBVIOUS
<1>2. \A u, v : \A d \in 0..Depth : (d # 0 => u[d - 1] = v[d - 1]) => TreesAt(u, d, c) = TreesAt(v, d, c)
  BY TreesAtSame
<1>. HIDE DEF Step
<1>3. 0 \in R
  <2>1. PICK u : u = [d \in 0..Depth |-> TreesAt(<<>>, d, c)]
    OBVIOUS
  <2>2. u[0] = TreesAt(u, 0, c)
    BY <1>0, <1>2, <2>1
  <2>. QED
    BY <1>0, <2>2
<1>4. ASSUME NEW m \in 0..(Depth - 1), m \in R
      PROVE  m + 1 \in R
  <2>1. PICK u : IsTo(u, m)
    BY <1>4
  <2>2. PICK v : v = Step(u)
    OBVIOUS
  <2>3. \A d \in 0..m : v[d] = u[d]
    BY <1>0, <1>1, <2>1, <2>2
  <2>4. ASSUME NEW d \in 0..(m + 1)
        PROVE  v[d] = TreesAt(v, d, c)
    <3>1. d \in 0..Depth /\ (d # 0 => d - 1 \in 0..m)
      BY <1>0
    <3>2. d # 0 => u[d - 1] = v[d - 1]
      BY <2>3, <3>1
    <3>3. v[d] = TreesAt(u, d, c)
      BY <1>1, <2>2, <3>1
    <3>. QED
      BY <1>2, <3>1, <3>2, <3>3
  <2>. QED
    BY <1>0, <2>4
<1>5. Depth \in R
  <2>. HIDE DEF R
  <2>1. \A m \in 0..Depth : m \in R
    BY <1>0, <1>3, <1>4, IntervalInduction
  <2>. QED
    BY <1>0, <2>1
<1>6. PICK u : IsTo(u, Depth)
  BY <1>5
<1>7. PICK v : v = Step(u)
  OBVIOUS
<1>8. \A d \in 0..Depth : v[d] = u[d]
  BY <1>1, <1>6, <1>7
<1>9. \A d \in 0..Depth : v[d] = TreesAt(v, d, c)
  <2>1. ASSUME NEW d \in 0..Depth
        PROVE  v[d] = TreesAt(v, d, c)
    <3>1. d # 0 => u[d - 1] = v[d - 1]
      BY <1>0, <1>8
    <3>. QED
      BY <1>1, <1>2, <1>7, <3>1
  <2>. QED
    BY <2>1
<1>10. v = [d \in 0..Depth |-> v[d]]
  BY <1>7 DEF Step
<1>11. v = [d \in 0..Depth |-> TreesAt(v, d, c)]
  BY <1>9, <1>10
<1>. QED
  BY <1>11 DEF IsBuild

LEMMA BuildIs ==
  ASSUME NEW c, NEW e \in Exprs[Depth]
  PROVE  \E u : IsBuild(u, c) /\ BuildExpr(e, c) = u[Depth][e]
<1>. DEFINE built[d \in 0..Depth] ==
              [x \in Exprs[d] |->
                 CASE x.kind = "tensor"  -> <<Leaf(x, c)>>
                   [] x.kind = "sum"     -> Chain("sum", [k \in DOMAIN x.parts |-> built[d - 1][x.parts[k]]])
                   [] x.kind = "product" -> BuildProduct(x, [k \in DOMAIN x.parts |-> built[d - 1][x.parts[k]]])]
<1>1. BuildExpr(e, c) = built[Depth][e]
  BY Zenon DEF BuildExpr
<1>2. IsBuild(built, c)
  <2>. DEFINE IsFrom(u) ==
         u = [d \in 0..Depth |->
                [x \in Exprs[d] |->
                 CASE x.kind = "tensor"  -> <<Leaf(x, c)>>
                   [] x.kind = "sum"     -> Chain("sum", [k \in DOMAIN x.parts |-> u[d - 1][x.parts[k]]])
                   [] x.kind = "product" -> BuildProduct(x, [k \in DOMAIN x.parts |-> u[d - 1][x.parts[k]]])]]
  <2>1. \A u : IsBuild(u, c) <=> IsFrom(u)
    BY Zenon DEF IsBuild, TreesAt, TreesOver, TreeOf
  <2>2. \E u : IsFrom(u)
    <3>. HIDE DEF IsFrom
    <3>. QED
      BY <2>1, BuildExists
  <2>3. IsFrom(built)
    BY <2>2, SMTT(30)
  <2>4. PICK v : v = built
    OBVIOUS
  <2>. HIDE DEF built
  <2>5. IsFrom(v)
    BY <2>3, <2>4
  <2>6. IsBuild(v, c)
    <3>. HIDE DEF IsFrom
    <3>. QED
      BY <2>1, <2>5
  <2>. QED
    BY <2>4, <2>6
<1>. HIDE DEF built
<1>. QED
  BY <1>1, <1>2

\* The construction of an expression gives a tree.
LEMMA BuildIsTree ==
  ASSUME NEW c \in BOOLEAN, NEW e \in Exprs[Depth]
  PROVE  IsTree(BuildExpr(e, c))
<1>0. Depth \in Nat
  BY DepthAssumption
<1>1. PICK u : IsBuild(u, c) /\ BuildExpr(e, c) = u[Depth][e]
  BY BuildIs
<1>2. \A d \in 0..Depth : \A x \in Exprs[d] : u[d][x] = TreeOf(u[d - 1], c, x)
  <2>1. u = [d \in 0..Depth |-> TreesAt(u, d, c)]
    BY <1>1 DEF IsBuild
  <2>2. \A d \in 0..Depth : u[d] = TreesAt(u, d, c)
    BY <2>1, Zenon
  <2>3. \A d \in 0..Depth : u[d] = [x \in Exprs[d] |-> TreeOf(u[d - 1], c, x)]
    BY <2>2, Zenon DEF TreesAt, TreesOver
  <2>. QED
    BY <2>3, Zenon
<1>. DEFINE R == {d \in 0..Depth : \A x \in Exprs[d] : IsTree(u[d][x])}
<1>3. ASSUME NEW d \in 0..Depth, d # 0 => d - 1 \in R
      PROVE  d \in R
  <2>1. ASSUME NEW x \in Exprs[d]
        PROVE  IsTree(u[d][x])
    <3>1. PICK w : w = u[d - 1]
      OBVIOUS
    <3>2. u[d][x] = TreeOf(w, c, x)
      BY <1>2, <3>1
    <3>3. CASE x \in Tensors /\ x.kind = "tensor"
      <4>1. TreeOf(w, c, x) = <<Leaf(x, c)>>
        BY <3>3 DEF TreeOf
      <4>. QED
        BY <3>2, <3>3, <4>1, LeafIsTree
    <3>4. CASE /\ d # 0 /\ x.kind \in {"sum", "product"}
               /\ x.parts \in Seq(Exprs[d - 1]) /\ Len(x.parts) >= 1
      <4>1. PICK n : n = Len(x.parts)
        OBVIOUS
      <4>2. n \in Nat /\ n >= 1 /\ DOMAIN x.parts = 1..n
        BY <3>4, <4>1
      <4>3. PICK trees : trees = [k \in DOMAIN x.parts |-> w[x.parts[k]]]
        OBVIOUS
      <4>4. trees = [k \in 1..n |-> w[x.parts[k]]]
        BY <4>2, <4>3
      <4>5. trees = [k \in 1..n |-> trees[k]]
        BY <4>4
      <4>6. IsSequence(trees) /\ Len(trees) = n /\ DOMAIN trees = 1..n
        BY <4>2, <4>5, SequenceOf
      <4>7. \A k \in 1..n : IsTree(trees[k])
        <5>1. \A y \in Exprs[d - 1] : IsTree(w[y])
          BY <1>3, <3>1, <3>4
        <5>2. \A k \in 1..n : x.parts[k] \in Exprs[d - 1]
          BY <3>4, <4>1
        <5>. QED
          BY <4>4, <5>1, <5>2
      <4>8. CASE x.kind = "sum"
        <5>1. TreeOf(w, c, x) = Chain("sum", trees)
          BY <4>3, <4>8 DEF TreeOf
        <5>2. "sum" \in Operations
          BY DEF Operations
        <5>. QED
          BY <3>2, <4>2, <4>6, <4>7, <5>1, <5>2, ChainIsTree
      <4>9. CASE x.kind = "product"
        <5>1. TreeOf(w, c, x) = BuildProduct(x, trees)
          BY <4>3, <4>9 DEF TreeOf
        <5>. QED
          BY <3>2, <4>2, <4>6, <4>7, <5>1, ProductIsTree
      <4>. QED
        BY <3>4, <4>8, <4>9
    <3>. QED
      BY <3>3, <3>4, ExprKinds
  <2>. QED
    BY <2>1
<1>4. Depth \in R
  <2>. HIDE DEF R
  <2>1. 0 \in R
    BY <1>0, <1>3
  <2>2. \A d \in 0..(Depth - 1) : d \in R => d + 1 \in R
    <3>1. ASSUME NEW d \in 0..(Depth - 1), d \in R
          PROVE  d + 1 \in R
      <4>1. d + 1 \in 0..Depth /\ (d + 1) - 1 = d
        BY <1>0
      <4>. QED
        BY <1>3, <3>1, <4>1
    <3>. QED
      BY <3>1
  <2>3. \A d \in 0..Depth : d \in R
    BY <1>0, <2>1, <2>2, IntervalInduction
  <2>. QED
    BY <1>0, <2>3
<1>. QED
  BY <1>1, <1>4

-----------------------------------------------------------------------------
(***************************************************************************)
(* The exchange of labels.                                                 *)
(***************************************************************************)
IsChanged(x, s, n, y) ==
  /\ IsSequence(x) /\ Len(x) = Len(s) /\ x[n] = y
  /\ \A k \in 1..Len(s) : k # n => x[k] = s[k]

LEMMA ItemChanged ==
  ASSUME NEW s, IsSequence(s), NEW n \in 1..Len(s), NEW y
  PROVE  IsChanged([s EXCEPT ![n] = y], s, n, y)
<1>0. PICK x : x = [s EXCEPT ![n] = y]
  OBVIOUS
<1>1. Len(s) \in Nat /\ DOMAIN s = 1..Len(s)
  BY SequenceIn
<1>2. x = [k \in 1..Len(s) |-> IF k = n THEN y ELSE s[k]]
  BY <1>0, <1>1
<1>3. x = [k \in 1..Len(s) |-> x[k]]
  BY <1>2
<1>4. IsSequence(x) /\ Len(x) = Len(s)
  BY <1>1, <1>3, SequenceOf
<1>5. IsChanged(x, s, n, y)
  BY <1>2, <1>4 DEF IsChanged
<1>. QED
  BY <1>0, <1>5

\* what an exchange of labels keeps of a node, and of a tree
SameNode(x, y) ==
  /\ x.op = y.op /\ x.left = y.left /\ x.right = y.right /\ Names(x) = Names(y)
  /\ IsLeaf(x) \/ IsInner(x)
  /\ IndicesDiffer(x)

Kept(x, tree) ==
  /\ IsSequence(x) /\ Len(x) = Len(tree)
  /\ \A k \in 1..Len(tree) : SameNode(x[k], tree[k])

LEMMA LeavesOnly ==
  ASSUME NEW x, IsLeaf(x) \/ IsInner(x)
  PROVE  x.op = "leaf" <=> IsLeaf(x)
BY DEF IsLeaf, IsInner, Operations

LEMMA TreeShape ==
  ASSUME NEW tree, IsTree(tree)
  PROVE  /\ IsSequence(tree) /\ Len(tree) \in Nat /\ Len(tree) >= 1 /\ DOMAIN tree = 1..Len(tree)
         /\ \A n \in 1..Len(tree) : (IsLeaf(tree[n]) \/ IsInner(tree[n])) /\ IndicesDiffer(tree[n])
         /\ HashesAreCurrent(tree) /\ ContractedOnce(tree)
<1>1. IsSequence(tree) /\ Len(tree) >= 1
  BY DEF IsTree
<1>2. Len(tree) \in Nat /\ DOMAIN tree = 1..Len(tree)
  BY <1>1, SequenceIn
<1>. QED
  BY <1>1, <1>2 DEF IsTree

\* a subtree lies in the subtree of any node that it has a node of
LEMMA Nested ==
  ASSUME NEW tree, IsTree(tree), NEW f, Parted(tree, f), NEW N, N = Len(tree)
  PROVE  /\ \A n \in 1..N : f[n] \in 1..n
         /\ \A n \in 1..N : tree[n].op = "leaf" => f[n] = n
         /\ \A n \in 1..N : tree[n].op # "leaf" =>
              /\ tree[n].right = n - 1 /\ n - 1 \in 1..N
              /\ tree[n].left = f[n - 1] - 1 /\ tree[n].left \in 1..(n - 2)
              /\ f[n] = f[tree[n].left]
         /\ \A m \in 1..N : \A k \in f[m]..m : f[k] >= f[m]
<1>1. N \in Nat /\ DOMAIN tree = 1..N
  BY TreeShape
<1>2. \A n \in 1..N : f[n] \in 1..n
  BY <1>1 DEF Parted
<1>3. \A n \in 1..N : tree[n].op = "leaf" => f[n] = n
  BY <1>1 DEF Parted
<1>4. \A n \in 1..N : tree[n].op # "leaf" =>
        /\ tree[n].right = n - 1 /\ n - 1 \in 1..N
        /\ tree[n].left = f[n - 1] - 1 /\ tree[n].left \in 1..N
        /\ f[n] = f[tree[n].left]
  BY <1>1 DEF Parted
<1>5. \A n \in 1..N : tree[n].op # "leaf" => tree[n].left \in 1..(n - 2)
  BY <1>1, <1>2, <1>4
<1>. DEFINE R == {j \in 0..N : \A m \in 1..j : \A k \in f[m]..m : f[k] >= f[m]}
<1>6. 0 \in R
  BY <1>1
<1>7. ASSUME NEW j \in 0..(N - 1), j \in R
      PROVE  j + 1 \in R
  <2>1. PICK m : m = j + 1
    OBVIOUS
  <2>2. m \in 1..N /\ \A i \in 1..(m - 1) : \A k \in f[i]..i : f[k] >= f[i]
    BY <1>1, <1>7, <2>1
  <2>3. ASSUME NEW k \in f[m]..m
        PROVE  f[k] >= f[m]
    <3>1. CASE k = m
      BY <1>1, <1>2, <2>2, <3>1
    <3>2. CASE k # m /\ tree[m].op = "leaf"
      BY <1>1, <1>2, <1>3, <2>2, <3>2
    <3>3. CASE k # m /\ tree[m].op # "leaf"
      <4>1. PICK l, r : l = tree[m].left /\ r = m - 1
        OBVIOUS
      <4>2. l \in 1..(m - 1) /\ r \in 1..(m - 1) /\ l = f[r] - 1 /\ f[m] = f[l] /\ f[l] \in 1..l /\ f[r] \in 1..r
        BY <1>1, <1>2, <1>4, <1>5, <2>2, <3>3, <4>1
      <4>3. k \in Int /\ (k \in f[l]..l \/ k \in f[r]..r)
        BY <1>1, <2>2, <3>3, <4>1, <4>2
      <4>4. \A i \in 1..N : f[i] \in Int
        BY <1>1, <1>2
      <4>5. f[k] \in Int /\ (f[k] >= f[l] \/ f[k] >= f[r])
        BY <1>1, <2>2, <4>2, <4>3, <4>4
      <4>. QED
        BY <4>2, <4>5
    <3>. QED
      BY <3>1, <3>2, <3>3
  <2>4. \A i \in 1..(j + 1) : i = m \/ i \in 1..(m - 1)
    BY <2>1
  <2>. QED
    BY <1>7, <2>1, <2>2, <2>3, <2>4
<1>8. N \in R
  <2>. HIDE DEF R
  <2>1. \A j \in 0..N : j \in R
    BY <1>1, <1>6, <1>7, IntervalInduction
  <2>. QED
    BY <1>1, <2>1
<1>. QED
  BY <1>2, <1>3, <1>4, <1>5, <1>8

\* the tree after an exchange in what is below node n
SwapAt(u, tree, t, n) ==
  IF tree[n].op = "leaf"
  THEN IF tree[n].tensor = t THEN SwapLeaf(tree, n) ELSE tree
  ELSE IF u[tree[n].left] # tree THEN UpdateHash(u[tree[n].left], n)
       ELSE IF u[tree[n].right] # tree THEN UpdateHash(u[tree[n].right], n) ELSE tree

IsSwap(u, tree, t) == u = [n \in DOMAIN tree |-> SwapAt(u, tree, t, n)]

LEMMA SwapExists ==
  ASSUME NEW tree, IsTree(tree), NEW t
  PROVE  \E u : IsSwap(u, tree, t)
<1>. DEFINE N == Len(tree)
            Step(u) == [n \in 1..N |-> SwapAt(u, tree, t, n)]
            IsTo(u, m) == \A n \in 1..m : u[n] = SwapAt(u, tree, t, n)
            R == {m \in 0..N : \E u : IsTo(u, m)}
<1>1. N \in Nat /\ DOMAIN tree = 1..N
  BY TreeShape
<1>2. PICK f : Parted(tree, f)
  BY DEF IsTree
<1>3. \A n \in 1..N : tree[n].op # "leaf" => tree[n].left \in 1..(n - 1) /\ tree[n].right \in 1..(n - 1)
  BY <1>1, <1>2, Nested
<1>. HIDE DEF N
<1>4. \A u : \A n \in 1..N : Step(u)[n] = SwapAt(u, tree, t, n)
  OBVIOUS
<1>5. \A u, v : \A n \in 1..N :
        (tree[n].op # "leaf" => u[tree[n].left] = v[tree[n].left] /\ u[tree[n].right] = v[tree[n].right])
          => SwapAt(u, tree, t, n) = SwapAt(v, tree, t, n)
  BY DEF SwapAt
<1>. HIDE DEF Step
<1>6. 0 \in R
  BY <1>1
<1>7. ASSUME NEW m \in 0..(N - 1), m \in R
      PROVE  m + 1 \in R
  <2>1. PICK u : IsTo(u, m)
    BY <1>7
  <2>2. PICK v : v = Step(u)
    OBVIOUS
  <2>3. \A n \in 1..m : v[n] = u[n]
    BY <1>1, <1>4, <2>1, <2>2
  <2>4. ASSUME NEW n \in 1..(m + 1)
        PROVE  v[n] = SwapAt(v, tree, t, n)
    <3>1. n \in 1..N /\ \A k \in 1..(n - 1) : k \in 1..m
      BY <1>1
    <3>2. tree[n].op # "leaf" => u[tree[n].left] = v[tree[n].left] /\ u[tree[n].right] = v[tree[n].right]
      BY <1>3, <2>3, <3>1
    <3>3. v[n] = SwapAt(u, tree, t, n)
      BY <1>4, <2>2, <3>1
    <3>. QED
      BY <1>5, <3>1, <3>2, <3>3
  <2>. QED
    BY <1>1, <2>4
<1>8. N \in R
  <2>. HIDE DEF R
  <2>1. \A m \in 0..N : m \in R
    BY <1>1, <1>6, <1>7, IntervalInduction
  <2>. QED
    BY <1>1, <2>1
<1>9. PICK u : IsTo(u, N)
  BY <1>8
<1>10. PICK v : v = Step(u)
  OBVIOUS
<1>11. \A n \in 1..N : v[n] = u[n]
  BY <1>4, <1>9, <1>10
<1>12. \A n \in 1..N : v[n] = SwapAt(v, tree, t, n)
  <2>1. ASSUME NEW n \in 1..N
        PROVE  v[n] = SwapAt(v, tree, t, n)
    <3>1. \A k \in 1..(n - 1) : k \in 1..N
      BY <1>1
    <3>2. tree[n].op # "leaf" => u[tree[n].left] = v[tree[n].left] /\ u[tree[n].right] = v[tree[n].right]
      BY <1>3, <1>11, <3>1
    <3>. QED
      BY <1>4, <1>5, <1>10, <3>2
  <2>. QED
    BY <2>1
<1>13. v = [n \in 1..N |-> v[n]]
  BY <1>10 DEF Step
<1>14. v = [n \in 1..N |-> SwapAt(v, tree, t, n)]
  BY <1>12, <1>13
<1>. QED
  BY <1>1, <1>14 DEF IsSwap

LEMMA SwapIs ==
  ASSUME NEW tree, IsTree(tree), NEW t
  PROVE  \E u : IsSwap(u, tree, t) /\ SwapLabels(tree, t) = u[Len(tree)]
<1>. DEFINE below[n \in DOMAIN tree] ==
              IF tree[n].op = "leaf"
              THEN IF tree[n].tensor = t THEN SwapLeaf(tree, n) ELSE tree
              ELSE LET left  == below[tree[n].left]
                       right == below[tree[n].right]
                   IN IF left # tree THEN UpdateHash(left, n)
                      ELSE IF right # tree THEN UpdateHash(right, n) ELSE tree
<1>1. SwapLabels(tree, t) = below[Len(tree)]
  BY Zenon DEF SwapLabels
<1>2. IsSwap(below, tree, t)
  <2>. DEFINE IsFrom(u) ==
         u = [n \in DOMAIN tree |->
                IF tree[n].op = "leaf"
                THEN IF tree[n].tensor = t THEN SwapLeaf(tree, n) ELSE tree
                ELSE LET left  == u[tree[n].left]
                         right == u[tree[n].right]
                     IN IF left # tree THEN UpdateHash(left, n)
                        ELSE IF right # tree THEN UpdateHash(right, n) ELSE tree]
  <2>1. \A u : IsSwap(u, tree, t) <=> IsFrom(u)
    BY Zenon DEF IsSwap, SwapAt
  <2>2. \E u : IsFrom(u)
    <3>. HIDE DEF IsFrom
    <3>. QED
      BY <2>1, SwapExists
  <2>. QED
    BY <2>1, <2>2
<1>. HIDE DEF below
<1>. QED
  BY <1>1, <1>2

LEMMA SameTrees ==
  ASSUME NEW tree, IsTree(tree)
  PROVE  Kept(tree, tree)
BY TreeShape DEF Kept, SameNode

LEMMA SwapLeafKeeps ==
  ASSUME NEW tree, IsTree(tree), NEW n \in 1..Len(tree), tree[n].op = "leaf"
  PROVE  /\ Kept(SwapLeaf(tree, n), tree)
         /\ \A k \in 1..Len(tree) : k # n => SwapLeaf(tree, n)[k] = tree[k]
<1>1. PICK y : y = tree[n]
  OBVIOUS
<1>2. IsLeaf(y) /\ IndicesDiffer(y)
  BY <1>1, TreeShape, LeavesOnly
<1>3. PICK b : b = ~y.swapped
  OBVIOUS
<1>4. b \in BOOLEAN
  BY <1>3
<1>5. PICK i, h : i = LeafIndices(y.tensor, b) /\ h = LeafHash(y.tensor, b)
  OBVIOUS
<1>6. PICK z : z = [y EXCEPT !.swapped = b, !.indices = i, !.hash = h]
  OBVIOUS
<1>7. PICK x : x = SwapLeaf(tree, n)
  OBVIOUS
<1>8. x = [tree EXCEPT ![n].swapped = b, ![n].indices = i, ![n].hash = h]
  BY <1>1, <1>3, <1>5, <1>7, Zenon DEF SwapLeaf
<1>9. n \in DOMAIN tree /\ DOMAIN tree = 1..Len(tree)
  BY TreeShape
<1>10. x = [tree EXCEPT ![n] = z]
  BY <1>1, <1>6, <1>8, <1>9
<1>11. /\ DOMAIN z = LeafFields /\ z.op = "leaf" /\ z.tensor = y.tensor /\ z.swapped = b
       /\ z.indices = i /\ z.left = y.left /\ z.right = y.right
  BY <1>2, <1>6 DEF IsLeaf, LeafFields
<1>12. IsLeaf(z)
  BY <1>2, <1>4, <1>5, <1>11 DEF IsLeaf
<1>13. IndicesDiffer(z) /\ Names(z) = Names(y)
  <2>1. y.tensor \in Tensors /\ y.swapped \in BOOLEAN /\ y.indices = LeafIndices(y.tensor, y.swapped)
    BY <1>2 DEF IsLeaf
  <2>2. /\ ToSet(i) = ToSet(y.indices)
        /\ i \in Seq(Indices) /\ IsInjective(i)
    BY <1>4, <1>5, <2>1, LeafIndicesDiffer
  <2>. QED
    BY <1>11, <2>2 DEF IndicesDiffer, Names
<1>14. SameNode(z, y)
  BY <1>2, <1>11, <1>12, <1>13 DEF SameNode, IsLeaf
<1>15. /\ IsSequence(x) /\ Len(x) = Len(tree) /\ x[n] = z
       /\ \A k \in 1..Len(tree) : k # n => x[k] = tree[k]
  BY <1>10, TreeShape, ItemChanged DEF IsChanged
<1>16. Kept(x, tree)
  <2>1. \A k \in 1..Len(tree) : SameNode(tree[k], tree[k])
    BY SameTrees DEF Kept
  <2>. QED
    BY <1>1, <1>14, <1>15, <2>1 DEF Kept
<1>. QED
  BY <1>7, <1>15, <1>16

LEMMA UpdateHashKeeps ==
  ASSUME NEW tree, IsTree(tree), NEW x, Kept(x, tree), NEW n \in 1..Len(tree),
         tree[n].op # "leaf", tree[n].left # n, tree[n].right # n,
         NEW y, y = UpdateHash(x, n)
  PROVE  /\ Kept(y, tree)
         /\ \A k \in 1..Len(tree) : k # n => y[k] = x[k]
         /\ y[n].hash = NodeHash(y[n].op, y[n].indices, x[y[n].left], x[y[n].right])
<1>1. PICK v : v = x[n]
  OBVIOUS
<1>2. PICK h : h = NodeHash(v.op, v.indices, x[v.left], x[v.right])
  OBVIOUS
<1>3. PICK z : z = [v EXCEPT !.hash = h]
  OBVIOUS
<1>4. IsSequence(x) /\ Len(x) = Len(tree) /\ \A k \in 1..Len(tree) : SameNode(x[k], tree[k])
  BY DEF Kept
<1>5. n \in DOMAIN x
  BY <1>4, SequenceIn
<1>6. y = [x EXCEPT ![n].hash = h]
  BY <1>1, <1>2, Zenon DEF UpdateHash
<1>7. y = [x EXCEPT ![n] = z]
  BY <1>1, <1>3, <1>5, <1>6
<1>8. /\ IsSequence(y) /\ Len(y) = Len(tree) /\ y[n] = z
      /\ \A k \in 1..Len(tree) : k # n => y[k] = x[k]
  <2>1. IsSequence(x) /\ n \in 1..Len(x)
    BY <1>4
  <2>2. IsChanged([x EXCEPT ![n] = z], x, n, z)
    BY <2>1, ItemChanged
  <2>3. IsChanged(y, x, n, z)
    BY <1>7, <2>2
  <2>. QED
    BY <1>4, <2>3 DEF IsChanged
<1>9. SameNode(v, tree[n])
  BY <1>1, <1>4
<1>10. IsInner(v) /\ v.op = tree[n].op /\ v.left = tree[n].left /\ v.right = tree[n].right
  BY <1>9, LeavesOnly DEF SameNode
<1>11. /\ DOMAIN z = InnerFields /\ z.op = v.op /\ z.left = v.left /\ z.right = v.right
       /\ z.indices = v.indices /\ z.hash = h
  BY <1>3, <1>10 DEF IsInner, InnerFields
<1>12. IsInner(z)
  BY <1>10, <1>11 DEF IsInner
<1>13. SameNode(z, tree[n])
  BY <1>9, <1>11, <1>12 DEF SameNode, Names, IndicesDiffer
<1>14. Kept(y, tree)
  BY <1>4, <1>8, <1>13 DEF Kept
<1>15. y[n].hash = NodeHash(y[n].op, y[n].indices, x[y[n].left], x[y[n].right])
  BY <1>2, <1>8, <1>11
<1>. QED
  BY <1>8, <1>14, <1>15

\* only the hashes in what is below node m may be outdated, and those are not
IsSwappedBelow(x, tree, f, m) ==
  /\ Kept(x, tree)
  /\ \A k \in 1..Len(tree) : k \notin f[m]..m => x[k] = tree[k]
  /\ \A k \in f[m]..m : tree[k].op # "leaf" =>
       x[k].hash = NodeHash(x[k].op, x[k].indices, x[x[k].left], x[x[k].right])

LEMMA NothingSwapped ==
  ASSUME NEW tree, IsTree(tree), NEW f, Parted(tree, f), NEW m \in 1..Len(tree)
  PROVE  IsSwappedBelow(tree, tree, f, m)
<1>1. \A k \in f[m]..m : k \in 1..Len(tree)
  BY TreeShape, Nested
<1>. QED
  BY <1>1, TreeShape, SameTrees DEF IsSwappedBelow, HashesAreCurrent

\* the node above the operand s in which labels were exchanged
LEMMA SwappedAbove ==
  ASSUME NEW tree, IsTree(tree), NEW f, Parted(tree, f), NEW n \in 1..Len(tree),
         tree[n].op # "leaf", NEW s \in {tree[n].left, tree[n].right},
         NEW x, IsSwappedBelow(x, tree, f, s), NEW y, y = UpdateHash(x, n)
  PROVE  IsSwappedBelow(y, tree, f, n)
<1>. DEFINE N == Len(tree)
            Current(z, k) == z[k].hash = NodeHash(z[k].op, z[k].indices, z[z[k].left], z[z[k].right])
<1>1. N \in Nat /\ DOMAIN tree = 1..N /\ HashesAreCurrent(tree)
  BY TreeShape
<1>2. /\ \A k \in 1..N : f[k] \in 1..k
      /\ \A k \in 1..N : tree[k].op # "leaf" =>
           /\ tree[k].right = k - 1 /\ k - 1 \in 1..N
           /\ tree[k].left = f[k - 1] - 1 /\ tree[k].left \in 1..(k - 2)
           /\ f[k] = f[tree[k].left]
      /\ \A m \in 1..N : \A k \in f[m]..m : f[k] >= f[m]
  BY Nested
<1>3. PICK l, r : l = tree[n].left /\ r = tree[n].right
  OBVIOUS
<1>4. /\ r = n - 1 /\ r \in 1..N /\ l = f[r] - 1 /\ l \in 1..(n - 2) /\ f[n] = f[l]
      /\ f[l] \in 1..l /\ f[r] \in 1..r /\ l \in 1..N
  BY <1>1, <1>2, <1>3
<1>5. l # n /\ r # n
  BY <1>4
<1>6. Kept(x, tree)
  BY DEF IsSwappedBelow
<1>7. /\ Kept(y, tree)
      /\ \A k \in 1..N : k # n => y[k] = x[k]
      /\ y[n].hash = NodeHash(y[n].op, y[n].indices, x[y[n].left], x[y[n].right])
  BY <1>3, <1>5, <1>6, UpdateHashKeeps
<1>8. \A k \in 1..N : SameNode(y[k], tree[k])
  BY <1>7 DEF Kept
<1>9. \A k \in 1..N : y[k].op = tree[k].op /\ y[k].left = tree[k].left /\ y[k].right = tree[k].right
  BY <1>8 DEF SameNode
<1>10. f[s]..s \subseteq f[n]..(n - 1)
  BY <1>3, <1>4
<1>11. \A k \in 1..N : k \notin f[n]..n => y[k] = tree[k]
  <2>1. ASSUME NEW k \in 1..N, k \notin f[n]..n
        PROVE  y[k] = tree[k]
    <3>1. k # n /\ k \notin f[s]..s
      BY <1>4, <1>10, <2>1
    <3>2. x[k] = tree[k]
      BY <3>1 DEF IsSwappedBelow
    <3>. QED
      BY <1>7, <3>1, <3>2
  <2>. QED
    BY <2>1
<1>12. Current(y, n)
  <2>1. y[y[n].left] = x[y[n].left] /\ y[y[n].right] = x[y[n].right]
    BY <1>3, <1>4, <1>5, <1>7, <1>9
  <2>. QED
    BY <1>7, <2>1
<1>13. ASSUME NEW k \in f[n]..(n - 1), tree[k].op # "leaf"
       PROVE  Current(y, k)
  <2>1. k \in 1..N /\ k # n
    BY <1>1, <1>4
  <2>2. tree[k].left \in 1..(k - 2) /\ tree[k].right = k - 1 /\ tree[k].left = f[k - 1] - 1 /\ k - 1 \in 1..N
    BY <1>2, <1>13, <2>1
  <2>3. tree[k].left \in 1..N /\ tree[k].left # n /\ k - 1 # n
    BY <1>1, <2>1, <2>2
  <2>4. y[k] = x[k] /\ y[tree[k].left] = x[tree[k].left] /\ y[tree[k].right] = x[tree[k].right]
    BY <1>7, <2>1, <2>2, <2>3
  <2>5. CASE k \in f[s]..s
    <3>1. Current(x, k)
      BY <1>13, <2>5 DEF IsSwappedBelow
    <3>. QED
      BY <1>9, <2>1, <2>4, <3>1
  <2>6. CASE k \notin f[s]..s
    <3>1. f[k] <= tree[k].left /\ f[k] \in Int
      <4>1. f[k] = f[tree[k].left] /\ f[tree[k].left] \in 1..tree[k].left
        BY <1>2, <1>13, <2>1, <2>3
      <4>. QED
        BY <2>3, <4>1
    <3>2. tree[k].left \notin f[s]..s /\ k - 1 \notin f[s]..s
      <4>1. CASE s = l /\ l # r
        <5>1. k \in f[r]..r
          BY <1>4, <2>1, <2>6, <4>1
        <5>2. f[k] >= f[r]
          BY <1>2, <1>4, <5>1
        <5>. QED
          BY <1>4, <2>2, <2>3, <3>1, <4>1, <5>2
      <4>2. CASE s = r
        <5>1. k <= l
          BY <1>4, <2>1, <2>6, <4>2
        <5>. QED
          BY <1>4, <2>1, <2>2, <4>2, <5>1
      <4>. QED
        BY <1>3, <4>1, <4>2
    <3>3. x[k] = tree[k] /\ x[tree[k].left] = tree[tree[k].left] /\ x[tree[k].right] = tree[tree[k].right]
      BY <2>1, <2>2, <2>3, <2>6, <3>2 DEF IsSwappedBelow
    <3>4. tree[k].hash = NodeHash(tree[k].op, tree[k].indices, tree[tree[k].left], tree[tree[k].right])
      BY <1>1, <1>13, <2>1 DEF HashesAreCurrent
    <3>. QED
      BY <1>9, <2>1, <2>4, <3>3, <3>4
  <2>. QED
    BY <2>5, <2>6
<1>14. \A k \in f[n]..n : k = n \/ k \in f[n]..(n - 1)
  BY <1>4
<1>15. \A k \in f[n]..n : tree[k].op # "leaf" => Current(y, k)
  BY <1>12, <1>13, <1>14
<1>. QED
  BY <1>7, <1>11, <1>15 DEF IsSwappedBelow

\* An exchange of labels keeps the tree.
LEMMA SwapIsTree ==
  ASSUME NEW tree, IsTree(tree), NEW t
  PROVE  IsTree(SwapLabels(tree, t)) /\ Kept(SwapLabels(tree, t), tree)
<1>. DEFINE N == Len(tree)
<1>1. N \in Nat /\ N >= 1 /\ DOMAIN tree = 1..N
  BY TreeShape
<1>2. PICK f : Parted(tree, f)
  BY DEF IsTree
<1>3. PICK u : IsSwap(u, tree, t) /\ SwapLabels(tree, t) = u[N]
  BY SwapIs
<1>4. \A n \in 1..N : u[n] = SwapAt(u, tree, t, n)
  BY <1>1, <1>3 DEF IsSwap
<1>5. \A n \in 1..N : tree[n].op = "leaf" => f[n] = n
  BY <1>2, Nested
<1>6. \A n \in 1..N : tree[n].op # "leaf" => tree[n].left \in 1..(n - 1) /\ tree[n].right \in 1..(n - 1)
  BY <1>1, <1>2, Nested
<1>. HIDE DEF N
<1>. DEFINE R == {m \in 0..N : \A n \in 1..m : IsSwappedBelow(u[n], tree, f, n)}
<1>7. 0 \in R
  BY <1>1
<1>8. ASSUME NEW m \in 0..(N - 1), m \in R
      PROVE  m + 1 \in R
  <2>1. PICK n : n = m + 1
    OBVIOUS
  <2>2. n \in 1..N /\ \A k \in 1..(n - 1) : IsSwappedBelow(u[k], tree, f, k)
    BY <1>1, <1>8, <2>1
  <2>3. u[n] = SwapAt(u, tree, t, n)
    BY <1>4, <2>2
  <2>4. IsSwappedBelow(u[n], tree, f, n)
    <3>1. CASE u[n] = tree
      BY <1>2, <2>2, <3>1, NothingSwapped DEF N
    <3>2. CASE tree[n].op = "leaf" /\ u[n] = SwapLeaf(tree, n)
      <4>1. /\ Kept(u[n], tree)
            /\ \A k \in 1..N : k # n => u[n][k] = tree[k]
        BY <2>2, <3>2, SwapLeafKeeps DEF N
      <4>2. f[n] = n
        BY <1>5, <2>2, <3>2
      <4>3. /\ \A k \in 1..N : k \notin f[n]..n => u[n][k] = tree[k]
            /\ \A k \in f[n]..n : tree[k].op = "leaf"
        BY <1>1, <2>2, <3>2, <4>1, <4>2
      <4>. QED
        BY <4>1, <4>3 DEF IsSwappedBelow, N
    <3>3. ASSUME NEW s \in {tree[n].left, tree[n].right}, tree[n].op # "leaf", u[n] = UpdateHash(u[s], n)
          PROVE  IsSwappedBelow(u[n], tree, f, n)
      <4>1. s \in 1..(n - 1)
        BY <1>6, <2>2, <3>3
      <4>2. IsSwappedBelow(u[s], tree, f, s)
        BY <2>2, <4>1
      <4>. QED
        BY <1>2, <2>2, <3>3, <4>2, SwappedAbove DEF N
    <3>. QED
      BY <2>3, <3>1, <3>2, <3>3 DEF SwapAt
  <2>5. \A k \in 1..(m + 1) : k = n \/ k \in 1..(n - 1)
    BY <2>1
  <2>. QED
    BY <1>1, <2>1, <2>2, <2>4, <2>5
<1>9. IsSwappedBelow(u[N], tree, f, N)
  <2>. HIDE DEF R
  <2>1. \A m \in 0..N : m \in R
    BY <1>1, <1>7, <1>8, IntervalInduction
  <2>. QED
    BY <1>1, <2>1 DEF R
<1>10. PICK x : x = u[N]
  OBVIOUS
<1>11. Kept(x, tree)
  BY <1>9, <1>10 DEF IsSwappedBelow
<1>12. /\ IsSequence(x) /\ Len(x) = N /\ DOMAIN x = 1..N
       /\ \A k \in 1..N : SameNode(x[k], tree[k])
  BY <1>11, SequenceIn DEF Kept, N
<1>13. \A k \in 1..N :
         /\ x[k].op = tree[k].op /\ x[k].left = tree[k].left /\ x[k].right = tree[k].right
         /\ Names(x[k]) = Names(tree[k]) /\ (IsLeaf(x[k]) \/ IsInner(x[k])) /\ IndicesDiffer(x[k])
  BY <1>12 DEF SameNode
<1>14. Parted(x, f)
  BY <1>1, <1>2, <1>12, <1>13 DEF Parted, N
<1>15. HashesAreCurrent(x)
  <2>1. f[N] = 1
    BY <1>2 DEF Parted, N
  <2>2. \A k \in 1..N : tree[k].op # "leaf" =>
          x[k].hash = NodeHash(x[k].op, x[k].indices, x[x[k].left], x[x[k].right])
    BY <1>9, <1>10, <2>1 DEF IsSwappedBelow
  <2>. QED
    BY <1>12, <1>13, <2>2 DEF HashesAreCurrent
<1>16. ContractedOnce(x)
  <2>1. ContractedOnce(tree)
    BY TreeShape
  <2>2. \A k \in 1..N : tree[k].op # "leaf" => tree[k].left \in 1..N /\ tree[k].right \in 1..N
    BY <1>1, <1>6
  <2>. QED
    BY <1>1, <1>12, <1>13, <2>1, <2>2 DEF ContractedOnce
<1>17. IsTree(x)
  BY <1>1, <1>12, <1>13, <1>14, <1>15, <1>16 DEF IsTree
<1>. QED
  BY <1>3, <1>10, <1>11, <1>17

-----------------------------------------------------------------------------
(***************************************************************************)
(* Powers, and the number of functions from a set to another.              *)
(***************************************************************************)
PowerAt(u, b, k) == IF k = 0 THEN 1 ELSE b * u[k - 1]

IsPower(u, b, n) == u = [k \in 0..n |-> PowerAt(u, b, k)]

LEMMA PowerExists ==
  ASSUME NEW b \in Nat, NEW n \in Nat
  PROVE  \E u : IsPower(u, b, n)
<1>. DEFINE Step(u) == [k \in 0..n |-> PowerAt(u, b, k)]
            IsTo(u, m) == \A k \in 0..m : u[k] = PowerAt(u, b, k)
            R == {m \in 0..n : \E u : IsTo(u, m)}
<1>1. \A u : \A k \in 0..n : Step(u)[k] = PowerAt(u, b, k)
  OBVIOUS
<1>2. \A u, v : \A k \in 0..n : (k # 0 => u[k - 1] = v[k - 1]) => PowerAt(u, b, k) = PowerAt(v, b, k)
  BY DEF PowerAt
<1>. HIDE DEF Step
<1>3. 0 \in R
  <2>1. PICK u : u = [k \in 0..n |-> 1]
    OBVIOUS
  <2>2. u[0] = PowerAt(u, b, 0)
    BY <2>1 DEF PowerAt
  <2>. QED
    BY <2>2
<1>4. ASSUME NEW m \in 0..(n - 1), m \in R
      PROVE  m + 1 \in R
  <2>1. PICK u : IsTo(u, m)
    BY <1>4
  <2>2. PICK v : v = Step(u)
    OBVIOUS
  <2>3. \A k \in 0..m : v[k] = u[k]
    BY <1>1, <2>1, <2>2
  <2>4. ASSUME NEW k \in 0..(m + 1)
        PROVE  v[k] = PowerAt(v, b, k)
    <3>1. k \in 0..n /\ (k # 0 => k - 1 \in 0..m)
      OBVIOUS
    <3>2. k # 0 => u[k - 1] = v[k - 1]
      BY <2>3, <3>1
    <3>3. v[k] = PowerAt(u, b, k)
      BY <1>1, <2>2, <3>1
    <3>. QED
      BY <1>2, <3>1, <3>2, <3>3
  <2>. QED
    BY <2>4
<1>5. n \in R
  <2>. HIDE DEF R
  <2>1. \A m \in 0..n : m \in R
    BY <1>3, <1>4, IntervalInduction
  <2>. QED
    BY <2>1
<1>6. PICK u : IsTo(u, n)
  BY <1>5
<1>7. PICK v : v = Step(u)
  OBVIOUS
<1>8. \A k \in 0..n : v[k] = u[k]
  BY <1>1, <1>6, <1>7
<1>9. \A k \in 0..n : v[k] = PowerAt(v, b, k)
  <2>1. ASSUME NEW k \in 0..n
        PROVE  v[k] = PowerAt(v, b, k)
    <3>1. k # 0 => u[k - 1] = v[k - 1]
      BY <1>8
    <3>. QED
      BY <1>1, <1>2, <1>7, <3>1
  <2>. QED
    BY <2>1
<1>10. v = [k \in 0..n |-> v[k]]
  BY <1>7 DEF Step
<1>11. v = [k \in 0..n |-> PowerAt(v, b, k)]
  BY <1>9, <1>10
<1>. QED
  BY <1>11 DEF IsPower

LEMMA PowerOf ==
  ASSUME NEW b \in Nat, NEW n \in Nat
  PROVE  \E u : IsPower(u, b, n) /\ Power(b, n) = u[n]
<1>. DEFINE p[k \in 0..n] == IF k = 0 THEN 1 ELSE b * p[k - 1]
<1>1. Power(b, n) = p[n]
  BY Zenon DEF Power
<1>2. IsPower(p, b, n)
  <2>. DEFINE IsFrom(u) == u = [k \in 0..n |-> IF k = 0 THEN 1 ELSE b * u[k - 1]]
  <2>1. \A u : IsPower(u, b, n) <=> IsFrom(u)
    BY Zenon DEF IsPower, PowerAt
  <2>2. \E u : IsFrom(u)
    <3>. HIDE DEF IsFrom
    <3>. QED
      BY <2>1, PowerExists
  <2>. QED
    BY <2>1, <2>2
<1>. HIDE DEF p
<1>. QED
  BY <1>1, <1>2

LEMMA PowersAgree ==
  ASSUME NEW b \in Nat, NEW m \in Nat, NEW n \in Nat, m <= n,
         NEW u, IsPower(u, b, m), NEW v, IsPower(v, b, n)
  PROVE  u[m] = v[m] /\ u[m] \in Nat
<1>. DEFINE R == {k \in 0..m : u[k] = v[k] /\ u[k] \in Nat}
<1>1. /\ \A k \in 0..m : u[k] = PowerAt(u, b, k)
      /\ \A k \in 0..n : v[k] = PowerAt(v, b, k)
  BY DEF IsPower
<1>2. 0 \in R
  BY <1>1 DEF PowerAt
<1>3. ASSUME NEW k \in 0..(m - 1), k \in R
      PROVE  k + 1 \in R
  <2>1. k + 1 \in 0..m /\ k + 1 \in 0..n /\ k + 1 # 0 /\ (k + 1) - 1 = k
    OBVIOUS
  <2>2. u[k + 1] = b * u[k] /\ v[k + 1] = b * v[k]
    BY <1>1, <2>1 DEF PowerAt
  <2>3. PICK x : x = u[k]
    OBVIOUS
  <2>4. x \in Nat /\ x = v[k]
    BY <1>3, <2>3
  <2>5. b * x \in Nat
    BY <2>4
  <2>. QED
    BY <2>1, <2>2, <2>3, <2>4, <2>5
<1>4. m \in R
  <2>. HIDE DEF R
  <2>1. \A k \in 0..m : k \in R
    BY <1>2, <1>3, IntervalInduction
  <2>. QED
    BY <2>1
<1>. QED
  BY <1>4

LEMMA PowerIs ==
  ASSUME NEW b \in Nat
  PROVE  /\ Power(b, 0) = 1
         /\ \A n \in Nat : Power(b, n) \in Nat /\ Power(b, n + 1) = b * Power(b, n)
<1>1. Power(b, 0) = 1
  <2>1. PICK u : IsPower(u, b, 0) /\ Power(b, 0) = u[0]
    BY PowerOf
  <2>. QED
    BY <2>1 DEF IsPower, PowerAt
<1>2. ASSUME NEW n \in Nat
      PROVE  Power(b, n) \in Nat /\ Power(b, n + 1) = b * Power(b, n)
  <2>1. PICK u : IsPower(u, b, n) /\ Power(b, n) = u[n]
    BY PowerOf
  <2>2. PICK v : IsPower(v, b, n + 1) /\ Power(b, n + 1) = v[n + 1]
    BY PowerOf
  <2>3. u[n] = v[n] /\ u[n] \in Nat
    BY <2>1, <2>2, PowersAgree
  <2>4. v[n + 1] = b * v[n]
    <3>1. n + 1 \in 0..(n + 1) /\ n + 1 # 0 /\ (n + 1) - 1 = n
      OBVIOUS
    <3>. QED
      BY <2>2, <3>1 DEF IsPower, PowerAt
  <2>. QED
    BY <2>1, <2>2, <2>3, <2>4
<1>. QED
  BY <1>1, <1>2

LEMMA PowerOfSum ==
  ASSUME NEW b \in Nat, NEW m \in Nat, NEW n \in Nat
  PROVE  Power(b, m + n) = Power(b, m) * Power(b, n)
<1>. DEFINE R == {k \in Nat : Power(b, m + k) = Power(b, m) * Power(b, k)}
<1>1. 0 \in R
  BY PowerIs
<1>2. ASSUME NEW k \in R
      PROVE  k + 1 \in R
  <2>1. PICK x, y, z : x = Power(b, m) /\ y = Power(b, k) /\ z = Power(b, m + k)
    OBVIOUS
  <2>2. k \in Nat /\ m + k \in Nat /\ m + (k + 1) = (m + k) + 1
    OBVIOUS
  <2>3. x \in Nat /\ y \in Nat /\ z = x * y
    BY <2>1, <2>2, PowerIs
  <2>4. Power(b, (m + k) + 1) = b * z /\ Power(b, k + 1) = b * y
    BY <2>1, <2>2, PowerIs
  <2>5. b * (x * y) = x * (b * y)
    BY <2>3
  <2>6. Power(b, m + (k + 1)) = x * Power(b, k + 1)
    BY <2>2, <2>3, <2>4, <2>5
  <2>. QED
    BY <2>1, <2>2, <2>6
<1>3. R = Nat
  <2>. HIDE DEF R
  <2>1. R \in SUBSET Nat
    BY DEF R
  <2>. QED
    BY <1>1, <1>2, <2>1, SetInduction
<1>. QED
  BY <1>3

LEMMA FunctionsFromNothing ==
  ASSUME NEW T
  PROVE  IsFiniteSet([{} -> T]) /\ Cardinality([{} -> T]) = 1
<1>1. PICK e : e = [x \in {} |-> 0]
  OBVIOUS
<1>2. e \in [{} -> T]
  BY <1>1
<1>3. \A f \in [{} -> T] : f = e
  BY <1>1
<1>4. [{} -> T] = {e}
  BY <1>2, <1>3
<1>. QED
  BY <1>4, FS_Singleton

LEMMA FunctionsFromMore ==
  ASSUME NEW S, NEW x, x \notin S, NEW T, IsFiniteSet(T), IsFiniteSet([S -> T])
  PROVE  /\ IsFiniteSet([S \cup {x} -> T])
         /\ Cardinality([S \cup {x} -> T]) = Cardinality(T) * Cardinality([S -> T])
<1>. DEFINE F == [S -> T]
            U == S \cup {x}
            G == [U -> T]
<1>1. IsFiniteSet(T \X F) /\ Cardinality(T \X F) = Cardinality(T) * Cardinality(F)
  BY FS_Product
<1>2. PICK h : h = [p \in T \X F |-> [y \in U |-> IF y = x THEN p[1] ELSE p[2][y]]]
  OBVIOUS
<1>3. \A p \in T \X F : /\ h[p] \in G /\ h[p][x] = p[1]
                        /\ \A y \in S : h[p][y] = p[2][y]
  <2>1. ASSUME NEW p \in T \X F
        PROVE  /\ h[p] \in G /\ h[p][x] = p[1]
               /\ \A y \in S : h[p][y] = p[2][y]
    <3>1. p[1] \in T /\ p[2] \in F
      OBVIOUS
    <3>2. PICK a, f : a = p[1] /\ f = p[2]
      OBVIOUS
    <3>3. h[p] = [y \in U |-> IF y = x THEN a ELSE f[y]]
      BY <1>2, <3>2
    <3>4. \A y \in S : f[y] \in T /\ y # x
      BY <3>1, <3>2
    <3>. QED
      BY <3>1, <3>2, <3>3, <3>4
  <2>. QED
    BY <2>1
<1>4. h \in [T \X F -> G]
  <2>1. h = [p \in T \X F |-> h[p]]
    BY <1>2
  <2>. QED
    BY <1>3, <2>1
<1>5. \A p, q \in T \X F : h[p] = h[q] => p = q
  <2>1. ASSUME NEW p \in T \X F, NEW q \in T \X F, h[p] = h[q]
        PROVE  p = q
    <3>1. p[1] = q[1] /\ \A y \in S : p[2][y] = q[2][y]
      BY <1>3, <2>1
    <3>2. p[2] \in [S -> T] /\ q[2] \in [S -> T]
      OBVIOUS
    <3>3. p[2] = q[2]
      BY <3>1, <3>2
    <3>4. p = <<p[1], p[2]>> /\ q = <<q[1], q[2]>>
      OBVIOUS
    <3>. QED
      BY <3>1, <3>3, <3>4
  <2>. QED
    BY <2>1
<1>6. \A g \in G : \E p \in T \X F : h[p] = g
  <2>1. ASSUME NEW g \in G
        PROVE  \E p \in T \X F : h[p] = g
    <3>1. PICK f : f = [y \in S |-> g[y]]
      OBVIOUS
    <3>2. f \in F /\ g[x] \in T
      BY <3>1
    <3>3. PICK p : p = <<g[x], f>>
      OBVIOUS
    <3>4. p \in T \X F /\ p[1] = g[x] /\ p[2] = f
      BY <3>2, <3>3
    <3>5. h[p] \in G /\ \A y \in U : h[p][y] = g[y]
      BY <1>3, <3>1, <3>4
    <3>6. h[p] = g
      BY <3>5
    <3>. QED
      BY <3>4, <3>6
  <2>. QED
    BY <2>1
<1>7. h \in Bijection(T \X F, G)
  BY <1>4, <1>5, <1>6 DEF Bijection, Injection, Surjection, IsInjective
<1>8. ExistsBijection(T \X F, G)
  BY <1>7 DEF ExistsBijection
<1>. QED
  BY <1>1, <1>8, FS_Bijection

LEMMA FunctionsCount ==
  ASSUME NEW S, IsFiniteSet(S), NEW T, IsFiniteSet(T)
  PROVE  IsFiniteSet([S -> T]) /\ Cardinality([S -> T]) = Power(Cardinality(T), Cardinality(S))
<1>. DEFINE b == Cardinality(T)
            Is(s) == IsFiniteSet([s -> T]) /\ Cardinality([s -> T]) = Power(b, Cardinality(s))
            R == {s \in SUBSET S : Is(s)}
<1>1. b \in Nat
  BY FS_CardinalityType
<1>2. {} \in R
  BY <1>1, PowerIs, FunctionsFromNothing, FS_EmptySet
<1>3. ASSUME NEW s \in SUBSET S, s # {}, \A x \in s : s \ {x} \in R
      PROVE  s \in R
  <2>1. PICK x : x \in s
    BY <1>3
  <2>2. PICK r : r = s \ {x}
    OBVIOUS
  <2>3. x \notin r /\ s = r \cup {x} /\ Is(r)
    BY <1>3, <2>1, <2>2
  <2>4. IsFiniteSet(r) /\ IsFiniteSet(s)
    BY <2>2, FS_Subset
  <2>5. Cardinality(r) \in Nat /\ Cardinality(s) = Cardinality(r) + 1
    BY <2>3, <2>4, FS_CardinalityType, FS_AddElement
  <2>6. /\ IsFiniteSet([s -> T])
        /\ Cardinality([s -> T]) = b * Cardinality([r -> T])
    BY <2>3, FunctionsFromMore
  <2>7. Power(b, Cardinality(r) + 1) = b * Power(b, Cardinality(r))
    BY <1>1, <2>5, PowerIs
  <2>. QED
    BY <2>3, <2>5, <2>6, <2>7
<1>. HIDE DEF R
<1>4. S \in R
  BY <1>2, <1>3, SubsetInduction, ZenonT(60)
<1>. QED
  BY <1>4 DEF R

LEMMA DifferentCount ==
  ASSUME NEW s \in Seq(Indices), IsInjective(s)
  PROVE  IsFiniteSet(ToSet(s)) /\ Cardinality(ToSet(s)) = Len(s) /\ Len(s) \in Nat
<1>1. Len(s) \in Nat /\ s \in [1..Len(s) -> Indices] /\ DOMAIN s = 1..Len(s)
  OBVIOUS
<1>2. PICK n : n = Len(s)
  OBVIOUS
<1>3. PICK T : T = ToSet(s)
  OBVIOUS
<1>4. T = {s[k] : k \in 1..n}
  BY <1>1, <1>2, <1>3 DEF ToSet
<1>5. s \in [1..n -> T]
  BY <1>1, <1>2, <1>4
<1>6. \A j, k \in 1..n : s[j] = s[k] => j = k
  BY <1>1, <1>2 DEF IsInjective
<1>7. s \in Bijection(1..n, T)
  BY <1>1, <1>2, <1>4, <1>5, <1>6 DEF Bijection, Injection, Surjection, IsInjective
<1>8. ExistsBijection(1..n, T)
  BY <1>7 DEF ExistsBijection
<1>9. IsFiniteSet(1..n) /\ Cardinality(1..n) = n
  <2>1. n \in Nat /\ 1 \in Int /\ n \in Int
    BY <1>1, <1>2
  <2>2. IsFiniteSet(1..n) /\ Cardinality(1..n) = IF 1 > n THEN 0 ELSE n - 1 + 1
    BY <2>1, FS_Interval
  <2>. QED
    BY <2>1, <2>2
<1>. QED
  BY <1>1, <1>2, <1>3, <1>8, <1>9, FS_Bijection

-----------------------------------------------------------------------------
(***************************************************************************)
(* The count of operations: that of a subtree is the sum over its nodes.   *)
(***************************************************************************)
Contractions(tree) ==
  [n \in DOMAIN tree |-> IF tree[n].op = "product" THEN ContractionOps(tree, n) ELSE 0]

CountAt(u, tree, n) ==
  IF tree[n].op = "leaf" THEN 0
  ELSE (IF tree[n].op = "product" THEN ContractionOps(tree, n) ELSE 0)
       + u[tree[n].left] + u[tree[n].right]

IsCount(u, tree) == u = [n \in DOMAIN tree |-> CountAt(u, tree, n)]

LEMMA CountExists ==
  ASSUME NEW tree, IsTree(tree)
  PROVE  \E u : IsCount(u, tree)
<1>. DEFINE N == Len(tree)
            Step(u) == [n \in 1..N |-> CountAt(u, tree, n)]
            IsTo(u, m) == \A n \in 1..m : u[n] = CountAt(u, tree, n)
            R == {m \in 0..N : \E u : IsTo(u, m)}
<1>1. N \in Nat /\ DOMAIN tree = 1..N
  BY TreeShape
<1>2. PICK f : Parted(tree, f)
  BY DEF IsTree
<1>3. \A n \in 1..N : tree[n].op # "leaf" => tree[n].left \in 1..(n - 1) /\ tree[n].right \in 1..(n - 1)
  BY <1>1, <1>2, Nested
<1>. HIDE DEF N
<1>4. \A u : \A n \in 1..N : Step(u)[n] = CountAt(u, tree, n)
  OBVIOUS
<1>5. \A u, v : \A n \in 1..N :
        (tree[n].op # "leaf" => u[tree[n].left] = v[tree[n].left] /\ u[tree[n].right] = v[tree[n].right])
          => CountAt(u, tree, n) = CountAt(v, tree, n)
  BY DEF CountAt
<1>. HIDE DEF Step
<1>6. 0 \in R
  BY <1>1
<1>7. ASSUME NEW m \in 0..(N - 1), m \in R
      PROVE  m + 1 \in R
  <2>1. PICK u : IsTo(u, m)
    BY <1>7
  <2>2. PICK v : v = Step(u)
    OBVIOUS
  <2>3. \A n \in 1..m : v[n] = u[n]
    BY <1>1, <1>4, <2>1, <2>2
  <2>4. ASSUME NEW n \in 1..(m + 1)
        PROVE  v[n] = CountAt(v, tree, n)
    <3>1. n \in 1..N /\ \A k \in 1..(n - 1) : k \in 1..m
      BY <1>1
    <3>2. tree[n].op # "leaf" => u[tree[n].left] = v[tree[n].left] /\ u[tree[n].right] = v[tree[n].right]
      BY <1>3, <2>3, <3>1
    <3>3. v[n] = CountAt(u, tree, n)
      BY <1>4, <2>2, <3>1
    <3>. QED
      BY <1>5, <3>1, <3>2, <3>3
  <2>. QED
    BY <1>1, <2>4
<1>8. N \in R
  <2>. HIDE DEF R
  <2>1. \A m \in 0..N : m \in R
    BY <1>1, <1>6, <1>7, IntervalInduction
  <2>. QED
    BY <1>1, <2>1
<1>9. PICK u : IsTo(u, N)
  BY <1>8
<1>10. PICK v : v = Step(u)
  OBVIOUS
<1>11. \A n \in 1..N : v[n] = u[n]
  BY <1>4, <1>9, <1>10
<1>12. \A n \in 1..N : v[n] = CountAt(v, tree, n)
  <2>1. ASSUME NEW n \in 1..N
        PROVE  v[n] = CountAt(v, tree, n)
    <3>1. \A k \in 1..(n - 1) : k \in 1..N
      BY <1>1
    <3>2. tree[n].op # "leaf" => u[tree[n].left] = v[tree[n].left] /\ u[tree[n].right] = v[tree[n].right]
      BY <1>3, <1>11, <3>1
    <3>. QED
      BY <1>4, <1>5, <1>10, <3>2
  <2>. QED
    BY <2>1
<1>13. v = [n \in 1..N |-> v[n]]
  BY <1>10 DEF Step
<1>14. v = [n \in 1..N |-> CountAt(v, tree, n)]
  BY <1>12, <1>13
<1>. QED
  BY <1>1, <1>14 DEF IsCount

LEMMA CountIs ==
  ASSUME NEW tree, IsTree(tree)
  PROVE  \E u : IsCount(u, tree) /\ OpsCount(tree) = u[Len(tree)]
<1>. DEFINE count[n \in DOMAIN tree] ==
              IF tree[n].op = "leaf" THEN 0
              ELSE (IF tree[n].op = "product" THEN ContractionOps(tree, n) ELSE 0)
                   + count[tree[n].left] + count[tree[n].right]
<1>1. OpsCount(tree) = count[Len(tree)]
  BY Zenon DEF OpsCount
<1>2. IsCount(count, tree)
  <2>. DEFINE IsFrom(u) ==
         u = [n \in DOMAIN tree |->
                IF tree[n].op = "leaf" THEN 0
                ELSE (IF tree[n].op = "product" THEN ContractionOps(tree, n) ELSE 0)
                     + u[tree[n].left] + u[tree[n].right]]
  <2>1. \A u : IsCount(u, tree) <=> IsFrom(u)
    BY Zenon DEF IsCount, CountAt
  <2>2. \E u : IsFrom(u)
    <3>. HIDE DEF IsFrom
    <3>. QED
      BY <2>1, CountExists
  <2>. QED
    BY <2>1, <2>2
<1>. HIDE DEF count
<1>. QED
  BY <1>1, <1>2

\* the names of the indices of a node are as many as its indices
LEMMA NamesCount ==
  ASSUME NEW x, IndicesDiffer(x)
  PROVE  IsFiniteSet(Names(x)) /\ Cardinality(Names(x)) = Len(x.indices) /\ Len(x.indices) \in Nat
BY DifferentCount DEF IndicesDiffer, Names

\* the terms a contraction adds up are the operations counted for it
LEMMA ContractionTerms ==
  ASSUME NEW tree, IsTree(tree), NEW n \in DOMAIN tree, tree[n].op = "product"
  PROVE  /\ ContractionOps(tree, n) \in Nat
         /\ Cardinality(Tuples(Len(tree[n].indices)))
              * Cardinality([ToSet(tree[tree[n].left].indices) \cap ToSet(tree[tree[n].right].indices) -> Values])
              = ContractionOps(tree, n)
<1>. DEFINE N == Len(tree)
<1>1. N \in Nat /\ DOMAIN tree = 1..N /\ (\A k \in 1..N : IndicesDiffer(tree[k])) /\ ContractedOnce(tree)
  BY TreeShape
<1>2. PICK f : Parted(tree, f)
  BY DEF IsTree
<1>3. PICK l, r : l = Names(tree[tree[n].left]) /\ r = Names(tree[tree[n].right])
  OBVIOUS
<1>4. tree[n].left \in 1..N /\ tree[n].right \in 1..N
  BY <1>1, <1>2, Nested
<1>5. IsFiniteSet(l) /\ IsFiniteSet(r)
  BY <1>1, <1>3, <1>4, NamesCount
<1>6. PICK s, c : s = (l \ r) \cup (r \ l) /\ c = l \cap r
  OBVIOUS
<1>7. Names(tree[n]) = s
  BY <1>1, <1>3, <1>6 DEF ContractedOnce
<1>8. IsFiniteSet(s) /\ Cardinality(s) = Len(tree[n].indices) /\ Len(tree[n].indices) \in Nat
  BY <1>1, <1>7, NamesCount
<1>9. IsFiniteSet(c)
  BY <1>5, <1>6, FS_Intersection
<1>10. s \cap c = {} /\ s \cup c = l \cup r
  BY <1>6
<1>11. /\ Cardinality(l \cup r) = Cardinality(s) + Cardinality(c)
       /\ Cardinality(s) \in Nat /\ Cardinality(c) \in Nat
  BY <1>8, <1>9, <1>10, DisjointUnion
<1>12. IsFiniteSet(Values) /\ Cardinality(Values) \in Nat
  BY ValuesAssumption, FS_CardinalityType
<1>13. PICK b, j, k : b = Cardinality(Values) /\ j = Cardinality(s) /\ k = Cardinality(c)
  OBVIOUS
<1>14. ContractionOps(tree, n) = Power(b, j + k)
  <2>1. IndicesBelow(tree, n) = l \cup r
    BY <1>3 DEF IndicesBelow, Names
  <2>. QED
    BY <1>11, <1>13, <2>1 DEF ContractionOps
<1>15. Cardinality(Tuples(Len(tree[n].indices))) = Power(b, j)
  <2>1. PICK m : m = Len(tree[n].indices)
    OBVIOUS
  <2>2. m \in Nat /\ m = j
    BY <1>8, <1>13, <2>1
  <2>3. IsFiniteSet(1..m) /\ Cardinality(1..m) = m
    <3>1. 1 \in Int /\ m \in Int
      BY <2>2
    <3>2. IsFiniteSet(1..m) /\ Cardinality(1..m) = IF 1 > m THEN 0 ELSE m - 1 + 1
      BY <3>1, FS_Interval
    <3>. QED
      BY <2>2, <3>2
  <2>4. Cardinality([1..m -> Values]) = Power(b, m)
    BY <1>12, <1>13, <2>3, FunctionsCount
  <2>. QED
    BY <2>1, <2>2, <2>4 DEF Tuples
<1>16. Cardinality([c -> Values]) = Power(b, k)
  BY <1>9, <1>12, <1>13, FunctionsCount
<1>17. Power(b, j + k) = Power(b, j) * Power(b, k) /\ Power(b, j + k) \in Nat
  BY <1>11, <1>12, <1>13, PowerIs, PowerOfSum
<1>18. c = ToSet(tree[tree[n].left].indices) \cap ToSet(tree[tree[n].right].indices)
  BY <1>3, <1>6 DEF Names
<1>. QED
  BY <1>14, <1>15, <1>16, <1>17, <1>18

LEMMA ContractionsCount ==
  ASSUME NEW tree, IsTree(tree)
  PROVE  \A n \in 1..Len(tree) : Contractions(tree)[n] \in Nat
<1>1. DOMAIN tree = 1..Len(tree)
  BY TreeShape
<1>. QED
  BY <1>1, ContractionTerms DEF Contractions

\* The operations counted are the sum of those of the contractions.
LEMMA CountIsSum ==
  ASSUME NEW tree, IsTree(tree)
  PROVE  OpsCount(tree) = SumOver(Contractions(tree), 1..Len(tree)) /\ OpsCount(tree) \in Int
<1>. DEFINE N == Len(tree)
            c == Contractions(tree)
            S(m) == SumOver(c, 1..m)
<1>1. N \in Nat /\ N >= 1 /\ DOMAIN tree = 1..N
  BY TreeShape
<1>2. PICK f : Parted(tree, f)
  BY DEF IsTree
<1>3. PICK u : IsCount(u, tree) /\ OpsCount(tree) = u[N]
  BY CountIs
<1>4. \A n \in 1..N : u[n] = CountAt(u, tree, n)
  BY <1>1, <1>3 DEF IsCount
<1>5. \A n \in 1..N : c[n] \in Int
  BY ContractionsCount
<1>6. \A n \in 1..N : c[n] = IF tree[n].op = "product" THEN ContractionOps(tree, n) ELSE 0
  BY <1>1 DEF Contractions
<1>7. /\ \A n \in 1..N : f[n] \in 1..n
      /\ \A n \in 1..N : tree[n].op = "leaf" => f[n] = n
      /\ \A n \in 1..N : tree[n].op # "leaf" =>
           /\ tree[n].right = n - 1 /\ n - 1 \in 1..N
           /\ tree[n].left = f[n - 1] - 1 /\ tree[n].left \in 1..(n - 2)
           /\ f[n] = f[tree[n].left]
  BY <1>2, Nested
<1>. HIDE DEF N, c
<1>8. \A m \in 0..(N - 1) : S(m + 1) = S(m) + c[m + 1] /\ S(m) \in Int
  BY <1>1, <1>5, SumOverInterval
<1>9. S(0) = 0
  <2>1. 1..0 = {}
    OBVIOUS
  <2>2. SumOver(c, {}) = 0
    BY FS_EmptySet, SumOverRemove
  <2>. QED
    BY <2>1, <2>2
<1>. HIDE DEF S
<1>10. \A m \in 0..N : S(m) \in Int
  <2>1. N - 1 \in 0..(N - 1) /\ (N - 1) + 1 = N /\ N \in 1..N
    BY <1>1
  <2>2. S(N) \in Int
    BY <1>5, <1>8, <2>1
  <2>3. \A m \in 0..N : m = N \/ m \in 0..(N - 1)
    BY <1>1
  <2>. QED
    BY <1>8, <2>2, <2>3
<1>. DEFINE R == {j \in 0..N : \A n \in 1..j : u[n] = S(n) - S(f[n] - 1)}
<1>11. 0 \in R
  BY <1>1
<1>12. ASSUME NEW j \in 0..(N - 1), j \in R
       PROVE  j + 1 \in R
  <2>1. PICK n : n = j + 1
    OBVIOUS
  <2>2. n \in 1..N /\ \A k \in 1..(n - 1) : u[k] = S(k) - S(f[k] - 1)
    BY <1>1, <1>12, <2>1
  <2>3. S(n) = S(n - 1) + c[n] /\ S(n) \in Int /\ S(n - 1) \in Int /\ c[n] \in Int
    <3>1. n - 1 \in 0..(N - 1) /\ (n - 1) + 1 = n /\ n \in 0..N /\ n - 1 \in 0..N
      BY <1>1, <2>2
    <3>. QED
      BY <1>5, <1>8, <1>10, <2>2, <3>1
  <2>4. u[n] = S(n) - S(f[n] - 1)
    <3>1. CASE tree[n].op = "leaf"
      <4>1. u[n] = 0 /\ c[n] = 0 /\ f[n] = n
        BY <1>4, <1>6, <1>7, <2>2, <3>1 DEF CountAt
      <4>. QED
        BY <2>3, <4>1
    <3>2. CASE tree[n].op # "leaf"
      <4>1. PICK l, r : l = tree[n].left /\ r = n - 1
        OBVIOUS
      <4>2. /\ l \in 1..(n - 2) /\ r \in 1..(n - 1) /\ l = f[r] - 1 /\ f[n] = f[l] /\ tree[n].right = r
        BY <1>1, <1>7, <2>2, <3>2, <4>1
      <4>3. f[l] \in 1..l /\ f[r] \in 1..r
        BY <1>1, <1>7, <2>2, <4>2
      <4>4. u[n] = c[n] + u[l] + u[r]
        BY <1>4, <1>6, <2>2, <3>2, <4>1, <4>2 DEF CountAt
      <4>5. u[l] = S(l) - S(f[l] - 1) /\ u[r] = S(r) - S(f[r] - 1)
        BY <2>2, <4>2
      <4>6. PICK x : x = f[l] - 1
        OBVIOUS
      <4>7. x \in 0..N /\ l \in 0..N /\ r \in 0..N /\ f[n] - 1 = x
        <5>1. f[n] - 1 = x
          BY <4>2, <4>6
        <5>2. PICK y : y = f[l]
          OBVIOUS
        <5>3. y \in 1..l /\ x = y - 1
          BY <4>3, <4>6, <5>2
        <5>4. l \in 1..(n - 2) /\ r \in 1..(n - 1) /\ n \in 1..N
          BY <2>2, <4>2
        <5>5. l \in 0..N /\ r \in 0..N
          BY <1>1, <5>4
        <5>6. x \in 0..N
          BY <1>1, <5>3, <5>5
        <5>. QED
          BY <5>1, <5>5, <5>6
      <4>8. u[l] = S(l) - S(x) /\ u[r] = S(r) - S(l) /\ S(n) = S(r) + c[n]
        BY <2>3, <4>1, <4>2, <4>5, <4>6
      <4>9. S(x) \in Int /\ S(l) \in Int /\ S(r) \in Int
        BY <1>10, <4>7
      <4>10. PICK p, q : p = u[l] /\ q = u[r]
        OBVIOUS
      <4>11. u[n] = S(n) - S(x)
        BY <2>3, <4>4, <4>8, <4>9, <4>10
      <4>. QED
        BY <4>7, <4>11
    <3>. QED
      BY <3>1, <3>2
  <2>5. \A k \in 1..(j + 1) : k = n \/ k \in 1..(n - 1)
    BY <2>1
  <2>. QED
    BY <1>1, <2>1, <2>2, <2>4, <2>5
<1>13. u[N] = S(N) - S(f[N] - 1)
  <2>. HIDE DEF R
  <2>1. \A j \in 0..N : j \in R
    BY <1>1, <1>11, <1>12, IntervalInduction
  <2>. QED
    BY <1>1, <2>1 DEF R
<1>14. f[N] = 1
  BY <1>2 DEF Parted, N
<1>15. u[N] = S(N) /\ S(N) \in Int
  BY <1>1, <1>9, <1>10, <1>13, <1>14
<1>. QED
  BY <1>3, <1>15 DEF S, N, c

\* An exchange of labels leaves the count.
LEMMA SameCount ==
  ASSUME NEW tree, IsTree(tree), NEW x, IsTree(x), Kept(x, tree)
  PROVE  /\ Len(x) = Len(tree)
         /\ OpsCount(x) = OpsCount(tree)
<1>1. DOMAIN tree = 1..Len(tree) /\ Len(tree) \in Nat /\ DOMAIN x = 1..Len(x)
  BY TreeShape
<1>2. Len(x) = Len(tree) /\ \A n \in 1..Len(tree) : SameNode(x[n], tree[n])
  BY DEF Kept
<1>3. \A n \in 1..Len(tree) :
        /\ x[n].op = tree[n].op /\ x[n].left = tree[n].left /\ x[n].right = tree[n].right
        /\ Names(x[n]) = Names(tree[n])
  BY <1>2 DEF SameNode
<1>4. PICK f : Parted(tree, f)
  BY DEF IsTree
<1>5. \A n \in 1..Len(tree) : Contractions(x)[n] = Contractions(tree)[n]
  <2>1. ASSUME NEW n \in 1..Len(tree)
        PROVE  Contractions(x)[n] = Contractions(tree)[n]
    <3>1. CASE tree[n].op # "product"
      BY <1>1, <1>2, <1>3, <3>1 DEF Contractions
    <3>2. CASE tree[n].op = "product"
      <4>1. tree[n].left \in 1..Len(tree) /\ tree[n].right \in 1..Len(tree)
        BY <1>1, <1>4, <3>2, Nested
      <4>2. IndicesBelow(x, n) = IndicesBelow(tree, n)
        BY <1>3, <4>1 DEF IndicesBelow, Names
      <4>3. ContractionOps(x, n) = ContractionOps(tree, n)
        BY <4>2 DEF ContractionOps
      <4>. QED
        BY <1>1, <1>2, <1>3, <3>2, <4>3 DEF Contractions
    <3>. QED
      BY <3>1, <3>2
  <2>. QED
    BY <2>1
<1>6. IsFiniteSet(1..Len(tree))
  BY <1>1, FS_Interval
<1>7. SumOver(Contractions(x), 1..Len(tree)) = SumOver(Contractions(tree), 1..Len(tree))
  BY <1>5, <1>6, SumOverSame
<1>. QED
  BY <1>2, <1>7, CountIsSum

-----------------------------------------------------------------------------
(***************************************************************************)
(* The life of a tree.  The work of an evaluation is at any time that of   *)
(* the contractions among the nodes whose arrays are there; a node is      *)
(* evaluated when no node before it waits, so at the root all of them are. *)
(***************************************************************************)
Done ==
  [n \in DOMAIN nodes |-> IF n \in DOMAIN values THEN Contractions(nodes)[n] ELSE 0]

InOrder == \A m \in DOMAIN values : \A k \in 1..(m - 1) : ~Awaited(k)

TreeInv ==
  /\ expr \in Exprs[Depth] /\ canonize \in BOOLEAN
  /\ pc = "new" => nodes = <<>> /\ values = None /\ result = None /\ ops = -1
  /\ pc # "new" => IsTree(nodes)
  /\ DOMAIN values \subseteq DOMAIN nodes

WorkInv ==
  /\ ops # -1 => ops = OpsCount(nodes)
  /\ Evaluating => result = None /\ InOrder /\ work = SumOver(Done, 1..Len(nodes))
  /\ result # None => work = OpsCount(nodes)

IInv == TreeInv /\ WorkInv

LEMMA InitIInv == Init => IInv
<1>. SUFFICES ASSUME Init
              PROVE  IInv
  OBVIOUS
<1>1. expr \in Exprs[Depth] /\ canonize \in BOOLEAN
  BY StartAssumption DEF Init
<1>2. DOMAIN None = {}
  BY DEF None
<1>. QED
  BY <1>1, <1>2 DEF Init, IInv, TreeInv, WorkInv, Evaluating

LEMMA ConstructIInv ==
  ASSUME IInv, Construct
  PROVE  IInv'
<1>1. IsTree(nodes')
  BY BuildIsTree DEF IInv, TreeInv, Construct
<1>2. pc' \in {"failed", "ready"}
  BY DEF Construct
<1>3. DOMAIN values' = {}
  BY DEF IInv, TreeInv, Construct, None
<1>4. TreeInv'
  BY <1>1, <1>2, <1>3 DEF IInv, TreeInv, Construct
<1>5. WorkInv'
  BY <1>2 DEF IInv, TreeInv, WorkInv, Construct, Evaluating
<1>. QED
  BY <1>4, <1>5 DEF IInv

LEMMA SwapIInv ==
  ASSUME IInv, SwapLabelsOf
  PROVE  IInv'
<1>1. IsTree(nodes) /\ pc = "ready"
  BY DEF IInv, TreeInv, SwapLabelsOf
<1>2. PICK t : nodes' = SwapLabels(nodes, t)
  BY DEF SwapLabelsOf
<1>3. IsTree(nodes') /\ Kept(nodes', nodes)
  BY <1>1, <1>2, SwapIsTree
<1>4. Len(nodes') = Len(nodes) /\ OpsCount(nodes') = OpsCount(nodes)
  BY <1>1, <1>3, SameCount
<1>5. DOMAIN nodes = 1..Len(nodes) /\ DOMAIN nodes' = 1..Len(nodes')
  BY <1>1, <1>3, TreeShape
<1>6. /\ pc' = pc /\ expr' = expr /\ canonize' = canonize /\ values' = values
      /\ result' = result /\ work' = work /\ ops' = ops
  BY DEF SwapLabelsOf
<1>7. TreeInv'
  BY <1>1, <1>3, <1>4, <1>5, <1>6 DEF IInv, TreeInv
<1>8. WorkInv'
  BY <1>1, <1>4, <1>6 DEF IInv, WorkInv, Evaluating
<1>. QED
  BY <1>7, <1>8 DEF IInv

LEMMA StartIInv ==
  ASSUME IInv, StartEvaluation
  PROVE  IInv'
<1>1. IsTree(nodes) /\ pc' \in {"context", "make"} /\ nodes' = nodes
  BY DEF IInv, TreeInv, StartEvaluation
<1>2. values' = None /\ result' = None /\ work' = 0 /\ expr' = expr /\ canonize' = canonize /\ ops' = ops
  BY DEF StartEvaluation
<1>3. DOMAIN values' = {}
  BY <1>2 DEF None
<1>4. TreeInv'
  BY <1>1, <1>2, <1>3 DEF IInv, TreeInv
<1>5. SumOver(Done', 1..Len(nodes')) = 0
  <2>1. DOMAIN nodes' = 1..Len(nodes') /\ Len(nodes') \in Nat
    BY <1>1, TreeShape
  <2>2. PICK d, N : d = Done' /\ N = 1..Len(nodes')
    OBVIOUS
  <2>3. \A n \in N : d[n] = 0
    BY <1>3, <2>1, <2>2 DEF Done
  <2>4. IsFiniteSet(N)
    BY <2>1, <2>2, FS_Interval
  <2>5. SumOver(d, N) = Cardinality({n \in N : d[n] = 1})
    BY <2>3, <2>4, SumOverCounts
  <2>6. {n \in N : d[n] = 1} = {}
    BY <2>3
  <2>. QED
    BY <2>2, <2>5, <2>6, FS_EmptySet
<1>6. WorkInv'
  BY <1>1, <1>2, <1>3, <1>5 DEF IInv, WorkInv, InOrder
<1>. QED
  BY <1>4, <1>6 DEF IInv

\* the array of the node evaluated is there, and the work for it was added
LEMMA EvaluatedIInv ==
  ASSUME IInv, Evaluating, NEW n \in DOMAIN nodes, Awaited(n), \A k \in 1..(n - 1) : ~Awaited(k),
         NEW array, Evaluated(n, array),
         work' = work + Contractions(nodes)[n]
  PROVE  IInv'
<1>1. /\ IsTree(nodes) /\ pc' = pc /\ nodes' = nodes /\ result' = result /\ ops' = ops
      /\ expr' = expr /\ canonize' = canonize
  BY DEF IInv, TreeInv, Evaluated, Evaluating
<1>2. DOMAIN values' = DOMAIN values \cup {n}
  BY DEF Evaluated
<1>3. n \notin DOMAIN values
  BY DEF Awaited
<1>4. TreeInv'
  BY <1>1, <1>2 DEF IInv, TreeInv, Evaluating
<1>5. InOrder'
  <2>1. \A k : ~Awaited(k) => ~Awaited(k)'
    BY <1>1, <1>2 DEF Awaited
  <2>2. InOrder
    BY DEF IInv, WorkInv
  <2>3. ASSUME NEW m \in DOMAIN values', NEW k \in 1..(m - 1)
        PROVE  ~Awaited(k)'
    BY <1>2, <2>1, <2>2, <2>3 DEF InOrder
  <2>. QED
    BY <2>3 DEF InOrder
<1>6. work' = SumOver(Done', 1..Len(nodes'))
  <2>1. DOMAIN nodes = 1..Len(nodes) /\ Len(nodes) \in Nat
    BY <1>1, TreeShape
  <2>2. PICK f, g, N, c : f = Done /\ g = Done' /\ N = 1..Len(nodes) /\ c = Contractions(nodes)
    OBVIOUS
  <2>3. \A k \in N : c[k] \in Int
    BY <1>1, <2>2, ContractionsCount
  <2>4. /\ \A k \in N : f[k] = IF k \in DOMAIN values THEN c[k] ELSE 0
        /\ \A k \in N : g[k] = IF k \in DOMAIN values' THEN c[k] ELSE 0
    BY <1>1, <2>1, <2>2 DEF Done
  <2>5. n \in N /\ f[n] = 0 /\ g[n] = c[n] /\ \A k \in N : k # n => g[k] = f[k]
    BY <1>2, <1>3, <2>1, <2>2, <2>4
  <2>6. \A k \in N : f[k] \in Int /\ g[k] \in Int
    BY <2>3, <2>4
  <2>7. IsFiniteSet(N)
    BY <2>1, <2>2, FS_Interval
  <2>8. SumOver(g, N) = (SumOver(f, N) - f[n]) + g[n]
    BY <2>5, <2>6, <2>7, SumOverChange
  <2>9. SumOver(f, N) \in Int
    BY <2>6, <2>7, SumOverRemove
  <2>10. work = SumOver(f, N)
    BY <2>2 DEF IInv, WorkInv
  <2>11. work' = SumOver(g, N)
    BY <2>2, <2>3, <2>5, <2>8, <2>9, <2>10
  <2>. QED
    BY <1>1, <2>2, <2>11
<1>7. WorkInv'
  BY <1>1, <1>5, <1>6 DEF IInv, WorkInv, Evaluating
<1>. QED
  BY <1>4, <1>7 DEF IInv

LEMMA FailsIInv ==
  ASSUME IInv, Evaluating, Fails
  PROVE  IInv'
<1>1. /\ IsTree(nodes) /\ pc' = "failed" /\ values' = None /\ nodes' = nodes /\ result' = result
      /\ work' = work /\ ops' = ops /\ expr' = expr /\ canonize' = canonize
  BY DEF IInv, TreeInv, Fails, Evaluating
<1>2. DOMAIN values' = {}
  BY <1>1 DEF None
<1>. QED
  BY <1>1, <1>2 DEF IInv, TreeInv, WorkInv, Evaluating

LEMMA EvaluateIInv ==
  ASSUME IInv, EvaluateNode
  PROVE  IInv'
<1>0. Evaluating
  BY DEF EvaluateNode
<1>1. PICK n \in DOMAIN nodes :
        /\ Awaited(n) /\ \A k \in 1..(n - 1) : ~Awaited(k)
        /\ \/ EvaluateLeaf(n) \/ MissingLeaf(n)
           \/ EvaluateSum(n) \/ EvaluateProduct(n) \/ NumberAnnotated(n)
           \/ EvaluateAntisymmetrized(n) \/ EvaluateSymmetrized(n) \/ OddSymmetrized(n)
  BY DEF EvaluateNode
<1>2. IsTree(nodes)
  BY <1>0 DEF IInv, TreeInv, Evaluating
<1>3. Contractions(nodes)[n] = IF nodes[n].op = "product" THEN ContractionOps(nodes, n) ELSE 0
  BY DEF Contractions
<1>4. CASE EvaluateLeaf(n) \/ EvaluateSum(n) \/ EvaluateAntisymmetrized(n) \/ EvaluateSymmetrized(n)
  <2>1. nodes[n].op # "product" /\ work' = work /\ \E array : Evaluated(n, array)
    BY <1>4 DEF EvaluateLeaf, EvaluateSum, EvaluateAntisymmetrized, EvaluateSymmetrized, Operands, RightOf
  <2>2. PICK array : Evaluated(n, array)
    BY <2>1
  <2>3. work \in Int
    <3>1. work = SumOver(Done, 1..Len(nodes))
      BY <1>0 DEF IInv, WorkInv
    <3>2. DOMAIN nodes = 1..Len(nodes) /\ Len(nodes) \in Nat
      BY <1>2, TreeShape
    <3>3. PICK f, N : f = Done /\ N = 1..Len(nodes)
      OBVIOUS
    <3>4. \A k \in N : f[k] \in Int
      BY <1>2, <3>2, <3>3, ContractionsCount DEF Done
    <3>5. IsFiniteSet(N)
      BY <3>2, <3>3, FS_Interval
    <3>6. SumOver(f, N) \in Int
      BY <3>4, <3>5, SumOverRemove
    <3>. QED
      BY <3>1, <3>3, <3>6
  <2>4. work' = work + Contractions(nodes)[n]
    BY <1>3, <2>1, <2>3
  <2>. QED
    BY <1>0, <1>1, <2>2, <2>4, EvaluatedIInv
<1>5. CASE EvaluateProduct(n)
  <2>1. nodes[n].op = "product" /\ \E array : Evaluated(n, array)
    BY <1>5 DEF EvaluateProduct, Operands
  <2>2. PICK array : Evaluated(n, array)
    BY <2>1
  <2>3. work' = work + Contractions(nodes)[n]
    BY <1>2, <1>3, <1>5, <2>1, ContractionTerms DEF EvaluateProduct
  <2>. QED
    BY <1>0, <1>1, <2>2, <2>3, EvaluatedIInv
<1>6. CASE MissingLeaf(n) \/ NumberAnnotated(n) \/ OddSymmetrized(n)
  <2>1. Fails
    BY <1>6 DEF MissingLeaf, NumberAnnotated, OddSymmetrized
  <2>. QED
    BY <1>0, <2>1, FailsIInv
<1>. QED
  BY <1>1, <1>4, <1>5, <1>6

LEMMA FinishIInv ==
  ASSUME IInv, Finish
  PROVE  IInv'
<1>1. /\ IsTree(nodes) /\ Evaluating /\ Root \in DOMAIN values
  BY DEF IInv, TreeInv, Finish, Evaluating
<1>2. /\ pc' = "ready" /\ nodes' = nodes /\ values' = None /\ work' = work /\ ops' = ops
      /\ expr' = expr /\ canonize' = canonize
  BY DEF Finish
<1>3. DOMAIN values' = {}
  BY <1>2 DEF None
<1>4. TreeInv'
  BY <1>1, <1>2, <1>3 DEF IInv, TreeInv
<1>5. work = OpsCount(nodes)
  <2>1. DOMAIN nodes = 1..Len(nodes) /\ Len(nodes) \in Nat
    BY <1>1, TreeShape
  <2>2. InOrder /\ work = SumOver(Done, 1..Len(nodes))
    BY <1>1 DEF IInv, WorkInv
  <2>3. \A n \in 1..Len(nodes) : nodes[n].op = "product" => n \in DOMAIN values
    <3>1. ASSUME NEW n \in 1..Len(nodes), nodes[n].op = "product"
          PROVE  n \in DOMAIN values
      <4>1. n = Root \/ n \in 1..(Root - 1)
        <5>1. PICK N : N = Len(nodes)
          OBVIOUS
        <5>2. N \in Nat /\ n \in 1..N /\ Root = N
          BY <2>1, <3>1, <5>1 DEF Root
        <5>. QED
          BY <5>2
      <4>2. n \in 1..(Root - 1) => ~Awaited(n)
        BY <1>1, <2>2 DEF InOrder
      <4>. QED
        BY <1>1, <3>1, <4>1, <4>2 DEF Awaited
    <3>. QED
      BY <3>1
  <2>4. \A n \in 1..Len(nodes) : Done[n] = Contractions(nodes)[n]
    BY <2>1, <2>3 DEF Done, Contractions
  <2>6. IsFiniteSet(1..Len(nodes))
    BY <2>1, FS_Interval
  <2>5. SumOver(Done, 1..Len(nodes)) = SumOver(Contractions(nodes), 1..Len(nodes))
    BY <2>4, <2>6, SumOverSame
  <2>. QED
    BY <1>1, <2>2, <2>5, CountIsSum
<1>6. WorkInv'
  BY <1>2, <1>5 DEF IInv, WorkInv, Evaluating
<1>. QED
  BY <1>4, <1>6 DEF IInv

LEMMA NextIInv == IInv /\ [Next]_vars => IInv'
<1>. SUFFICES ASSUME IInv, [Next]_vars
              PROVE  IInv'
  OBVIOUS
<1>1. CASE CountOperations
  BY <1>1 DEF CountOperations, IInv, TreeInv, WorkInv, Evaluating
<1>2. CASE UpdateAmplitudes
  BY <1>2 DEF UpdateAmplitudes, IInv, TreeInv, WorkInv, Evaluating
<1>3. CASE UNCHANGED vars
  BY <1>3 DEF vars, IInv, TreeInv, WorkInv, Evaluating, InOrder, Awaited, Done
<1>. QED
  BY <1>1, <1>2, <1>3, ConstructIInv, SwapIInv, StartIInv, EvaluateIInv, FinishIInv DEF Next

\* Every tree is well-formed at every time: the nodes of a subtree are an
\* interval, no node has an index twice, and the indices of a product are those
\* of one of its operands.
THEOREM TreeInvariant == Spec => []IInv
BY InitIInv, NextIInv, PTL DEF Spec

\* Whatever labels were exchanged, the hash of each node is that of its operands
\* as they are now.
THEOREM HashesCurrent == Spec => []HashIsCurrent
<1>1. IInv => HashIsCurrent
  <2>1. CASE pc = "new"
    BY <2>1 DEF IInv, TreeInv, HashIsCurrent
  <2>2. CASE pc # "new"
    BY <2>2, TreeShape DEF IInv, TreeInv, HashIsCurrent, HashesAreCurrent
  <2>. QED
    BY <2>1, <2>2
<1>. QED
  BY <1>1, TreeInvariant, PTL

\* The operations that ops_count counts are the terms that an evaluation of the
\* tree adds up, with every context and after every exchange of labels.
THEOREM CountedIsWork == Spec => []CountIsWork
<1>1. IInv => CountIsWork
  BY DEF IInv, WorkInv, CountIsWork
<1>. QED
  BY <1>1, TreeInvariant, PTL
=============================================================================
