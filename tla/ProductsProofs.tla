--------------------------- MODULE ProductsProofs ---------------------------
(***************************************************************************)
(* Proofs about products of tensors: whatever overlaps a product has and   *)
(* however it is written and canonicalized in between, an overlap is at    *)
(* all times one of two different indices, and a reduction leaves none     *)
(* that is not needed.                                                     *)
(***************************************************************************)
EXTENDS Products, DataInduction

-----------------------------------------------------------------------------
(***************************************************************************)
(* The places of a set of numbers in their order.                          *)
(***************************************************************************)
UpTo(K, k) == {j \in K : j <= k}

LEMMA PlacesInOrder ==
  ASSUME NEW K \in SUBSET Int, IsFiniteSet(K)
  PROVE  /\ Cardinality(K) \in Nat
         /\ \A k \in K : Cardinality(UpTo(K, k)) \in 1..Cardinality(K)
         /\ \A n \in 1..Cardinality(K) : \E k \in K : Cardinality(UpTo(K, k)) = n
         /\ \A j, k \in K : j # k => Cardinality(UpTo(K, j)) # Cardinality(UpTo(K, k))
<1>. DEFINE b == [k \in K |-> Cardinality(UpTo(K, k))]
<1>0. PICK n : n = Cardinality(K)
  OBVIOUS
<1>1. n \in Nat /\ IsFiniteSet(1..n) /\ Cardinality(1..n) = n
  BY <1>0, FS_CardinalityType, FS_Interval
<1>2. ASSUME NEW k \in K
      PROVE  IsFiniteSet(UpTo(K, k)) /\ Cardinality(UpTo(K, k)) \in 1..n
  <2>1. UpTo(K, k) \in SUBSET K /\ UpTo(K, k) # {}
    BY DEF UpTo
  <2>2. IsFiniteSet(UpTo(K, k)) /\ Cardinality(UpTo(K, k)) <= n
    BY <1>0, <2>1, FS_Subset
  <2>3. Cardinality(UpTo(K, k)) \in Nat /\ Cardinality(UpTo(K, k)) # 0
    BY <2>1, <2>2, FS_CardinalityType, FS_EmptySet
  <2>. QED
    BY <1>1, <2>2, <2>3
<1>3. ASSUME NEW j \in K, NEW k \in K, j < k
      PROVE  b[j] < b[k]
  <2>1. UpTo(K, j) \in SUBSET UpTo(K, k) /\ k \in UpTo(K, k) /\ k \notin UpTo(K, j)
    <3>1. j \in Int /\ k \in Int /\ \A i \in K : i \in Int
      OBVIOUS
    <3>2. k <= k /\ ~(k <= j) /\ \A i \in K : i <= j => i <= k
      BY <1>3, <3>1
    <3>. QED
      BY <3>2 DEF UpTo
  <2>2. /\ Cardinality(UpTo(K, j)) <= Cardinality(UpTo(K, k))
        /\ Cardinality(UpTo(K, j)) # Cardinality(UpTo(K, k))
    BY <1>2, <2>1, FS_Subset
  <2>3. b[j] \in 1..n /\ b[k] \in 1..n /\ b[j] <= b[k] /\ b[j] # b[k]
    BY <1>2, <2>2
  <2>. HIDE DEF b
  <2>. QED
    BY <1>1, <2>3
<1>4. \A j, k \in K : j # k => b[j] # b[k]
  <2>. HIDE DEF b
  <2>1. \A k \in K : b[k] \in 1..n
    BY <1>2 DEF b
  <2>2. \A j, k \in K : j # k => j < k \/ k < j
    OBVIOUS
  <2>. QED
    BY <1>1, <1>3, <2>1, <2>2
<1>5. b \in Surjection(K, 1..n)
  <2>1. b \in [K -> 1..n]
    BY <1>2
  <2>2. b \in Injection(K, 1..n)
    BY <1>4, <2>1 DEF Injection, IsInjective
  <2>. QED
    BY <1>0, <1>1, <2>2, FS_Injection
<1>6. \A m \in 1..n : \E k \in K : b[k] = m
  BY <1>5 DEF Surjection
<1>. QED
  BY <1>0, <1>1, <1>2, <1>4, <1>6

-----------------------------------------------------------------------------
(***************************************************************************)
(* Sequences.                                                              *)
(***************************************************************************)
LEMMA KeptIs ==
  ASSUME NEW s, NEW n \in Nat, NEW places \in SUBSET (1..n)
  PROVE  /\ Kept(s, places) = [k \in 1..Cardinality(places) |-> Kept(s, places)[k]]
         /\ Cardinality(places) \in Nat
         /\ Cardinality(places) <= n
         /\ \A k \in 1..Cardinality(places) : \E j \in places : Kept(s, places)[k] = s[j]
         /\ \A j \in places : \E k \in 1..Cardinality(places) : Kept(s, places)[k] = s[j]
<1>1. IsFiniteSet(places) /\ Cardinality(places) <= n
  <2>1. IsFiniteSet(1..n) /\ Cardinality(1..n) = n
    BY FS_Interval
  <2>. QED
    BY <2>1, FS_Subset
<1>2. places \in SUBSET Int
  OBVIOUS
<1>. DEFINE At(k) == CHOOSE j \in places : Cardinality(UpTo(places, j)) = k
<1>3. \A k \in 1..Cardinality(places) : At(k) \in places /\ Cardinality(UpTo(places, At(k))) = k
  BY <1>1, <1>2, PlacesInOrder
<1>4. \A j \in places : At(Cardinality(UpTo(places, j))) = j
  <2>1. ASSUME NEW j \in places
        PROVE  At(Cardinality(UpTo(places, j))) = j
    <3>1. Cardinality(UpTo(places, j)) \in 1..Cardinality(places)
      BY <1>1, <1>2, PlacesInOrder
    <3>. HIDE DEF At
    <3>2. /\ At(Cardinality(UpTo(places, j))) \in places
          /\ Cardinality(UpTo(places, At(Cardinality(UpTo(places, j))))) = Cardinality(UpTo(places, j))
      BY <1>3, <3>1
    <3>. QED
      BY <1>1, <1>2, <3>2, PlacesInOrder
  <2>. QED
    BY <2>1
<1>5. Kept(s, places) = [k \in 1..Cardinality(places) |-> s[At(k)]]
  BY Zenon DEF Kept, UpTo
<1>6. \A j \in places : Cardinality(UpTo(places, j)) \in 1..Cardinality(places)
  BY <1>1, <1>2, PlacesInOrder
<1>7. Cardinality(places) \in Nat
  BY <1>1, FS_CardinalityType
<1>. HIDE DEF At
<1>8. \A j \in places : \E k \in 1..Cardinality(places) : Kept(s, places)[k] = s[j]
  BY <1>4, <1>5, <1>6
<1>9. \A k \in 1..Cardinality(places) : \E j \in places : Kept(s, places)[k] = s[j]
  BY <1>3, <1>5
<1>. QED
  BY <1>1, <1>5, <1>7, <1>8, <1>9
-----------------------------------------------------------------------------
(***************************************************************************)
(* The names of indices.                                                   *)
(***************************************************************************)
Free(refused, first, space, n) == {m \in first..n : Index(space, m) \notin refused}

\* A new index is one that is not refused, the one of its number.
LEMMA NthIndexIs ==
  ASSUME NEW refused, IsFiniteSet(refused), NEW first \in Nat, NEW space,
         NEW nth \in Nat, nth # 0
  PROVE  \E n \in Nat : /\ NthIndex(refused, first, space, nth) = Index(space, n)
                        /\ Index(space, n) \notin refused
                        /\ Cardinality(Free(refused, first, space, n)) = nth
<1>1. PICK size : size = Cardinality(refused) /\ size \in Nat
  BY FS_CardinalityType
<1>2. PICK N : N = first + nth + size
  OBVIOUS
<1>. DEFINE I == first..N
            V == {m \in I : Index(space, m) \notin refused}
            B == {m \in I : Index(space, m) \in refused}
            At(n) == /\ Index(space, n) \notin refused
                     /\ Cardinality(Free(refused, first, space, n)) = nth
<1>3. N \in Nat /\ IsFiniteSet(I) /\ Cardinality(I) = nth + size + 1
  <2>1. N \in Int /\ first \in Int /\ ~(first > N) /\ N - first + 1 = nth + size + 1
    BY <1>1, <1>2
  <2>2. /\ IsFiniteSet(first..N)
        /\ Cardinality(first..N) = IF first > N THEN 0 ELSE N - first + 1
    BY <2>1, FS_Interval
  <2>3. N \in Nat
    BY <1>1, <1>2
  <2>. QED
    BY <2>1, <2>2, <2>3
<1>4. IsFiniteSet(B) /\ Cardinality(B) <= size
  <2>. DEFINE f == [m \in B |-> Index(space, m)]
  <2>1. \A m, k \in B : f[m] = f[k] => m = k
    BY DEF Index
  <2>2. f \in [B -> refused]
    OBVIOUS
  <2>3. f \in Injection(B, refused)
    BY <2>1, <2>2 DEF Injection, IsInjective
  <2>4. IsFiniteSet(B) /\ Cardinality(B) <= Cardinality(refused)
    BY <2>3, FS_Injection
  <2>. QED
    BY <1>1, <2>4
<1>5. IsFiniteSet(V) /\ Cardinality(V) >= nth + 1
  <2>1. V = I \ B /\ I \cap B = B
    OBVIOUS
  <2>3. Cardinality(B) \in Nat
    BY <1>4, FS_CardinalityType
  <2>. HIDE DEF I, B, V
  <2>2. IsFiniteSet(I \ B) /\ Cardinality(I \ B) = Cardinality(I) - Cardinality(B)
    BY <1>3, <2>1, FS_Difference
  <2>. QED
    BY <1>1, <1>3, <1>4, <2>1, <2>2, <2>3
<1>6. PICK k \in V : Cardinality(UpTo(V, k)) = nth
  <2>1. V \in SUBSET Int
    BY <1>3
  <2>2. Cardinality(V) \in Nat
    BY <1>5, FS_CardinalityType
  <2>. HIDE DEF V
  <2>3. nth \in 1..Cardinality(V)
    BY <1>5, <2>2
  <2>. QED
    BY <1>5, <2>1, <2>3, PlacesInOrder
<1>7. k \in I /\ k \in Nat /\ Index(space, k) \notin refused
  BY <1>3
<1>8. UpTo(V, k) = Free(refused, first, space, k)
  BY <1>3, <1>7 DEF UpTo, Free
<1>9. k \in I /\ At(k)
  BY <1>6, <1>7, <1>8
<1>10. NthIndex(refused, first, space, nth) = Index(space, CHOOSE n \in I : At(n))
  BY <1>1, <1>2, Zenon DEF NthIndex, Free
<1>11. (CHOOSE n \in I : At(n)) \in I /\ At(CHOOSE n \in I : At(n))
  <2>. HIDE DEF At, I
  <2>. QED
    BY <1>9
<1>12. PICK n : n = CHOOSE m \in I : At(m)
  OBVIOUS
<1>13. n \in I /\ At(n)
  <2>. HIDE DEF At, I
  <2>. QED
    BY <1>11, <1>12
<1>14. n \in Nat
  BY <1>3, <1>13
<1>. QED
  BY <1>10, <1>12, <1>13, <1>14

\* New indices of different numbers differ, and are not among the refused.
LEMMA NewIndicesDiffer ==
  ASSUME NEW refused, IsFiniteSet(refused), NEW first \in Nat,
         NEW space, NEW m \in Nat, m # 0
  PROVE  /\ NthIndex(refused, first, space, m) \notin refused
         /\ \A other : \A n \in Nat \ {0} :
              NthIndex(refused, first, space, m) = NthIndex(refused, first, other, n)
                => space = other /\ m = n
<1>1. PICK i \in Nat : /\ NthIndex(refused, first, space, m) = Index(space, i)
                       /\ Index(space, i) \notin refused
                       /\ Cardinality(Free(refused, first, space, i)) = m
  BY NthIndexIs
<1>2. ASSUME NEW other, NEW n \in Nat \ {0},
             NthIndex(refused, first, space, m) = NthIndex(refused, first, other, n)
      PROVE  space = other /\ m = n
  <2>1. PICK j \in Nat : /\ NthIndex(refused, first, other, n) = Index(other, j)
                         /\ Index(other, j) \notin refused
                         /\ Cardinality(Free(refused, first, other, j)) = n
    BY NthIndexIs
  <2>2. Index(space, i) = Index(other, j)
    BY <1>1, <1>2, <2>1
  <2>3. space = other /\ i = j
    BY <2>2 DEF Index
  <2>. QED
    BY <1>1, <2>1, <2>3
<1>. QED
  BY <1>1, <1>2

-----------------------------------------------------------------------------
(***************************************************************************)
(* Rankings.                                                               *)
(***************************************************************************)
Alike(tensors, k) == {m \in DOMAIN tensors : tensors[m].label = tensors[k].label}

\* Two indices of a space have different ranks.
LEMMA IndexRankingIs ==
  ASSUME NEW tensors, IsFiniteSet(Anonymous(tensors)), NEW r \in IndexRankings(tensors)
  PROVE  /\ DOMAIN r = Anonymous(tensors)
         /\ \A i \in Anonymous(tensors) : r[i] \in Nat \ {0}
         /\ \A i, j \in Anonymous(tensors) : i.space = j.space /\ r[i] = r[j] => i = j
<1>. DEFINE S == Anonymous(tensors)
            kinds == {i.space : i \in S}
            Of(kind) == {i \in S : i.space = kind}
            orders == [kind \in kinds |-> Orders(Of(kind))]
<1>1. PICK f \in [kinds -> UNION {orders[kind] : kind \in kinds}] :
        /\ \A kind \in kinds : f[kind] \in orders[kind]
        /\ r = [i \in S |-> f[i.space][i]]
  BY Zenon DEF IndexRankings, Rankings
<1>2. ASSUME NEW i \in S
      PROVE  /\ f[i.space] \in [Of(i.space) -> 1..Cardinality(Of(i.space))]
             /\ \A j, k \in Of(i.space) : f[i.space][j] = f[i.space][k] => j = k
             /\ Cardinality(Of(i.space)) \in Nat
  <2>1. f[i.space] \in Orders(Of(i.space))
    BY <1>1
  <2>2. Of(i.space) \in SUBSET S
    OBVIOUS
  <2>3. Cardinality(Of(i.space)) \in Nat
    BY <2>2, FS_Subset, FS_CardinalityType
  <2>. HIDE DEF Of
  <2>. QED
    BY <2>1, <2>3 DEF Orders, IsInjective
<1>3. \A i \in S : i \in Of(i.space) /\ r[i] = f[i.space][i]
  BY <1>1
<1>. HIDE DEF Of, S
<1>4. \A i \in S : r[i] \in Nat \ {0}
  BY <1>2, <1>3
<1>5. \A i, j \in S : i.space = j.space /\ r[i] = r[j] => i = j
  BY <1>2, <1>3
<1>6. DOMAIN r = S
  BY <1>1
<1>. QED
  BY <1>4, <1>5, <1>6 DEF S

IsRanking(q, tensors) == q \in Rankings(DOMAIN tensors, LAMBDA k : tensors[k].label)

\* The tensors of a label have all ranks up to their number.
LEMMA TensorRankingIs ==
  ASSUME NEW tensors, IsFiniteSet(DOMAIN tensors), NEW q, IsRanking(q, tensors)
  PROVE  \A k \in DOMAIN tensors : \A n \in 1..Cardinality(Alike(tensors, k)) :
           \E m \in Alike(tensors, k) : q[m] = n
<1>. DEFINE S == DOMAIN tensors
            kinds == {tensors[k].label : k \in S}
            Of(kind) == {k \in S : tensors[k].label = kind}
            orders == [kind \in kinds |-> Orders(Of(kind))]
<1>1. PICK f \in [kinds -> UNION {orders[kind] : kind \in kinds}] :
        /\ \A kind \in kinds : f[kind] \in orders[kind]
        /\ q = [k \in S |-> f[tensors[k].label][k]]
  BY Zenon DEF IsRanking, Rankings
<1>2. ASSUME NEW k \in S, NEW n \in 1..Cardinality(Alike(tensors, k))
      PROVE  \E m \in Alike(tensors, k) : q[m] = n
  <2>1. PICK A, g : A = Of(tensors[k].label) /\ g = f[tensors[k].label]
    OBVIOUS
  <2>2. A = Alike(tensors, k) /\ A \in SUBSET S
    BY <2>1 DEF Alike
  <2>3. g \in Orders(A)
    BY <1>1, <2>1
  <2>4. \A m \in A : q[m] = g[m]
    BY <1>1, <2>1
  <2>5. g \in [A -> 1..Cardinality(A)] /\ IsInjective(g)
    BY <2>3 DEF Orders
  <2>6. g \in Injection(A, 1..Cardinality(A))
    BY <2>5 DEF Injection, IsInjective
  <2>7. IsFiniteSet(A) /\ Cardinality(A) \in Nat
    BY <2>2, FS_Subset, FS_CardinalityType
  <2>8. IsFiniteSet(1..Cardinality(A)) /\ Cardinality(1..Cardinality(A)) = Cardinality(A)
    BY <2>7, FS_Interval
  <2>9. g \in Surjection(A, 1..Cardinality(A))
    BY <2>6, <2>8, FS_Injection
  <2>10. \E m \in A : g[m] = n
    BY <2>2, <2>9 DEF Surjection
  <2>. QED
    BY <2>2, <2>4, <2>10
<1>. QED
  BY <1>2
-----------------------------------------------------------------------------
(***************************************************************************)
(* Sorts: a sequence is sorted by a rearrangement, whatever the order.     *)
(***************************************************************************)
Rearranged(s, t, p) ==
  /\ p \in Bijection(1..Len(s), 1..Len(s))
  /\ t = [k \in 1..Len(s) |-> s[p[k]]]

LEMMA SmallestExists ==
  ASSUME NEW n \in Nat, NEW S \in SUBSET (1..n), S # {}
  PROVE  Min(S) \in S
<1>. DEFINE T == {-x : x \in S}
<1>1. T \in SUBSET Int /\ T # {}
  <2>1. \A x \in S : x \in Int /\ -x \in Int
    OBVIOUS
  <2>. QED
    BY <2>1
<1>2. IsFiniteSet(T)
  <2>1. IsFiniteSet(S)
    <3>1. IsFiniteSet(1..n)
      BY FS_Interval
    <3>. QED
      BY <3>1, FS_Subset
  <2>. DEFINE f == [x \in S |-> -x]
  <2>2. f \in Surjection(S, T)
    BY DEF Surjection
  <2>. HIDE DEF f, T
  <2>. QED
    BY <2>1, <2>2, FS_Surjection
<1>3. PICK y \in T : \A z \in T : y >= z
  BY <1>1, <1>2, LargestExists
<1>4. PICK x \in S : y = -x
  OBVIOUS
<1>5. \A z \in S : x =< z
  <2>1. ASSUME NEW z \in S
        PROVE  x =< z
    <3>1. -z \in T /\ x \in Int /\ z \in Int
      OBVIOUS
    <3>2. y >= -z
      BY <1>3, <3>1
    <3>. QED
      BY <1>4, <3>1, <3>2
  <2>. QED
    BY <2>1
<1>. QED
  BY <1>5 DEF Min

LEMMA InsertAtIs ==
  ASSUME NEW S, NEW s \in Seq(S), NEW x \in S, NEW n \in 1..(Len(s) + 1)
  PROVE  /\ InsertAt(s, n, x) \in Seq(S) /\ Len(InsertAt(s, n, x)) = Len(s) + 1
         /\ \A k \in 1..(Len(s) + 1) :
              InsertAt(s, n, x)[k] = IF k < n THEN s[k] ELSE IF k = n THEN x ELSE s[k - 1]
<1>1. PICK m : m = Len(s) /\ m \in Nat
  OBVIOUS
<1>2. PICK a, b : a = SubSeq(s, 1, n - 1) /\ b = SubSeq(s, n, m)
  OBVIOUS
<1>3. a \in Seq(S) /\ Len(a) = n - 1 /\ \A k \in 1..(n - 1) : a[k] = s[k]
  BY <1>1, <1>2
<1>4. b \in Seq(S) /\ Len(b) = m - n + 1 /\ \A k \in 1..(m - n + 1) : b[k] = s[n + k - 1]
  BY <1>1, <1>2
<1>5. PICK c1 : c1 = a \o <<x>>
  OBVIOUS
<1>6. /\ c1 \in Seq(S) /\ Len(c1) = n /\ c1[n] = x
      /\ \A k \in 1..(n - 1) : c1[k] = s[k]
  BY <1>1, <1>3, <1>5
<1>7. InsertAt(s, n, x) = c1 \o b
  BY <1>1, <1>2, <1>5 DEF InsertAt
<1>8. PICK t : t = c1 \o b
  OBVIOUS
<1>9. t \in Seq(S) /\ Len(t) = m + 1
  <2>1. PICK r : r = m - n + 1
    OBVIOUS
  <2>2. Len(b) = r /\ r \in Nat /\ n + r = m + 1
    BY <1>1, <1>4, <2>1
  <2>4. c1 \in Seq(S) /\ b \in Seq(S)
    BY <1>4, <1>6
  <2>3. t \in Seq(S) /\ Len(t) = Len(c1) + Len(b)
    BY <1>8, <2>4
  <2>. QED
    BY <1>6, <2>2, <2>3
<1>10. \A k \in 1..n : t[k] = c1[k]
  BY <1>1, <1>4, <1>6, <1>8
<1>11. ASSUME NEW k \in 1..(m + 1), n < k
       PROVE  t[k] = s[k - 1]
  <2>1. PICK j : j = k - n
    OBVIOUS
  <2>2. j \in 1..(m - n + 1) /\ k = n + j /\ n + j - 1 = k - 1
    BY <1>1, <1>11, <2>1
  <2>3. t[n + j] = b[j]
    BY <1>4, <1>6, <1>8, <2>2
  <2>. QED
    BY <1>4, <2>2, <2>3
<1>12. \A k \in 1..(m + 1) : t[k] = IF k < n THEN s[k] ELSE IF k = n THEN x ELSE s[k - 1]
  BY <1>1, <1>6, <1>10, <1>11
<1>. QED
  BY <1>1, <1>7, <1>8, <1>9, <1>12

Insertion(S, s, x, t) ==
  \E n \in 1..(Len(s) + 1) :
    /\ t \in Seq(S) /\ Len(t) = Len(s) + 1
    /\ \A k \in 1..(Len(s) + 1) : t[k] = IF k < n THEN s[k] ELSE IF k = n THEN x ELSE s[k - 1]

\* An element is inserted in some place.
LEMMA InsertedIs ==
  ASSUME NEW S, NEW s \in Seq(S), NEW x \in S, NEW less
  PROVE  Insertion(S, s, x, Inserted(s, x, less))
<1>. DEFINE after == {k \in DOMAIN s : <<x, s[k]>> \in less}
<1>1. Len(s) \in Nat /\ after \in SUBSET (1..Len(s))
  OBVIOUS
<1>2. CASE after = {}
  <2>1. Inserted(s, x, less) = Append(s, x)
    BY <1>2 DEF Inserted
  <2>2. Len(s) + 1 \in 1..(Len(s) + 1)
    BY <1>1
  <2>3. PICK n : n = Len(s) + 1
    OBVIOUS
  <2>4. \A k \in 1..(Len(s) + 1) : Append(s, x)[k] =
          IF k < n THEN s[k] ELSE IF k = n THEN x ELSE s[k - 1]
    <3>1. \A k \in 1..Len(s) : Append(s, x)[k] = s[k] /\ k < n
      BY <1>1, <2>3
    <3>2. Append(s, x)[n] = x /\ ~(n < n)
      BY <1>1, <2>3
    <3>3. \A k \in 1..(Len(s) + 1) : k \in 1..Len(s) \/ k = n
      BY <1>1, <2>3
    <3>. QED
      BY <3>1, <3>2, <3>3
  <2>. QED
    BY <1>1, <2>1, <2>2, <2>3, <2>4, SMTT(20) DEF Insertion
<1>3. CASE after # {}
  <2>1. Inserted(s, x, less) = InsertAt(s, Min(after), x)
    BY <1>3 DEF Inserted
  <2>2. Min(after) \in after
    BY <1>1, <1>3, SmallestExists
  <2>3. PICK n : n = Min(after)
    OBVIOUS
  <2>4. n \in 1..(Len(s) + 1)
    <3>. HIDE DEF after
    <3>1. n \in 1..Len(s)
      BY <1>1, <2>2, <2>3
    <3>. QED
      BY <1>1, <3>1
  <2>5. Inserted(s, x, less) = InsertAt(s, n, x)
    BY <2>1, <2>3
  <2>. HIDE DEF after
  <2>6. /\ InsertAt(s, n, x) \in Seq(S) /\ Len(InsertAt(s, n, x)) = Len(s) + 1
        /\ \A k \in 1..(Len(s) + 1) :
             InsertAt(s, n, x)[k] = IF k < n THEN s[k] ELSE IF k = n THEN x ELSE s[k - 1]
    BY <2>4, InsertAtIs
  <2>. QED
    BY <2>4, <2>5, <2>6 DEF Insertion
<1>. QED
  BY <1>2, <1>3

SortAt(u, s, less, k) == IF k = 0 THEN <<>> ELSE Inserted(u[k - 1], s[k], less)

IsSorting(u, s, less) == u = [k \in 0..Len(s) |-> SortAt(u, s, less, k)]

LEMMA SortingExists ==
  ASSUME NEW S, NEW s \in Seq(S), NEW less
  PROVE  \E u : IsSorting(u, s, less)
<1>. DEFINE IsTo(u, m) == \A k \in 0..m : u[k] = SortAt(u, s, less, k)
            Step(u) == [k \in 0..Len(s) |-> SortAt(u, s, less, k)]
            R == {m \in 0..Len(s) : \E u : IsTo(u, m)}
<1>0. Len(s) \in Nat
  OBVIOUS
<1>1. \A u : \A k \in 0..Len(s) : Step(u)[k] = SortAt(u, s, less, k)
  OBVIOUS
<1>2. \A u, v : \A k \in 0..Len(s) :
        (k # 0 => u[k - 1] = v[k - 1]) => SortAt(u, s, less, k) = SortAt(v, s, less, k)
  BY DEF SortAt
<1>. HIDE DEF Step
<1>3. 0 \in R
  <2>1. PICK u : u = Step(<<>>)
    OBVIOUS
  <2>2. u[0] = SortAt(u, s, less, 0)
    BY <1>0, <1>1, <1>2, <2>1
  <2>. QED
    BY <1>0, <2>2
<1>4. ASSUME NEW m \in 0..(Len(s) - 1), m \in R
      PROVE  m + 1 \in R
  <2>1. PICK u : IsTo(u, m)
    BY <1>4
  <2>2. PICK v : v = Step(u)
    OBVIOUS
  <2>3. \A k \in 0..m : v[k] = u[k]
    BY <1>0, <1>1, <2>1, <2>2
  <2>4. ASSUME NEW k \in 0..(m + 1)
        PROVE  v[k] = SortAt(v, s, less, k)
    <3>1. k \in 0..Len(s) /\ (k # 0 => k - 1 \in 0..m)
      BY <1>0
    <3>2. k # 0 => u[k - 1] = v[k - 1]
      BY <2>3, <3>1
    <3>3. v[k] = SortAt(u, s, less, k)
      BY <1>1, <2>2, <3>1
    <3>. QED
      BY <1>2, <3>1, <3>2, <3>3
  <2>. QED
    BY <1>0, <2>4
<1>5. Len(s) \in R
  <2>. HIDE DEF R
  <2>1. \A m \in 0..Len(s) : m \in R
    BY <1>0, <1>3, <1>4, IntervalInduction
  <2>. QED
    BY <1>0, <2>1
<1>6. PICK u : IsTo(u, Len(s))
  BY <1>5
<1>7. PICK v : v = Step(u)
  OBVIOUS
<1>8. \A k \in 0..Len(s) : v[k] = u[k]
  BY <1>1, <1>6, <1>7
<1>9. ASSUME NEW k \in 0..Len(s)
      PROVE  v[k] = SortAt(v, s, less, k)
  <2>1. k # 0 => u[k - 1] = v[k - 1]
    BY <1>0, <1>8
  <2>. QED
    BY <1>1, <1>2, <1>7, <2>1
<1>10. v = [k \in 0..Len(s) |-> v[k]]
  BY <1>7 DEF Step
<1>11. v = [k \in 0..Len(s) |-> SortAt(v, s, less, k)]
  BY <1>9, <1>10
<1>. QED
  BY <1>11 DEF IsSorting

LEMMA SortingIs ==
  ASSUME NEW S, NEW s \in Seq(S), NEW less
  PROVE  \E u : IsSorting(u, s, less) /\ SortedIn(s, less) = u[Len(s)]
<1>. DEFINE sorted[k \in 0..Len(s)] ==
              IF k = 0 THEN <<>> ELSE Inserted(sorted[k - 1], s[k], less)
<1>1. SortedIn(s, less) = sorted[Len(s)]
  BY Zenon DEF SortedIn
<1>2. IsSorting(sorted, s, less)
  <2>. DEFINE IsFrom(u) ==
         u = [k \in 0..Len(s) |-> IF k = 0 THEN <<>> ELSE Inserted(u[k - 1], s[k], less)]
  <2>1. \A u : IsSorting(u, s, less) <=> IsFrom(u)
    BY Zenon DEF IsSorting, SortAt
  <2>2. \E u : IsFrom(u)
    <3>. HIDE DEF IsFrom
    <3>. QED
      BY <2>1, SortingExists
  <2>3. IsFrom(sorted)
    BY <2>2, SMTT(30)
  <2>4. PICK v : v = sorted
    OBVIOUS
  <2>. HIDE DEF sorted
  <2>5. IsFrom(v)
    BY <2>3, <2>4
  <2>6. IsSorting(v, s, less)
    <3>. HIDE DEF IsFrom
    <3>. QED
      BY <2>1, <2>5
  <2>. QED
    BY <2>4, <2>6
<1>. HIDE DEF sorted
<1>. QED
  BY <1>1, <1>2

\* A sort rearranges a sequence.
LEMMA SortRearranges ==
  ASSUME NEW S, NEW s \in Seq(S), NEW less
  PROVE  /\ SortedIn(s, less) \in Seq(S) /\ Len(SortedIn(s, less)) = Len(s)
         /\ \E p : Rearranged(s, SortedIn(s, less), p)
<1>0. PICK N : N = Len(s) /\ N \in Nat
  OBVIOUS
<1>1. PICK u : IsSorting(u, s, less) /\ SortedIn(s, less) = u[N]
  BY <1>0, SortingIs
<1>2. u[0] = <<>> /\ \A k \in 0..(N - 1) : u[k + 1] = Inserted(u[k], s[k + 1], less)
  <2>1. \A k \in 0..N : u[k] = SortAt(u, s, less, k)
    BY <1>0, <1>1 DEF IsSorting
  <2>2. \A k \in 0..(N - 1) : k + 1 \in 0..N /\ k + 1 # 0 /\ (k + 1) - 1 = k
    BY <1>0
  <2>. QED
    BY <1>0, <2>1, <2>2 DEF SortAt
<1>. DEFINE Is(k, p) == /\ p \in [1..k -> 1..k]
                        /\ \A i, j \in 1..k : p[i] = p[j] => i = j
                        /\ \A i \in 1..k : u[k][i] = s[p[i]]
            R == {k \in 0..N : u[k] \in Seq(S) /\ Len(u[k]) = k /\ \E p : Is(k, p)}
<1>3. 0 \in R
  <2>1. Is(0, <<>>)
    OBVIOUS
  <2>2. u[0] \in Seq(S) /\ Len(u[0]) = 0 /\ 0 \in 0..N
    BY <1>0, <1>2
  <2>. QED
    BY <2>1, <2>2
<1>4. ASSUME NEW k \in 0..(N - 1), k \in R
      PROVE  k + 1 \in R
  <2>1. PICK t, m : t = u[k] /\ m = k + 1
    OBVIOUS
  <2>2. t \in Seq(S) /\ Len(t) = k /\ m \in 1..N /\ k \in Nat
    BY <1>0, <1>4, <2>1
  <2>3. PICK p : Is(k, p)
    BY <1>4
  <2>4. u[m] = Inserted(t, s[m], less) /\ s[m] \in S
    BY <1>0, <1>2, <2>1, <2>2
  <2>5. PICK n \in 1..m :
          /\ u[m] \in Seq(S) /\ Len(u[m]) = m
          /\ \A i \in 1..m : u[m][i] = IF i < n THEN t[i] ELSE IF i = n THEN s[m] ELSE t[i - 1]
    <3>1. PICK x : x = s[m] /\ x \in S
      BY <2>4
    <3>2. Insertion(S, t, x, Inserted(t, x, less))
      BY <2>2, <3>1, InsertedIs
    <3>3. Len(t) + 1 = m
      BY <2>1, <2>2
    <3>4. PICK y : y = u[m]
      OBVIOUS
    <3>5. y = Inserted(t, x, less)
      BY <2>4, <3>1, <3>4
    <3>6. \E n \in 1..m :
            /\ y \in Seq(S) /\ Len(y) = m
            /\ \A i \in 1..m : y[i] = IF i < n THEN t[i] ELSE IF i = n THEN x ELSE t[i - 1]
      BY <3>2, <3>3, <3>5 DEF Insertion
    <3>. QED
      BY <3>1, <3>4, <3>6
  <2>6. PICK q : q = [i \in 1..m |-> IF i < n THEN p[i] ELSE IF i = n THEN m ELSE p[i - 1]]
    OBVIOUS
  <2>7. ASSUME NEW i \in 1..m
        PROVE  /\ i < n => i \in 1..k /\ q[i] = p[i]
               /\ i = n => q[i] = m
               /\ n < i => i - 1 \in 1..k /\ q[i] = p[i - 1]
    BY <2>1, <2>2, <2>6
  <2>8. \A i \in 1..k : p[i] \in 1..k
    BY <2>3
  <2>9. q \in [1..m -> 1..m]
    <3>1. ASSUME NEW i \in 1..m
          PROVE  q[i] \in 1..m
      <4>1. i < n \/ i = n \/ n < i
        BY <2>2
      <4>2. m \in 1..m /\ \A y \in 1..k : y \in 1..m
        BY <2>1, <2>2
      <4>3. CASE i < n
        BY <2>7, <2>8, <4>2, <4>3
      <4>4. CASE i = n
        BY <2>7, <4>2, <4>4
      <4>5. CASE n < i
        BY <2>7, <2>8, <4>2, <4>5
      <4>. QED
        BY <4>1, <4>3, <4>4, <4>5
    <3>. QED
      BY <2>6, <3>1
  <2>10. ASSUME NEW i \in 1..m, NEW j \in 1..m, q[i] = q[j]
         PROVE  i = j
    <3>1. m \notin 1..k
      BY <2>1, <2>2
    <3>2. \A x, y \in 1..k : p[x] = p[y] => x = y
      BY <2>3
    <3>3. (i < n \/ i = n \/ n < i) /\ (j < n \/ j = n \/ n < j)
      BY <2>2
    <3>4. i = n <=> j = n
      BY <2>7, <2>8, <2>10, <3>1, <3>3
    <3>5. CASE i < n /\ j < n
      BY <2>7, <2>10, <3>2, <3>5
    <3>6. CASE i < n /\ n < j
      <4>1. i = j - 1
        BY <2>7, <2>10, <3>2, <3>6
      <4>. QED
        BY <2>2, <3>6, <4>1
    <3>7. CASE n < i /\ j < n
      <4>1. i - 1 = j
        BY <2>7, <2>10, <3>2, <3>7
      <4>. QED
        BY <2>2, <3>7, <4>1
    <3>8. CASE n < i /\ n < j
      <4>1. i - 1 = j - 1
        BY <2>7, <2>10, <3>2, <3>8
      <4>. QED
        BY <2>2, <4>1
    <3>. QED
      BY <3>3, <3>4, <3>5, <3>6, <3>7, <3>8
  <2>11. ASSUME NEW i \in 1..m
         PROVE  u[m][i] = s[q[i]]
    <3>1. \A x \in 1..k : t[x] = s[p[x]]
      BY <2>1, <2>3
    <3>2. i < n \/ i = n \/ n < i
      BY <2>2
    <3>3. CASE i < n
      BY <2>5, <2>7, <3>1, <3>3
    <3>4. CASE i = n
      BY <2>5, <2>7, <3>4
    <3>5. CASE n < i
      <4>1. u[m][i] = t[i - 1]
        BY <2>2, <2>5, <3>5
      <4>. QED
        BY <2>7, <3>1, <3>5, <4>1
    <3>. QED
      BY <3>2, <3>3, <3>4, <3>5
  <2>12. Is(m, q)
    BY <2>9, <2>10, <2>11
  <2>13. m \in 0..N
    BY <1>0, <2>2
  <2>14. \E r : Is(m, r)
    BY <2>12
  <2>15. m \in R
    <3>. HIDE DEF Is
    <3>. QED
      BY <2>5, <2>13, <2>14
  <2>. HIDE DEF R
  <2>. QED
    BY <2>1, <2>15
<1>5. N \in R
  <2>. HIDE DEF R
  <2>1. \A k \in 0..N : k \in R
    BY <1>0, <1>3, <1>4, IntervalInduction
  <2>. QED
    BY <1>0, <2>1
<1>6. PICK t : t = u[N]
  OBVIOUS
<1>7. t \in Seq(S) /\ Len(t) = N /\ \E p : Is(N, p)
  BY <1>5, <1>6
<1>8. PICK p : Is(N, p)
  BY <1>7
<1>9. p \in Bijection(1..N, 1..N)
  <2>1. p \in Injection(1..N, 1..N)
    BY <1>8 DEF Injection, IsInjective
  <2>2. IsFiniteSet(1..N)
    BY <1>0, FS_Interval
  <2>3. p \in Surjection(1..N, 1..N)
    BY <2>1, <2>2, FS_Injection
  <2>. QED
    BY <2>1, <2>3 DEF Bijection
<1>10. t = [k \in 1..N |-> s[p[k]]]
  <2>1. t = [k \in 1..N |-> t[k]]
    BY <1>0, <1>7
  <2>2. \A k \in 1..N : t[k] = s[p[k]]
    BY <1>6, <1>8
  <2>. QED
    BY <2>1, <2>2
<1>11. Rearranged(s, t, p)
  BY <1>0, <1>9, <1>10 DEF Rearranged
<1>. QED
  BY <1>0, <1>1, <1>6, <1>7, <1>11
-----------------------------------------------------------------------------
(***************************************************************************)
(* The indices of a product.                                               *)
(***************************************************************************)
LEMMA FiniteIndices ==
  ASSUME NEW I, NEW s \in Seq(Tensors(I))
  PROVE  /\ IsFiniteSet(DOMAIN s)
         /\ IsFiniteSet(AllIndices(s)) /\ IsFiniteSet(Named(s)) /\ IsFiniteSet(Anonymous(s))
<1>1. \A S : \A u \in Seq(S) : IsFiniteSet(DOMAIN u) /\ IsFiniteSet(ToSet(u))
  <2>1. ASSUME NEW S, NEW u \in Seq(S)
        PROVE  IsFiniteSet(DOMAIN u) /\ IsFiniteSet(ToSet(u))
    <3>1. DOMAIN u = 1..Len(u) /\ Len(u) \in Nat
      OBVIOUS
    <3>2. IsFiniteSet(DOMAIN u)
      BY <3>1, FS_Interval
    <3>3. u \in Surjection(DOMAIN u, ToSet(u))
      <4>1. \A k \in DOMAIN u : u[k] \in ToSet(u)
        BY DEF ToSet
      <4>2. \A x \in ToSet(u) : \E k \in DOMAIN u : u[k] = x
        BY DEF ToSet
      <4>3. u \in [DOMAIN u -> ToSet(u)]
        BY <4>1
      <4>. QED
        BY <4>2, <4>3 DEF Surjection
    <3>4. IsFiniteSet(ToSet(u))
      BY <3>2, <3>3, FS_Surjection
    <3>. QED
      BY <3>2, <3>4
  <2>. QED
    BY <2>1
<1>2. IsFiniteSet(DOMAIN s) /\ IsFiniteSet(ToSet(s))
  BY <1>1
<1>3. \A t \in ToSet(s) : IsFiniteSet(IndicesOf(t))
  <2>1. ASSUME NEW t \in ToSet(s)
        PROVE  IsFiniteSet(IndicesOf(t))
    <3>1. t \in Tensors(I)
      BY DEF ToSet
    <3>2. t.bra \in Seq(I) /\ t.ket \in Seq(I)
      BY <3>1 DEF Tensors
    <3>3. IsFiniteSet(ToSet(t.bra)) /\ IsFiniteSet(ToSet(t.ket))
      BY <1>1, <3>2
    <3>. QED
      BY <3>3, FS_Union DEF IndicesOf
  <2>. QED
    BY <2>1
<1>4. IsFiniteSet(AllIndices(s))
  <2>1. PICK X : X = {IndicesOf(t) : t \in ToSet(s)}
    OBVIOUS
  <2>2. IsFiniteSet(X)
    <3>1. [t \in ToSet(s) |-> IndicesOf(t)] \in Surjection(ToSet(s), X)
      BY <2>1 DEF Surjection
    <3>. QED
      BY <1>2, <3>1, FS_Surjection
  <2>3. \A x \in X : IsFiniteSet(x)
    BY <1>3, <2>1
  <2>4. IsFiniteSet(UNION X)
    BY <2>2, <2>3, FS_UNION
  <2>. QED
    BY <2>1, <2>4 DEF AllIndices
<1>5. Named(s) \in SUBSET AllIndices(s) /\ Anonymous(s) \in SUBSET AllIndices(s)
  BY DEF Named, Anonymous
<1>. QED
  BY <1>2, <1>4, <1>5, FS_Subset

\* An index is in as many tensors however they are ordered.
LEMMA NamesRearranged ==
  ASSUME NEW I, NEW s \in Seq(Tensors(I)), NEW t \in Seq(Tensors(I)), Len(t) = Len(s),
         NEW p, Rearranged(s, t, p)
  PROVE  Named(t) \subseteq Named(s)
<1>1. PICK K : K = DOMAIN s /\ K = DOMAIN t /\ K = 1..Len(s)
  OBVIOUS
<1>2. p \in Bijection(K, K) /\ \A k \in K : t[k] = s[p[k]]
  BY <1>1 DEF Rearranged
<1>3. p \in [K -> K] /\ (\A j, k \in K : p[j] = p[k] => j = k) /\ \A k \in K : \E j \in K : p[j] = k
  BY <1>2 DEF Bijection, Injection, Surjection, IsInjective
<1>4. AllIndices(t) \subseteq AllIndices(s)
  <2>1. ToSet(t) \subseteq ToSet(s)
    BY <1>1, <1>2, <1>3 DEF ToSet
  <2>. QED
    BY <2>1 DEF AllIndices
<1>5. ASSUME NEW i
      PROVE  Cardinality(Ends(t, i)) = 1 => Cardinality(Ends(s, i)) = 1
  <2>1. PICK A, B : A = Ends(t, i) /\ B = Ends(s, i)
    OBVIOUS
  <2>. DEFINE sides == {"bra", "ket"}
              f == [e \in A |-> <<p[e[1]], e[2]>>]
  <2>2. \A e \in A : e \in K \X sides /\ i \in ToSet(t[e[1]][e[2]])
    BY <1>1, <2>1 DEF Ends
  <2>3. \A e \in K \X sides : i \in ToSet(s[e[1]][e[2]]) => e \in B
    BY <1>1, <2>1 DEF Ends
  <2>4. \A e \in B : e \in K \X sides /\ i \in ToSet(s[e[1]][e[2]])
    BY <1>1, <2>1 DEF Ends
  <2>5. \A e \in K \X sides : i \in ToSet(t[e[1]][e[2]]) => e \in A
    BY <1>1, <2>1 DEF Ends
  <2>6. \A e \in A : f[e] \in B
    <3>1. ASSUME NEW e \in A
          PROVE  f[e] \in B
      <4>1. PICK k \in K, side \in sides : e = <<k, side>>
        BY <2>2
      <4>2. i \in ToSet(s[p[k]][side]) /\ p[k] \in K
        BY <1>2, <1>3, <2>2, <4>1
      <4>3. f[e] = <<p[k], side>>
        BY <4>1
      <4>4. <<p[k], side>> \in K \X sides
        BY <4>2
      <4>. QED
        BY <2>3, <4>2, <4>3, <4>4
    <3>. QED
      BY <3>1
  <2>7. \A e \in B : \E d \in A : f[d] = e
    <3>1. ASSUME NEW e \in B
          PROVE  \E d \in A : f[d] = e
      <4>1. PICK k \in K, side \in sides : e = <<k, side>>
        BY <2>4
      <4>2. PICK j \in K : p[j] = k
        BY <1>3
      <4>3. i \in ToSet(t[j][side])
        BY <1>2, <2>4, <4>1, <4>2
      <4>4. <<j, side>> \in A
        BY <2>5, <4>3
      <4>. QED
        BY <4>1, <4>2, <4>4
    <3>. QED
      BY <3>1
  <2>8. ASSUME Cardinality(A) = 1
        PROVE  Cardinality(B) = 1
    <3>1. IsFiniteSet(A)
      <4>1. IsFiniteSet(K)
        BY <1>1, FiniteIndices
      <4>2. IsFiniteSet(sides)
        <5>1. IsFiniteSet({"bra"}) /\ IsFiniteSet({"ket"})
          BY FS_Singleton
        <5>2. sides = {"bra"} \cup {"ket"}
          OBVIOUS
        <5>. QED
          BY <5>1, <5>2, FS_Union
      <4>3. IsFiniteSet(K \X sides)
        BY <4>1, <4>2, FS_Product
      <4>4. A \in SUBSET (K \X sides)
        BY <2>2
      <4>. QED
        BY <4>3, <4>4, FS_Subset
    <3>2. PICK a : A = {a}
      BY <2>8, <3>1, FS_Singleton
    <3>. HIDE DEF f
    <3>3. B = {f[a]}
      BY <2>6, <2>7, <3>2
    <3>. QED
      BY <3>3, FS_Singleton
  <2>. QED
    BY <2>1, <2>8
<1>. QED
  BY <1>4, <1>5 DEF Named

-----------------------------------------------------------------------------
(***************************************************************************)
(* The overlaps of a product.                                              *)
(***************************************************************************)
IsTensors(s) == \E I : s \in Seq(Tensors(I))

\* one index in the bra, another in the ket
BindsTwo(t) == Len(t.bra) = 1 /\ Len(t.ket) = 1 /\ BraIndex(t) # KetIndex(t)

Deltas(s) == \A k \in DOMAIN s : IsOverlap(s[k]) => BindsTwo(s[k])

LEMMA OverlapsAre ==
  ASSUME NEW S, NEW s \in Seq(S)
  PROVE  /\ DOMAIN Overlaps(s) = 1..Len(Overlaps(s)) /\ Len(Overlaps(s)) \in Nat
         /\ \A t \in ToSet(Overlaps(s)) : \E k \in DOMAIN s : IsOverlap(s[k]) /\ t = s[k]
         /\ \A k \in DOMAIN s : IsOverlap(s[k]) => s[k] \in ToSet(Overlaps(s))
<1>. DEFINE places == {k \in DOMAIN s : IsOverlap(s[k])}
<1>1. Len(s) \in Nat /\ places \in SUBSET (1..Len(s)) /\ DOMAIN s = 1..Len(s)
  OBVIOUS
<1>2. Overlaps(s) = Kept(s, places)
  BY DEF Overlaps
<1>3. PICK u : u = Overlaps(s)
  OBVIOUS
<1>4. PICK n : n = Cardinality(places)
  OBVIOUS
<1>5. \A k \in places : k \in DOMAIN s /\ IsOverlap(s[k])
  OBVIOUS
<1>6. \A k \in DOMAIN s : IsOverlap(s[k]) => k \in places
  OBVIOUS
<1>. HIDE DEF places
<1>7. /\ u = [k \in 1..n |-> u[k]] /\ n \in Nat
      /\ \A k \in 1..n : \E j \in places : u[k] = s[j]
      /\ \A j \in places : \E k \in 1..n : u[k] = s[j]
  <2>1. PICK m \in Nat : places \in SUBSET (1..m)
    BY <1>1
  <2>2. /\ Kept(s, places) = [k \in 1..Cardinality(places) |-> Kept(s, places)[k]]
        /\ Cardinality(places) \in Nat
        /\ \A k \in 1..Cardinality(places) : \E j \in places : Kept(s, places)[k] = s[j]
        /\ \A j \in places : \E k \in 1..Cardinality(places) : Kept(s, places)[k] = s[j]
    BY <2>1, KeptIs
  <2>3. u = Kept(s, places)
    BY <1>2, <1>3
  <2>. QED
    BY <1>4, <2>2, <2>3
<1>8. DOMAIN u = 1..n
  BY <1>7
<1>9. Len(u) = n
  BY <1>7, <1>8
<1>10. \A t \in ToSet(u) : \E k \in DOMAIN s : IsOverlap(s[k]) /\ t = s[k]
  <2>1. ASSUME NEW k \in 1..n
        PROVE  \E j \in DOMAIN s : IsOverlap(s[j]) /\ u[k] = s[j]
    <3>1. PICK j \in places : u[k] = s[j]
      BY <1>7
    <3>. QED
      BY <1>5, <3>1
  <2>. QED
    BY <1>8, <2>1 DEF ToSet
<1>11. \A k \in DOMAIN s : IsOverlap(s[k]) => s[k] \in ToSet(u)
  <2>1. \A j \in places : s[j] \in ToSet(u)
    BY <1>7, <1>8 DEF ToSet
  <2>. QED
    BY <1>6, <2>1
<1>. QED
  BY <1>3, <1>7, <1>8, <1>9, <1>10, <1>11

\* A replacement leaves the label and the shape of a tensor.
Images(rules, I) == {Image(rules, i) : i \in I}

LEMMA TransformIndicesIs ==
  ASSUME NEW I, NEW t \in Tensors(I), NEW rules
  PROVE  /\ TransformIndices(t, rules) \in Tensors(Images(rules, I))
         /\ TransformIndices(t, rules).label = t.label
         /\ TransformIndices(t, rules).symm = t.symm
         /\ Len(TransformIndices(t, rules).bra) = Len(t.bra)
         /\ Len(TransformIndices(t, rules).ket) = Len(t.ket)
         /\ \A k \in DOMAIN t.bra : TransformIndices(t, rules).bra[k] = Image(rules, t.bra[k])
         /\ \A k \in DOMAIN t.ket : TransformIndices(t, rules).ket[k] = Image(rules, t.ket[k])
<1>1. PICK b, k : b = ReplacedIn(rules, t.bra) /\ k = ReplacedIn(rules, t.ket)
  OBVIOUS
<1>2. /\ t = [label |-> t.label, symm |-> t.symm, bra |-> t.bra, ket |-> t.ket]
      /\ t.label \in STRING /\ t.symm \in {"antisymm", "symm", "nonsymm"}
      /\ t.bra \in Seq(I) /\ t.ket \in Seq(I)
  BY DEF Tensors
<1>3. TransformIndices(t, rules) = [t EXCEPT !.bra = b, !.ket = k]
  BY <1>1 DEF TransformIndices
<1>4. TransformIndices(t, rules) = [label |-> t.label, symm |-> t.symm, bra |-> b, ket |-> k]
  BY <1>2, <1>3
<1>5. \A u \in Seq(I) : /\ ReplacedIn(rules, u) \in Seq(Images(rules, I))
                        /\ Len(ReplacedIn(rules, u)) = Len(u)
                        /\ \A n \in DOMAIN u : ReplacedIn(rules, u)[n] = Image(rules, u[n])
  BY DEF ReplacedIn, Images
<1>6. /\ b \in Seq(Images(rules, I)) /\ Len(b) = Len(t.bra)
      /\ k \in Seq(Images(rules, I)) /\ Len(k) = Len(t.ket)
      /\ \A n \in DOMAIN t.bra : b[n] = Image(rules, t.bra[n])
      /\ \A n \in DOMAIN t.ket : k[n] = Image(rules, t.ket[n])
  BY <1>1, <1>2, <1>5
<1>7. PICK u : u = TransformIndices(t, rules)
  OBVIOUS
<1>8. u.label = t.label /\ u.symm = t.symm /\ u.bra = b /\ u.ket = k
  BY <1>4, <1>7
<1>9. u \in Tensors(Images(rules, I))
  BY <1>2, <1>4, <1>6, <1>7 DEF Tensors
<1>. QED
  BY <1>6, <1>7, <1>8, <1>9

\* An overlap is one of two indices in its bra and its ket.
LEMMA DeltaIs ==
  ASSUME NEW I, NEW t \in Tensors(I), Len(t.bra) = 1, Len(t.ket) = 1
  PROVE  /\ BraIndex(t) \in I /\ KetIndex(t) \in I
         /\ IndicesOf(t) = {BraIndex(t), KetIndex(t)}
<1>1. t.bra \in Seq(I) /\ t.ket \in Seq(I)
  BY DEF Tensors
<1>2. DOMAIN t.bra = {1} /\ DOMAIN t.ket = {1}
  BY <1>1
<1>3. ToSet(t.bra) = {t.bra[1]} /\ ToSet(t.ket) = {t.ket[1]}
  BY <1>2 DEF ToSet
<1>. QED
  BY <1>1, <1>3 DEF BraIndex, KetIndex, IndicesOf

\* A product is one of its own indices.
LEMMA IndicesWithin ==
  ASSUME NEW I, NEW s \in Seq(Tensors(I))
  PROVE  AllIndices(s) \subseteq I /\ s \in Seq(Tensors(AllIndices(s)))
<1>1. PICK A : A = AllIndices(s)
  OBVIOUS
<1>2. ASSUME NEW k \in DOMAIN s
      PROVE  s[k] \in Tensors(A) /\ IndicesOf(s[k]) \subseteq I
  <2>1. PICK t : t = s[k]
    OBVIOUS
  <2>2. /\ t = [label |-> t.label, symm |-> t.symm, bra |-> t.bra, ket |-> t.ket]
        /\ t.label \in STRING /\ t.symm \in {"antisymm", "symm", "nonsymm"}
        /\ t.bra \in Seq(I) /\ t.ket \in Seq(I)
    <3>1. t \in Tensors(I)
      BY <2>1
    <3>. QED
      BY <3>1 DEF Tensors
  <2>3. IndicesOf(t) \subseteq A
    BY <1>1, <2>1 DEF AllIndices, ToSet
  <2>4. ToSet(t.bra) \subseteq A /\ ToSet(t.ket) \subseteq A
    BY <2>3 DEF IndicesOf
  <2>5. t.bra \in Seq(A) /\ t.ket \in Seq(A)
    BY <2>2, <2>4 DEF ToSet
  <2>6. t \in Tensors(A)
    BY <2>2, <2>5 DEF Tensors
  <2>7. IndicesOf(t) \subseteq I
    BY <2>2 DEF IndicesOf, ToSet
  <2>. QED
    BY <2>1, <2>6, <2>7
<1>3. s \in Seq(Tensors(A))
  <2>1. DOMAIN s = 1..Len(s) /\ Len(s) \in Nat
    OBVIOUS
  <2>. QED
    BY <1>2, <2>1
<1>4. A \subseteq I
  BY <1>1, <1>2 DEF AllIndices, ToSet
<1>. QED
  BY <1>1, <1>3, <1>4

LEMMA TensorsOf ==
  ASSUME NEW I, NEW J, I \subseteq J, NEW s \in Seq(Tensors(I))
  PROVE  s \in Seq(Tensors(J))
<1>1. \A u \in Seq(I) : u \in Seq(J)
  OBVIOUS
<1>2. \A t \in Tensors(I) : t \in Tensors(J)
  BY <1>1 DEF Tensors
<1>. QED
  BY <1>2

LEMMA ReplacedDelta ==
  ASSUME NEW I, NEW t \in Tensors(I), Len(t.bra) = 1, Len(t.ket) = 1, NEW rules
  PROVE  /\ Len(TransformIndices(t, rules).bra) = 1 /\ Len(TransformIndices(t, rules).ket) = 1
         /\ BraIndex(TransformIndices(t, rules)) = Image(rules, BraIndex(t))
         /\ KetIndex(TransformIndices(t, rules)) = Image(rules, KetIndex(t))
<1>1. 1 \in DOMAIN t.bra /\ 1 \in DOMAIN t.ket
  BY DEF Tensors
<1>. QED
  BY <1>1, TransformIndicesIs DEF BraIndex, KetIndex

\* the overlaps of t come from those of s by a replacement
Carried(s, t, rules) ==
  \A k \in DOMAIN t : IsOverlap(t[k]) =>
    \E j \in DOMAIN s : /\ IsOverlap(s[j])
                        /\ BraIndex(t[k]) = Image(rules, BraIndex(s[j]))
                        /\ KetIndex(t[k]) = Image(rules, KetIndex(s[j]))

\* A replacement that keeps apart the indices of every overlap.
LEMMA ReplacedDeltas ==
  ASSUME NEW I, NEW s \in Seq(Tensors(I)), Deltas(s), NEW rules,
         \A i, j \in AllIndices(s) : i # j => Image(rules, i) # Image(rules, j),
         NEW t, t = [k \in DOMAIN s |-> TransformIndices(s[k], rules)]
  PROVE  /\ t \in Seq(Tensors(Images(rules, I))) /\ Len(t) = Len(s) /\ Deltas(t)
         /\ Carried(s, t, rules)
<1>1. DOMAIN s = 1..Len(s) /\ Len(s) \in Nat /\ \A k \in DOMAIN s : s[k] \in Tensors(I)
  OBVIOUS
<1>2. \A k \in DOMAIN s : t[k] \in Tensors(Images(rules, I)) /\ t[k].label = s[k].label
  BY <1>1, TransformIndicesIs
<1>3. t \in Seq(Tensors(Images(rules, I))) /\ Len(t) = Len(s)
  BY <1>1, <1>2
<1>4. ASSUME NEW k \in DOMAIN s, IsOverlap(t[k])
      PROVE  BindsTwo(t[k])
  <2>1. BindsTwo(s[k])
    BY <1>2, <1>4 DEF Deltas, IsOverlap
  <2>2. IndicesOf(s[k]) = {BraIndex(s[k]), KetIndex(s[k])} /\ BraIndex(s[k]) # KetIndex(s[k])
    BY <1>1, <2>1, DeltaIs DEF BindsTwo
  <2>3. BraIndex(s[k]) \in AllIndices(s) /\ KetIndex(s[k]) \in AllIndices(s)
    BY <2>2 DEF AllIndices, ToSet
  <2>4. Image(rules, BraIndex(s[k])) # Image(rules, KetIndex(s[k]))
    BY <2>2, <2>3
  <2>. QED
    BY <1>1, <2>1, <2>4, ReplacedDelta DEF BindsTwo
<1>5. Carried(s, t, rules)
  <2>1. ASSUME NEW k \in DOMAIN s, IsOverlap(t[k])
        PROVE  /\ IsOverlap(s[k])
               /\ BraIndex(t[k]) = Image(rules, BraIndex(s[k]))
               /\ KetIndex(t[k]) = Image(rules, KetIndex(s[k]))
    <3>1. IsOverlap(s[k])
      BY <1>2, <2>1 DEF IsOverlap
    <3>2. s[k] \in Tensors(I) /\ Len(s[k].bra) = 1 /\ Len(s[k].ket) = 1
      BY <1>1, <3>1 DEF Deltas, BindsTwo
    <3>. QED
      BY <2>1, <3>1, <3>2, ReplacedDelta
  <2>2. DOMAIN t = DOMAIN s
    OBVIOUS
  <2>. QED
    BY <2>1, <2>2 DEF Carried
<1>. QED
  BY <1>3, <1>4, <1>5 DEF Deltas

-----------------------------------------------------------------------------
(***************************************************************************)
(* What overlaps bind, one after the other: two indices are joined if any  *)
(* set that no overlap leads out of has both.  A joined index ranges over  *)
(* the base spaces that all those joined to it share.  A product has       *)
(* values if one of the base spaces of each index can be chosen so that    *)
(* the two indices of every overlap have the same: otherwise it is zero,   *)
(* whatever its tensors are.                                               *)
(***************************************************************************)
InSpaces(s) == s \in Seq(Tensors(IndexSet))

Asserted(s) == \A k \in DOMAIN s : IsOverlap(s[k]) => IsDelta(s[k])

Closed(s, S) == \A t \in ToSet(Overlaps(s)) : BraIndex(t) \in S <=> KetIndex(t) \in S

Joined(s, i, j) == \A S \in SUBSET AllIndices(s) : Closed(s, S) /\ i \in S => j \in S

Shares(s, i, b) == \A j \in AllIndices(s) : Joined(s, i, j) => b \in j.space

SharedIn(s, i, space) == \A b : Shares(s, i, b) => b \in space

IsChoice(w) == \A i \in IndexSet : w[i] \in i.space

Agrees(w, s) == \A k \in DOMAIN s : IsOverlap(s[k]) => w[BraIndex(s[k])] = w[KetIndex(s[k])]

HasValues(s) == \E w : IsChoice(w) /\ Agrees(w, s)

IsValued(s) == InSpaces(s) /\ Deltas(s) /\ HasValues(s)

Meet(i, j) == i.space \cap j.space

Common(t) == Meet(BraIndex(t), KetIndex(t))

\* the indices of an overlap are among those of the product
LEMMA OverlapIndices ==
  ASSUME NEW I, NEW s \in Seq(Tensors(I)), Deltas(s), NEW k \in DOMAIN s, IsOverlap(s[k])
  PROVE  /\ BraIndex(s[k]) \in I /\ KetIndex(s[k]) \in I
         /\ BraIndex(s[k]) \in AllIndices(s) /\ KetIndex(s[k]) \in AllIndices(s)
         /\ IndicesOf(s[k]) = {BraIndex(s[k]), KetIndex(s[k])}
<1>1. s[k] \in Tensors(I) /\ s[k] \in ToSet(s) /\ Len(s[k].bra) = 1 /\ Len(s[k].ket) = 1
  BY DEF Deltas, BindsTwo, ToSet
<1>2. /\ BraIndex(s[k]) \in I /\ KetIndex(s[k]) \in I
      /\ IndicesOf(s[k]) = {BraIndex(s[k]), KetIndex(s[k])}
  BY <1>1, DeltaIs
<1>. QED
  BY <1>1, <1>2 DEF AllIndices

LEMMA ValuedAsserted ==
  ASSUME NEW s, IsValued(s)
  PROVE  Asserted(s)
<1>1. PICK w : IsChoice(w) /\ Agrees(w, s)
  BY DEF IsValued, HasValues
<1>2. ASSUME NEW k \in DOMAIN s, IsOverlap(s[k])
      PROVE  IsDelta(s[k])
  <2>1. BraIndex(s[k]) \in IndexSet /\ KetIndex(s[k]) \in IndexSet
    BY <1>2, OverlapIndices DEF IsValued, InSpaces
  <2>2. PICK b : b = w[BraIndex(s[k])] /\ b = w[KetIndex(s[k])]
    BY <1>1, <1>2 DEF Agrees
  <2>3. b \in BraIndex(s[k]).space \cap KetIndex(s[k]).space
    BY <1>1, <2>1, <2>2 DEF IsChoice
  <2>. QED
    BY <1>2, <2>3 DEF IsValued, Deltas, BindsTwo, IsDelta
<1>. QED
  BY <1>2 DEF Asserted

LEMMA OverlapIs ==
  ASSUME NEW s, InSpaces(s), Asserted(s), NEW t \in ToSet(Overlaps(s))
  PROVE  /\ BraIndex(t) \in AllIndices(s) /\ KetIndex(t) \in AllIndices(s)
         /\ IndicesOf(t) = {BraIndex(t), KetIndex(t)}
         /\ BraIndex(t) \in IndexSet /\ KetIndex(t) \in IndexSet
         /\ Common(t) \in Spaces
         /\ t \in Tensors(IndexSet) /\ IsDelta(t)
<1>1. s \in Seq(Tensors(IndexSet)) /\ Deltas(s)
  BY DEF InSpaces, Asserted, Deltas, IsDelta, BindsTwo
<1>2. PICK k \in DOMAIN s : IsOverlap(s[k]) /\ t = s[k]
  BY <1>1, OverlapsAre
<1>3. t \in Tensors(IndexSet) /\ IsDelta(t)
  BY <1>1, <1>2 DEF Asserted
<1>4. /\ BraIndex(t) \in IndexSet /\ KetIndex(t) \in IndexSet
      /\ IndicesOf(t) = {BraIndex(t), KetIndex(t)}
  BY <1>1, <1>2, OverlapIndices
<1>5. BraIndex(t) \in AllIndices(s) /\ KetIndex(t) \in AllIndices(s)
  BY <1>1, <1>2, OverlapIndices
<1>6. Common(t) \in Spaces
  <2>1. BraIndex(t).space \in Spaces /\ KetIndex(t).space \in Spaces
    BY <1>4 DEF IndexSet
  <2>2. Common(t) # {}
    BY <1>3 DEF IsDelta, Common, Meet
  <2>3. Common(t) \in SUBSET {"occ", "unocc"}
    BY <2>1 DEF Common, Meet, Spaces
  <2>. QED
    BY <2>2, <2>3, Zenon DEF Spaces
<1>. QED
  BY <1>3, <1>4, <1>5, <1>6

LEMMA JoinedIs ==
  ASSUME NEW s, InSpaces(s), Asserted(s)
  PROVE  /\ \A i : Joined(s, i, i)
         /\ \A i, j, k : Joined(s, i, j) /\ Joined(s, j, k) => Joined(s, i, k)
         /\ \A i, j \in AllIndices(s) : Joined(s, i, j) => Joined(s, j, i)
         /\ \A t \in ToSet(Overlaps(s)) : Joined(s, BraIndex(t), KetIndex(t))
         /\ \A i, j, b : Joined(s, i, j) /\ Shares(s, i, b) => Shares(s, j, b)
         /\ \A i \in AllIndices(s) : SharedIn(s, i, i.space)
<1>1. \A i : Joined(s, i, i)
  BY DEF Joined
<1>2. \A i, j, k : Joined(s, i, j) /\ Joined(s, j, k) => Joined(s, i, k)
  BY DEF Joined
<1>3. ASSUME NEW i \in AllIndices(s), NEW j \in AllIndices(s), Joined(s, i, j)
      PROVE  Joined(s, j, i)
  <2>1. ASSUME NEW S \in SUBSET AllIndices(s), Closed(s, S), j \in S, i \notin S
        PROVE  FALSE
    <3>1. PICK R : R = AllIndices(s) \ S
      OBVIOUS
    <3>2. \A t \in ToSet(Overlaps(s)) : BraIndex(t) \in AllIndices(s) /\ KetIndex(t) \in AllIndices(s)
      BY OverlapIs
    <3>3. Closed(s, R)
      BY <2>1, <3>1, <3>2 DEF Closed
    <3>4. R \in SUBSET AllIndices(s) /\ i \in R /\ j \notin R
      BY <2>1, <3>1
    <3>. QED
      BY <1>3, <3>3, <3>4 DEF Joined
  <2>. QED
    BY <2>1 DEF Joined
<1>4. \A t \in ToSet(Overlaps(s)) : Joined(s, BraIndex(t), KetIndex(t))
  BY DEF Joined, Closed
<1>5. \A i, j, b : Joined(s, i, j) /\ Shares(s, i, b) => Shares(s, j, b)
  BY <1>2 DEF Shares
<1>6. \A i \in AllIndices(s) : SharedIn(s, i, i.space)
  BY <1>1 DEF Shares, SharedIn
<1>. QED
  BY <1>1, <1>2, <1>3, <1>4, <1>5, <1>6

LEMMA SharedOn ==
  ASSUME NEW s, InSpaces(s), Asserted(s)
  PROVE  /\ \A i, j, space : Joined(s, i, j) /\ SharedIn(s, j, space) => SharedIn(s, i, space)
         /\ \A i, A, B : SharedIn(s, i, A) /\ SharedIn(s, i, B) => SharedIn(s, i, A \cap B)
         /\ \A i, A : SharedIn(s, i, A) /\ A = {} => \A b : ~Shares(s, i, b)
BY JoinedIs DEF SharedIn

\* An index that all joined ones share is what any choice that agrees gives.
LEMMA ChoiceIsShared ==
  ASSUME NEW s, InSpaces(s), Deltas(s), NEW w, IsChoice(w), Agrees(w, s), NEW i \in AllIndices(s)
  PROVE  /\ \A j \in AllIndices(s) : Joined(s, i, j) => w[j] = w[i]
         /\ Shares(s, i, w[i]) /\ w[i] \in {"occ", "unocc"}
<1>1. PICK S : S = {j \in AllIndices(s) : w[j] = w[i]}
  OBVIOUS
<1>2. Closed(s, S)
  <2>1. ASSUME NEW t \in ToSet(Overlaps(s))
        PROVE  BraIndex(t) \in S <=> KetIndex(t) \in S
    <3>1. PICK k \in DOMAIN s : IsOverlap(s[k]) /\ t = s[k]
      BY OverlapsAre DEF InSpaces
    <3>2. BraIndex(t) \in AllIndices(s) /\ KetIndex(t) \in AllIndices(s)
      BY <3>1, OverlapIndices DEF InSpaces
    <3>3. w[BraIndex(t)] = w[KetIndex(t)]
      BY <3>1 DEF Agrees
    <3>. QED
      BY <1>1, <3>2, <3>3
  <2>. QED
    BY <2>1 DEF Closed
<1>3. S \in SUBSET AllIndices(s) /\ i \in S
  BY <1>1
<1>4. \A j \in AllIndices(s) : Joined(s, i, j) => w[j] = w[i]
  BY <1>1, <1>2, <1>3 DEF Joined
<1>5. \A j \in AllIndices(s) : j \in IndexSet /\ w[j] \in j.space
  BY IndicesWithin DEF InSpaces, IsChoice
<1>6. w[i] \in {"occ", "unocc"}
  BY <1>5 DEF IndexSet, Spaces
<1>. QED
  BY <1>4, <1>5, <1>6 DEF Shares

Within(s, t) == \A k \in DOMAIN t : IsOverlap(t[k]) => \E j \in DOMAIN s : t[k] = s[j]

LEMMA ValuesWithin ==
  ASSUME NEW s, HasValues(s), NEW t, Within(s, t)
  PROVE  HasValues(t)
<1>1. PICK w : IsChoice(w) /\ Agrees(w, s)
  BY DEF HasValues
<1>2. Agrees(w, t)
  BY <1>1 DEF Agrees, Within
<1>. QED
  BY <1>1, <1>2 DEF HasValues

\* A product still has values if only joined indices were replaced by the same,
\* and each by one in a space that has all its joined indices share.
LEMMA ValuesCarried ==
  ASSUME NEW s, IsValued(s), NEW rules, NEW t, Carried(s, t, rules),
         \A i \in AllIndices(s) : SharedIn(s, i, Image(rules, i).space),
         \A i, j \in AllIndices(s) : Image(rules, i) = Image(rules, j) => Joined(s, i, j)
  PROVE  HasValues(t)
<1>1. PICK w : IsChoice(w) /\ Agrees(w, s)
  BY DEF IsValued, HasValues
<1>2. InSpaces(s) /\ Deltas(s)
  BY DEF IsValued
<1>. DEFINE From(y) == {i \in AllIndices(s) : Image(rules, i) = y}
            v == [y \in IndexSet \cup Images(rules, AllIndices(s)) |->
                    IF From(y) # {} THEN w[CHOOSE i \in From(y) : TRUE]
                    ELSE CHOOSE b \in y.space : TRUE]
<1>3. ASSUME NEW i \in AllIndices(s)
      PROVE  v[Image(rules, i)] = w[i]
  <2>1. PICK y : y = Image(rules, i)
    OBVIOUS
  <2>2. PICK j : j = CHOOSE x \in From(y) : TRUE
    OBVIOUS
  <2>3. i \in From(y) /\ y \in Images(rules, AllIndices(s))
    BY <2>1 DEF Images
  <2>4. j \in From(y) /\ v[y] = w[j]
    BY <2>2, <2>3
  <2>5. j \in AllIndices(s) /\ Image(rules, i) = Image(rules, j)
    BY <2>1, <2>4
  <2>6. w[j] = w[i]
    BY <1>1, <1>2, <2>5, ChoiceIsShared
  <2>. QED
    BY <2>1, <2>4, <2>6
<1>4. ASSUME NEW y \in IndexSet
      PROVE  v[y] \in y.space
  <2>1. CASE From(y) # {}
    <3>1. PICK i \in AllIndices(s) : Image(rules, i) = y
      BY <2>1
    <3>2. v[y] = w[i]
      BY <1>3, <3>1
    <3>3. Shares(s, i, w[i])
      BY <1>1, <1>2, ChoiceIsShared
    <3>. QED
      BY <3>1, <3>2, <3>3 DEF SharedIn
  <2>2. CASE From(y) = {}
    <3>1. y.space # {}
      BY DEF IndexSet, Spaces
    <3>2. v[y] = CHOOSE b \in y.space : TRUE
      BY <2>2
    <3>. QED
      BY <3>1, <3>2
  <2>. QED
    BY <2>1, <2>2
<1>. HIDE DEF v
<1>5. ASSUME NEW k \in DOMAIN t, IsOverlap(t[k])
      PROVE  v[BraIndex(t[k])] = v[KetIndex(t[k])]
  <2>1. PICK j \in DOMAIN s : /\ IsOverlap(s[j])
                              /\ BraIndex(t[k]) = Image(rules, BraIndex(s[j]))
                              /\ KetIndex(t[k]) = Image(rules, KetIndex(s[j]))
    BY <1>5 DEF Carried
  <2>2. BraIndex(s[j]) \in AllIndices(s) /\ KetIndex(s[j]) \in AllIndices(s)
    BY <1>2, <2>1, OverlapIndices DEF InSpaces
  <2>3. w[BraIndex(s[j])] = w[KetIndex(s[j])]
    BY <1>1, <2>1 DEF Agrees
  <2>. QED
    BY <1>3, <2>1, <2>2, <2>3
<1>6. IsChoice(v) /\ Agrees(v, t)
  BY <1>4, <1>5 DEF IsChoice, Agrees
<1>. QED
  BY <1>6 DEF HasValues

\* an injective replacement that leaves the spaces
Renames(rules, A) ==
  \A i, j \in A : /\ Image(rules, i) = Image(rules, j) => i = j
                  /\ Image(rules, i).space = i.space
                  /\ i \in IndexSet => Image(rules, i) \in IndexSet

LEMMA ValuesRenamed ==
  ASSUME NEW s, IsValued(s), NEW rules, Renames(rules, AllIndices(s)), NEW t, Carried(s, t, rules)
  PROVE  HasValues(t)
<1>1. InSpaces(s) /\ Asserted(s)
  BY ValuedAsserted DEF IsValued
<1>2. \A i \in AllIndices(s) : SharedIn(s, i, Image(rules, i).space)
  BY <1>1, JoinedIs DEF Renames
<1>3. \A i, j \in AllIndices(s) : Image(rules, i) = Image(rules, j) => Joined(s, i, j)
  BY <1>1, JoinedIs DEF Renames
<1>. QED
  BY <1>2, <1>3, ValuesCarried

-----------------------------------------------------------------------------
(***************************************************************************)
(* Canonical forms.                                                        *)
(***************************************************************************)
LEMMA SortedIndicesIs ==
  ASSUME NEW S, NEW s \in Seq(S), NEW named
  PROVE  SortedIndices(named, s) \in Seq(S)
BY SortRearranges DEF SortedIndices, SortedBy

LEMMA SortedColumnsIs ==
  ASSUME NEW I, NEW t \in Tensors(I), NEW named
  PROVE  /\ SortedColumns(named, t) \in Tensors(I)
         /\ SortedColumns(named, t).label = t.label
<1>1. /\ t = [label |-> t.label, symm |-> t.symm, bra |-> t.bra, ket |-> t.ket]
      /\ t.label \in STRING /\ t.symm \in {"antisymm", "symm", "nonsymm"}
      /\ t.bra \in Seq(I) /\ t.ket \in Seq(I)
  BY DEF Tensors
<1>2. PICK n : n = Particles(t)
  OBVIOUS
<1>3. n \in Nat /\ n <= Len(t.bra) /\ n <= Len(t.ket)
  <2>1. PICK a, b : a = Len(t.bra) /\ b = Len(t.ket)
    OBVIOUS
  <2>2. a \in Nat /\ b \in Nat
    BY <1>1, <2>1
  <2>3. \E x \in {a, b} : \A y \in {a, b} : x =< y
    <3>1. CASE a =< b
      BY <2>2, <3>1
    <3>2. CASE ~(a =< b)
      BY <2>2, <3>2
    <3>. QED
      BY <3>1, <3>2
  <2>4. Min({a, b}) \in {a, b} /\ \A y \in {a, b} : Min({a, b}) =< y
    BY <2>3 DEF Min
  <2>. QED
    BY <1>2, <2>1, <2>2, <2>4 DEF Particles
<1>4. Columns(t) \in Seq(I \X I)
  BY <1>1, <1>2, <1>3 DEF Columns
<1>. DEFINE less == {p \in ToSet(Columns(t)) \X ToSet(Columns(t)) : ColumnLess(named, p[1], p[2])}
<1>5. PICK cols : cols = SortedIn(Columns(t), less)
  OBVIOUS
<1>6. cols \in Seq(I \X I)
  BY <1>4, <1>5, SortRearranges
<1>7. PICK b, k : /\ b = [m \in DOMAIN cols |-> cols[m][1]]
                  /\ k = [m \in DOMAIN cols |-> cols[m][2]]
  OBVIOUS
<1>8. b \in Seq(I) /\ k \in Seq(I)
  <2>1. DOMAIN cols = 1..Len(cols) /\ Len(cols) \in Nat /\ \A m \in DOMAIN cols : cols[m] \in I \X I
    BY <1>6
  <2>2. \A m \in 1..Len(cols) : cols[m][1] \in I /\ cols[m][2] \in I
    BY <2>1
  <2>. QED
    BY <1>7, <2>1, <2>2
<1>9. PICK x, y : x = Rest(t.bra, n) /\ y = Rest(t.ket, n)
  OBVIOUS
<1>10. x \in Seq(I) /\ y \in Seq(I)
  <2>1. \A u \in Seq(I) : n <= Len(u) => SubSeq(u, n + 1, Len(u)) \in Seq(I)
    BY <1>3
  <2>. QED
    BY <1>1, <1>3, <1>9, <2>1 DEF Rest
<1>11. PICK v, w : v = SortedIndices(named, x) /\ w = SortedIndices(named, y)
  OBVIOUS
<1>12. v \in Seq(I) /\ w \in Seq(I)
  BY <1>10, <1>11, SortedIndicesIs
<1>13. b \o v \in Seq(I) /\ k \o w \in Seq(I)
  BY <1>8, <1>12
<1>14. SortedColumns(named, t) = [t EXCEPT !.bra = b \o v, !.ket = k \o w]
  <2>1. SortedColumns(named, t) =
          [t EXCEPT !.bra = [m \in DOMAIN cols |-> cols[m][1]]
                              \o SortedIndices(named, Rest(t.bra, Particles(t))),
                    !.ket = [m \in DOMAIN cols |-> cols[m][2]]
                              \o SortedIndices(named, Rest(t.ket, Particles(t)))]
    BY <1>5, Zenon DEF SortedColumns, SortedBy
  <2>. QED
    BY <1>2, <1>7, <1>9, <1>11, <2>1
<1>15. SortedColumns(named, t) =
         [label |-> t.label, symm |-> t.symm, bra |-> b \o v, ket |-> k \o w]
  BY <1>1, <1>14
<1>. QED
  BY <1>1, <1>13, <1>15 DEF Tensors

\* A tensor of one particle, such as an overlap, is left as it is.
LEMMA CanonicalTensorIs ==
  ASSUME NEW I, NEW t \in Tensors(I), NEW named
  PROVE  /\ CanonicalTensor(named, t) \in Tensors(I)
         /\ CanonicalTensor(named, t).label = t.label
         /\ Len(t.bra) = 1 /\ Len(t.ket) = 1 => CanonicalTensor(named, t) = t
<1>1. /\ t = [label |-> t.label, symm |-> t.symm, bra |-> t.bra, ket |-> t.ket]
      /\ t.label \in STRING /\ t.symm \in {"antisymm", "symm", "nonsymm"}
      /\ t.bra \in Seq(I) /\ t.ket \in Seq(I)
  BY DEF Tensors
<1>2. CASE Len(t.bra) = 1 /\ Len(t.ket) = 1
  <2>1. CanonicalTensor(named, t) = t
    BY <1>2 DEF CanonicalTensor
  <2>. QED
    BY <2>1
<1>3. CASE (Len(t.bra) # 1 \/ Len(t.ket) # 1) /\ t.symm # "nonsymm"
  <2>1. PICK b, k : b = SortedIndices(named, t.bra) /\ k = SortedIndices(named, t.ket)
    OBVIOUS
  <2>2. b \in Seq(I) /\ k \in Seq(I)
    BY <1>1, <2>1, SortedIndicesIs
  <2>3. CanonicalTensor(named, t) = [t EXCEPT !.bra = b, !.ket = k]
    BY <1>3, <2>1 DEF CanonicalTensor
  <2>4. CanonicalTensor(named, t) = [label |-> t.label, symm |-> t.symm, bra |-> b, ket |-> k]
    BY <1>1, <2>3
  <2>. QED
    BY <1>1, <1>3, <2>2, <2>4 DEF Tensors
<1>4. CASE (Len(t.bra) # 1 \/ Len(t.ket) # 1) /\ t.symm = "nonsymm"
  <2>1. CanonicalTensor(named, t) = SortedColumns(named, t)
    BY <1>4 DEF CanonicalTensor
  <2>. QED
    BY <1>4, <2>1, SortedColumnsIs
<1>. QED
  BY <1>2, <1>3, <1>4

LEMMA RecanonizedIs ==
  ASSUME NEW I, NEW s \in Seq(Tensors(I)), Deltas(s), NEW named
  PROVE  /\ Recanonized(named, s).t \in Seq(Tensors(I))
         /\ Deltas(Recanonized(named, s).t) /\ Within(s, Recanonized(named, s).t)
<1>1. PICK t : t = [k \in DOMAIN s |-> CanonicalTensor(named, s[k])]
  OBVIOUS
<1>2. Recanonized(named, s).t = t
  BY <1>1 DEF Recanonized
<1>3. DOMAIN s = 1..Len(s) /\ Len(s) \in Nat /\ \A k \in DOMAIN s : s[k] \in Tensors(I)
  OBVIOUS
<1>4. \A k \in DOMAIN s : /\ t[k] \in Tensors(I) /\ t[k].label = s[k].label
                          /\ Len(s[k].bra) = 1 /\ Len(s[k].ket) = 1 => t[k] = s[k]
  BY <1>1, <1>3, CanonicalTensorIs
<1>5. t \in Seq(Tensors(I)) /\ DOMAIN t = DOMAIN s
  BY <1>1, <1>3, <1>4
<1>6. \A k \in DOMAIN t : IsOverlap(t[k]) => BindsTwo(t[k])
  BY <1>4, <1>5 DEF Deltas, IsOverlap, BindsTwo
<1>7. Within(s, t)
  BY <1>4, <1>5 DEF Deltas, IsOverlap, BindsTwo, Within
<1>. QED
  BY <1>2, <1>5, <1>6, <1>7 DEF Deltas

\* Renaming the anonymous indices makes no two indices equal.
LEMMA RenamingSeparates ==
  ASSUME NEW I, NEW s \in Seq(Tensors(I)), NEW named, IsFiniteSet(named),
         Named(s) \subseteq named, NEW r \in IndexRankings(s)
  PROVE  /\ Renames(Renaming(named, r), AllIndices(s))
         /\ \A i, j \in AllIndices(s) :
              i # j => Image(Renaming(named, r), i) # Image(Renaming(named, r), j)
<1>1. PICK f : f = Renaming(named, r)
  OBVIOUS
<1>2. IsFiniteSet(Anonymous(s))
  BY FiniteIndices
<1>3. /\ DOMAIN r = Anonymous(s)
      /\ \A i \in Anonymous(s) : r[i] \in Nat \ {0}
      /\ \A i, j \in Anonymous(s) : i.space = j.space /\ r[i] = r[j] => i = j
  BY <1>2, IndexRankingIs
<1>4. DOMAIN f = Anonymous(s) /\ \A i \in Anonymous(s) : f[i] = NthIndex(named, 1, i.space, r[i])
  BY <1>1, <1>3 DEF Renaming
<1>5. \A i \in Anonymous(s) : f[i] \notin named
  BY <1>3, <1>4, NewIndicesDiffer
<1>5a. \A i \in Anonymous(s) : f[i].space = i.space /\ (i \in IndexSet => f[i] \in IndexSet)
  <2>1. ASSUME NEW i \in Anonymous(s)
        PROVE  f[i].space = i.space /\ (i \in IndexSet => f[i] \in IndexSet)
    <3>1. r[i] \in Nat /\ r[i] # 0 /\ f[i] = NthIndex(named, 1, i.space, r[i])
      BY <1>3, <1>4
    <3>2. PICK n \in Nat : f[i] = Index(i.space, n)
      BY <3>1, NthIndexIs
    <3>. QED
      BY <3>2 DEF Index, IndexSet
  <2>. QED
    BY <2>1
<1>6. ASSUME NEW i \in Anonymous(s), NEW j \in Anonymous(s), f[i] = f[j]
      PROVE  i = j
  <2>1. PICK a, b, m, n : a = i.space /\ b = j.space /\ m = r[i] /\ n = r[j]
    OBVIOUS
  <2>2. m \in Nat \ {0} /\ n \in Nat \ {0}
    BY <1>3, <2>1
  <2>3. NthIndex(named, 1, a, m) = NthIndex(named, 1, b, n)
    BY <1>4, <1>6, <2>1
  <2>4. a = b /\ m = n
    BY <2>2, <2>3, NewIndicesDiffer
  <2>. QED
    BY <1>3, <2>1, <2>4
<1>7. \A i \in AllIndices(s) : i \notin Anonymous(s) => i \in named /\ Image(f, i) = i
  BY <1>4 DEF Anonymous, Image
<1>8. \A i \in Anonymous(s) : Image(f, i) = f[i]
  BY <1>4 DEF Image
<1>9. \A i, j \in AllIndices(s) : i # j => Image(f, i) # Image(f, j)
  BY <1>5, <1>6, <1>7, <1>8
<1>10. \A i \in AllIndices(s) : /\ Image(f, i).space = i.space
                                /\ i \in IndexSet => Image(f, i) \in IndexSet
  BY <1>5a, <1>7, <1>8
<1>11. Renames(f, AllIndices(s))
  BY <1>9, <1>10 DEF Renames
<1>. QED
  BY <1>1, <1>9, <1>11

LEMMA RenamedIs ==
  ASSUME NEW I, NEW s \in Seq(Tensors(I)), NEW named, IsFiniteSet(named),
         Named(s) \subseteq named, NEW r \in IndexRankings(s),
         NEW order \in Seq(Tensors(I)), Deltas(order), ToSet(order) \subseteq ToSet(s)
  PROVE  /\ IsTensors(Renamed(order, named, r).t) /\ Deltas(Renamed(order, named, r).t)
         /\ IsValued(order) => IsValued(Renamed(order, named, r).t)
<1>1. PICK rules : rules = Renaming(named, r)
  OBVIOUS
<1>2. PICK t : t = [k \in DOMAIN order |-> TransformIndices(order[k], rules)]
  OBVIOUS
<1>3. Renamed(order, named, r) = Recanonized(named, t)
  BY <1>1, <1>2 DEF Renamed
<1>4. AllIndices(order) \subseteq AllIndices(s)
  BY DEF AllIndices
<1>5. \A i, j \in AllIndices(order) : i # j => Image(rules, i) # Image(rules, j)
  BY <1>1, <1>4, RenamingSeparates
<1>6. PICK J : J = Images(rules, I)
  OBVIOUS
<1>7. t \in Seq(Tensors(J)) /\ Deltas(t)
  BY <1>2, <1>5, <1>6, ReplacedDeltas
<1>8. Recanonized(named, t).t \in Seq(Tensors(J)) /\ Deltas(Recanonized(named, t).t)
  BY <1>7, RecanonizedIs
<1>9. ASSUME IsValued(order)
      PROVE  IsValued(Recanonized(named, t).t)
  <2>1. PICK A : A = AllIndices(order)
    OBVIOUS
  <2>2. order \in Seq(Tensors(A)) /\ A \subseteq IndexSet
    BY <1>9, <2>1, IndicesWithin DEF IsValued, InSpaces
  <2>3. Renames(rules, A)
    <3>1. Renames(rules, AllIndices(s))
      BY <1>1, RenamingSeparates
    <3>. QED
      BY <1>4, <2>1, <3>1 DEF Renames
  <2>4. t \in Seq(Tensors(Images(rules, A))) /\ Deltas(t) /\ Carried(order, t, rules)
    <3>1. order \in Seq(Tensors(A))
      BY <2>2
    <3>2. PICK B : B = Images(rules, A)
      OBVIOUS
    <3>3. t \in Seq(Tensors(B)) /\ Deltas(t) /\ Carried(order, t, rules)
      BY <1>2, <1>5, <3>1, <3>2, ReplacedDeltas
    <3>. QED
      BY <3>2, <3>3
  <2>5. Images(rules, A) \subseteq IndexSet
    BY <2>2, <2>3 DEF Images, Renames
  <2>6. t \in Seq(Tensors(IndexSet))
    BY <2>4, <2>5, TensorsOf
  <2>7. HasValues(t)
    BY <1>9, <2>1, <2>3, <2>4, ValuesRenamed
  <2>8. /\ Recanonized(named, t).t \in Seq(Tensors(IndexSet))
        /\ Deltas(Recanonized(named, t).t) /\ Within(t, Recanonized(named, t).t)
    BY <2>4, <2>6, RecanonizedIs
  <2>9. HasValues(Recanonized(named, t).t)
    BY <2>7, <2>8, ValuesWithin
  <2>. QED
    BY <2>8, <2>9 DEF IsValued, InSpaces
<1>. QED
  BY <1>3, <1>8, <1>9 DEF IsTensors

\* What both approaches start from.
LEMMA TensorsSortedIs ==
  ASSUME NEW I, NEW s \in Seq(Tensors(I)), Deltas(s), NEW t, t = TensorsSorted(s)
  PROVE  /\ t \in Seq(Tensors(I)) /\ Deltas(t) /\ Named(t) \subseteq Named(s)
         /\ IsValued(s) => IsValued(t)
<1>. DEFINE less == {p \in ToSet(s) \X ToSet(s) : LexLess(TensorRank(p[1]), TensorRank(p[2]))}
<1>1. t = SortedIn(s, less)
  BY Zenon DEF TensorsSorted, SortedBy
<1>. HIDE DEF less
<1>2. t \in Seq(Tensors(I)) /\ Len(t) = Len(s) /\ \E p : Rearranged(s, t, p)
  BY <1>1, SortRearranges
<1>3. PICK p : Rearranged(s, t, p)
  BY <1>2
<1>4. Deltas(t)
  <2>1. DOMAIN t = 1..Len(s) /\ DOMAIN s = 1..Len(s)
    BY <1>2
  <2>2. \A k \in 1..Len(s) : t[k] = s[p[k]] /\ p[k] \in 1..Len(s)
    BY <1>3 DEF Rearranged, Bijection, Injection
  <2>. QED
    BY <2>1, <2>2 DEF Deltas
<1>5. ASSUME IsValued(s)
      PROVE  IsValued(t)
  <2>1. s \in Seq(Tensors(IndexSet)) /\ HasValues(s)
    BY <1>5 DEF IsValued, InSpaces
  <2>2. t \in Seq(Tensors(IndexSet))
    BY <1>1, <2>1, SortRearranges
  <2>3. \A k \in DOMAIN t : \E j \in DOMAIN s : t[k] = s[j]
    <3>1. DOMAIN t = 1..Len(s) /\ DOMAIN s = 1..Len(s)
      BY <1>2
    <3>. QED
      BY <1>3, <3>1 DEF Rearranged, Bijection, Injection
  <2>4. HasValues(t)
    BY <2>1, <2>3, ValuesWithin DEF Within
  <2>. QED
    BY <1>4, <2>2, <2>4 DEF IsValued, InSpaces
<1>. QED
  BY <1>2, <1>3, <1>4, <1>5, NamesRearranged

LEMMA FastFormIs ==
  ASSUME NEW I, NEW s \in Seq(Tensors(I)), Deltas(s), NEW shape \in FastForms(s)
  PROVE  /\ IsTensors(shape.t) /\ Deltas(shape.t)
         /\ IsValued(s) => IsValued(shape.t)
<1>1. PICK t : t = TensorsSorted(s)
  OBVIOUS
<1>2. PICK r \in FastRankings(t) : shape = Renamed(t, Named(s), r)
  BY <1>1 DEF FastForms
<1>3. r \in IndexRankings(t)
  BY <1>2, Zenon DEF FastRankings
<1>4. /\ t \in Seq(Tensors(I)) /\ Deltas(t) /\ Named(t) \subseteq Named(s)
      /\ IsValued(s) => IsValued(t)
  BY <1>1, TensorsSortedIs
<1>5. IsFiniteSet(Named(s))
  BY FiniteIndices
<1>. QED
  BY <1>2, <1>3, <1>4, <1>5, RenamedIs

\* The tensors of a label take each other's places.
LEMMA ReorderedIs ==
  ASSUME NEW I, NEW s \in Seq(Tensors(I)), Deltas(s),
         NEW q, IsRanking(q, s), NEW t, t = Reordered(s, q)
  PROVE  /\ t \in Seq(Tensors(I)) /\ Deltas(t) /\ ToSet(t) \subseteq ToSet(s)
         /\ IsValued(s) => IsValued(t)
<1>1. DOMAIN s = 1..Len(s) /\ Len(s) \in Nat /\ DOMAIN s \in SUBSET Int
  OBVIOUS
<1>2. IsFiniteSet(DOMAIN s)
  BY FiniteIndices
<1>. DEFINE Nth(k) == Cardinality({m \in Alike(s, k) : m <= k})
            At(k)  == CHOOSE m \in Alike(s, k) : q[m] = Nth(k)
<1>3. t = [k \in DOMAIN s |-> s[At(k)]]
  BY Zenon DEF Reordered, Alike
<1>4. ASSUME NEW k \in DOMAIN s
      PROVE  At(k) \in Alike(s, k)
  <2>1. PICK A : A = Alike(s, k)
    OBVIOUS
  <2>2. A \in SUBSET Int /\ IsFiniteSet(A) /\ k \in A
    <3>1. A \in SUBSET DOMAIN s /\ k \in A
      BY <2>1 DEF Alike
    <3>. QED
      BY <1>1, <1>2, <3>1, FS_Subset
  <2>3. Cardinality(UpTo(A, k)) \in 1..Cardinality(A)
    BY <2>2, PlacesInOrder
  <2>4. Nth(k) \in 1..Cardinality(Alike(s, k))
    BY <2>1, <2>3 DEF UpTo
  <2>. HIDE DEF Nth
  <2>5. \E m \in Alike(s, k) : q[m] = Nth(k)
    BY <1>2, <2>4, TensorRankingIs
  <2>. QED
    BY <2>5
<1>. HIDE DEF At
<1>5. \A k \in DOMAIN s : At(k) \in DOMAIN s /\ t[k] = s[At(k)]
  BY <1>3, <1>4 DEF Alike
<1>6. t \in Seq(Tensors(I)) /\ DOMAIN t = DOMAIN s
  BY <1>1, <1>3, <1>5
<1>7. Deltas(t)
  BY <1>5, <1>6 DEF Deltas
<1>8. ToSet(t) \subseteq ToSet(s)
  BY <1>5, <1>6 DEF ToSet
<1>9. ASSUME IsValued(s)
      PROVE  IsValued(t)
  <2>1. s \in Seq(Tensors(IndexSet)) /\ HasValues(s)
    BY <1>9 DEF IsValued, InSpaces
  <2>2. t \in Seq(Tensors(IndexSet))
    BY <1>1, <1>5, <1>6, <2>1
  <2>3. HasValues(t)
    BY <1>5, <1>6, <2>1, ValuesWithin DEF Within
  <2>. QED
    BY <1>7, <2>2, <2>3 DEF IsValued, InSpaces
<1>. QED
  BY <1>6, <1>7, <1>8, <1>9

LEMMA SlowFormIs ==
  ASSUME NEW I, NEW s \in Seq(Tensors(I)), Deltas(s), NEW shape \in SlowForms(s)
  PROVE  /\ IsTensors(shape.t) /\ Deltas(shape.t)
         /\ IsValued(s) => IsValued(shape.t)
<1>1. PICK t : t = TensorsSorted(s)
  OBVIOUS
<1>2. PICK l \in CanonicalLabellings(t) : shape = Renamed(Reordered(t, l[2]), Named(s), l[1])
  BY <1>1, Zenon DEF SlowForms
<1>3. l \in Labellings(t)
  <2>. DEFINE graph == [k \in Labellings(t) |-> Graph(t, k[1], k[2])]
  <2>1. l \in DOMAIN graph
    BY <1>2, Zenon DEF CanonicalLabellings
  <2>. QED
    BY <2>1
<1>4. l[1] \in IndexRankings(t) /\ IsRanking(l[2], t)
  BY <1>3 DEF Labellings, IsRanking
<1>5. /\ t \in Seq(Tensors(I)) /\ Deltas(t) /\ Named(t) \subseteq Named(s)
      /\ IsValued(s) => IsValued(t)
  BY <1>1, TensorsSortedIs
<1>6. PICK u : u = Reordered(t, l[2])
  OBVIOUS
<1>7. /\ u \in Seq(Tensors(I)) /\ Deltas(u) /\ ToSet(u) \subseteq ToSet(t)
      /\ IsValued(t) => IsValued(u)
  BY <1>4, <1>5, <1>6, ReorderedIs
<1>8. IsFiniteSet(Named(s))
  BY FiniteIndices
<1>. QED
  BY <1>2, <1>4, <1>5, <1>6, <1>7, <1>8, RenamedIs

-----------------------------------------------------------------------------
(***************************************************************************)
(* The replacement rules: an overlap with an internal index makes a rule   *)
(* or shows that the product is zero, and no rule is ever dropped.         *)
(***************************************************************************)
HasFields(st) == {"map", "made", "used", "zero"} \subseteq DOMAIN st

IsBusy(st) == st.zero = TRUE \/ DOMAIN st.map # {}

LEMMA PutIs ==
  ASSUME NEW st, HasFields(st), NEW src, NEW dst
  PROVE  HasFields(Put(st, src, dst)) /\ IsBusy(Put(st, src, dst))
<1>1. PICK m : m = [i \in DOMAIN st.map \cup {src} |-> IF i = src THEN dst ELSE st.map[i]]
  OBVIOUS
<1>2. src \in DOMAIN m
  BY <1>1
<1>3. Put(st, src, dst) = [st EXCEPT !.map = m]
  BY <1>1 DEF Put
<1>. QED
  BY <1>2, <1>3 DEF HasFields, IsBusy

LEMMA CountIs ==
  ASSUME NEW st, HasFields(st), NEW space
  PROVE  /\ HasFields(Count(st, space)) /\ Count(st, space).map = st.map
         /\ Count(st, space).zero = st.zero
BY DEF HasFields, Count

LEMMA IsZeroIs ==
  ASSUME NEW st, HasFields(st)
  PROVE  HasFields(IsZero(st)) /\ IsBusy(IsZero(st))
BY DEF HasFields, IsZero, IsBusy

LEMMA PutBothIs ==
  ASSUME NEW st, HasFields(st), NEW src1, NEW src2, NEW dst
  PROVE  HasFields(PutBoth(st, src1, src2, dst)) /\ IsBusy(PutBoth(st, src1, src2, dst))
BY PutIs DEF PutBoth

LEMMA NarrowIs ==
  ASSUME NEW st, HasFields(st), NEW src, HasRule(st, src), NEW dst
  PROVE  HasFields(Narrow(st, src, dst)) /\ IsBusy(Narrow(st, src, dst))
<1>1. PICK old, space : old = st.map[src].space /\ space = old \cap dst.space
  OBVIOUS
<1>2. CASE old = dst.space
  <2>1. Narrow(st, src, dst) = st
    BY <1>1, <1>2 DEF Narrow
  <2>. QED
    BY <2>1 DEF IsBusy, HasRule
<1>3. CASE old # dst.space /\ space = {}
  <2>1. Narrow(st, src, dst) = IsZero(st)
    BY <1>1, <1>3 DEF Narrow
  <2>. QED
    BY <2>1, IsZeroIs
<1>4. CASE old # dst.space /\ space # {}
  <2>1. PICK new, st1 : new = NextTmp(st, space) /\ st1 = Count(st, space)
    OBVIOUS
  <2>2. Narrow(st, src, dst) = Put(st1, src, new)
    BY <1>1, <1>4, <2>1 DEF Narrow
  <2>. QED
    BY <2>1, <2>2, CountIs, PutIs
<1>. QED
  BY <1>2, <1>3, <1>4

LEMMA AddRuleIs ==
  ASSUME NEW st, HasFields(st), NEW src, NEW dst
  PROVE  HasFields(AddRule(st, src, dst)) /\ IsBusy(AddRule(st, src, dst))
BY NarrowIs, PutIs DEF AddRule

LEMMA FollowIs ==
  ASSUME NEW st, HasFields(st), IsBusy(st), NEW src1, NEW src2
  PROVE  HasFields(Follow(st, src1, src2)) /\ IsBusy(Follow(st, src1, src2))
<1>1. CASE st.zero
  BY <1>1 DEF Follow
<1>2. CASE ~st.zero
  <2>1. Follow(st, src1, src2) = Put(st, src2, st.map[src1])
    BY <1>2 DEF Follow
  <2>. QED
    BY <2>1, PutIs
<1>. QED
  BY <1>1, <1>2

LEMMA UniteIs ==
  ASSUME NEW st, HasFields(st), NEW src1, NEW src2, NEW dst
  PROVE  HasFields(Unite(st, src1, src2, dst)) /\ IsBusy(Unite(st, src1, src2, dst))
<1>1. PICK space, fit :
        /\ space = st.map[src1].space \cap st.map[src2].space \cap dst.space
        /\ fit = {i \in {st.map[src1], st.map[src2], dst} : i.space = space}
  OBVIOUS
<1>2. CASE space = {}
  <2>1. Unite(st, src1, src2, dst) = IsZero(st)
    BY <1>1, <1>2 DEF Unite
  <2>. QED
    BY <2>1, IsZeroIs
<1>3. CASE space # {} /\ fit # {}
  <2>1. PICK x : x = CHOOSE i \in fit : \A j \in fit \ {i} : IndexLess(i, j)
    OBVIOUS
  <2>2. Unite(st, src1, src2, dst) = PutBoth(st, src1, src2, x)
    BY <1>1, <1>3, <2>1 DEF Unite
  <2>. QED
    BY <2>2, PutBothIs
<1>4. CASE space # {} /\ fit = {}
  <2>1. PICK new, st1 : new = NextTmp(st, space) /\ st1 = Count(st, space)
    OBVIOUS
  <2>2. Unite(st, src1, src2, dst) = PutBoth(st1, src1, src2, new)
    BY <1>1, <1>4, <2>1 DEF Unite
  <2>. QED
    BY <2>1, <2>2, CountIs, PutBothIs
<1>. QED
  BY <1>2, <1>3, <1>4

LEMMA AddRulesIs ==
  ASSUME NEW st, HasFields(st), NEW src1, NEW src2, NEW dst
  PROVE  HasFields(AddRules(st, src1, src2, dst)) /\ IsBusy(AddRules(st, src1, src2, dst))
<1>1. CASE HasRule(st, src1) /\ HasRule(st, src2)
  BY <1>1, UniteIs DEF AddRules
<1>2. CASE HasRule(st, src1) /\ ~HasRule(st, src2)
  <2>1. AddRules(st, src1, src2, dst) = Follow(Narrow(st, src1, dst), src1, src2)
    BY <1>2 DEF AddRules
  <2>. QED
    BY <1>2, <2>1, NarrowIs, FollowIs
<1>3. CASE ~HasRule(st, src1) /\ HasRule(st, src2)
  <2>1. AddRules(st, src1, src2, dst) = Follow(Narrow(st, src2, dst), src2, src1)
    BY <1>3 DEF AddRules
  <2>. QED
    BY <1>3, <2>1, NarrowIs, FollowIs
<1>4. CASE ~HasRule(st, src1) /\ ~HasRule(st, src2)
  BY <1>4, PutBothIs DEF AddRules
<1>. QED
  BY <1>1, <1>2, <1>3, <1>4

LEMMA AddOverlapIs ==
  ASSUME NEW st, HasFields(st), NEW t, NEW ext, NEW st1, st1 = AddOverlap(st, t, ext)
  PROVE  /\ HasFields(st1) /\ (IsBusy(st) => IsBusy(st1))
         /\ ~IsBusy(st1) => st1.map = st.map /\ BraIndex(t) \in ext /\ KetIndex(t) \in ext
<1>1. PICK bra, ket, common :
        bra = BraIndex(t) /\ ket = KetIndex(t) /\ common = bra.space \cap ket.space
  OBVIOUS
<1>2. PICK new, st2 : new = NextTmp(st, common) /\ st2 = Count(st, common)
  OBVIOUS
<1>3. HasFields(st2)
  BY <1>2, CountIs
<1>4. \A e, i : HasFields(Bind(st, e, i, common)) /\ IsBusy(Bind(st, e, i, common))
  <2>1. ASSUME NEW e, NEW i
        PROVE  HasFields(Bind(st, e, i, common)) /\ IsBusy(Bind(st, e, i, common))
    <3>1. Bind(st, e, i, common) = AddRule(st, i, e) \/ Bind(st, e, i, common) = AddRule(st2, i, new)
      BY <1>2 DEF Bind
    <3>. QED
      BY <1>3, <3>1, AddRuleIs
  <2>. QED
    BY <2>1
<1>5. CASE st.zero
  <2>1. st1 = st
    BY <1>5 DEF AddOverlap
  <2>. QED
    BY <1>5, <2>1 DEF IsBusy
<1>6. CASE ~st.zero /\ bra \notin ext /\ ket \notin ext
  <2>1. st1 = AddRules(st2, bra, ket, new)
    BY <1>1, <1>2, <1>6 DEF AddOverlap
  <2>. QED
    BY <1>3, <2>1, AddRulesIs
<1>7. CASE ~st.zero /\ bra \in ext /\ ket \notin ext
  <2>1. st1 = Bind(st, bra, ket, common)
    BY <1>1, <1>7 DEF AddOverlap
  <2>. QED
    BY <1>4, <2>1
<1>8. CASE ~st.zero /\ bra \notin ext /\ ket \in ext
  <2>1. st1 = Bind(st, ket, bra, common)
    BY <1>1, <1>8 DEF AddOverlap
  <2>. QED
    BY <1>4, <2>1
<1>9. CASE ~st.zero /\ bra \in ext /\ ket \in ext
  <2>1. st1 = st
    BY <1>1, <1>9 DEF AddOverlap
  <2>. QED
    BY <1>1, <1>9, <2>1
<1>. QED
  BY <1>5, <1>6, <1>7, <1>8, <1>9

RuleAt(u, o, used, ext, k) == IF k = 0 THEN NoRules(used) ELSE AddOverlap(u[k - 1], o[k], ext)

IsRules(u, o, used, ext) == u = [k \in 0..Len(o) |-> RuleAt(u, o, used, ext, k)]

LEMMA RulesExist ==
  ASSUME NEW o, Len(o) \in Nat, NEW used, NEW ext
  PROVE  \E u : IsRules(u, o, used, ext)
<1>. DEFINE IsTo(u, m) == \A k \in 0..m : u[k] = RuleAt(u, o, used, ext, k)
            Step(u) == [k \in 0..Len(o) |-> RuleAt(u, o, used, ext, k)]
            R == {m \in 0..Len(o) : \E u : IsTo(u, m)}
<1>0. Len(o) \in Nat
  OBVIOUS
<1>1. \A u : \A k \in 0..Len(o) : Step(u)[k] = RuleAt(u, o, used, ext, k)
  OBVIOUS
<1>2. \A u, v : \A k \in 0..Len(o) :
        (k # 0 => u[k - 1] = v[k - 1]) => RuleAt(u, o, used, ext, k) = RuleAt(v, o, used, ext, k)
  BY DEF RuleAt
<1>. HIDE DEF Step
<1>3. 0 \in R
  <2>1. PICK u : u = Step(<<>>)
    OBVIOUS
  <2>2. u[0] = RuleAt(u, o, used, ext, 0)
    BY <1>0, <1>1, <1>2, <2>1
  <2>. QED
    BY <1>0, <2>2
<1>4. ASSUME NEW m \in 0..(Len(o) - 1), m \in R
      PROVE  m + 1 \in R
  <2>1. PICK u : IsTo(u, m)
    BY <1>4
  <2>2. PICK v : v = Step(u)
    OBVIOUS
  <2>3. \A k \in 0..m : v[k] = u[k]
    BY <1>0, <1>1, <2>1, <2>2
  <2>4. ASSUME NEW k \in 0..(m + 1)
        PROVE  v[k] = RuleAt(v, o, used, ext, k)
    <3>1. k \in 0..Len(o) /\ (k # 0 => k - 1 \in 0..m)
      BY <1>0
    <3>2. k # 0 => u[k - 1] = v[k - 1]
      BY <2>3, <3>1
    <3>3. v[k] = RuleAt(u, o, used, ext, k)
      BY <1>1, <2>2, <3>1
    <3>. QED
      BY <1>2, <3>1, <3>2, <3>3
  <2>. QED
    BY <1>0, <2>4
<1>5. Len(o) \in R
  <2>. HIDE DEF R
  <2>1. \A m \in 0..Len(o) : m \in R
    BY <1>0, <1>3, <1>4, IntervalInduction
  <2>. QED
    BY <1>0, <2>1
<1>6. PICK u : IsTo(u, Len(o))
  BY <1>5
<1>7. PICK v : v = Step(u)
  OBVIOUS
<1>8. \A k \in 0..Len(o) : v[k] = u[k]
  BY <1>1, <1>6, <1>7
<1>9. ASSUME NEW k \in 0..Len(o)
      PROVE  v[k] = RuleAt(v, o, used, ext, k)
  <2>1. k # 0 => u[k - 1] = v[k - 1]
    BY <1>0, <1>8
  <2>. QED
    BY <1>1, <1>2, <1>7, <2>1
<1>10. v = [k \in 0..Len(o) |-> v[k]]
  BY <1>7 DEF Step
<1>11. v = [k \in 0..Len(o) |-> RuleAt(v, o, used, ext, k)]
  BY <1>9, <1>10
<1>. QED
  BY <1>11 DEF IsRules

LEMMA ComputeRulesIs ==
  ASSUME NEW s, NEW o, o = Overlaps(s), Len(o) \in Nat, NEW ext
  PROVE  \E u : IsRules(u, o, AllIndices(s), ext) /\ ComputeRules(s, ext) = u[Len(o)]
<1>. DEFINE rules[k \in 0..Len(o)] ==
              IF k = 0 THEN NoRules(AllIndices(s))
              ELSE AddOverlap(rules[k - 1], o[k], ext)
<1>1. ComputeRules(s, ext) = rules[Len(o)]
  BY Zenon DEF ComputeRules
<1>2. IsRules(rules, o, AllIndices(s), ext)
  <2>. DEFINE IsFrom(u) ==
         u = [k \in 0..Len(o) |-> IF k = 0 THEN NoRules(AllIndices(s))
                                  ELSE AddOverlap(u[k - 1], o[k], ext)]
  <2>1. \A u : IsRules(u, o, AllIndices(s), ext) <=> IsFrom(u)
    BY Zenon DEF IsRules, RuleAt
  <2>2. \E u : IsFrom(u)
    <3>. HIDE DEF IsFrom
    <3>. QED
      BY <2>1, RulesExist
  <2>3. IsFrom(rules)
    BY <2>2, SMTT(30)
  <2>4. PICK v : v = rules
    OBVIOUS
  <2>. HIDE DEF rules
  <2>5. IsFrom(v)
    BY <2>3, <2>4
  <2>6. IsRules(v, o, AllIndices(s), ext)
    <3>. HIDE DEF IsFrom
    <3>. QED
      BY <2>1, <2>5
  <2>. QED
    BY <2>4, <2>6
<1>. HIDE DEF rules
<1>. QED
  BY <1>1, <1>2

\* If there is no rule, all overlaps bind external indices.
LEMMA NoRuleNeeded ==
  ASSUME NEW I, NEW s \in Seq(Tensors(I)), NEW ext, NEW rules, rules = ComputeRules(s, ext),
         rules.zero # TRUE, DOMAIN rules.map = {}
  PROVE  \A t \in ToSet(Overlaps(s)) : BraIndex(t) \in ext /\ KetIndex(t) \in ext
<1>1. PICK o, N : o = Overlaps(s) /\ N = Len(o) /\ N \in Nat /\ DOMAIN o = 1..N
  BY OverlapsAre
<1>2. PICK u : IsRules(u, o, AllIndices(s), ext) /\ rules = u[N]
  BY <1>1, ComputeRulesIs
<1>3. /\ u[0] = NoRules(AllIndices(s))
      /\ \A k \in 0..(N - 1) : u[k + 1] = AddOverlap(u[k], o[k + 1], ext)
  <2>1. \A k \in 0..N : u[k] = RuleAt(u, o, AllIndices(s), ext, k)
    BY <1>1, <1>2 DEF IsRules
  <2>2. \A k \in 0..(N - 1) : k + 1 \in 0..N /\ k + 1 # 0 /\ (k + 1) - 1 = k
    BY <1>1
  <2>. QED
    BY <1>1, <2>1, <2>2 DEF RuleAt
<1>4. ASSUME NEW k \in 0..(N - 1), HasFields(u[k])
      PROVE  /\ HasFields(u[k + 1]) /\ (IsBusy(u[k]) => IsBusy(u[k + 1]))
             /\ ~IsBusy(u[k + 1]) => BraIndex(o[k + 1]) \in ext /\ KetIndex(o[k + 1]) \in ext
  <2>1. PICK st, st1, t : st = u[k] /\ st1 = u[k + 1] /\ t = o[k + 1]
    OBVIOUS
  <2>2. HasFields(st) /\ st1 = AddOverlap(st, t, ext)
    BY <1>3, <1>4, <2>1
  <2>3. /\ HasFields(st1) /\ (IsBusy(st) => IsBusy(st1))
        /\ ~IsBusy(st1) => BraIndex(t) \in ext /\ KetIndex(t) \in ext
    BY <2>2, AddOverlapIs
  <2>. QED
    BY <2>1, <2>3
<1>. DEFINE R == {k \in 0..N : /\ HasFields(u[k])
                               /\ ~IsBusy(u[k]) => \A j \in 1..k : /\ BraIndex(o[j]) \in ext
                                                                   /\ KetIndex(o[j]) \in ext}
<1>5. 0 \in R
  BY <1>1, <1>3 DEF HasFields, NoRules
<1>6. ASSUME NEW k \in 0..(N - 1), k \in R
      PROVE  k + 1 \in R
  <2>1. k + 1 \in 0..N /\ \A j \in 1..(k + 1) : j \in 1..k \/ j = k + 1
    BY <1>1
  <2>. QED
    BY <1>4, <1>6, <2>1
<1>7. N \in R
  <2>. HIDE DEF R
  <2>1. \A k \in 0..N : k \in R
    BY <1>1, <1>5, <1>6, IntervalInduction
  <2>. QED
    BY <1>1, <2>1
<1>8. ~IsBusy(u[N])
  BY <1>2 DEF IsBusy
<1>. QED
  BY <1>1, <1>7, <1>8 DEF ToSet

-----------------------------------------------------------------------------
(***************************************************************************)
(* The replacement rules.  A rule is for an internal index of the product, *)
(* and maps it to an external index it is joined with or to a new index,   *)
(* in a space within its own that has all its joined indices share; only   *)
(* joined indices are mapped to the same.  That the product is zero is     *)
(* said only if joined indices share nothing.                              *)
(***************************************************************************)
Issued(st, x) ==
  \E space \in Spaces : \E n \in 1..st.made[space] :
    x = NthIndex(st.used, MinTmpIndex, space, n)

IsImage(st, s, ext, i, x) ==
  /\ x \in IndexSet /\ x.space \subseteq i.space
  /\ SharedIn(s, i, x.space)
  /\ (x \in ext \cap AllIndices(s) /\ Joined(s, i, x)) \/ Issued(st, x)

IsFresh(st, x) == \A i \in DOMAIN st.map : st.map[i] # x

OnlyJoined(st, s, i, x) == \A j \in DOMAIN st.map : st.map[j] = x => Joined(s, j, i)

NothingShared(s) ==
  \E i \in AllIndices(s) : \A b \in {"occ", "unocc"} : ~Shares(s, i, b)

Sound(st, s, ext) ==
  /\ HasFields(st) /\ st.zero \in BOOLEAN
  /\ st.made \in [Spaces -> Nat] /\ st.used = AllIndices(s)
  /\ st.zero = TRUE => NothingShared(s)
  /\ \A i \in DOMAIN st.map : /\ i \in AllIndices(s) /\ i \notin ext
                              /\ IsImage(st, s, ext, i, st.map[i])
  /\ \A i, j \in DOMAIN st.map : st.map[i] = st.map[j] => Joined(s, i, j)

\* no rule is dropped, and images only become narrower
Grows(st, st1) ==
  /\ st1.zero = FALSE => st.zero = FALSE
  /\ \A i \in DOMAIN st.map : i \in DOMAIN st1.map /\ st1.map[i].space \subseteq st.map[i].space

Placed(st, i, space) == i \in DOMAIN st.map /\ st.map[i].space \subseteq space

SameRules(st, st1) == DOMAIN st1.map = DOMAIN st.map

AddedRule(st, src, st1) == DOMAIN st1.map = DOMAIN st.map \cup {src}

LEMMA PutRule ==
  ASSUME NEW st, HasFields(st), NEW src, NEW dst, NEW st1, st1 = Put(st, src, dst)
  PROVE  /\ HasFields(st1)
         /\ st1.made = st.made /\ st1.used = st.used /\ st1.zero = st.zero
         /\ DOMAIN st1.map = DOMAIN st.map \cup {src}
         /\ st1.map[src] = dst
         /\ \A i \in DOMAIN st.map : i # src => st1.map[i] = st.map[i]
<1>1. PICK m : m = [i \in DOMAIN st.map \cup {src} |-> IF i = src THEN dst ELSE st.map[i]]
  OBVIOUS
<1>2. /\ DOMAIN m = DOMAIN st.map \cup {src} /\ m[src] = dst
      /\ \A i \in DOMAIN st.map : i # src => m[i] = st.map[i]
  BY <1>1
<1>3. st1 = [st EXCEPT !.map = m]
  BY <1>1 DEF Put
<1>4. /\ HasFields(st1) /\ st1.map = m
      /\ st1.made = st.made /\ st1.used = st.used /\ st1.zero = st.zero
  BY <1>3 DEF HasFields
<1>. QED
  BY <1>2, <1>4

LEMMA IsZeroSound ==
  ASSUME NEW st, NEW s, NEW ext, Sound(st, s, ext), NothingShared(s)
  PROVE  /\ Sound(IsZero(st), s, ext) /\ Grows(st, IsZero(st)) /\ IsZero(st).zero = TRUE
         /\ IsZero(st).map = st.map /\ IsZero(st).made = st.made /\ IsZero(st).used = st.used
<1>1. PICK st1 : st1 = IsZero(st)
  OBVIOUS
<1>2. /\ HasFields(st1) /\ st1.zero = TRUE
      /\ st1.map = st.map /\ st1.made = st.made /\ st1.used = st.used
  BY <1>1 DEF IsZero, Sound, HasFields
<1>2a. \A i, x : IsImage(st, s, ext, i, x) => IsImage(st1, s, ext, i, x)
  BY <1>2 DEF IsImage, Issued
<1>3. Sound(st1, s, ext)
  BY <1>2, <1>2a DEF Sound
<1>4. Grows(st, st1)
  BY <1>2 DEF Grows
<1>. QED
  BY <1>1, <1>2, <1>3, <1>4

\* The index that idxfac.make gives is in its space, is none of the product and
\* no image of a rule.
LEMMA NextTmpIs ==
  ASSUME NEW s, InSpaces(s), NEW ext, NEW st, Sound(st, s, ext), NEW space \in Spaces,
         NEW new, new = NextTmp(st, space), NEW st1, st1 = Count(st, space)
  PROVE  /\ Sound(st1, s, ext) /\ Grows(st, st1)
         /\ st1.map = st.map /\ st1.zero = st.zero
         /\ \A x : Issued(st, x) => Issued(st1, x)
         /\ Issued(st1, new) /\ new \in IndexSet /\ new.space = space /\ new \notin AllIndices(s)
         /\ IsFresh(st, new)
<1>1. PICK A : A = AllIndices(s)
  OBVIOUS
<1>2. IsFiniteSet(A) /\ MinTmpIndex \in Nat
  BY <1>1, FiniteIndices DEF InSpaces, MinTmpIndex
<1>3. PICK k : k = st.made[space] + 1
  OBVIOUS
<1>4. k \in Nat /\ k # 0 /\ \A sp \in Spaces : st.made[sp] \in Nat
  BY <1>3 DEF Sound
<1>5. new = NthIndex(A, MinTmpIndex, space, k)
  BY <1>1, <1>3 DEF NextTmp, Sound
<1>6. /\ st1.map = st.map /\ st1.zero = st.zero /\ st1.used = st.used /\ HasFields(st1)
      /\ st1.made = [st.made EXCEPT ![space] = @ + 1]
  BY DEF Count, Sound, HasFields
<1>7. /\ st1.made \in [Spaces -> Nat] /\ st1.made[space] = k
      /\ \A sp \in Spaces : st1.made[sp] \in Nat /\ st.made[sp] <= st1.made[sp]
  BY <1>3, <1>6 DEF Sound
<1>8. \A x : Issued(st, x) => Issued(st1, x)
  <2>1. ASSUME NEW x, Issued(st, x)
        PROVE  Issued(st1, x)
    <3>1. PICK sp \in Spaces : \E n \in 1..st.made[sp] : x = NthIndex(st.used, MinTmpIndex, sp, n)
      BY <2>1 DEF Issued
    <3>1a. PICK n \in 1..st.made[sp] : x = NthIndex(st.used, MinTmpIndex, sp, n)
      BY <3>1
    <3>2. n \in 1..st1.made[sp]
      BY <1>4, <1>7
    <3>. QED
      BY <1>6, <3>1a, <3>2 DEF Issued
  <2>. QED
    BY <2>1
<1>9. Issued(st1, new)
  <2>1. k \in 1..st1.made[space]
    BY <1>4, <1>7
  <2>2. st1.used = A
    BY <1>1, <1>6 DEF Sound
  <2>. QED
    BY <1>5, <2>1, <2>2 DEF Issued
<1>10. PICK n \in Nat : new = Index(space, n) /\ Index(space, n) \notin A
  BY <1>2, <1>4, <1>5, NthIndexIs
<1>11. new \in IndexSet /\ new.space = space /\ new \notin A
  BY <1>10 DEF Index, IndexSet
<1>12. ASSUME NEW i \in DOMAIN st.map, st.map[i] = new
       PROVE  FALSE
  <2>1. Issued(st, new)
    BY <1>1, <1>11, <1>12 DEF Sound, IsImage
  <2>2a. PICK sp \in Spaces : \E m \in 1..st.made[sp] : new = NthIndex(st.used, MinTmpIndex, sp, m)
    BY <2>1 DEF Issued
  <2>2. PICK m \in 1..st.made[sp] : new = NthIndex(st.used, MinTmpIndex, sp, m)
    BY <2>2a
  <2>3. m \in Nat \ {0} /\ NthIndex(A, MinTmpIndex, space, k) = NthIndex(A, MinTmpIndex, sp, m)
    BY <1>1, <1>4, <1>5, <2>2 DEF Sound
  <2>4. space = sp /\ k = m
    BY <1>2, <1>4, <2>3, NewIndicesDiffer
  <2>. QED
    BY <1>3, <1>4, <2>2, <2>4
<1>13. Sound(st1, s, ext)
  BY <1>6, <1>7, <1>8 DEF Sound, IsImage
<1>14. Grows(st, st1)
  BY <1>6 DEF Grows
<1>. QED
  BY <1>1, <1>6, <1>8, <1>9, <1>11, <1>12, <1>13, <1>14 DEF IsFresh

LEMMA OnlyJoinedOn ==
  ASSUME NEW s, InSpaces(s), Asserted(s), NEW st, NEW i, NEW j, Joined(s, i, j), NEW x,
         OnlyJoined(st, s, i, x)
  PROVE  OnlyJoined(st, s, j, x)
BY JoinedIs DEF OnlyJoined

LEMMA PutSound ==
  ASSUME NEW s, InSpaces(s), Asserted(s), NEW ext, NEW st, Sound(st, s, ext),
         NEW src \in AllIndices(s), src \notin ext, NEW dst, IsImage(st, s, ext, src, dst),
         OnlyJoined(st, s, src, dst),
         src \in DOMAIN st.map => dst.space \subseteq st.map[src].space,
         NEW st1, st1 = Put(st, src, dst)
  PROVE  /\ Sound(st1, s, ext) /\ Grows(st, st1)
         /\ st1.made = st.made /\ st1.used = st.used /\ st1.zero = st.zero
         /\ AddedRule(st, src, st1)
         /\ st1.map[src] = dst
         /\ \A i \in DOMAIN st.map : i # src => st1.map[i] = st.map[i]
<1>1. /\ HasFields(st1)
      /\ st1.made = st.made /\ st1.used = st.used /\ st1.zero = st.zero
      /\ AddedRule(st, src, st1)
      /\ st1.map[src] = dst
      /\ \A i \in DOMAIN st.map : i # src => st1.map[i] = st.map[i]
  BY PutRule DEF Sound, AddedRule
<1>2. \A i, x : IsImage(st, s, ext, i, x) => IsImage(st1, s, ext, i, x)
  BY <1>1 DEF IsImage, Issued
<1>3. \A i \in DOMAIN st1.map : /\ i \in AllIndices(s) /\ i \notin ext
                                /\ IsImage(st1, s, ext, i, st1.map[i])
  BY <1>1, <1>2 DEF Sound, AddedRule
<1>4. ASSUME NEW i \in DOMAIN st1.map, NEW j \in DOMAIN st1.map, st1.map[i] = st1.map[j]
      PROVE  Joined(s, i, j)
  <2>1. i \in AllIndices(s) /\ j \in AllIndices(s)
    BY <1>3
  <2>2. CASE i = j
    BY <2>2, JoinedIs
  <2>3. CASE i # src /\ j # src
    BY <1>1, <1>4, <2>3 DEF Sound, AddedRule
  <2>4. CASE i # src /\ j = src
    BY <1>1, <1>4, <2>4 DEF OnlyJoined, AddedRule
  <2>5. CASE i = src /\ j # src
    <3>1. Joined(s, j, i)
      BY <1>1, <1>4, <2>5 DEF OnlyJoined, AddedRule
    <3>. QED
      BY <2>1, <3>1, JoinedIs
  <2>. QED
    BY <2>2, <2>3, <2>4, <2>5
<1>5. Sound(st1, s, ext)
  BY <1>1, <1>3, <1>4 DEF Sound
<1>6. Grows(st, st1)
  BY <1>1 DEF Grows, AddedRule
<1>. QED
  BY <1>1, <1>5, <1>6

LEMMA GrowsOn ==
  ASSUME NEW st1, NEW st2, NEW st3, Grows(st1, st2), Grows(st2, st3)
  PROVE  Grows(st1, st3)
BY DEF Grows

\* An index in a space all joined ones share, and in no rule, is put in a rule.
LEMMA PutNew ==
  ASSUME NEW s, InSpaces(s), Asserted(s), NEW ext, NEW st, Sound(st, s, ext),
         NEW src \in AllIndices(s), src \notin ext, NEW space \in Spaces,
         src \in DOMAIN st.map => space \subseteq st.map[src].space,
         space \subseteq src.space, SharedIn(s, src, space),
         NEW st1, st1 = Put(Count(st, space), src, NextTmp(st, space))
  PROVE  /\ Sound(st1, s, ext) /\ Grows(st, st1)
         /\ st1.zero = st.zero /\ AddedRule(st, src, st1)
         /\ st1.map[src].space = space
<1>1. PICK st2, new : st2 = Count(st, space) /\ new = NextTmp(st, space)
  OBVIOUS
<1>2. /\ Sound(st2, s, ext) /\ Grows(st, st2)
      /\ st2.map = st.map /\ st2.zero = st.zero
      /\ Issued(st2, new) /\ new \in IndexSet /\ new.space = space
      /\ IsFresh(st, new)
  BY <1>1, NextTmpIs
<1>3. IsImage(st2, s, ext, src, new)
  BY <1>2 DEF IsImage
<1>4. st1 = Put(st2, src, new) /\ OnlyJoined(st2, s, src, new)
  BY <1>1, <1>2 DEF OnlyJoined, IsFresh
<1>4a. src \in DOMAIN st2.map => new.space \subseteq st2.map[src].space
  BY <1>2
<1>5. /\ Sound(st1, s, ext) /\ Grows(st2, st1) /\ st1.zero = st2.zero
      /\ AddedRule(st2, src, st1) /\ st1.map[src] = new
  BY <1>2, <1>3, <1>4, <1>4a, PutSound
<1>. QED
  BY <1>2, <1>5, GrowsOn DEF AddedRule

\* What the rule for an index is narrowed by is shared by all it is joined with.
LEMMA NarrowSound ==
  ASSUME NEW s, InSpaces(s), Asserted(s), NEW ext, NEW st, Sound(st, s, ext),
         NEW src \in DOMAIN st.map, NEW dst, SharedIn(s, src, dst.space),
         NEW st1, st1 = Narrow(st, src, dst)
  PROVE  /\ Sound(st1, s, ext) /\ Grows(st, st1) /\ SameRules(st, st1)
         /\ st1.zero = FALSE => st1.map[src].space \subseteq dst.space
<1>1. PICK old, space : old = st.map[src].space /\ space = old \cap dst.space
  OBVIOUS
<1>2. /\ src \in AllIndices(s) /\ src \notin ext
      /\ old \in Spaces /\ old \subseteq src.space /\ SharedIn(s, src, old)
  BY <1>1 DEF Sound, IsImage, IndexSet
<1>3. CASE old = dst.space
  <2>1. st1 = st
    BY <1>1, <1>3 DEF Narrow
  <2>. QED
    BY <1>1, <1>3, <2>1 DEF Grows, SameRules
<1>4. CASE old # dst.space /\ space = {}
  <2>1. st1 = IsZero(st)
    BY <1>1, <1>4 DEF Narrow
  <2>2. NothingShared(s)
    BY <1>1, <1>2, <1>4, SharedOn DEF NothingShared
  <2>. QED
    BY <2>1, <2>2, IsZeroSound DEF SameRules
<1>5. CASE old # dst.space /\ space # {}
  <2>1. st1 = Put(Count(st, space), src, NextTmp(st, space))
    BY <1>1, <1>5 DEF Narrow
  <2>2. space \in Spaces /\ space \subseteq old /\ space \subseteq src.space
    BY <1>1, <1>2, <1>5 DEF Spaces
  <2>3. SharedIn(s, src, space)
    BY <1>1, <1>2, SharedOn
  <2>3a. space \subseteq st.map[src].space /\ src \in AllIndices(s) /\ src \notin ext
    BY <1>1, <1>2, <2>2
  <2>4. /\ Sound(st1, s, ext) /\ Grows(st, st1)
        /\ AddedRule(st, src, st1) /\ st1.map[src].space = space
    BY <2>1, <2>2, <2>3, <2>3a, PutNew
  <2>. QED
    BY <1>1, <2>4 DEF SameRules, AddedRule
<1>. QED
  BY <1>3, <1>4, <1>5

\* An index that is in no rule yet follows one that it is joined with.
LEMMA FollowSound ==
  ASSUME NEW s, InSpaces(s), Asserted(s), NEW ext, NEW st, Sound(st, s, ext),
         NEW src1 \in DOMAIN st.map, NEW src2 \in AllIndices(s), src2 \notin ext,
         src2 \notin DOMAIN st.map, Joined(s, src1, src2),
         st.zero = FALSE => st.map[src1].space \subseteq src2.space,
         NEW st1, st1 = Follow(st, src1, src2)
  PROVE  /\ Sound(st1, s, ext) /\ Grows(st, st1)
         /\ st1.zero = FALSE => /\ src2 \in DOMAIN st1.map
                                /\ st1.map[src2].space \subseteq st.map[src1].space
<1>1. st.zero \in BOOLEAN
  BY DEF Sound
<1>2. CASE st.zero = TRUE
  <2>1. st1 = st
    BY <1>2 DEF Follow
  <2>. QED
    BY <1>2, <2>1 DEF Grows
<1>3. CASE st.zero = FALSE
  <2>1. PICK x : x = st.map[src1]
    OBVIOUS
  <2>2. st1 = Put(st, src2, x)
    BY <1>3, <2>1 DEF Follow
  <2>3. /\ src1 \in AllIndices(s) /\ IsImage(st, s, ext, src1, x)
        /\ OnlyJoined(st, s, src1, x)
    BY <2>1 DEF Sound, OnlyJoined
  <2>4. Joined(s, src2, src1)
    BY <2>3, JoinedIs
  <2>5. IsImage(st, s, ext, src2, x)
    <3>1. SharedIn(s, src2, x.space)
      BY <2>3, <2>4, SharedOn DEF IsImage
    <3>2. Joined(s, src1, x) => Joined(s, src2, x)
      BY <2>4, JoinedIs
    <3>. QED
      BY <1>3, <2>1, <2>3, <3>1, <3>2 DEF IsImage
  <2>6. OnlyJoined(st, s, src2, x)
    BY <2>3, OnlyJoinedOn
  <2>7. /\ Sound(st1, s, ext) /\ Grows(st, st1)
        /\ AddedRule(st, src2, st1) /\ st1.map[src2] = x
    BY <2>2, <2>5, <2>6, PutSound
  <2>. QED
    BY <2>1, <2>7 DEF AddedRule
<1>. QED
  BY <1>1, <1>2, <1>3

\* Of indices in one space one is the first.
LEMMA LessIs ==
  ASSUME NEW i \in IndexSet, NEW j \in IndexSet, i.space = j.space
  PROVE  /\ LabelRank(i.n) \in Int /\ (LabelRank(i.n) = LabelRank(j.n) => i = j)
         /\ LabelRank(i.n) < LabelRank(j.n) => IndexLess(i, j)
<1>1. PICK m, n, r : m = LabelRank(i.n) /\ n = LabelRank(j.n) /\ r = SpaceRank(i.space)
  OBVIOUS
<1>2. \A a \in Nat : LabelRank(a) = IF a < 10 THEN 1000 * a + 1
                                   ELSE IF a < 100 THEN 100 * a + 2 ELSE 10 * a + 3
  BY DEF LabelRank
<1>3. i.n \in Nat /\ j.n \in Nat
  BY DEF IndexSet
<1>4. m \in Int /\ n \in Int /\ (m = n => i.n = j.n)
  <2>1. \A a \in Nat : LabelRank(a) \in Nat
    BY <1>2
  <2>2. \A a, b \in Nat : a < 10 /\ b < 10 /\ LabelRank(a) = LabelRank(b) => a = b
    BY <1>2
  <2>. QED
    BY <1>1, <1>2, <1>3, <2>1
<1>5. i.n = j.n => i = j
  BY DEF IndexSet
<1>6. Rank(i) = <<r, m>> /\ Rank(j) = <<r, n>>
  BY <1>1 DEF Rank
<1>7. ASSUME NEW a, NEW x \in Int, NEW y \in Int, x < y
      PROVE  LexLess(<<a, x>>, <<a, y>>)
  <2>1. Min({2, 2}) = 2
    BY DEF Min
  <2>2. Len(<<a, x>>) = 2 /\ Len(<<a, y>>) = 2
    OBVIOUS
  <2>3. \A k \in 1..(2 - 1) : <<a, x>>[k] = <<a, y>>[k]
    OBVIOUS
  <2>4. 2 \in 1..2 /\ <<a, x>>[2] < <<a, y>>[2]
    BY <1>7
  <2>. QED
    BY <2>1, <2>2, <2>3, <2>4 DEF LexLess
<1>. QED
  BY <1>1, <1>4, <1>5, <1>6, <1>7 DEF IndexLess

LEMMA UniteSound ==
  ASSUME NEW s, InSpaces(s), Asserted(s), NEW ext, NEW st, Sound(st, s, ext),
         NEW src1 \in DOMAIN st.map, NEW src2 \in DOMAIN st.map, Joined(s, src1, src2),
         NEW dst \in IndexSet, Issued(st, dst), IsFresh(st, dst),
         SharedIn(s, src1, dst.space),
         NEW st1, st1 = Unite(st, src1, src2, dst)
  PROVE  /\ Sound(st1, s, ext) /\ Grows(st, st1)
         /\ st1.zero = FALSE => Placed(st1, src1, dst.space) /\ Placed(st1, src2, dst.space)
<1>1. PICK x, y : x = st.map[src1] /\ y = st.map[src2]
  OBVIOUS
<1>2. PICK space, fit : /\ space = x.space \cap y.space \cap dst.space
                        /\ fit = {i \in {x, y, dst} : i.space = space}
  OBVIOUS
<1>3. /\ src1 \in AllIndices(s) /\ src1 \notin ext /\ IsImage(st, s, ext, src1, x)
      /\ src2 \in AllIndices(s) /\ src2 \notin ext /\ IsImage(st, s, ext, src2, y)
      /\ OnlyJoined(st, s, src1, x) /\ OnlyJoined(st, s, src2, y)
  BY <1>1 DEF Sound, OnlyJoined
<1>4. Joined(s, src2, src1)
  BY <1>3, JoinedIs
<1>5. SharedIn(s, src1, space) /\ SharedIn(s, src2, space)
  <2>1. SharedIn(s, src1, x.space) /\ SharedIn(s, src2, y.space)
    BY <1>3 DEF IsImage
  <2>2. SharedIn(s, src1, y.space)
    BY <2>1, SharedOn
  <2>3. SharedIn(s, src1, space)
    BY <1>2, <2>1, <2>2, SharedOn
  <2>. QED
    BY <1>4, <2>3, SharedOn
<1>6. /\ space \subseteq x.space /\ space \subseteq y.space /\ space \subseteq dst.space
      /\ space \subseteq src1.space /\ space \subseteq src2.space
  BY <1>2, <1>3 DEF IsImage
<1>7. space # {} => space \in Spaces
  <2>1. dst.space \in SUBSET {"occ", "unocc"}
    BY DEF IndexSet, Spaces
  <2>2. space \in SUBSET {"occ", "unocc"}
    BY <1>6, <2>1
  <2>. QED
    BY <2>2 DEF Spaces
<1>8. CASE space = {}
  <2>1. st1 = IsZero(st)
    BY <1>1, <1>2, <1>8 DEF Unite
  <2>2. NothingShared(s)
    BY <1>3, <1>5, <1>8, SharedOn DEF NothingShared
  <2>. QED
    BY <2>1, <2>2, IsZeroSound
\* both are mapped to an index that is good for both
<1>9. ASSUME NEW st2, Sound(st2, s, ext), Grows(st, st2), st2.map = st.map, NEW z,
             z \in IndexSet, z.space = space,
             (z \in ext \cap AllIndices(s) /\ Joined(s, src1, z)) \/ Issued(st2, z),
             OnlyJoined(st, s, src1, z),
             st1 = PutBoth(st2, src1, src2, z)
      PROVE  /\ Sound(st1, s, ext) /\ Grows(st, st1)
             /\ Placed(st1, src1, dst.space) /\ Placed(st1, src2, dst.space)
  <2>1. PICK st3 : st3 = Put(st2, src1, z)
    OBVIOUS
  <2>2. IsImage(st2, s, ext, src1, z)
    BY <1>5, <1>6, <1>9 DEF IsImage
  <2>3. /\ OnlyJoined(st2, s, src1, z)
        /\ src1 \in DOMAIN st2.map => z.space \subseteq st2.map[src1].space
    BY <1>1, <1>6, <1>9 DEF OnlyJoined
  <2>4. /\ Sound(st3, s, ext) /\ Grows(st2, st3)
        /\ st3.made = st2.made /\ st3.used = st2.used
        /\ AddedRule(st2, src1, st3) /\ st3.map[src1] = z
        /\ \A i \in DOMAIN st2.map : i # src1 => st3.map[i] = st2.map[i]
    BY <1>3, <1>9, <2>1, <2>2, <2>3, PutSound
  <2>5. st1 = Put(st3, src2, z)
    BY <1>9, <2>1 DEF PutBoth
  <2>6. Joined(s, src1, z) => Joined(s, src2, z)
    BY <1>4, JoinedIs
  <2>7. Issued(st2, z) => Issued(st3, z)
    BY <2>4 DEF Issued
  <2>8. IsImage(st3, s, ext, src2, z)
    BY <1>5, <1>6, <1>9, <2>6, <2>7 DEF IsImage
  <2>9. OnlyJoined(st3, s, src2, z)
    <3>1. OnlyJoined(st3, s, src1, z)
      BY <1>9, <2>4, JoinedIs DEF OnlyJoined, AddedRule
    <3>. QED
      BY <3>1, OnlyJoinedOn
  <2>10. src2 \in DOMAIN st3.map => z.space \subseteq st3.map[src2].space
    BY <1>1, <1>6, <1>9, <2>4
  <2>11. /\ Sound(st1, s, ext) /\ Grows(st3, st1)
         /\ AddedRule(st3, src2, st1) /\ st1.map[src2] = z
         /\ \A i \in DOMAIN st3.map : i # src2 => st1.map[i] = st3.map[i]
    BY <1>3, <2>4, <2>5, <2>8, <2>9, <2>10, PutSound
  <2>12. Grows(st, st1)
    BY <1>9, <2>4, <2>11, GrowsOn
  <2>13. src1 \in DOMAIN st1.map /\ src2 \in DOMAIN st1.map /\ st1.map[src1] = z /\ st1.map[src2] = z
    BY <2>4, <2>11 DEF AddedRule
  <2>. QED
    BY <1>6, <1>9, <2>11, <2>12, <2>13 DEF Placed
<1>10. CASE space # {} /\ fit # {}
  <2>1. PICK z : z = CHOOSE i \in fit : \A j \in fit \ {i} : IndexLess(i, j)
    OBVIOUS
  <2>2. st1 = PutBoth(st, src1, src2, z)
    BY <1>1, <1>2, <1>10, <2>1 DEF Unite
  <2>3. x \in IndexSet /\ y \in IndexSet
    BY <1>3 DEF IsImage
  <2>4. z \in fit
    <3>1. \A i, j \in fit : /\ LabelRank(i.n) \in Int /\ (LabelRank(i.n) = LabelRank(j.n) => i = j)
                            /\ LabelRank(i.n) < LabelRank(j.n) => IndexLess(i, j)
      <4>1. \A i \in fit : i \in IndexSet /\ i.space = space
        BY <1>2, <2>3
      <4>. QED
        BY <4>1, LessIs
    <3>2. \E i \in fit : \A j \in fit : LabelRank(i.n) <= LabelRank(j.n)
      <4>1. \A i \in fit : i \in {x, y, dst}
        BY <1>2
      <4>2. CASE x \in fit /\ \A j \in fit : LabelRank(x.n) <= LabelRank(j.n)
        BY <4>2
      <4>3. CASE y \in fit /\ \A j \in fit : LabelRank(y.n) <= LabelRank(j.n)
        BY <4>3
      <4>4. CASE dst \in fit /\ \A j \in fit : LabelRank(dst.n) <= LabelRank(j.n)
        BY <4>4
      <4>. QED
        BY <1>10, <3>1, <4>1, <4>2, <4>3, <4>4
    <3>3. PICK i \in fit : \A j \in fit : LabelRank(i.n) <= LabelRank(j.n)
      BY <3>2
    <3>4. \A j \in fit \ {i} : IndexLess(i, j)
      BY <3>1, <3>3
    <3>. QED
      BY <2>1, <3>4
  <2>5. z \in {x, y, dst} /\ z.space = space
    BY <1>2, <2>4
  <2>6. (z \in ext \cap AllIndices(s) /\ Joined(s, src1, z)) \/ Issued(st, z)
    <3>1. Joined(s, src2, y) => Joined(s, src1, y)
      BY JoinedIs
    <3>. QED
      BY <1>3, <2>5, <3>1 DEF IsImage
  <2>7. OnlyJoined(st, s, src1, z)
    <3>1. OnlyJoined(st, s, src1, y)
      BY <1>3, <1>4, OnlyJoinedOn
    <3>2. OnlyJoined(st, s, src1, dst)
      BY DEF OnlyJoined, IsFresh
    <3>. QED
      BY <1>3, <2>5, <3>1, <3>2
  <2>8. Grows(st, st) /\ z \in IndexSet
    BY <2>3, <2>5 DEF Grows
  <2>. QED
    BY <1>9, <2>2, <2>5, <2>6, <2>7, <2>8
<1>11. CASE space # {} /\ fit = {}
  <2>1. PICK st2, z : st2 = Count(st, space) /\ z = NextTmp(st, space)
    OBVIOUS
  <2>2. st1 = PutBoth(st2, src1, src2, z)
    BY <1>1, <1>2, <1>11, <2>1 DEF Unite
  <2>3. /\ Sound(st2, s, ext) /\ Grows(st, st2) /\ st2.map = st.map
        /\ Issued(st2, z) /\ z \in IndexSet /\ z.space = space
        /\ IsFresh(st, z)
    BY <1>7, <1>11, <2>1, NextTmpIs
  <2>4. OnlyJoined(st, s, src1, z)
    BY <2>3 DEF OnlyJoined, IsFresh
  <2>. QED
    BY <1>9, <2>2, <2>3, <2>4
<1>. QED
  BY <1>8, <1>10, <1>11, IsZeroSound

LEMMA AddRulesSound ==
  ASSUME NEW s, InSpaces(s), Asserted(s), NEW ext, NEW st, Sound(st, s, ext),
         NEW src1 \in AllIndices(s), src1 \notin ext,
         NEW src2 \in AllIndices(s), src2 \notin ext, Joined(s, src1, src2),
         NEW dst \in IndexSet, Issued(st, dst), IsFresh(st, dst),
         dst.space \subseteq src1.space, dst.space \subseteq src2.space,
         SharedIn(s, src1, dst.space),
         NEW st1, st1 = AddRules(st, src1, src2, dst)
  PROVE  /\ Sound(st1, s, ext) /\ Grows(st, st1)
         /\ st1.zero = FALSE => Placed(st1, src1, dst.space) /\ Placed(st1, src2, dst.space)
<1>1. Joined(s, src2, src1)
  BY JoinedIs
<1>2. SharedIn(s, src2, dst.space)
  BY <1>1, SharedOn
\* one has a rule, which is narrowed and which the other follows
<1>3. ASSUME NEW p \in {src1, src2}, NEW q \in {src1, src2},
             p \in DOMAIN st.map, q \notin DOMAIN st.map,
             st1 = Follow(Narrow(st, p, dst), p, q)
      PROVE  /\ Sound(st1, s, ext) /\ Grows(st, st1)
             /\ st1.zero = FALSE => Placed(st1, p, dst.space) /\ Placed(st1, q, dst.space)
  <2>1. /\ q \in AllIndices(s) /\ q \notin ext /\ Joined(s, p, q)
        /\ dst.space \subseteq q.space /\ SharedIn(s, p, dst.space)
    BY <1>1, <1>2, <1>3, JoinedIs
  <2>2. PICK st2 : st2 = Narrow(st, p, dst)
    OBVIOUS
  <2>3. /\ Sound(st2, s, ext) /\ Grows(st, st2) /\ SameRules(st, st2)
        /\ st2.zero = FALSE => st2.map[p].space \subseteq dst.space
    BY <1>3, <2>1, <2>2, NarrowSound
  <2>4. st1 = Follow(st2, p, q)
    BY <1>3, <2>2
  <2>5. p \in DOMAIN st2.map /\ q \notin DOMAIN st2.map
    BY <1>3, <2>3 DEF SameRules
  <2>6. st2.zero = FALSE => st2.map[p].space \subseteq q.space
    BY <2>1, <2>3
  <2>7. /\ Sound(st1, s, ext) /\ Grows(st2, st1)
        /\ st1.zero = FALSE => q \in DOMAIN st1.map /\ st1.map[q].space \subseteq st2.map[p].space
    BY <2>1, <2>3, <2>4, <2>5, <2>6, FollowSound
  <2>8. Grows(st, st1)
    BY <2>3, <2>7, GrowsOn
  <2>9. st1.zero = FALSE => st2.zero = FALSE /\ p \in DOMAIN st1.map
                              /\ st1.map[p].space \subseteq st2.map[p].space
    BY <2>5, <2>7 DEF Grows
  <2>. QED
    BY <2>3, <2>7, <2>8, <2>9 DEF Placed
<1>4. CASE HasRule(st, src1) /\ HasRule(st, src2)
  <2>1. st1 = Unite(st, src1, src2, dst) /\ src1 \in DOMAIN st.map /\ src2 \in DOMAIN st.map
    BY <1>4 DEF AddRules, HasRule
  <2>. QED
    BY <2>1, UniteSound
<1>5. CASE HasRule(st, src1) /\ ~HasRule(st, src2)
  <2>1. /\ st1 = Follow(Narrow(st, src1, dst), src1, src2)
        /\ src1 \in DOMAIN st.map /\ src2 \notin DOMAIN st.map
    BY <1>5 DEF AddRules, HasRule
  <2>. QED
    BY <1>3, <2>1
<1>6. CASE ~HasRule(st, src1) /\ HasRule(st, src2)
  <2>1. /\ st1 = Follow(Narrow(st, src2, dst), src2, src1)
        /\ src2 \in DOMAIN st.map /\ src1 \notin DOMAIN st.map
    BY <1>6 DEF AddRules, HasRule
  <2>. QED
    BY <1>3, <2>1
<1>7. CASE ~HasRule(st, src1) /\ ~HasRule(st, src2)
  <2>1. PICK st2 : st2 = Put(st, src1, dst)
    OBVIOUS
  <2>2. st1 = Put(st2, src2, dst) /\ src1 \notin DOMAIN st.map
    BY <1>7, <2>1 DEF AddRules, HasRule, PutBoth
  <2>3. IsImage(st, s, ext, src1, dst) /\ OnlyJoined(st, s, src1, dst)
    BY DEF IsImage, OnlyJoined, IsFresh
  <2>4. /\ Sound(st2, s, ext) /\ Grows(st, st2)
        /\ st2.made = st.made /\ st2.used = st.used
        /\ AddedRule(st, src1, st2) /\ st2.map[src1] = dst
        /\ \A i \in DOMAIN st.map : i # src1 => st2.map[i] = st.map[i]
    BY <2>1, <2>2, <2>3, PutSound
  <2>5. Issued(st2, dst)
    BY <2>4 DEF Issued
  <2>6. IsImage(st2, s, ext, src2, dst)
    BY <1>2, <2>5 DEF IsImage
  <2>7. OnlyJoined(st2, s, src2, dst)
    BY <2>4 DEF OnlyJoined, IsFresh, AddedRule
  <2>8. src2 \in DOMAIN st2.map => dst.space \subseteq st2.map[src2].space
    BY <1>7, <2>4 DEF HasRule, AddedRule
  <2>9. /\ Sound(st1, s, ext) /\ Grows(st2, st1)
        /\ AddedRule(st2, src2, st1) /\ st1.map[src2] = dst
        /\ \A i \in DOMAIN st2.map : i # src2 => st1.map[i] = st2.map[i]
    BY <2>2, <2>4, <2>6, <2>7, <2>8, PutSound
  <2>10. Grows(st, st1)
    BY <2>4, <2>9, GrowsOn
  <2>11. /\ src1 \in DOMAIN st1.map /\ src2 \in DOMAIN st1.map
         /\ st1.map[src1] = dst /\ st1.map[src2] = dst
    BY <2>4, <2>9 DEF AddedRule
  <2>. QED
    BY <2>9, <2>10, <2>11 DEF Placed
<1>. QED
  BY <1>4, <1>5, <1>6, <1>7

\* No index that idxfac.make gave is one of the product.
LEMMA IssuedIsNew ==
  ASSUME NEW s, InSpaces(s), NEW ext, NEW st, Sound(st, s, ext), NEW x, Issued(st, x)
  PROVE  x \notin AllIndices(s)
<1>1. ASSUME NEW sp \in Spaces, NEW n \in 1..st.made[sp]
      PROVE  NthIndex(st.used, MinTmpIndex, sp, n) \notin AllIndices(s)
  <2>1. /\ IsFiniteSet(AllIndices(s)) /\ MinTmpIndex \in Nat
        /\ st.made[sp] \in Nat /\ st.used = AllIndices(s)
    BY FiniteIndices DEF InSpaces, MinTmpIndex, Sound
  <2>2. n \in Nat /\ n # 0
    BY <2>1
  <2>. QED
    BY <2>1, <2>2, NewIndicesDiffer
<1>. QED
  BY <1>1 DEF Issued

LEMMA BindSound ==
  ASSUME NEW s, InSpaces(s), Asserted(s), NEW ext, NEW st, Sound(st, s, ext),
         NEW e \in AllIndices(s), e \in ext, e \in IndexSet,
         NEW i \in AllIndices(s), i \notin ext, Joined(s, i, e),
         NEW common \in Spaces, common = Meet(e, i),
         NEW st1, st1 = Bind(st, e, i, common)
  PROVE  /\ Sound(st1, s, ext) /\ Grows(st, st1)
         /\ st1.zero = FALSE => Placed(st1, i, common)
<1>1. SharedIn(s, i, e.space) /\ SharedIn(s, i, common)
  <2>1. SharedIn(s, i, i.space) /\ SharedIn(s, e, e.space)
    BY JoinedIs
  <2>2. SharedIn(s, i, e.space)
    BY <2>1, SharedOn
  <2>. QED
    BY <2>1, <2>2, SharedOn DEF Meet
<1>2. CASE e.space \subseteq i.space
  <2>1. st1 = AddRule(st, i, e) /\ e.space = common
    BY <1>2 DEF Bind, Include, Meet
  <2>2. CASE i \in DOMAIN st.map
    <3>1. st1 = Narrow(st, i, e)
      BY <2>1, <2>2 DEF AddRule, HasRule
    <3>2. /\ Sound(st1, s, ext) /\ Grows(st, st1) /\ SameRules(st, st1)
          /\ st1.zero = FALSE => st1.map[i].space \subseteq e.space
      BY <1>1, <2>2, <3>1, NarrowSound
    <3>. QED
      BY <2>1, <2>2, <3>2 DEF SameRules, Placed
  <2>3. CASE i \notin DOMAIN st.map
    <3>1. st1 = Put(st, i, e)
      BY <2>1, <2>3 DEF AddRule, HasRule
    <3>2. IsImage(st, s, ext, i, e)
      BY <1>1, <1>2 DEF IsImage
    <3>3a. ASSUME NEW j \in DOMAIN st.map, st.map[j] = e
           PROVE  Joined(s, j, i)
      <4>1. j \in AllIndices(s) /\ (Joined(s, j, e) \/ Issued(st, e))
        BY <3>3a DEF Sound, IsImage
      <4>2. ~Issued(st, e)
        BY IssuedIsNew
      <4>3. Joined(s, e, i)
        BY JoinedIs
      <4>. QED
        BY <4>1, <4>2, <4>3, JoinedIs
    <3>3. OnlyJoined(st, s, i, e)
      BY <3>3a DEF OnlyJoined
    <3>4. /\ Sound(st1, s, ext) /\ Grows(st, st1)
          /\ AddedRule(st, i, st1) /\ st1.map[i] = e
      BY <2>3, <3>1, <3>2, <3>3, PutSound
    <3>. QED
      BY <2>1, <3>4 DEF AddedRule, Placed
  <2>. QED
    BY <2>2, <2>3
<1>3. CASE ~(e.space \subseteq i.space)
  <2>1. PICK st2, new : st2 = Count(st, common) /\ new = NextTmp(st, common)
    OBVIOUS
  <2>2. st1 = AddRule(st2, i, new)
    BY <1>3, <2>1 DEF Bind, Include
  <2>3. /\ Sound(st2, s, ext) /\ Grows(st, st2) /\ st2.map = st.map
        /\ Issued(st2, new) /\ new \in IndexSet /\ new.space = common
        /\ IsFresh(st, new)
    BY <2>1, NextTmpIs
  <2>4. CASE i \in DOMAIN st.map
    <3>1. st1 = Narrow(st2, i, new) /\ i \in DOMAIN st2.map
      BY <2>2, <2>3, <2>4 DEF AddRule, HasRule
    <3>2. SharedIn(s, i, new.space)
      BY <1>1, <2>3
    <3>3. /\ Sound(st1, s, ext) /\ Grows(st2, st1) /\ SameRules(st2, st1)
          /\ st1.zero = FALSE => st1.map[i].space \subseteq new.space
      BY <2>3, <3>1, <3>2, NarrowSound
    <3>. QED
      BY <2>3, <2>4, <3>3, GrowsOn DEF SameRules, Placed
  <2>5. CASE i \notin DOMAIN st.map
    <3>1. st1 = Put(st2, i, new) /\ i \notin DOMAIN st2.map
      BY <2>2, <2>3, <2>5 DEF AddRule, HasRule
    <3>2. IsImage(st2, s, ext, i, new) /\ OnlyJoined(st2, s, i, new)
      BY <1>1, <2>3 DEF IsImage, OnlyJoined, IsFresh, Meet
    <3>3. /\ Sound(st1, s, ext) /\ Grows(st2, st1)
          /\ AddedRule(st2, i, st1) /\ st1.map[i] = new
      BY <2>3, <3>1, <3>2, PutSound
    <3>. QED
      BY <2>3, <3>3, GrowsOn DEF AddedRule, Placed
  <2>. QED
    BY <2>4, <2>5
<1>. QED
  BY <1>2, <1>3

\* the internal indices of an overlap have rules to their common space
Covered(st, ext, t) ==
  \A i \in IndicesOf(t) : i \notin ext =>
    Placed(st, i, Common(t))

LEMMA AddOverlapSound ==
  ASSUME NEW s, InSpaces(s), Asserted(s), NEW ext, NEW st, Sound(st, s, ext),
         NEW t \in ToSet(Overlaps(s)), NEW st1, st1 = AddOverlap(st, t, ext)
  PROVE  /\ Sound(st1, s, ext) /\ Grows(st, st1)
         /\ st1.zero = FALSE => Covered(st1, ext, t)
<1>1. PICK bra, ket, common : bra = BraIndex(t) /\ ket = KetIndex(t) /\ common = Common(t)
  OBVIOUS
<1>2. /\ bra \in AllIndices(s) /\ ket \in AllIndices(s) /\ bra \in IndexSet /\ ket \in IndexSet
      /\ IndicesOf(t) = {bra, ket} /\ common \in Spaces
      /\ common = Meet(bra, ket) /\ common = Meet(ket, bra)
  BY <1>1, OverlapIs DEF Common, Meet
<1>3. Joined(s, bra, ket) /\ Joined(s, ket, bra)
  BY <1>1, <1>2, JoinedIs
<1>4. st.zero \in BOOLEAN
  BY DEF Sound
<1>5. CASE st.zero = TRUE
  <2>1. st1 = st
    BY <1>5 DEF AddOverlap
  <2>. QED
    BY <1>5, <2>1 DEF Grows
<1>6. CASE st.zero = FALSE /\ bra \notin ext /\ ket \notin ext
  <2>1. PICK st2, new : st2 = Count(st, common) /\ new = NextTmp(st, common)
    OBVIOUS
  <2>2. st1 = AddRules(st2, bra, ket, new)
    BY <1>1, <1>2, <1>6, <2>1 DEF AddOverlap, Meet
  <2>3. /\ Sound(st2, s, ext) /\ Grows(st, st2) /\ st2.map = st.map
        /\ Issued(st2, new) /\ new \in IndexSet /\ new.space = common
        /\ IsFresh(st, new)
    BY <1>2, <2>1, NextTmpIs
  <2>4. /\ IsFresh(st2, new)
        /\ new.space \subseteq bra.space /\ new.space \subseteq ket.space
        /\ SharedIn(s, bra, new.space)
    <3>1. SharedIn(s, bra, bra.space) /\ SharedIn(s, ket, ket.space)
      BY <1>2, JoinedIs
    <3>2. SharedIn(s, bra, ket.space)
      BY <1>3, <3>1, SharedOn
    <3>3. SharedIn(s, bra, new.space)
      BY <1>2, <2>3, <3>1, <3>2, SharedOn DEF Meet
    <3>. QED
      BY <1>2, <2>3, <3>3 DEF IsFresh, Meet
  <2>5. /\ Sound(st1, s, ext) /\ Grows(st2, st1)
        /\ st1.zero = FALSE => Placed(st1, bra, new.space) /\ Placed(st1, ket, new.space)
    BY <1>2, <1>3, <1>6, <2>2, <2>3, <2>4, AddRulesSound
  <2>6. Grows(st, st1)
    BY <2>3, <2>5, GrowsOn
  <2>. QED
    BY <1>1, <1>2, <2>3, <2>5, <2>6 DEF Covered
<1>7. CASE st.zero = FALSE /\ bra \in ext /\ ket \notin ext
  <2>1. st1 = Bind(st, bra, ket, common)
    BY <1>1, <1>2, <1>7 DEF AddOverlap, Meet
  <2>2. /\ Sound(st1, s, ext) /\ Grows(st, st1)
        /\ st1.zero = FALSE => Placed(st1, ket, common)
    BY <1>2, <1>3, <1>7, <2>1, BindSound
  <2>. QED
    BY <1>1, <1>2, <1>7, <2>2 DEF Covered
<1>8. CASE st.zero = FALSE /\ bra \notin ext /\ ket \in ext
  <2>1. st1 = Bind(st, ket, bra, common)
    BY <1>1, <1>2, <1>8 DEF AddOverlap, Meet
  <2>2. /\ Sound(st1, s, ext) /\ Grows(st, st1)
        /\ st1.zero = FALSE => Placed(st1, bra, common)
    BY <1>2, <1>3, <1>8, <2>1, BindSound
  <2>. QED
    BY <1>1, <1>2, <1>8, <2>2 DEF Covered
<1>9. CASE st.zero = FALSE /\ bra \in ext /\ ket \in ext
  <2>1. st1 = st
    BY <1>1, <1>9 DEF AddOverlap
  <2>. QED
    BY <1>2, <1>9, <2>1 DEF Covered, Grows
<1>. QED
  BY <1>4, <1>5, <1>6, <1>7, <1>8, <1>9

LEMMA CoveredOn ==
  ASSUME NEW st, NEW st1, Grows(st, st1), NEW ext, NEW t, Covered(st, ext, t)
  PROVE  Covered(st1, ext, t)
BY DEF Grows, Covered, Placed

LEMMA NoRulesSound ==
  ASSUME NEW s, InSpaces(s), NEW ext, NEW st, st = NoRules(AllIndices(s))
  PROVE  Sound(st, s, ext)
<1>1. /\ HasFields(st) /\ st.zero = FALSE /\ st.used = AllIndices(s)
      /\ st.made = [sp \in Spaces |-> 0] /\ st.map = <<>>
  BY DEF NoRules, HasFields
<1>2. st.made \in [Spaces -> Nat] /\ DOMAIN st.map = {}
  BY <1>1
<1>. QED
  BY <1>1, <1>2 DEF Sound

\* The rules that compute_index_replacement_rules returns, if its assertions
\* hold: they are sound, and for every overlap whose product is not zero.
LEMMA RulesSound ==
  ASSUME NEW s, InSpaces(s), Asserted(s), NEW ext, NEW rules, rules = ComputeRules(s, ext)
  PROVE  /\ Sound(rules, s, ext)
         /\ rules.zero = FALSE => \A t \in ToSet(Overlaps(s)) : Covered(rules, ext, t)
<1>1. PICK o, N : o = Overlaps(s) /\ N = Len(o) /\ N \in Nat /\ DOMAIN o = 1..N
  BY OverlapsAre DEF InSpaces
<1>2. PICK u : IsRules(u, o, AllIndices(s), ext) /\ rules = u[N]
  BY <1>1, ComputeRulesIs
<1>3. /\ u[0] = NoRules(AllIndices(s))
      /\ \A k \in 0..(N - 1) : u[k + 1] = AddOverlap(u[k], o[k + 1], ext)
  <2>1. \A k \in 0..N : u[k] = RuleAt(u, o, AllIndices(s), ext, k)
    BY <1>1, <1>2 DEF IsRules
  <2>2. \A k \in 0..(N - 1) : k + 1 \in 0..N /\ k + 1 # 0 /\ (k + 1) - 1 = k
    BY <1>1
  <2>. QED
    BY <1>1, <2>1, <2>2 DEF RuleAt
<1>4. ASSUME NEW k \in 0..(N - 1), Sound(u[k], s, ext)
      PROVE  /\ Sound(u[k + 1], s, ext) /\ Grows(u[k], u[k + 1])
             /\ u[k + 1].zero = FALSE => Covered(u[k + 1], ext, o[k + 1])
  <2>1. PICK st, st1, t : st = u[k] /\ st1 = u[k + 1] /\ t = o[k + 1]
    OBVIOUS
  <2>2. k + 1 \in DOMAIN o
    BY <1>1
  <2>3. Sound(st, s, ext) /\ st1 = AddOverlap(st, t, ext) /\ t \in ToSet(Overlaps(s))
    BY <1>1, <1>3, <1>4, <2>1, <2>2 DEF ToSet
  <2>4. /\ Sound(st1, s, ext) /\ Grows(st, st1)
        /\ st1.zero = FALSE => Covered(st1, ext, t)
    BY <2>3, AddOverlapSound
  <2>. QED
    BY <2>1, <2>4
<1>. DEFINE R == {k \in 0..N : /\ Sound(u[k], s, ext)
                               /\ u[k].zero = FALSE => \A j \in 1..k : Covered(u[k], ext, o[j])}
<1>5. 0 \in R
  <2>1. Sound(u[0], s, ext)
    BY <1>3, NoRulesSound
  <2>. QED
    BY <1>1, <2>1
<1>6. ASSUME NEW k \in 0..(N - 1), k \in R
      PROVE  k + 1 \in R
  <2>1. k + 1 \in 0..N /\ \A j \in 1..(k + 1) : j \in 1..k \/ j = k + 1
    BY <1>1
  <2>2. /\ Sound(u[k + 1], s, ext) /\ Grows(u[k], u[k + 1])
        /\ u[k + 1].zero = FALSE => Covered(u[k + 1], ext, o[k + 1])
    BY <1>4, <1>6
  <2>3. ASSUME u[k + 1].zero = FALSE, NEW j \in 1..(k + 1)
        PROVE  Covered(u[k + 1], ext, o[j])
    <3>1. CASE j \in 1..k
      <4>1. u[k].zero = FALSE
        BY <2>2, <2>3 DEF Grows
      <4>2. Covered(u[k], ext, o[j])
        BY <1>6, <3>1, <4>1
      <4>. QED
        BY <2>2, <4>2, CoveredOn
    <3>2. CASE j = k + 1
      BY <2>2, <2>3, <3>2
    <3>. QED
      BY <2>1, <3>1, <3>2
  <2>. QED
    BY <2>1, <2>2, <2>3
<1>7. N \in R
  <2>. HIDE DEF R
  <2>1. \A k \in 0..N : k \in R
    BY <1>1, <1>5, <1>6, IntervalInduction
  <2>. QED
    BY <1>1, <2>1
<1>. QED
  BY <1>1, <1>2, <1>7 DEF ToSet

\* What the rules for a product with values do to it.
LEMMA RulesCarry ==
  ASSUME NEW s, IsValued(s), NEW ext, NEW rules, rules = ComputeRules(s, ext)
  PROVE  /\ rules.zero = FALSE
         /\ \A i \in AllIndices(s) : /\ Image(rules.map, i) \in IndexSet
                                     /\ SharedIn(s, i, Image(rules.map, i).space)
         /\ \A i, j \in AllIndices(s) :
              Image(rules.map, i) = Image(rules.map, j) => Joined(s, i, j)
<1>1. InSpaces(s) /\ Deltas(s) /\ Asserted(s)
  BY ValuedAsserted DEF IsValued
<1>2. Sound(rules, s, ext)
  BY <1>1, RulesSound
<1>3. ~NothingShared(s)
  <2>1. PICK w : IsChoice(w) /\ Agrees(w, s)
    BY DEF IsValued, HasValues
  <2>2. \A i \in AllIndices(s) : Shares(s, i, w[i]) /\ w[i] \in {"occ", "unocc"}
    BY <1>1, <2>1, ChoiceIsShared
  <2>. QED
    BY <2>2 DEF NothingShared
<1>4. rules.zero = FALSE
  BY <1>2, <1>3 DEF Sound
<1>5. PICK m : m = rules.map
  OBVIOUS
<1>6. \A i \in DOMAIN m : /\ Image(m, i) = m[i] /\ m[i] \in IndexSet
                          /\ SharedIn(s, i, m[i].space)
                          /\ m[i] \in AllIndices(s) => Joined(s, i, m[i])
  BY <1>1, <1>2, <1>5, IssuedIsNew DEF Sound, IsImage, Image
<1>7. \A i \in AllIndices(s) : i \in IndexSet /\ SharedIn(s, i, i.space)
  BY <1>1, IndicesWithin, JoinedIs DEF InSpaces
<1>8. \A i : i \notin DOMAIN m => Image(m, i) = i
  BY DEF Image
<1>9. \A i \in AllIndices(s) : Image(m, i) \in IndexSet /\ SharedIn(s, i, Image(m, i).space)
  BY <1>6, <1>7, <1>8
<1>10. ASSUME NEW i \in AllIndices(s), NEW j \in AllIndices(s), Image(m, i) = Image(m, j)
       PROVE  Joined(s, i, j)
  <2>1. CASE i \in DOMAIN m /\ j \in DOMAIN m
    BY <1>2, <1>5, <1>6, <1>10, <2>1 DEF Sound
  <2>2. CASE i \in DOMAIN m /\ j \notin DOMAIN m
    BY <1>6, <1>8, <1>10, <2>2
  <2>3. CASE i \notin DOMAIN m /\ j \in DOMAIN m
    <3>1. Joined(s, j, i)
      BY <1>6, <1>8, <1>10, <2>3
    <3>. QED
      BY <1>1, <3>1, JoinedIs
  <2>4. CASE i \notin DOMAIN m /\ j \notin DOMAIN m
    BY <1>1, <1>8, <1>10, <2>4, JoinedIs
  <2>. QED
    BY <2>1, <2>2, <2>3, <2>4
<1>. QED
  BY <1>4, <1>5, <1>9, <1>10

-----------------------------------------------------------------------------
(***************************************************************************)
(* A pass of the reduction.                                                *)
(***************************************************************************)
IsNeeded(t, ext) ==
  BraIndex(t) # KetIndex(t) /\ \E e \in IndicesOf(t) \cap ext :
    \A i \in IndicesOf(t) \ ext : ~(e.space \subseteq i.space)

\* What is not erased is an overlap of two different indices, and needed.
LEMMA NotErased ==
  ASSUME NEW I, NEW t \in Tensors(I), IsOverlap(t), Len(t.bra) = 1, Len(t.ket) = 1,
         NEW ext, ~IsErased(t, ext)
  PROVE  BindsTwo(t) /\ IsNeeded(t, ext)
<1>1. PICK bra, ket : bra = BraIndex(t) /\ ket = KetIndex(t)
  OBVIOUS
<1>2. IndicesOf(t) = {bra, ket}
  BY <1>1, DeltaIs
<1>3. /\ bra \in ext \/ ket \in ext
      /\ bra \in ext /\ ket \notin ext => ~(bra.space \subseteq ket.space)
      /\ bra \notin ext /\ ket \in ext => ~(ket.space \subseteq bra.space)
      /\ bra \in ext /\ ket \in ext => bra # ket
  BY <1>1 DEF IsErased, Include
<1>4. bra # ket
  BY <1>3
<1>5. CASE bra \in ext
  <2>1. \A i \in IndicesOf(t) \ ext : ~(bra.space \subseteq i.space)
    BY <1>2, <1>3, <1>5
  <2>. QED
    BY <1>1, <1>2, <1>4, <1>5, <2>1 DEF BindsTwo, IsNeeded
<1>6. CASE bra \notin ext
  <2>1. ket \in ext /\ \A i \in IndicesOf(t) \ ext : ~(ket.space \subseteq i.space)
    BY <1>2, <1>3, <1>6
  <2>. QED
    BY <1>1, <1>2, <1>4, <2>1 DEF BindsTwo, IsNeeded
<1>. QED
  BY <1>5, <1>6

AllNeeded(s, ext) == \A k \in DOMAIN s : IsOverlap(s[k]) => IsNeeded(s[k], ext)

LEMMA ApplyRulesIs ==
  ASSUME NEW I, NEW s \in Seq(Tensors(I)), Deltas(s), NEW rules, NEW ext,
         NEW t, t = ApplyRules(s, rules, ext)
  PROVE  /\ t \in Seq(Tensors(Images(rules, I))) /\ Deltas(t) /\ AllNeeded(t, ext)
         /\ Carried(s, t, rules)
<1>1. PICK N : N = Len(s) /\ N \in Nat /\ DOMAIN s = 1..N
  OBVIOUS
<1>2. PICK replaced : replaced = [k \in DOMAIN s |-> TransformIndices(s[k], rules)]
  OBVIOUS
<1>. DEFINE places == {k \in DOMAIN s : ~IsErased(replaced[k], ext)}
<1>3. t = Kept(replaced, places)
  BY <1>2 DEF ApplyRules
<1>4. places \in SUBSET (1..N) /\ \A k \in places : k \in DOMAIN s /\ ~IsErased(replaced[k], ext)
  BY <1>1
<1>5. PICK J : J = Images(rules, I)
  OBVIOUS
<1>6. \A k \in DOMAIN s : replaced[k] \in Tensors(J)
  BY <1>2, <1>5, TransformIndicesIs
<1>7. \A k \in DOMAIN s : IsOverlap(replaced[k]) =>
        Len(replaced[k].bra) = 1 /\ Len(replaced[k].ket) = 1
  <2>1. \A k \in DOMAIN s : /\ replaced[k].label = s[k].label
                            /\ Len(replaced[k].bra) = Len(s[k].bra)
                            /\ Len(replaced[k].ket) = Len(s[k].ket)
    BY <1>2, TransformIndicesIs
  <2>. QED
    BY <2>1 DEF Deltas, BindsTwo, IsOverlap
<1>. HIDE DEF places
<1>8. /\ Kept(replaced, places) = [k \in 1..Cardinality(places) |-> Kept(replaced, places)[k]]
      /\ Cardinality(places) \in Nat
      /\ \A k \in 1..Cardinality(places) : \E j \in places : Kept(replaced, places)[k] = replaced[j]
  BY <1>1, <1>4, KeptIs
<1>9. PICK n \in Nat : t = [k \in 1..n |-> t[k]] /\ \A k \in 1..n : \E j \in places : t[k] = replaced[j]
  BY <1>3, <1>8
<1>10. ASSUME NEW k \in 1..n
       PROVE  /\ t[k] \in Tensors(J)
              /\ IsOverlap(t[k]) => BindsTwo(t[k]) /\ IsNeeded(t[k], ext)
  <2>1. PICK j \in places : t[k] = replaced[j]
    BY <1>9
  <2>2. replaced[j] \in Tensors(J) /\ ~IsErased(replaced[j], ext)
    BY <1>4, <1>6
  <2>3. IsOverlap(replaced[j]) => BindsTwo(replaced[j]) /\ IsNeeded(replaced[j], ext)
    BY <1>4, <1>7, <2>2, NotErased
  <2>. QED
    BY <2>1, <2>2, <2>3
<1>11. t \in Seq(Tensors(J)) /\ DOMAIN t = 1..n
  BY <1>9, <1>10
<1>12. ASSUME NEW k \in DOMAIN s, IsOverlap(replaced[k])
       PROVE  /\ IsOverlap(s[k])
              /\ BraIndex(replaced[k]) = Image(rules, BraIndex(s[k]))
              /\ KetIndex(replaced[k]) = Image(rules, KetIndex(s[k]))
  <2>1. s[k] \in Tensors(I) /\ replaced[k].label = s[k].label
    BY <1>2, TransformIndicesIs
  <2>2. IsOverlap(s[k])
    BY <1>12, <2>1 DEF IsOverlap
  <2>3. Len(s[k].bra) = 1 /\ Len(s[k].ket) = 1
    BY <2>2 DEF Deltas, BindsTwo
  <2>. QED
    BY <1>2, <2>1, <2>2, <2>3, ReplacedDelta
<1>13. Carried(s, t, rules)
  BY <1>4, <1>9, <1>11, <1>12 DEF Carried
<1>. QED
  BY <1>5, <1>10, <1>11, <1>13 DEF Deltas, AllNeeded

\* What a pass leaves, if it does not find the product to be zero.
LEMMA PassIs ==
  ASSUME NEW I, NEW s \in Seq(Tensors(I)), Deltas(s), NEW ext,
         NEW rules, rules = ComputeRules(s, ext), ~rules.zero,
         NEW t, t = IF DOMAIN rules.map = {} THEN s ELSE ApplyRules(s, rules.map, ext)
  PROVE  /\ IsTensors(t) /\ Deltas(t) /\ AllNeeded(t, ext)
         /\ IsValued(s) => IsValued(t)
<1>1. CASE DOMAIN rules.map = {}
  <2>1. \A u \in ToSet(Overlaps(s)) : BraIndex(u) \in ext /\ KetIndex(u) \in ext
    BY <1>1, NoRuleNeeded
  <2>2. t = s
    BY <1>1
  <2>3. ASSUME NEW k \in DOMAIN s, IsOverlap(s[k])
        PROVE  IsNeeded(s[k], ext)
    <3>1. s[k] \in Tensors(I) /\ BindsTwo(s[k])
      BY <2>3 DEF Deltas
    <3>2. BraIndex(s[k]) \in ext /\ KetIndex(s[k]) \in ext
      BY <2>1, <2>3, OverlapsAre
    <3>3. IndicesOf(s[k]) = {BraIndex(s[k]), KetIndex(s[k])} /\ BraIndex(s[k]) # KetIndex(s[k])
      BY <3>1, DeltaIs DEF BindsTwo
    <3>. QED
      BY <3>2, <3>3 DEF IsNeeded
  <2>. QED
    BY <2>2, <2>3 DEF IsTensors, AllNeeded
<1>2. CASE DOMAIN rules.map # {}
  <2>1. PICK m : m = rules.map
    OBVIOUS
  <2>2. t = ApplyRules(s, m, ext)
    BY <1>2, <2>1
  <2>3. IsTensors(t) /\ Deltas(t) /\ AllNeeded(t, ext)
    BY <2>2, ApplyRulesIs DEF IsTensors
  <2>4. ASSUME IsValued(s)
        PROVE  IsValued(t)
    <3>1. PICK A : A = AllIndices(s)
      OBVIOUS
    <3>2. s \in Seq(Tensors(A))
      BY <3>1, IndicesWithin
    <3>3. t \in Seq(Tensors(Images(m, A))) /\ Carried(s, t, m)
      BY <2>2, <3>2, ApplyRulesIs
    <3>4. /\ \A i \in A : Image(m, i) \in IndexSet /\ SharedIn(s, i, Image(m, i).space)
          /\ \A i, j \in A : Image(m, i) = Image(m, j) => Joined(s, i, j)
      BY <2>1, <2>4, <3>1, RulesCarry
    <3>5. HasValues(t)
      BY <2>4, <3>1, <3>3, <3>4, ValuesCarried
    <3>6. Images(m, A) \subseteq IndexSet
      BY <3>4 DEF Images
    <3>7. t \in Seq(Tensors(IndexSet))
      BY <3>3, <3>6, TensorsOf
    <3>. QED
      BY <2>3, <3>5, <3>7 DEF IsValued, InSpaces
  <2>. QED
    BY <2>3, <2>4
<1>. QED
  BY <1>1, <1>2

-----------------------------------------------------------------------------
(***************************************************************************)
(* Another pass.  If all overlaps are needed, every rule is for an index   *)
(* that is not external and maps it to an index in a space within its own: *)
(* an overlap that is needed stays one when the rules are applied.         *)
(***************************************************************************)
Narrows(st, ext) ==
  HasFields(st) /\ \A i \in DOMAIN st.map : i \notin ext /\ st.map[i].space \subseteq i.space

LEMMA PutNarrows ==
  ASSUME NEW st, NEW ext, Narrows(st, ext), NEW src, src \notin ext,
         NEW dst, dst.space \subseteq src.space
  PROVE  Narrows(Put(st, src, dst), ext)
<1>1. PICK st1 : st1 = Put(st, src, dst)
  OBVIOUS
<1>2. /\ HasFields(st1) /\ DOMAIN st1.map = DOMAIN st.map \cup {src} /\ st1.map[src] = dst
      /\ \A i \in DOMAIN st.map : i # src => st1.map[i] = st.map[i]
  BY <1>1, PutRule DEF Narrows
<1>. QED
  BY <1>1, <1>2 DEF Narrows

LEMMA AddRuleNarrows ==
  ASSUME NEW st, NEW ext, Narrows(st, ext), NEW src, src \notin ext,
         NEW dst, dst.space \subseteq src.space
  PROVE  Narrows(AddRule(st, src, dst), ext)
<1>1. CASE ~HasRule(st, src)
  BY <1>1, PutNarrows DEF AddRule
<1>2. CASE HasRule(st, src)
  <2>1. PICK old, space : old = st.map[src].space /\ space = old \cap dst.space
    OBVIOUS
  <2>2. AddRule(st, src, dst) = Narrow(st, src, dst)
    BY <1>2 DEF AddRule
  <2>3. CASE old = dst.space
    BY <2>1, <2>2, <2>3 DEF Narrow
  <2>4. CASE old # dst.space /\ space = {}
    <3>1. PICK st1 : st1 = IsZero(st)
      OBVIOUS
    <3>2. HasFields(st1) /\ st1.map = st.map
      BY <3>1 DEF IsZero, Narrows, HasFields
    <3>3. AddRule(st, src, dst) = st1
      BY <2>1, <2>2, <2>4, <3>1 DEF Narrow
    <3>. QED
      BY <3>2, <3>3 DEF Narrows
  <2>5. CASE old # dst.space /\ space # {}
    <3>1. PICK new, st1 : new = NextTmp(st, space) /\ st1 = Count(st, space)
      OBVIOUS
    <3>2. AddRule(st, src, dst) = Put(st1, src, new)
      BY <2>1, <2>2, <2>5, <3>1 DEF Narrow
    <3>3. new.space = space
      BY <3>1 DEF NextTmp, NthIndex, Index
    <3>4. new.space \subseteq src.space
      BY <2>1, <3>3
    <3>5. Narrows(st1, ext)
      BY <3>1, CountIs DEF Narrows
    <3>. QED
      BY <3>2, <3>4, <3>5, PutNarrows
  <2>. QED
    BY <2>3, <2>4, <2>5
<1>. QED
  BY <1>1, <1>2

LEMMA BindNarrows ==
  ASSUME NEW st, NEW ext, Narrows(st, ext), NEW e, NEW i, i \notin ext,
         ~(e.space \subseteq i.space), NEW common, common \subseteq i.space
  PROVE  Narrows(Bind(st, e, i, common), ext)
<1>1. PICK new, st1 : new = NextTmp(st, common) /\ st1 = Count(st, common)
  OBVIOUS
<1>2. Bind(st, e, i, common) = AddRule(st1, i, new)
  BY <1>1 DEF Bind, Include
<1>3. new.space = common
  BY <1>1 DEF NextTmp, NthIndex, Index
<1>4. Narrows(st1, ext)
  BY <1>1, CountIs DEF Narrows
<1>. QED
  BY <1>2, <1>3, <1>4, AddRuleNarrows

LEMMA AddNeeded ==
  ASSUME NEW st, NEW ext, Narrows(st, ext),
         NEW I, NEW t \in Tensors(I), BindsTwo(t), IsNeeded(t, ext)
  PROVE  Narrows(AddOverlap(st, t, ext), ext)
<1>1. PICK bra, ket, common :
        bra = BraIndex(t) /\ ket = KetIndex(t) /\ common = bra.space \cap ket.space
  OBVIOUS
<1>2. IndicesOf(t) = {bra, ket}
  BY <1>1, DeltaIs DEF BindsTwo
<1>3. PICK e \in {bra, ket} \cap ext : \A i \in {bra, ket} \ ext : ~(e.space \subseteq i.space)
  BY <1>2 DEF IsNeeded
<1>4. CASE st.zero \/ (bra \in ext /\ ket \in ext)
  <2>1. AddOverlap(st, t, ext) = st
    BY <1>1, <1>4 DEF AddOverlap
  <2>. QED
    BY <2>1
<1>5. CASE ~st.zero /\ bra \in ext /\ ket \notin ext
  <2>1. AddOverlap(st, t, ext) = Bind(st, bra, ket, common)
    BY <1>1, <1>5 DEF AddOverlap
  <2>2. ~(bra.space \subseteq ket.space)
    BY <1>3, <1>5
  <2>3. Narrows(Bind(st, bra, ket, common), ext)
    BY <1>1, <1>5, <2>2, BindNarrows
  <2>. QED
    BY <2>1, <2>3
<1>6. CASE ~st.zero /\ bra \notin ext /\ ket \in ext
  <2>1. AddOverlap(st, t, ext) = Bind(st, ket, bra, common)
    BY <1>1, <1>6 DEF AddOverlap
  <2>2. ~(ket.space \subseteq bra.space)
    BY <1>3, <1>6
  <2>3. Narrows(Bind(st, ket, bra, common), ext)
    BY <1>1, <1>6, <2>2, BindNarrows
  <2>. QED
    BY <2>1, <2>3
<1>. QED
  BY <1>3, <1>4, <1>5, <1>6

LEMMA RulesNarrow ==
  ASSUME NEW I, NEW s \in Seq(Tensors(I)), Deltas(s), NEW ext, AllNeeded(s, ext)
  PROVE  Narrows(ComputeRules(s, ext), ext)
<1>1. PICK o, N : o = Overlaps(s) /\ N = Len(o) /\ N \in Nat /\ DOMAIN o = 1..N
  BY OverlapsAre
<1>2. PICK u : IsRules(u, o, AllIndices(s), ext) /\ ComputeRules(s, ext) = u[N]
  BY <1>1, ComputeRulesIs
<1>3. \A k \in 0..N : u[k] = RuleAt(u, o, AllIndices(s), ext, k)
  BY <1>1, <1>2 DEF IsRules
<1>4. Narrows(u[0], ext)
  <2>1. u[0] = NoRules(AllIndices(s))
    BY <1>1, <1>3 DEF RuleAt
  <2>. QED
    BY <2>1 DEF Narrows, HasFields, NoRules
<1>5. ASSUME NEW k \in 0..(N - 1), Narrows(u[k], ext)
      PROVE  Narrows(u[k + 1], ext)
  <2>1. k + 1 \in 0..N /\ k + 1 \in 1..N /\ k + 1 # 0 /\ (k + 1) - 1 = k
    BY <1>1
  <2>2. u[k + 1] = AddOverlap(u[k], o[k + 1], ext)
    BY <1>3, <2>1 DEF RuleAt
  <2>3. o[k + 1] \in ToSet(Overlaps(s))
    BY <1>1, <2>1 DEF ToSet
  <2>4. PICK j \in DOMAIN s : IsOverlap(s[j]) /\ o[k + 1] = s[j]
    BY <2>3, OverlapsAre
  <2>5. s[j] \in Tensors(I) /\ BindsTwo(s[j]) /\ IsNeeded(s[j], ext)
    BY <2>4 DEF Deltas, AllNeeded
  <2>. QED
    BY <1>5, <2>2, <2>4, <2>5, AddNeeded
<1>. DEFINE R == {k \in 0..N : Narrows(u[k], ext)}
<1>6. 0 \in R /\ \A k \in 0..(N - 1) : k \in R => k + 1 \in R
  BY <1>1, <1>4, <1>5
<1>7. N \in R
  <2>. HIDE DEF R
  <2>1. \A k \in 0..N : k \in R
    BY <1>1, <1>6, IntervalInduction
  <2>. QED
    BY <1>1, <2>1
<1>. QED
  BY <1>2, <1>7

LEMMA NeededStays ==
  ASSUME NEW I, NEW t \in Tensors(I), BindsTwo(t), NEW ext, IsNeeded(t, ext),
         NEW rules, Narrows(rules, ext)
  PROVE  ~IsErased(TransformIndices(t, rules.map), ext)
<1>1. PICK bra, ket, r :
        bra = BraIndex(t) /\ ket = KetIndex(t) /\ r = TransformIndices(t, rules.map)
  OBVIOUS
<1>2. IndicesOf(t) = {bra, ket} /\ bra # ket
  BY <1>1, DeltaIs DEF BindsTwo
<1>3. PICK e \in {bra, ket} \cap ext : \A i \in {bra, ket} \ ext : ~(e.space \subseteq i.space)
  BY <1>2 DEF IsNeeded
<1>4. BraIndex(r) = Image(rules.map, bra) /\ KetIndex(r) = Image(rules.map, ket)
  BY <1>1, ReplacedDelta DEF BindsTwo
<1>5. \A i : /\ i \in ext => Image(rules.map, i) = i
             /\ Image(rules.map, i).space \subseteq i.space
  BY DEF Image, Narrows
<1>6. PICK b, k : b = BraIndex(r) /\ k = KetIndex(r)
  OBVIOUS
<1>7. CASE bra \in ext /\ ket \in ext
  <2>1. b = bra /\ k = ket
    BY <1>4, <1>5, <1>6, <1>7
  <2>. QED
    BY <1>1, <1>2, <1>6, <1>7, <2>1 DEF IsErased
<1>8. CASE bra \in ext /\ ket \notin ext
  <2>1. b = bra /\ k.space \subseteq ket.space /\ ~(bra.space \subseteq ket.space)
    BY <1>3, <1>4, <1>5, <1>6, <1>8
  <2>2. b \in ext /\ ~(b.space \subseteq k.space) /\ b # k
    BY <1>8, <2>1
  <2>. QED
    BY <1>1, <1>6, <2>2 DEF IsErased, Include
<1>9. CASE bra \notin ext /\ ket \in ext
  <2>1. k = ket /\ b.space \subseteq bra.space /\ ~(ket.space \subseteq bra.space)
    BY <1>3, <1>4, <1>5, <1>6, <1>9
  <2>2. k \in ext /\ ~(k.space \subseteq b.space) /\ b # k
    BY <1>9, <2>1
  <2>. QED
    BY <1>1, <1>6, <2>2 DEF IsErased, Include
<1>. QED
  BY <1>3, <1>7, <1>8, <1>9

-----------------------------------------------------------------------------
(***************************************************************************)
(* The invariant.                                                          *)
(***************************************************************************)
IInv ==
  /\ IsTensors(ts)
  /\ Deltas(ts)
  /\ last = "reduced" => AllNeeded(ts, external)

LEMMA InitIInv == Init => IInv
<1>. SUFFICES ASSUME Init PROVE IInv
  OBVIOUS
<1>1. PICK s \in Start : ts = s.t
  BY DEF Init
<1>2. ts \in Seq(Tensors(IndexSet)) /\ \A t \in ToSet(Overlaps(ts)) : BindsTwo(t)
  BY <1>1, StartAssumption DEF IsDelta, BindsTwo
<1>3. Deltas(ts)
  BY <1>2, OverlapsAre DEF Deltas
<1>. QED
  BY <1>2, <1>3 DEF Init, IInv, IsTensors

LEMMA ExchangedIs ==
  ASSUME NEW S, NEW s \in Seq(S), NEW k \in 1..(Len(s) - 1)
  PROVE  /\ Exchanged(s, k) \in Seq(S) /\ DOMAIN Exchanged(s, k) = DOMAIN s
         /\ \A n \in DOMAIN s : \E m \in DOMAIN s : Exchanged(s, k)[n] = s[m]
<1>1. DOMAIN s = 1..Len(s) /\ Len(s) \in Nat /\ k \in DOMAIN s /\ k + 1 \in DOMAIN s
  OBVIOUS
<1>2. Exchanged(s, k) = [n \in DOMAIN s |-> IF n = k + 1 THEN s[k] ELSE IF n = k THEN s[k + 1] ELSE s[n]]
  BY <1>1 DEF Exchanged
<1>. QED
  BY <1>1, <1>2

LEMMA RewrittenIs ==
  ASSUME NEW how, NEW sc, NEW s, Rewritten(how, sc, s), IsTensors(s), Deltas(s),
         IsValued(ts) => IsValued(s)
  PROVE  IInv' /\ (IsValued(ts) => IsValued(ts'))
BY DEF Rewritten, IInv

LEMMA ReorderFactorsIs ==
  ASSUME IInv, ReorderFactors
  PROVE  IInv' /\ (IsValued(ts) => IsValued(ts'))
<1>1. PICK I : ts \in Seq(Tensors(I))
  BY DEF IInv, IsTensors
<1>2. PICK k \in 1..(Len(ts) - 1) : Rewritten("order", c, Exchanged(ts, k))
  BY DEF ReorderFactors
<1>3. PICK s : s = Exchanged(ts, k)
  OBVIOUS
<1>4. s \in Seq(Tensors(I)) /\ DOMAIN s = DOMAIN ts /\ \A n \in DOMAIN ts : \E m \in DOMAIN ts : s[n] = ts[m]
  BY <1>1, <1>3, ExchangedIs
<1>5. Deltas(s)
  BY <1>4 DEF IInv, Deltas
<1>6. IsTensors(s)
  BY <1>4 DEF IsTensors
<1>7. ASSUME IsValued(ts)
      PROVE  IsValued(s)
  <2>1. s \in Seq(Tensors(IndexSet))
    BY <1>3, <1>7, ExchangedIs DEF IsValued, InSpaces
  <2>2. HasValues(s)
    BY <1>4, <1>7, ValuesWithin DEF IsValued, Within
  <2>. QED
    BY <1>5, <2>1, <2>2 DEF IsValued, InSpaces
<1>. QED
  BY <1>2, <1>3, <1>5, <1>6, <1>7, RewrittenIs

LEMMA RenameIndicesIs ==
  ASSUME IInv, RenameIndices
  PROVE  IInv' /\ (IsValued(ts) => IsValued(ts'))
<1>1. PICK I : ts \in Seq(Tensors(I))
  BY DEF IInv, IsTensors
<1>2. PICK i, n, j, rules, s :
        /\ i \in AllIndices(ts) /\ n \in Numbers /\ j = Index(i.space, n)
        /\ rules = [k \in {i, j} |-> IF k = i THEN j ELSE i]
        /\ s = [k \in DOMAIN ts |-> TransformIndices(ts[k], rules)]
        /\ Rewritten("names", c, s)
  <2>1. PICK i, n :
          /\ i \in AllIndices(ts) /\ n \in Numbers
          /\ LET j == Index(i.space, n)
                 rules == [k \in {i, j} |-> IF k = i THEN j ELSE i]
             IN Rewritten("names", c, [k \in DOMAIN ts |-> TransformIndices(ts[k], rules)])
    BY Zenon DEF RenameIndices
  <2>2. PICK j : j = Index(i.space, n)
    OBVIOUS
  <2>3. PICK rules : rules = [k \in {i, j} |-> IF k = i THEN j ELSE i]
    OBVIOUS
  <2>4. PICK s : s = [k \in DOMAIN ts |-> TransformIndices(ts[k], rules)]
    OBVIOUS
  <2>. QED
    BY <2>1, <2>2, <2>3, <2>4
<1>3. \A x, y : x # y => Image(rules, x) # Image(rules, y)
  BY <1>2 DEF Image
<1>4. s \in Seq(Tensors(Images(rules, I))) /\ Deltas(s)
  <2>1. Deltas(ts) /\ \A x, y \in AllIndices(ts) : x # y => Image(rules, x) # Image(rules, y)
    BY <1>3 DEF IInv
  <2>2. s = [k \in DOMAIN ts |-> TransformIndices(ts[k], rules)]
    BY <1>2
  <2>3. PICK J : J = Images(rules, I)
    OBVIOUS
  <2>4. s \in Seq(Tensors(J)) /\ Deltas(s)
    BY <1>1, <2>1, <2>2, <2>3, ReplacedDeltas
  <2>. QED
    BY <2>3, <2>4
<1>5. IsTensors(s)
  BY <1>4 DEF IsTensors
<1>6. ASSUME IsValued(ts)
      PROVE  IsValued(s)
  <2>1. PICK A : A = AllIndices(ts)
    OBVIOUS
  <2>2. ts \in Seq(Tensors(A)) /\ \A x \in A : x \in IndexSet
    BY <1>6, <2>1, IndicesWithin DEF IsValued, InSpaces
  <2>3. i \in IndexSet /\ j \in IndexSet /\ j.space = i.space
    BY <1>2, <2>1, <2>2, NumbersAssumption DEF Index, IndexSet
  <2>4. \A x \in A : Image(rules, x).space = x.space /\ Image(rules, x) \in IndexSet
    BY <1>2, <2>2, <2>3 DEF Image
  <2>5. Renames(rules, A)
    BY <1>3, <2>4 DEF Renames
  <2>6. s \in Seq(Tensors(Images(rules, A))) /\ Carried(ts, s, rules)
    <3>1. Deltas(ts) /\ \A x, y \in AllIndices(ts) : x # y => Image(rules, x) # Image(rules, y)
      BY <1>3 DEF IInv
    <3>2. s = [k \in DOMAIN ts |-> TransformIndices(ts[k], rules)] /\ ts \in Seq(Tensors(A))
      BY <1>2, <2>2
    <3>. QED
      BY <3>1, <3>2, ReplacedDeltas
  <2>7. Images(rules, A) \subseteq IndexSet
    BY <2>4 DEF Images
  <2>8. s \in Seq(Tensors(IndexSet))
    BY <2>6, <2>7, TensorsOf
  <2>9. HasValues(s)
    BY <1>6, <2>1, <2>5, <2>6, ValuesRenamed
  <2>. QED
    BY <1>4, <2>8, <2>9 DEF IsValued, InSpaces
<1>. QED
  BY <1>2, <1>4, <1>5, <1>6, RewrittenIs

\* A tensor whose indices are exchanged is none with a single index.
LEMMA ChangedTensor ==
  ASSUME IInv, NEW I, ts \in Seq(Tensors(I)), NEW k \in DOMAIN ts, ~BindsTwo(ts[k]),
         IsValued(ts) => I \subseteq IndexSet, NEW b \in Seq(I), NEW d \in Seq(I),
         NEW s, s = [ts EXCEPT ![k] = [ts[k] EXCEPT !.bra = b, !.ket = d]]
  PROVE  IsTensors(s) /\ Deltas(s) /\ (IsValued(ts) => IsValued(s))
<1>1. PICK t : t = [ts[k] EXCEPT !.bra = b, !.ket = d]
  OBVIOUS
<1>2. t \in Tensors(I) /\ t.label = ts[k].label
  <2>1. ts[k] \in Tensors(I)
    OBVIOUS
  <2>. QED
    BY <1>1, <2>1 DEF Tensors
<1>3. s = [ts EXCEPT ![k] = t]
  BY <1>1
<1>4. s \in Seq(Tensors(I)) /\ DOMAIN s = DOMAIN ts
  BY <1>2, <1>3
<1>5. ~IsOverlap(t)
  BY <1>2 DEF IInv, Deltas, IsOverlap
<1>6. Deltas(s)
  BY <1>3, <1>4, <1>5 DEF IInv, Deltas
<1>7. ASSUME IsValued(ts)
      PROVE  IsValued(s)
  <2>1. Within(ts, s)
    BY <1>3, <1>4, <1>5 DEF Within
  <2>2. HasValues(s)
    BY <1>7, <2>1, ValuesWithin DEF IsValued
  <2>3. s \in Seq(Tensors(IndexSet))
    <3>1. I \subseteq IndexSet
      BY <1>7
    <3>2. b \in Seq(IndexSet) /\ d \in Seq(IndexSet)
      BY <3>1
    <3>3. ts \in Seq(Tensors(IndexSet)) /\ ts[k] \in Tensors(IndexSet)
      BY <1>7 DEF IsValued, InSpaces
    <3>4. t \in Tensors(IndexSet)
      BY <1>1, <3>2, <3>3 DEF Tensors
    <3>. QED
      BY <1>3, <3>3, <3>4
  <2>. QED
    BY <1>6, <2>2, <2>3 DEF IsValued, InSpaces
<1>. QED
  BY <1>4, <1>6, <1>7 DEF IsTensors

LEMMA ExchangeIndicesIs ==
  ASSUME IInv, ExchangeIndices
  PROVE  IInv' /\ (IsValued(ts) => IsValued(ts'))
<1>1. PICK I : ts \in Seq(Tensors(I)) /\ (IsValued(ts) => I \subseteq IndexSet)
  <2>1. ts \in Seq(Tensors(AllIndices(ts)))
    BY IndicesWithin DEF IInv, IsTensors
  <2>2. IsValued(ts) => AllIndices(ts) \subseteq IndexSet
    BY IndicesWithin DEF IsValued, InSpaces
  <2>. QED
    BY <2>1, <2>2
<1>2. PICK k \in DOMAIN ts :
    \/ /\ ts[k].symm = "antisymm" /\ Len(ts[k].bra) > 1
       /\ Rewritten("signs", -c, [ts EXCEPT ![k].bra = Exchanged(@, 1)])
    \/ /\ ts[k].symm = "antisymm" /\ Len(ts[k].ket) > 1
       /\ Rewritten("signs", -c, [ts EXCEPT ![k].ket = Exchanged(@, 1)])
    \/ /\ ts[k].symm = "nonsymm" /\ Particles(ts[k]) > 1
       /\ Rewritten("signs", c, [ts EXCEPT ![k].bra = Exchanged(@, 1),
                                           ![k].ket = Exchanged(@, 1)])
  BY DEF ExchangeIndices
<1>3. PICK t : t = ts[k]
  OBVIOUS
<1>4. /\ t = [label |-> t.label, symm |-> t.symm, bra |-> t.bra, ket |-> t.ket]
      /\ t.bra \in Seq(I) /\ t.ket \in Seq(I)
  <2>1. t \in Tensors(I)
    BY <1>1, <1>3
  <2>. QED
    BY <2>1 DEF Tensors
<1>4b. ~(1 > 1) /\ (BindsTwo(t) => Len(t.bra) = 1 /\ Len(t.ket) = 1)
  BY DEF BindsTwo
<1>5. \A u \in Seq(I) : Len(u) > 1 => Exchanged(u, 1) \in Seq(I)
  <2>1. ASSUME NEW u \in Seq(I), Len(u) > 1
        PROVE  Exchanged(u, 1) \in Seq(I)
    <3>1. 1 \in 1..(Len(u) - 1)
      BY <2>1
    <3>. QED
      BY <3>1, ExchangedIs
  <2>. QED
    BY <2>1
<1>6. CASE /\ Len(t.bra) > 1
           /\ Rewritten("signs", -c, [ts EXCEPT ![k].bra = Exchanged(@, 1)])
  <2>1. PICK b, s : b = Exchanged(t.bra, 1) /\ s = [ts EXCEPT ![k].bra = Exchanged(@, 1)]
    OBVIOUS
  <2>2. b \in Seq(I) /\ ~BindsTwo(t)
    BY <1>4, <1>5, <1>6, <1>4b, <2>1
  <2>3. s = [ts EXCEPT ![k] = [ts[k] EXCEPT !.bra = b, !.ket = t.ket]]
    BY <1>1, <1>3, <1>4, <2>1
  <2>4. IsTensors(s) /\ Deltas(s) /\ (IsValued(ts) => IsValued(s))
    BY <1>1, <1>3, <1>4, <2>2, <2>3, ChangedTensor
  <2>. QED
    BY <1>6, <2>1, <2>4, RewrittenIs
<1>7. CASE /\ Len(t.ket) > 1
           /\ Rewritten("signs", -c, [ts EXCEPT ![k].ket = Exchanged(@, 1)])
  <2>1. PICK b, s : b = Exchanged(t.ket, 1) /\ s = [ts EXCEPT ![k].ket = Exchanged(@, 1)]
    OBVIOUS
  <2>2. b \in Seq(I) /\ ~BindsTwo(t)
    BY <1>4, <1>5, <1>7, <1>4b, <2>1
  <2>3. s = [ts EXCEPT ![k] = [ts[k] EXCEPT !.bra = t.bra, !.ket = b]]
    BY <1>1, <1>3, <1>4, <2>1
  <2>4. IsTensors(s) /\ Deltas(s) /\ (IsValued(ts) => IsValued(s))
    BY <1>1, <1>3, <1>4, <2>2, <2>3, ChangedTensor
  <2>. QED
    BY <1>7, <2>1, <2>4, RewrittenIs
<1>8. CASE /\ Particles(t) > 1
           /\ Rewritten("signs", c, [ts EXCEPT ![k].bra = Exchanged(@, 1),
                                               ![k].ket = Exchanged(@, 1)])
  <2>1. Len(t.bra) > 1 /\ Len(t.ket) > 1
    <3>1. PICK m, n : m = Len(t.bra) /\ n = Len(t.ket)
      OBVIOUS
    <3>2. m \in Nat /\ n \in Nat
      BY <1>4, <3>1
    <3>3. Min({m, n}) =< m /\ Min({m, n}) =< n /\ Min({m, n}) \in Nat
      <4>1. \E x \in {m, n} : \A y \in {m, n} : x =< y
        <5>1. CASE m =< n
          BY <3>2, <5>1
        <5>2. CASE ~(m =< n)
          BY <3>2, <5>2
        <5>. QED
          BY <5>1, <5>2
      <4>2. Min({m, n}) \in {m, n} /\ \A y \in {m, n} : Min({m, n}) =< y
        BY <4>1 DEF Min
      <4>. QED
        BY <3>2, <4>2
    <3>4. Min({m, n}) > 1
      BY <1>8, <3>1 DEF Particles
    <3>5. PICK x : x = Min({m, n})
      OBVIOUS
    <3>. QED
      BY <3>1, <3>2, <3>3, <3>4, <3>5
  <2>2. PICK b, d, s : /\ b = Exchanged(t.bra, 1) /\ d = Exchanged(t.ket, 1)
                       /\ s = [ts EXCEPT ![k].bra = Exchanged(@, 1), ![k].ket = Exchanged(@, 1)]
    OBVIOUS
  <2>3. b \in Seq(I) /\ d \in Seq(I) /\ ~BindsTwo(t)
    BY <1>4, <1>5, <1>4b, <2>1, <2>2
  <2>4. s = [ts EXCEPT ![k] = [ts[k] EXCEPT !.bra = b, !.ket = d]]
    BY <1>1, <1>3, <1>4, <2>2
  <2>5. IsTensors(s) /\ Deltas(s) /\ (IsValued(ts) => IsValued(s))
    BY <1>1, <1>3, <2>3, <2>4, ChangedTensor
  <2>. QED
    BY <1>8, <2>2, <2>5, RewrittenIs
<1>. QED
  BY <1>2, <1>3, <1>6, <1>7, <1>8

LEMMA CanonicalizeIs ==
  ASSUME IInv, CanonicalizeFast \/ CanonicalizeSlow
  PROVE  IInv' /\ (IsValued(ts) => IsValued(ts'))
<1>1. PICK I : ts \in Seq(Tensors(I))
  BY DEF IInv, IsTensors
<1>2. PICK f \in FastForms(ts) \cup SlowForms(ts) : ts' = f.t /\ last' \in {"fast", "slow"}
  <2>1. CASE CanonicalizeFast
    BY <2>1 DEF CanonicalizeFast, Canonicalize, Becomes
  <2>2. CASE CanonicalizeSlow
    BY <2>2 DEF CanonicalizeSlow, Canonicalize, Becomes
  <2>. QED
    BY <2>1, <2>2
<1>3. IsTensors(f.t) /\ Deltas(f.t) /\ (IsValued(ts) => IsValued(f.t))
  BY <1>1, <1>2, FastFormIs, SlowFormIs DEF IInv
<1>. QED
  BY <1>2, <1>3 DEF IInv

LEMMA ReducePassIs ==
  ASSUME IInv, ReducePass
  PROVE  IInv' /\ (IsValued(ts) => IsValued(ts'))
<1>1. PICK I : ts \in Seq(Tensors(I))
  BY DEF IInv, IsTensors
<1>2. PICK rules, after :
        /\ rules = ComputeRules(ts, external)
        /\ after = IF DOMAIN rules.map = {} THEN ts ELSE ApplyRules(ts, rules.map, external)
        /\ Reduced(rules, after)
  BY DEF ReducePass
<1>3. CASE rules.zero /\ ts' = <<>>
  <2>1. IsTensors(<<>>) /\ Deltas(<<>>) /\ AllNeeded(<<>>, external')
    BY DEF IsTensors, Deltas, AllNeeded
  <2>2. ~IsValued(ts)
    BY <1>2, <1>3, RulesCarry
  <2>. QED
    BY <1>3, <2>1, <2>2 DEF IInv
<1>4. CASE ~rules.zero /\ ts' = after /\ external' = external
  <2>1. /\ IsTensors(after) /\ Deltas(after) /\ AllNeeded(after, external)
        /\ IsValued(ts) => IsValued(after)
    BY <1>1, <1>2, <1>4, PassIs DEF IInv
  <2>. QED
    BY <1>4, <2>1 DEF IInv
<1>. QED
  BY <1>2, <1>3, <1>4 DEF Reduced, Becomes

LEMMA NextIInv == IInv /\ [Next]_vars => IInv' /\ (IsValued(ts) => IsValued(ts'))
<1>. SUFFICES ASSUME IInv, [Next]_vars
              PROVE  IInv' /\ (IsValued(ts) => IsValued(ts'))
  OBVIOUS
<1>1. CASE Rewrite
  BY <1>1, ReorderFactorsIs, RenameIndicesIs, ExchangeIndicesIs DEF Rewrite
<1>2. CASE CanonicalizeFast \/ CanonicalizeSlow
  BY <1>2, CanonicalizeIs
<1>3. CASE StartReduce \/ UNCHANGED vars
  <2>1. UNCHANGED <<ts, last, external>>
    BY <1>3 DEF StartReduce, vars
  <2>. QED
    BY <2>1 DEF IInv
<1>4. CASE ReducePass
  BY <1>4, ReducePassIs
<1>. QED
  BY <1>1, <1>2, <1>3, <1>4 DEF Next

-----------------------------------------------------------------------------
(***************************************************************************)
(* Whatever is done with a product, an overlap in it has one index in its  *)
(* bra and one in its ket, and these are different: the assertions of      *)
(* compute_index_replacement_rules hold in every pass, also in those after *)
(* the replacements of a pass and after a canonicalization.                *)
(***************************************************************************)
OverlapsBindTwo == \A t \in ToSet(Overlaps(ts)) : BindsTwo(t)

THEOREM DeltasStayDeltas == Spec => []OverlapsBindTwo
<1>1. IInv => OverlapsBindTwo
  BY OverlapsAre DEF IInv, IsTensors, Deltas, OverlapsBindTwo
<1>. QED
  BY InitIInv, NextIInv, <1>1, PTL DEF Spec

(***************************************************************************)
(* After a reduction, whichever pass the loop ended with, the overlaps     *)
(* left bind an external index with another index that is not an internal  *)
(* one it could replace, and the rules of another pass would erase none:   *)
(* the loop of reduce_wick_impl may end after a pass that erased overlaps  *)
(* (its flag is cleared by a later factor) without an overlap being left   *)
(* that it should have erased.                                             *)
(***************************************************************************)
THEOREM NeededDeltas == Spec => []NoNeedlessDelta
<1>1. IInv => NoNeedlessDelta
  <2>. SUFFICES ASSUME IInv, last = "reduced", NEW t \in ToSet(Overlaps(ts))
                PROVE  IsNeededDelta(t) /\ StaysInAnotherPass(t)
    BY DEF NoNeedlessDelta
  <2>1. PICK I : ts \in Seq(Tensors(I))
    BY DEF IInv, IsTensors
  <2>2. PICK k \in DOMAIN ts : IsOverlap(ts[k]) /\ t = ts[k]
    BY <2>1, OverlapsAre
  <2>3. t \in Tensors(I) /\ BindsTwo(t) /\ IsNeeded(t, external)
    BY <2>1, <2>2 DEF IInv, Deltas, AllNeeded
  <2>4. Narrows(ComputeRules(ts, external), external)
    BY <2>1, RulesNarrow DEF IInv
  <2>. QED
    BY <2>3, <2>4, NeededStays DEF IsNeeded, IsNeededDelta, StaysInAnotherPass
<1>. QED
  BY InitIInv, NextIInv, <1>1, PTL DEF Spec

-----------------------------------------------------------------------------
(***************************************************************************)
(* Products that have values: what all operations keep.                    *)
(***************************************************************************)
SInv == IInv /\ IsValued(ts)

LEMMA InitSInv == Init /\ HasValues(ts) => SInv
<1>. SUFFICES ASSUME Init, HasValues(ts) PROVE SInv
  OBVIOUS
<1>1. IInv
  BY InitIInv
<1>2. PICK s \in Start : ts = s.t
  BY DEF Init
<1>3. InSpaces(ts)
  BY <1>2, StartAssumption DEF InSpaces
<1>. QED
  BY <1>1, <1>3 DEF SInv, IInv, IsValued

LEMMA NextSInv == SInv /\ [Next]_vars => SInv'
BY NextIInv DEF SInv, IsValued

(***************************************************************************)
(* A product that has values keeps them, whatever is done with it, and all *)
(* assertions of compute_index_replacement_rules hold in every pass: no    *)
(* replacement leaves an overlap of indices without a common space.        *)
(***************************************************************************)
AssertionsHold == \A t \in ToSet(Overlaps(ts)) : IsDelta(t)

THEOREM ValuesStay == Spec /\ HasValues(ts) => [](HasValues(ts) /\ AssertionsHold)
<1>1. SInv => HasValues(ts) /\ AssertionsHold
  <2>. SUFFICES ASSUME SInv PROVE HasValues(ts) /\ AssertionsHold
    OBVIOUS
  <2>1. IsValued(ts) /\ Asserted(ts)
    BY ValuedAsserted DEF SInv
  <2>. QED
    BY <2>1, OverlapsAre DEF IsValued, InSpaces, Asserted, AssertionsHold
<1>. QED
  BY InitSInv, NextSInv, <1>1, PTL DEF Spec

(***************************************************************************)
(* The replacement rules of a pass are sound.  A rule replaces an internal *)
(* index of the product by an external one it is joined with, or by an     *)
(* index that is none of the product, in a space within its own that takes *)
(* no base space away that all its joined indices share; the same index    *)
(* replaces joined indices only; and the internal indices of every overlap *)
(* are replaced by indices in the common space of the two.                 *)
(***************************************************************************)
RulesAreSound ==
  LET rules == ComputeRules(ts, external)
      m     == rules.map
  IN /\ ~rules.zero
     /\ \A i \in DOMAIN m :
          /\ i \in AllIndices(ts) \ external
          /\ m[i].space \subseteq i.space /\ SharedIn(ts, i, m[i].space)
          /\ m[i] \in AllIndices(ts) => m[i] \in external /\ Joined(ts, i, m[i])
          /\ \A j \in DOMAIN m : m[i] = m[j] => Joined(ts, i, j)
     /\ \A t \in ToSet(Overlaps(ts)) : \A i \in IndicesOf(t) \ external :
          i \in DOMAIN m /\ m[i].space \subseteq Common(t)

THEOREM SoundRules == Spec /\ HasValues(ts) => []RulesAreSound
<1>1. SInv => RulesAreSound
  <2>. SUFFICES ASSUME SInv PROVE RulesAreSound
    OBVIOUS
  <2>1. PICK rules, m : rules = ComputeRules(ts, external) /\ m = rules.map
    OBVIOUS
  <2>2. InSpaces(ts) /\ Asserted(ts) /\ IsValued(ts)
    BY ValuedAsserted DEF SInv, IsValued
  <2>3. /\ Sound(rules, ts, external) /\ rules.zero = FALSE
        /\ \A t \in ToSet(Overlaps(ts)) : Covered(rules, external, t)
    BY <2>1, <2>2, RulesSound, RulesCarry
  <2>4. \A i \in DOMAIN m :
          /\ i \in AllIndices(ts) \ external
          /\ m[i].space \subseteq i.space /\ SharedIn(ts, i, m[i].space)
          /\ m[i] \in AllIndices(ts) => m[i] \in external /\ Joined(ts, i, m[i])
          /\ \A j \in DOMAIN m : m[i] = m[j] => Joined(ts, i, j)
    BY <2>1, <2>2, <2>3, IssuedIsNew DEF Sound, IsImage
  <2>5. \A t \in ToSet(Overlaps(ts)) : \A i \in IndicesOf(t) \ external :
          i \in DOMAIN m /\ m[i].space \subseteq Common(t)
    BY <2>1, <2>3 DEF Covered, Placed
  <2>. QED
    BY <2>1, <2>3, <2>4, <2>5 DEF RulesAreSound
<1>. QED
  BY InitSInv, NextSInv, <1>1, PTL DEF Spec

(***************************************************************************)
(* zero_result is thrown for no product that has values.                   *)
(***************************************************************************)
THEOREM NoValuesLost == Spec /\ HasValues(ts) => [][ReducePass => c' = c]_vars
<1>1. SInv /\ [Next]_vars => [ReducePass => c' = c]_vars
  <2>. SUFFICES ASSUME SInv, ReducePass PROVE c' = c
    OBVIOUS
  <2>1. PICK rules, after : rules = ComputeRules(ts, external) /\ Reduced(rules, after)
    BY DEF ReducePass
  <2>2. rules.zero = FALSE
    BY <2>1, RulesCarry DEF SInv
  <2>. QED
    BY <2>1, <2>2 DEF Reduced, Becomes
<1>. QED
  BY InitSInv, NextSInv, <1>1, PTL DEF Spec
=============================================================================
