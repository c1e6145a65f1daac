---------------------------- MODULE DataInduction ----------------------------
(***************************************************************************)
(* Induction over data, with a set in the place of the predicate: lemmas   *)
(* with which what a recursive function computes can be proved.            *)
(***************************************************************************)
EXTENDS Integers, FiniteSets, FiniteSetTheorems, WellFoundedInduction, TLAPS

LEMMA SetInduction ==
  ASSUME NEW T \in SUBSET Nat, 0 \in T, \A k \in T : k + 1 \in T
  PROVE  T = Nat
<1>. SUFFICES ASSUME T # Nat
              PROVE  FALSE
  OBVIOUS
<1>. DEFINE R == {p \in Nat \X Nat : p[1] < p[2]}
<1>1. IsWellFoundedOn(R, Nat)
  <2>1. R = OpToRel(<, Nat)
    BY Zenon DEF OpToRel
  <2>. QED
    BY NatLessThanWellFounded, <2>1, Zenon
<1>2. PICK x \in Nat \ T : \A y \in Nat \ T : ~(<<y, x>> \in R)
  <2>1. Nat \ T \subseteq Nat /\ Nat \ T # {}
    OBVIOUS
  <2>. HIDE DEF R
  <2>. QED
    BY <1>1, <2>1, WFMin
<1>3. x # 0 /\ x - 1 \in Nat /\ x - 1 < x
  OBVIOUS
<1>4. x - 1 \in T
  BY <1>2, <1>3
<1>. QED
  BY <1>3, <1>4

LEMMA IntervalInduction ==
  ASSUME NEW n \in Nat, NEW T, 0 \in T, \A k \in 0..(n - 1) : k \in T => k + 1 \in T
  PROVE  \A k \in 0..n : k \in T
<1>. DEFINE S == {k \in Nat : k <= n => k \in T}
<1>1. S \in SUBSET Nat /\ 0 \in S
  OBVIOUS
<1>2. ASSUME NEW k \in S
      PROVE  k + 1 \in S
  <2>1. CASE k + 1 <= n
    <3>1. k \in 0..(n - 1) /\ k \in T
      BY <2>1
    <3>. QED
      BY <3>1
  <2>2. CASE ~(k + 1 <= n)
    BY <2>2
  <2>. QED
    BY <2>1, <2>2
<1>3. S = Nat
  <2>. HIDE DEF S
  <2>. QED
    BY <1>1, <1>2, SetInduction
<1>. QED
  BY <1>3

-----------------------------------------------------------------------------
(***************************************************************************)
(* Cardinalities.                                                          *)
(***************************************************************************)
LEMMA DisjointUnion ==
  ASSUME NEW S, NEW T, IsFiniteSet(S), IsFiniteSet(T), S \cap T = {}
  PROVE  /\ IsFiniteSet(S \cup T)
         /\ Cardinality(S \cup T) = Cardinality(S) + Cardinality(T)
         /\ Cardinality(S) \in Nat /\ Cardinality(T) \in Nat
<1>1. Cardinality(S) \in Nat /\ Cardinality(T) \in Nat
  BY FS_CardinalityType
<1>2. /\ IsFiniteSet(S \cup T)
      /\ Cardinality(S \cup T) = Cardinality(S) + Cardinality(T) - Cardinality(S \cap T)
  BY FS_Union
<1>3. Cardinality(S \cap T) = 0
  BY FS_EmptySet
<1>. QED
  BY <1>1, <1>2, <1>3

LEMMA TimesOne ==
  ASSUME NEW S, IsFiniteSet(S), NEW x
  PROVE  IsFiniteSet(S \X {x}) /\ Cardinality(S \X {x}) = Cardinality(S)
<1>1. IsFiniteSet({x}) /\ Cardinality({x}) = 1
  BY FS_Singleton
<1>2. /\ IsFiniteSet(S \X {x})
      /\ Cardinality(S \X {x}) = Cardinality(S) * Cardinality({x})
  BY <1>1, FS_Product
<1>3. Cardinality(S) \in Nat
  BY FS_CardinalityType
<1>. QED
  BY <1>1, <1>2, <1>3

-----------------------------------------------------------------------------
(***************************************************************************)
(* Sums over finite sets, as the folds of the community modules compute    *)
(* them: u[s] is the sum of f over the subset s of S.                      *)
(***************************************************************************)
IsSum(u, S, f) ==
  u = [s \in SUBSET S |->
         IF s = {} THEN 0
         ELSE f[CHOOSE x \in s : TRUE] + u[s \ {CHOOSE x \in s : TRUE}]]

LEMMA SubsetInduction ==
  ASSUME NEW S, IsFiniteSet(S), NEW T, {} \in T,
         \A s \in SUBSET S : s # {} /\ (\A x \in s : s \ {x} \in T) => s \in T
  PROVE  \A s \in SUBSET S : s \in T
<1>. DEFINE n == Cardinality(S)
            R == {k \in 0..n : \A s \in SUBSET S : Cardinality(s) = k => s \in T}
<1>1. n \in Nat
  BY FS_CardinalityType
<1>2. \A s \in SUBSET S : IsFiniteSet(s) /\ Cardinality(s) \in 0..n
  BY <1>1, FS_Subset, FS_CardinalityType
<1>. HIDE DEF n
<1>3. 0 \in R
  <2>1. \A s \in SUBSET S : Cardinality(s) = 0 => s \in T
    BY <1>2, FS_EmptySet
  <2>2. 0 \in 0..n
    BY <1>1
  <2>. QED
    BY <2>1, <2>2
<1>4. ASSUME NEW k \in 0..(n - 1), k \in R
      PROVE  k + 1 \in R
  <2>0. k \in Nat /\ k + 1 # 0 /\ (k + 1) - 1 = k
    BY <1>1
  <2>1. ASSUME NEW s \in SUBSET S, Cardinality(s) = k + 1
        PROVE  s \in T
    <3>1. s # {}
      BY <2>0, <2>1, FS_EmptySet
    <3>2. ASSUME NEW x \in s
          PROVE  s \ {x} \in T
      <4>1. IsFiniteSet(s)
        BY <1>2
      <4>2. Cardinality(s \ {x}) = Cardinality(s) - 1
        BY <3>2, <4>1, FS_RemoveElement
      <4>3. Cardinality(s \ {x}) = k
        BY <2>0, <2>1, <4>2
      <4>. QED
        BY <1>4, <4>3
    <3>. QED
      BY <3>1, <3>2
  <2>. QED
    BY <1>1, <2>1
<1>. HIDE DEF R
<1>5. \A k \in 0..n : k \in R
  BY <1>1, <1>3, <1>4, IntervalInduction
<1>. QED
  BY <1>2, <1>5 DEF R, n

LEMMA SumExists ==
  ASSUME NEW S, IsFiniteSet(S), NEW f
  PROVE  \E u : IsSum(u, S, f)
<1>. DEFINE n == Cardinality(S)
            c(s) == CHOOSE x \in s : TRUE
            Next(u) == [s \in SUBSET S |-> IF s = {} THEN 0 ELSE f[c(s)] + u[s \ {c(s)}]]
            IsSumTo(u, k) == \A s \in SUBSET S : Cardinality(s) <= k => u[s] = Next(u)[s]
            R == {k \in 0..n : \E u : IsSumTo(u, k)}
<1>1. n \in Nat /\ \A s \in SUBSET S : IsFiniteSet(s) /\ Cardinality(s) \in 0..n
  BY FS_Subset, FS_CardinalityType
<1>2. \A u : \A s \in SUBSET S :
        Next(u)[s] = IF s = {} THEN 0 ELSE f[c(s)] + u[s \ {c(s)}]
  OBVIOUS
<1>3. \A s \in SUBSET S : s # {} =>
        /\ c(s) \in s /\ s \ {c(s)} \in SUBSET S
        /\ Cardinality(s \ {c(s)}) = Cardinality(s) - 1
  <2>. SUFFICES ASSUME NEW s \in SUBSET S, s # {}
                PROVE  /\ c(s) \in s /\ s \ {c(s)} \in SUBSET S
                       /\ Cardinality(s \ {c(s)}) = Cardinality(s) - 1
    OBVIOUS
  <2>1. c(s) \in s
    OBVIOUS
  <2>. HIDE DEF c
  <2>. QED
    BY <1>1, <2>1, FS_RemoveElement
<1>. HIDE DEF Next, c
<1>4. 0 \in R
  <2>. DEFINE u == [s \in SUBSET S |-> 0]
  <2>1. \A s \in SUBSET S : Cardinality(s) <= 0 => s = {}
    BY <1>1, FS_EmptySet
  <2>2. \A s \in SUBSET S : u[s] = 0
    OBVIOUS
  <2>. HIDE DEF u
  <2>3. IsSumTo(u, 0)
    BY <1>2, <2>1, <2>2
  <2>. QED
    BY <1>1, <2>3
<1>5. ASSUME NEW k \in 0..(n - 1), k \in R
      PROVE  k + 1 \in R
  <2>1. PICK u : IsSumTo(u, k)
    BY <1>5
  <2>2. ASSUME NEW s \in SUBSET S, Cardinality(s) <= k + 1
        PROVE  Next(u)[s] = Next(Next(u))[s]
    <3>1. CASE s = {}
      BY <1>2, <3>1
    <3>2. CASE s # {}
      <4>1. s \ {c(s)} \in SUBSET S /\ Cardinality(s \ {c(s)}) <= k
        BY <1>1, <1>3, <2>2, <3>2
      <4>2. u[s \ {c(s)}] = Next(u)[s \ {c(s)}]
        BY <2>1, <4>1
      <4>. QED
        BY <1>2, <3>2, <4>2
    <3>. QED
      BY <3>1, <3>2
  <2>3. IsSumTo(Next(u), k + 1)
    BY <2>2
  <2>. QED
    BY <1>1, <2>3
<1>. HIDE DEF R
<1>6. n \in R
  BY <1>1, <1>4, <1>5, IntervalInduction
<1>7. PICK u : IsSumTo(u, n)
  BY <1>6 DEF R
<1>8. Next(u) = Next(Next(u))
  <2>1. \A s \in SUBSET S : s # {} => u[s \ {c(s)}] = Next(u)[s \ {c(s)}]
    BY <1>1, <1>3, <1>7
  <2>. QED
    BY <2>1 DEF Next
<1>9. IsSum(Next(u), S, f)
  <2>. DEFINE v == Next(u)
  <2>1. v = Next(v)
    BY <1>8
  <2>. HIDE DEF v
  <2>2. IsSum(v, S, f)
    BY <2>1, Zenon DEF IsSum, Next, c
  <2>. QED
    BY <2>2 DEF v
<1>. QED
  BY <1>9

LEMMA SumOfOnes ==
  ASSUME NEW S, IsFiniteSet(S), NEW f, \A x \in S : f[x] = 1, NEW u, IsSum(u, S, f)
  PROVE  u[S] = Cardinality(S)
<1>. DEFINE c(s) == CHOOSE x \in s : TRUE
            T == {s \in SUBSET S : u[s] = Cardinality(s)}
<1>1. \A s \in SUBSET S : u[s] = IF s = {} THEN 0 ELSE f[c(s)] + u[s \ {c(s)}]
  BY DEF IsSum
<1>2. \A s \in SUBSET S : s # {} => c(s) \in s
  OBVIOUS
<1>. HIDE DEF c
<1>3. {} \in T
  BY <1>1, FS_EmptySet
<1>4. ASSUME NEW s \in SUBSET S, s # {}, \A x \in s : s \ {x} \in T
      PROVE  s \in T
  <2>1. /\ IsFiniteSet(s) /\ Cardinality(s) \in Nat
        /\ Cardinality(s \ {c(s)}) = Cardinality(s) - 1
    BY <1>2, <1>4, FS_Subset, FS_CardinalityType, FS_RemoveElement
  <2>2. u[s] = 1 + Cardinality(s \ {c(s)})
    BY <1>1, <1>2, <1>4
  <2>. QED
    BY <2>1, <2>2
<1>. HIDE DEF T
<1>5. S \in T
  BY <1>3, <1>4, SubsetInduction
<1>. QED
  BY <1>5 DEF T

\* the sum of f over S
SumOver(f, S) == (CHOOSE u : IsSum(u, S, f))[S]

LEMMA SumUnique ==
  ASSUME NEW s, IsFiniteSet(s), NEW R, NEW S, s \subseteq R, s \subseteq S,
         NEW f, NEW g, \A x \in s : f[x] = g[x],
         NEW u, NEW v, IsSum(u, R, f), IsSum(v, S, g)
  PROVE  u[s] = v[s]
<1>. DEFINE c(r) == CHOOSE x \in r : TRUE
            T == {r \in SUBSET s : u[r] = v[r]}
<1>1. /\ \A r \in SUBSET s : u[r] = IF r = {} THEN 0 ELSE f[c(r)] + u[r \ {c(r)}]
      /\ \A r \in SUBSET s : v[r] = IF r = {} THEN 0 ELSE g[c(r)] + v[r \ {c(r)}]
  BY DEF IsSum
<1>2. \A r \in SUBSET s : r # {} => c(r) \in r
  OBVIOUS
<1>. HIDE DEF c
<1>3. {} \in T
  BY <1>1
<1>4. ASSUME NEW r \in SUBSET s, r # {}, \A x \in r : r \ {x} \in T
      PROVE  r \in T
  <2>1. c(r) \in r /\ u[r \ {c(r)}] = v[r \ {c(r)}]
    BY <1>2, <1>4
  <2>2. u[r] = v[r]
    BY <1>1, <1>4, <2>1
  <2>. QED
    BY <2>2
<1>. HIDE DEF T
<1>5. s \in T
  BY <1>3, <1>4, SubsetInduction
<1>. QED
  BY <1>5 DEF T

LEMMA SumOverIs ==
  ASSUME NEW S, IsFiniteSet(S), NEW f, NEW u, IsSum(u, S, f)
  PROVE  u[S] = SumOver(f, S)
<1>1. IsSum(CHOOSE w : IsSum(w, S, f), S, f)
  BY SumExists
<1>. QED
  BY <1>1, SumUnique DEF SumOver

LEMMA SumOverSame ==
  ASSUME NEW S, IsFiniteSet(S), NEW f, NEW g, \A x \in S : f[x] = g[x]
  PROVE  SumOver(f, S) = SumOver(g, S)
<1>1. PICK u, v : IsSum(u, S, f) /\ IsSum(v, S, g)
  BY SumExists
<1>2. u[S] = v[S]
  BY <1>1, SumUnique
<1>. QED
  BY <1>1, <1>2, SumOverIs

\* the sum does not depend on the order in which its elements are taken
LEMMA SumOverRemove ==
  ASSUME NEW S, IsFiniteSet(S), NEW f, \A x \in S : f[x] \in Int
  PROVE  /\ SumOver(f, {}) = 0
         /\ SumOver(f, S) \in Int
         /\ \A x \in S : SumOver(f, S) = f[x] + SumOver(f, S \ {x})
<1>. DEFINE c(s) == CHOOSE x \in s : TRUE
            F(s) == SumOver(f, s)
            I == {s \in SUBSET S : F(s) \in Int}
            T == {s \in SUBSET S : \A x \in s : F(s) = f[x] + F(s \ {x})}
<1>1. \A s \in SUBSET S : F(s) = IF s = {} THEN 0 ELSE f[c(s)] + F(s \ {c(s)})
  <2>. SUFFICES ASSUME NEW s \in SUBSET S
                PROVE  F(s) = IF s = {} THEN 0 ELSE f[c(s)] + F(s \ {c(s)})
    OBVIOUS
  <2>1. IsFiniteSet(s) /\ IsFiniteSet(s \ {c(s)})
    BY FS_Subset
  <2>2. PICK u, v : IsSum(u, s, f) /\ IsSum(v, s \ {c(s)}, f)
    BY <2>1, SumExists
  <2>3. u[s] = F(s) /\ v[s \ {c(s)}] = F(s \ {c(s)})
    BY <2>1, <2>2, SumOverIs
  <2>4. u[s \ {c(s)}] = v[s \ {c(s)}]
    <3>. DEFINE r == s \ {c(s)}
    <3>1. IsFiniteSet(r) /\ r \subseteq s /\ IsSum(u, s, f) /\ IsSum(v, r, f)
      BY <2>1, <2>2
    <3>. HIDE DEF r
    <3>2. u[r] = v[r]
      BY <3>1, SumUnique
    <3>. QED
      BY <3>2 DEF r
  <2>5. u[s] = IF s = {} THEN 0 ELSE f[c(s)] + u[s \ {c(s)}]
    BY <2>2 DEF IsSum
  <2>. QED
    BY <2>3, <2>4, <2>5
<1>2. \A s \in SUBSET S : s # {} => c(s) \in s
  OBVIOUS
<1>. HIDE DEF c, F
<1>3. \A s \in SUBSET S : F(s) \in Int
  <2>0. F({}) = 0
    <3>1. {} \in SUBSET S
      OBVIOUS
    <3>. QED
      BY <1>1, <3>1
  <2>1. {} \in I
    BY <2>0
  <2>2. ASSUME NEW s \in SUBSET S, s # {}, \A x \in s : s \ {x} \in I
        PROVE  s \in I
    <3>1. c(s) \in s /\ f[c(s)] \in Int /\ F(s \ {c(s)}) \in Int
      BY <1>2, <2>2
    <3>. QED
      BY <1>1, <2>2, <3>1
  <2>. HIDE DEF I
  <2>3. \A s \in SUBSET S : s \in I
    BY <2>1, <2>2, SubsetInduction
  <2>. QED
    BY <2>3 DEF I
<1>4. {} \in T
  OBVIOUS
<1>5. ASSUME NEW s \in SUBSET S, s # {}, \A x \in s : s \ {x} \in T
      PROVE  s \in T
  <2>1. c(s) \in s /\ F(s) = f[c(s)] + F(s \ {c(s)})
    BY <1>1, <1>2, <1>5
  <2>2. ASSUME NEW x \in s, x # c(s)
        PROVE  F(s) = f[x] + F(s \ {x})
    <3>. DEFINE d == (s \ {x}) \ {c(s)}
    <3>1. x \in s \ {c(s)} /\ c(s) \in s \ {x} /\ (s \ {c(s)}) \ {x} = d
      BY <2>1, <2>2
    <3>2. F(s \ {c(s)}) = f[x] + F(d)
      BY <1>5, <2>1, <3>1
    <3>3. F(s \ {x}) = f[c(s)] + F(d)
      BY <1>5, <2>2, <3>1
    <3>4. F(d) \in Int /\ f[x] \in Int /\ f[c(s)] \in Int
      BY <1>3, <2>1, <2>2
    <3>. QED
      BY <2>1, <3>2, <3>3, <3>4
  <2>. QED
    BY <2>1, <2>2
<1>. HIDE DEF T, I
<1>6. \A s \in SUBSET S : s \in T
  BY <1>4, <1>5, SubsetInduction
<1>. QED
  BY <1>1, <1>3, <1>6 DEF T, F

LEMMA SumOverAdd ==
  ASSUME NEW S, IsFiniteSet(S), NEW x, x \notin S, NEW f,
         f[x] \in Int, \A y \in S : f[y] \in Int
  PROVE  /\ SumOver(f, S \cup {x}) = SumOver(f, S) + f[x]
         /\ SumOver(f, S) \in Int
<1>1. IsFiniteSet(S \cup {x})
  BY FS_AddElement
<1>2. (S \cup {x}) \ {x} = S /\ x \in S \cup {x}
  OBVIOUS
<1>3. \A y \in S \cup {x} : f[y] \in Int
  OBVIOUS
<1>. DEFINE U == S \cup {x}
<1>4. SumOver(f, U) = f[x] + SumOver(f, U \ {x})
  <2>. HIDE DEF U
  <2>1. IsFiniteSet(U) /\ x \in U /\ \A y \in U : f[y] \in Int
    BY <1>1, <1>2, <1>3 DEF U
  <2>. QED
    BY <2>1, SumOverRemove
<1>5. SumOver(f, S) \in Int
  BY SumOverRemove
<1>6. SumOver(f, U \ {x}) = SumOver(f, S)
  BY <1>2, Zenon
<1>7. SumOver(f, U) = SumOver(f, S) + f[x]
  <2>. HIDE DEF U
  <2>. QED
    BY <1>4, <1>5, <1>6
<1>. QED
  BY <1>5, <1>7

\* what becomes of the sum when the value at x changes
LEMMA SumOverChange ==
  ASSUME NEW S, IsFiniteSet(S), NEW x \in S, NEW f, NEW g,
         \A y \in S : f[y] \in Int /\ g[y] \in Int,
         \A y \in S : y # x => g[y] = f[y]
  PROVE  SumOver(g, S) = (SumOver(f, S) - f[x]) + g[x]
<1>1. IsFiniteSet(S \ {x})
  BY FS_Subset
<1>2. SumOver(g, S \ {x}) = SumOver(f, S \ {x})
  BY <1>1, SumOverSame
<1>3. /\ SumOver(f, S) = f[x] + SumOver(f, S \ {x})
      /\ SumOver(g, S) = g[x] + SumOver(g, S \ {x})
  BY SumOverRemove
<1>4. SumOver(f, S \ {x}) \in Int
  BY <1>1, SumOverRemove
<1>. QED
  BY <1>2, <1>3, <1>4

\* counting the elements of a kind
LEMMA SumOverCounts ==
  ASSUME NEW S, IsFiniteSet(S), NEW f, \A x \in S : f[x] \in {0, 1}
  PROVE  SumOver(f, S) = Cardinality({x \in S : f[x] = 1})
<1>. DEFINE K(s) == {x \in s : f[x] = 1}
            T == {s \in SUBSET S : SumOver(f, s) = Cardinality(K(s))}
<1>1. {} \in T
  <2>1. SumOver(f, {}) = 0
    BY SumOverRemove
  <2>2. K({}) = {}
    OBVIOUS
  <2>. QED
    BY <2>1, <2>2, FS_EmptySet
<1>2. ASSUME NEW s \in SUBSET S, s # {}, \A x \in s : s \ {x} \in T
      PROVE  s \in T
  <2>1. PICK x \in s : TRUE
    BY <1>2
  <2>2. /\ IsFiniteSet(s) /\ IsFiniteSet(K(s)) /\ IsFiniteSet(s \ {x})
        /\ Cardinality(K(s)) \in Nat
    BY FS_Subset, FS_CardinalityType
  <2>3. /\ SumOver(f, s) = f[x] + SumOver(f, s \ {x})
        /\ SumOver(f, s \ {x}) = Cardinality(K(s \ {x}))
    BY <1>2, <2>1, <2>2, SumOverRemove
  <2>4. CASE f[x] = 1
    <3>1. K(s \ {x}) = K(s) \ {x} /\ x \in K(s)
      BY <2>1, <2>4
    <3>. HIDE DEF K
    <3>2. Cardinality(K(s) \ {x}) = Cardinality(K(s)) - 1
      BY <2>2, <3>1, FS_RemoveElement
    <3>3. SumOver(f, s \ {x}) = Cardinality(K(s)) - 1
      BY <2>3, <3>1, <3>2, Zenon
    <3>4. SumOver(f, s) = Cardinality(K(s))
      BY <2>2, <2>3, <2>4, <3>3
    <3>. QED
      BY <3>4
  <2>5. CASE f[x] = 0
    <3>1. K(s \ {x}) = K(s)
      BY <2>1, <2>5
    <3>. HIDE DEF K
    <3>2. SumOver(f, s) = Cardinality(K(s))
      BY <2>2, <2>3, <2>5, <3>1
    <3>. QED
      BY <3>2
  <2>. QED
    BY <2>1, <2>4, <2>5
<1>. HIDE DEF T, K
<1>3. \A s \in SUBSET S : s \in T
  BY <1>1, <1>2, SubsetInduction
<1>. QED
  BY <1>3 DEF T, K

\* sums over an interval
LEMMA SumOverInterval ==
  ASSUME NEW n \in Nat, NEW f, \A i \in 1..(n + 1) : f[i] \in Int
  PROVE  /\ SumOver(f, 1..(n + 1)) = SumOver(f, 1..n) + f[n + 1]
         /\ SumOver(f, 1..n) \in Int
<1>1. IsFiniteSet(1..n)
  BY FS_Interval
<1>2. /\ n + 1 \notin 1..n /\ 1..(n + 1) = (1..n) \cup {n + 1}
      /\ f[n + 1] \in Int /\ \A i \in 1..n : f[i] \in Int
  OBVIOUS
<1>. DEFINE S == 1..n
            x == n + 1
<1>3. SumOver(f, S \cup {x}) = SumOver(f, S) + f[x] /\ SumOver(f, S) \in Int
  <2>1. IsFiniteSet(S) /\ x \notin S /\ f[x] \in Int /\ \A i \in S : f[i] \in Int
    BY <1>1, <1>2
  <2>. HIDE DEF S, x
  <2>. QED
    BY <2>1, SumOverAdd
<1>. QED
  BY <1>2, <1>3, Zenon

LEMMA SumOverShift ==
  ASSUME NEW n \in Nat, NEW f, \A i \in 1..(n + 1) : f[i] \in Int,
         NEW g, \A i \in 1..n : g[i] = f[i + 1]
  PROVE  SumOver(f, 1..(n + 1)) = f[1] + SumOver(g, 1..n)
<1>. DEFINE P(k) == SumOver(f, 1..(k + 1)) = f[1] + SumOver(g, 1..k)
            T == {k \in 0..n : P(k)}
<1>1. 0 \in T
  <2>1. SumOver(f, 1..1) = SumOver(f, 1..0) + f[1]
    <3>1. \A i \in 1..(0 + 1) : f[i] \in Int
      OBVIOUS
    <3>2. SumOver(f, 1..(0 + 1)) = SumOver(f, 1..0) + f[0 + 1]
      BY <3>1, SumOverInterval
    <3>. QED
      BY <3>2
  <2>2. SumOver(f, {}) = 0 /\ SumOver(g, {}) = 0
    <3>1. \A x \in {} : f[x] \in Int /\ g[x] \in Int
      OBVIOUS
    <3>. QED
      BY <3>1, FS_EmptySet, SumOverRemove
  <2>3. 1..0 = {} /\ 0 + 1 = 1 /\ f[1] \in Int
    OBVIOUS
  <2>4. P(0)
    BY <2>1, <2>2, <2>3
  <2>. QED
    BY <2>4
<1>2. ASSUME NEW k \in 0..(n - 1), k \in T
      PROVE  k + 1 \in T
  <2>1. /\ k \in Nat /\ k + 1 \in Nat /\ k + 1 \in 0..n
        /\ \A i \in 1..((k + 1) + 1) : f[i] \in Int
        /\ \A i \in 1..(k + 1) : g[i] \in Int
        /\ g[k + 1] = f[(k + 1) + 1] /\ f[1] \in Int
    OBVIOUS
  <2>2. /\ SumOver(f, 1..((k + 1) + 1)) = SumOver(f, 1..(k + 1)) + f[(k + 1) + 1]
        /\ SumOver(f, 1..(k + 1)) \in Int
    BY <2>1, SumOverInterval
  <2>3. /\ SumOver(g, 1..(k + 1)) = SumOver(g, 1..k) + g[k + 1]
        /\ SumOver(g, 1..k) \in Int /\ g[k + 1] \in Int
    BY <2>1, SumOverInterval
  <2>4. SumOver(f, 1..(k + 1)) = f[1] + SumOver(g, 1..k)
    BY <1>2
  <2>5. P(k + 1)
    BY <2>1, <2>2, <2>3, <2>4
  <2>. QED
    BY <2>1, <2>5
<1>. HIDE DEF T
<1>3. n \in T
  BY <1>1, <1>2, IntervalInduction
<1>. QED
  BY <1>3 DEF T

-----------------------------------------------------------------------------
(***************************************************************************)
(* The largest element of a finite set.                                    *)
(***************************************************************************)
LEMMA LargestExists ==
  ASSUME NEW S \in SUBSET Int, IsFiniteSet(S), S # {}
  PROVE  \E x \in S : \A y \in S : x >= y
<1>. DEFINE T == {s \in SUBSET S : s # {} => \E x \in s : \A y \in s : x >= y}
<1>1. {} \in T
  OBVIOUS
<1>2. ASSUME NEW s \in SUBSET S, s # {}, \A x \in s : s \ {x} \in T
      PROVE  s \in T
  <2>1. PICK x \in s : TRUE
    BY <1>2
  <2>2. CASE s \ {x} = {}
    <3>1. \A y \in s : y = x
      BY <2>2
    <3>. QED
      BY <2>1, <3>1
  <2>3. CASE s \ {x} # {}
    <3>1. PICK z \in s \ {x} : \A y \in s \ {x} : z >= y
      BY <1>2, <2>1, <2>3
    <3>2. CASE z >= x
      <4>1. \A y \in s : z >= y
        BY <3>1, <3>2
      <4>. QED
        BY <3>1, <4>1
    <3>3. CASE x >= z
      <4>1. \A y \in s : x >= y
        BY <2>1, <3>1, <3>3
      <4>. QED
        BY <2>1, <4>1
    <3>. QED
      BY <2>1, <3>1, <3>2, <3>3
  <2>. QED
    BY <2>2, <2>3
<1>. HIDE DEF T
<1>3. S \in T
  BY <1>1, <1>2, SubsetInduction
<1>. QED
  BY <1>3 DEF T
=============================================================================
