------------------------- MODULE NormalOperatorProofs -------------------------
(***************************************************************************)
(* After any sequence of calls the first ncreators_ ops of a normal        *)
(* operator are its creators and the others its annihilators, and its      *)
(* Hugenholtz vertex, if it has one, is a vertex of its ops: for any types *)
(* of indices, any replacements of them and any number of ops.             *)
(***************************************************************************)
EXTENDS NormalOperator, SequenceTheorems, DataInduction, TLAPS

\* the ops s are n creators and then annihilators
Splits(s, n) ==
  /\ s \in Seq(Op) /\ n \in 0..Len(s)
  /\ \A i \in 1..Len(s) : IsCreator(s[i]) <=> i <= n

Inv == Splits(ops, ncreators)

-----------------------------------------------------------------------------
LEMMA TypesOfOps ==
  ASSUME NEW op \in Op
  PROVE  /\ op = [action |-> op.action, type |-> op.type]
         /\ op.type \in Types
         /\ IsCreator(op) <=> op.action # "annihilate"
  BY DEF Op, IsCreator

LEMMA DaggerProperties ==
  ASSUME NEW op \in Op
  PROVE  Dagger(op) \in Op /\ (IsCreator(Dagger(op)) <=> ~IsCreator(op))
  BY TypesOfOps DEF Op, Dagger, IsCreator

LEMMA OpsProperties ==
  ASSUME NEW ts \in Seq(Types), NEW action \in {"create", "annihilate"}
  PROVE  /\ Ops(action, ts) \in Seq(Op) /\ Len(Ops(action, ts)) = Len(ts)
         /\ \A i \in 1..Len(ts) : IsCreator(Ops(action, ts)[i]) <=> action = "create"
<1>1. Len(ts) \in Nat /\ \A i \in 1..Len(ts) : ts[i] \in Types
  BY ElementOfSeq, LenProperties
<1>2. \A i \in 1..Len(ts) : [action |-> action, type |-> ts[i]] \in Op
  BY <1>1 DEF Op
<1>3. Ops(action, ts) \in Seq(Op)
  BY <1>1, <1>2, IsASeq DEF Ops
<1>. QED
  BY <1>1, <1>3, LenProperties DEF Ops, IsCreator

LEMMA ReverseProperties ==
  ASSUME NEW S, NEW s \in Seq(S)
  PROVE  /\ Reverse(s) \in Seq(S) /\ Len(Reverse(s)) = Len(s)
         /\ \A i \in 1..Len(s) : Reverse(s)[i] = s[Len(s) - i + 1]
<1>1. Len(s) \in Nat /\ \A i \in 1..Len(s) : s[i] \in S
  BY ElementOfSeq, LenProperties
<1>2. \A i \in 1..Len(s) : s[(Len(s) - i) + 1] \in S
  BY <1>1
<1>3. Reverse(s) \in Seq(S)
  BY <1>1, <1>2, IsASeq DEF Reverse
<1>. QED
  BY <1>1, <1>3, LenProperties DEF Reverse

\* what is to the left of place i of a sequence, and what is right of place i - 1
LEMMA Beginning ==
  ASSUME NEW S, NEW s \in Seq(S), NEW i \in 1..(Len(s) + 1)
  PROVE  LET q == SubSeq(s, 1, i - 1)
         IN  /\ q \in Seq(S) /\ Len(q) = i - 1
             /\ \A k \in 1..(i - 1) : q[k] = s[k]
<1>1. Len(s) \in Nat /\ \A k \in 1..(i - 1) : s[k] \in S
  BY ElementOfSeq, LenProperties
<1>. QED
  BY <1>1, SubSeqProperties

LEMMA Rest ==
  ASSUME NEW S, NEW s \in Seq(S), NEW i \in 1..(Len(s) + 1)
  PROVE  LET q == SubSeq(s, i, Len(s))
         IN  /\ q \in Seq(S) /\ Len(q) = Len(s) - i + 1
             /\ \A k \in 1..(Len(s) - i + 1) : q[k] = s[i + k - 1]
<1>1. Len(s) \in Nat /\ \A k \in i..Len(s) : s[k] \in S
  BY ElementOfSeq, LenProperties
<1>. QED
  BY <1>1, SubSeqProperties

LEMMA RemoveAtProperties ==
  ASSUME NEW S, NEW s \in Seq(S), NEW i \in 1..Len(s)
  PROVE  LET q == RemoveAt(s, i)
         IN  /\ q \in Seq(S) /\ Len(q) = Len(s) - 1
             /\ \A k \in 1..(Len(s) - 1) : q[k] = IF k < i THEN s[k] ELSE s[k + 1]
<1>. DEFINE a == SubSeq(s, 1, i - 1)
            b == SubSeq(s, i + 1, Len(s))
<1>0. Len(s) \in Nat
  BY LenProperties
<1>1. /\ a \in Seq(S) /\ Len(a) = i - 1
      /\ \A k \in 1..(i - 1) : a[k] = s[k]
  BY <1>0, Beginning
<1>2. /\ b \in Seq(S) /\ Len(b) = Len(s) - i
      /\ \A k \in 1..(Len(s) - i) : b[k] = s[i + k]
  <2>1. i + 1 \in 1..(Len(s) + 1)
    BY <1>0
  <2>. HIDE DEF b
  <2>2. /\ b \in Seq(S) /\ Len(b) = Len(s) - (i + 1) + 1
        /\ \A k \in 1..(Len(s) - (i + 1) + 1) : b[k] = s[(i + 1) + k - 1]
    BY <2>1, Rest DEF b
  <2>. QED
    BY <2>2, <1>0
<1>3. RemoveAt(s, i) = a \o b
  BY DEF RemoveAt
<1>. HIDE DEF a, b
<1>4. /\ a \o b \in Seq(S) /\ Len(a \o b) = Len(a) + Len(b)
      /\ \A k \in 1..(Len(a) + Len(b)) :
           (a \o b)[k] = IF k <= Len(a) THEN a[k] ELSE b[k - Len(a)]
  BY <1>1, <1>2, ConcatProperties
<1>. QED
  BY <1>0, <1>1, <1>2, <1>3, <1>4

LEMMA InsertAtProperties ==
  ASSUME NEW S, NEW s \in Seq(S), NEW i \in 1..(Len(s) + 1), NEW e \in S
  PROVE  /\ InsertAt(s, i, e) \in Seq(S) /\ Len(InsertAt(s, i, e)) = Len(s) + 1
         /\ \A k \in 1..(Len(s) + 1) :
              InsertAt(s, i, e)[k] = IF k < i THEN s[k] ELSE IF k = i THEN e ELSE s[k - 1]
<1>. DEFINE a == SubSeq(s, 1, i - 1)
            b == SubSeq(s, i, Len(s))
<1>0. Len(s) \in Nat
  BY LenProperties
<1>1. /\ a \in Seq(S) /\ Len(a) = i - 1
      /\ \A k \in 1..(i - 1) : a[k] = s[k]
  BY <1>0, Beginning
<1>2. /\ b \in Seq(S) /\ Len(b) = Len(s) - i + 1
      /\ \A k \in 1..(Len(s) - i + 1) : b[k] = s[i + k - 1]
  BY <1>0, Rest
<1>3. InsertAt(s, i, e) = (a \o <<e>>) \o b
  BY DEF InsertAt
<1>. HIDE DEF a, b
<1>. DEFINE c == a \o <<e>>
<1>4. /\ c \in Seq(S) /\ Len(c) = i
      /\ \A k \in 1..i : c[k] = IF k < i THEN s[k] ELSE e
  <2>1. <<e>> \in Seq(S) /\ Len(<<e>>) = 1 /\ <<e>>[1] = e
    OBVIOUS
  <2>2. /\ a \o <<e>> \in Seq(S) /\ Len(a \o <<e>>) = Len(a) + 1
        /\ \A k \in 1..(Len(a) + 1) :
             (a \o <<e>>)[k] = IF k <= Len(a) THEN a[k] ELSE <<e>>[k - Len(a)]
    BY <1>1, <2>1, ConcatProperties
  <2>3. c \in Seq(S) /\ Len(c) = i
    BY <1>0, <1>1, <2>1, <2>2
  <2>4. ASSUME NEW k \in 1..i PROVE c[k] = IF k < i THEN s[k] ELSE e
    <3>1. k \in 1..(Len(a) + 1) /\ (k <= Len(a) <=> k < i) /\ (~(k < i) => k - Len(a) = 1)
      BY <1>0, <1>1
    <3>2. k < i => k \in 1..(i - 1)
      BY <1>0
    <3>. QED
      BY <1>1, <2>1, <2>2, <3>1, <3>2
  <2>. QED
    BY <2>3, <2>4
<1>. HIDE DEF c
<1>5. /\ c \o b \in Seq(S) /\ Len(c \o b) = Len(c) + Len(b)
      /\ \A k \in 1..(Len(c) + Len(b)) :
           (c \o b)[k] = IF k <= Len(c) THEN c[k] ELSE b[k - Len(c)]
  BY <1>2, <1>4, ConcatProperties
<1>6. InsertAt(s, i, e) = c \o b
  BY <1>3 DEF c
<1>. QED
  BY <1>0, <1>2, <1>4, <1>5, <1>6

-----------------------------------------------------------------------------
LEMMA InvInit == Init => Inv
<1>. SUFFICES ASSUME NEW cre \in SeqOf(Types, MaxOps), NEW ann \in SeqOf(Types, MaxOps),
                     ops = Ops("create", cre) \o Ops("annihilate", Reverse(ann)),
                     ncreators = Len(cre)
              PROVE  Inv
  BY DEF Init
<1>1. cre \in Seq(Types) /\ ann \in Seq(Types)
  BY NormalOperatorAssumption, IsASeq DEF SeqOf
<1>2. Reverse(ann) \in Seq(Types)
  BY <1>1, ReverseProperties
<1>. DEFINE c == Ops("create", cre)
            a == Ops("annihilate", Reverse(ann))
<1>3. /\ c \in Seq(Op) /\ Len(c) = Len(cre)
      /\ \A i \in 1..Len(cre) : IsCreator(c[i])
  BY <1>1, OpsProperties
<1>4. /\ a \in Seq(Op)
      /\ \A i \in 1..Len(a) : ~IsCreator(a[i])
  BY <1>2, OpsProperties
<1>5. Len(c) \in Nat /\ Len(a) \in Nat
  BY <1>3, <1>4, LenProperties
<1>. HIDE DEF c, a
<1>6. /\ c \o a \in Seq(Op) /\ Len(c \o a) = Len(c) + Len(a)
      /\ \A i \in 1..(Len(c) + Len(a)) :
           (c \o a)[i] = IF i <= Len(c) THEN c[i] ELSE a[i - Len(c)]
  BY <1>3, <1>4, ConcatProperties
<1>7. ops = c \o a
  BY DEF c, a
<1>8. ASSUME NEW i \in 1..(Len(c) + Len(a)) PROVE IsCreator(ops[i]) <=> i <= Len(c)
  <2>1. CASE i > Len(c)
    <3>1. i - Len(c) \in 1..Len(a)
      BY <1>5, <2>1
    <3>2. ~IsCreator(a[i - Len(c)]) /\ ops[i] = a[i - Len(c)]
      BY <1>4, <1>5, <1>6, <1>7, <2>1, <3>1
    <3>3. ~(i <= Len(c))
      BY <1>5, <2>1
    <3>. QED
      BY <3>2, <3>3
  <2>2. CASE i <= Len(c)
    <3>1. IsCreator(c[i])
      BY <1>3, <1>5, <2>2
    <3>2. ops[i] = c[i]
      BY <1>6, <1>7, <2>2
    <3>. QED
      BY <2>2, <3>1, <3>2
  <2>3. i > Len(c) \/ i <= Len(c)
    BY <1>5
  <2>. QED
    BY <2>1, <2>2, <2>3
<1>9. ops \in Seq(Op) /\ Len(ops) = Len(c) + Len(a) /\ ncreators = Len(c)
  BY <1>3, <1>6, <1>7
<1>. QED
  BY <1>5, <1>8, <1>9 DEF Inv, Splits

LEMMA InvStep == Inv /\ [Next]_vars => Inv'
<1>. SUFFICES ASSUME Inv, [Next]_vars PROVE Inv'
  OBVIOUS
<1>0. /\ ops \in Seq(Op) /\ Len(ops) \in Nat /\ ncreators \in 0..Len(ops)
      /\ DOMAIN ops = 1..Len(ops)
      /\ \A i \in 1..Len(ops) : ops[i] \in Op
      /\ \A i \in 1..Len(ops) : IsCreator(ops[i]) <=> i <= ncreators
  BY LenProperties, ElementOfSeq DEF Inv, Splits
<1>1. CASE Hug
  BY <1>1 DEF Hug, Inv, Splits
<1>2. ASSUME NEW i \in DOMAIN ops, EraseAt(i) PROVE Inv'
  <2>1. /\ ops' \in Seq(Op) /\ Len(ops') = Len(ops) - 1
        /\ \A k \in 1..(Len(ops) - 1) :
             ops'[k] = IF k < i THEN ops[k] ELSE ops[k + 1]
    BY <1>0, <1>2, RemoveAtProperties DEF EraseAt
  <2>2. ncreators' = IF i <= ncreators THEN ncreators - 1 ELSE ncreators
    BY <1>0, <1>2 DEF EraseAt
  <2>3. ASSUME NEW k \in 1..(Len(ops) - 1) PROVE IsCreator(ops'[k]) <=> k <= ncreators'
    BY <1>0, <2>1, <2>2
  <2>. QED
    BY <1>0, <2>1, <2>2, <2>3 DEF Inv, Splits
<1>3. ASSUME NEW i \in 1..(Len(ops) + 1), NEW op \in Op, InsertAtPlace(i, op) PROVE Inv'
  <2>1. /\ ops' \in Seq(Op) /\ Len(ops') = Len(ops) + 1
        /\ \A k \in 1..(Len(ops) + 1) :
             ops'[k] = IF k < i THEN ops[k] ELSE IF k = i THEN op ELSE ops[k - 1]
    <3>1. ops' = InsertAt(ops, i, op)
      BY <1>3 DEF InsertAtPlace
    <3>. DEFINE q == InsertAt(ops, i, op)
    <3>2. /\ q \in Seq(Op) /\ Len(q) = Len(ops) + 1
          /\ \A k \in 1..(Len(ops) + 1) :
               q[k] = IF k < i THEN ops[k] ELSE IF k = i THEN op ELSE ops[k - 1]
      BY <1>0, InsertAtProperties
    <3>. HIDE DEF q
    <3>3. ops' = q
      BY <3>1 DEF q
    <3>. QED
      BY <3>2, <3>3
  <2>2. ncreators' = IF IsCreator(op) THEN ncreators + 1 ELSE ncreators
    BY <1>3 DEF InsertAtPlace
  <2>3. DOMAIN ops' = 1..(Len(ops) + 1)
    BY <2>1, LenProperties
  <2>4. \A k, l \in 1..(Len(ops) + 1) :
          k < l /\ IsCreator(ops'[l]) => IsCreator(ops'[k])
    BY <1>3, <2>3 DEF InsertAtPlace, IsNormalOrdered
  \* a creator goes right of no annihilator, an annihilator left of no creator
  <2>5. IsCreator(op) => i <= ncreators + 1
    <3>. SUFFICES ASSUME IsCreator(op), i > ncreators + 1 PROVE FALSE
      BY <1>0
    <3>1. ~IsCreator(ops[ncreators + 1]) /\ ops'[ncreators + 1] = ops[ncreators + 1]
      BY <1>0, <2>1
    <3>2. ops'[i] = op
      BY <2>1
    <3>. QED
      BY <1>0, <2>4, <3>1, <3>2
  <2>6. ~IsCreator(op) => i >= ncreators + 1
    <3>. SUFFICES ASSUME ~IsCreator(op), i < ncreators + 1 PROVE FALSE
      BY <1>0
    <3>1. IsCreator(ops[ncreators]) /\ ops'[ncreators + 1] = ops[ncreators]
      BY <1>0, <2>1
    <3>2. ops'[i] = op
      BY <2>1
    <3>. QED
      BY <1>0, <2>4, <3>1, <3>2
  <2>7. ASSUME NEW k \in 1..(Len(ops) + 1) PROVE IsCreator(ops'[k]) <=> k <= ncreators'
    BY <1>0, <2>1, <2>2, <2>5, <2>6
  <2>. QED
    BY <1>0, <2>1, <2>2, <2>7 DEF Inv, Splits
<1>4. CASE Adjoint
  <2>1. /\ Reverse(ops) \in Seq(Op)
        /\ \A i \in 1..Len(ops) : /\ Reverse(ops)[i] = ops[Len(ops) - i + 1]
                                  /\ Reverse(ops)[i] \in Op
    BY <1>0, ReverseProperties
  <2>2. ops' = [i \in 1..Len(ops) |-> Dagger(Reverse(ops)[i])]
    BY <1>0, <1>4 DEF Adjoint
  <2>3. \A i \in 1..Len(ops) : Dagger(Reverse(ops)[i]) \in Op
    BY <2>1, DaggerProperties
  <2>4. ops' \in Seq(Op) /\ Len(ops') = Len(ops)
    BY <1>0, <2>2, <2>3, IsASeq, LenProperties
  <2>5. ASSUME NEW i \in 1..Len(ops)
        PROVE  IsCreator(ops'[i]) <=> i <= Len(ops) - ncreators
    <3>1. IsCreator(ops'[i]) <=> ~IsCreator(ops[Len(ops) - i + 1])
      BY <2>1, <2>2, DaggerProperties
    <3>. QED
      BY <1>0, <3>1
  <2>. QED
    BY <1>0, <1>4, <2>4, <2>5 DEF Adjoint, Inv, Splits
<1>5. CASE TransformIndices
  <2>1. PICK new \in [DOMAIN ops -> Types] :
          ops' = [i \in DOMAIN ops |-> [ops[i] EXCEPT !.type = new[i]]]
    BY <1>5 DEF TransformIndices
  <2>2. \A i \in 1..Len(ops) : /\ [ops[i] EXCEPT !.type = new[i]] \in Op
                               /\ IsCreator([ops[i] EXCEPT !.type = new[i]]) <=> IsCreator(ops[i])
    BY <1>0, TypesOfOps DEF Op, IsCreator
  <2>3. ops' \in Seq(Op) /\ Len(ops') = Len(ops)
    BY <1>0, <2>1, <2>2, IsASeq, LenProperties
  <2>. QED
    BY <1>0, <1>5, <2>1, <2>2, <2>3 DEF TransformIndices, Inv, Splits
<1>6. CASE UNCHANGED vars
  BY <1>6 DEF vars, Inv, Splits
<1>. QED
  BY <1>1, <1>2, <1>3, <1>4, <1>5, <1>6 DEF Next

\* creators() and annihilators() are what their names say, after any calls.
THEOREM CreatorsAreFirstCorrect == Spec => []CreatorsAreFirst
<1>1. Inv => CreatorsAreFirst
  <2>. SUFFICES ASSUME Inv, NEW i \in DOMAIN ops PROVE IsCreator(ops[i]) <=> i <= ncreators
    BY DEF CreatorsAreFirst
  <2>1. DOMAIN ops = 1..Len(ops)
    BY LenProperties DEF Inv, Splits
  <2>. QED
    BY <2>1 DEF Inv, Splits
<1>. QED
  BY <1>1, InvInit, InvStep, PTL DEF Spec

-----------------------------------------------------------------------------
(***************************************************************************)
(* The vertex.  It represents a sequence of ops if each op is in the group *)
(* of its edge, each group holds the ops that are in it, and no two groups *)
(* have the same edge.                                                     *)
(***************************************************************************)
Groups == [edge : Op, members : SUBSET Nat]

Distinct(groups) ==
  \A g, h \in 1..Len(groups) : groups[g].edge = groups[h].edge => g = h

Represents(v, s) ==
  /\ v \in Vertices(Op)
  /\ Len(v.edgeToGroup) = Len(s)
  /\ \A i \in 1..Len(s) : /\ v.edgeToGroup[i] \in 1..Len(v.groups)
                           /\ v.groups[v.edgeToGroup[i]].edge = s[i]
  /\ \A g \in 1..Len(v.groups) :
       v.groups[g].members = {i \in 1..Len(s) : v.edgeToGroup[i] = g}
  /\ Distinct(v.groups)

LEMMA GroupOfProperties ==
  ASSUME NEW v, Len(v.groups) \in Nat, Distinct(v.groups), NEW e
  PROVE  /\ GroupOf(v, e) \in 0..Len(v.groups)
         /\ \A g \in 1..Len(v.groups) : v.groups[g].edge = e <=> GroupOf(v, e) = g
<1>. DEFINE I == {g \in 1..Len(v.groups) : v.groups[g].edge = e}
<1>1. GroupOf(v, e) = IF I # {} THEN Min(I) ELSE 0
  BY Zenon DEF GroupOf, SelectInSeq
<1>2. ASSUME NEW g \in I
      PROVE  GroupOf(v, e) = g
  <2>1. I = {g}
    BY DEF Distinct
  <2>. HIDE DEF I
  <2>2. Min({g}) = g
    BY DEF Min
  <2>. QED
    BY <1>1, <2>1, <2>2
<1>3. I = {} => GroupOf(v, e) = 0
  BY <1>1
<1>4. GroupOf(v, e) \in 0..Len(v.groups)
  BY <1>2, <1>3
<1>5. ASSUME NEW g \in 1..Len(v.groups), GroupOf(v, e) = g
      PROVE  g \in I
  <2>1. I # {}
    BY <1>3, <1>5
  <2>2. PICK h \in I : TRUE
    BY <2>1
  <2>. QED
    BY <1>2, <1>5, <2>2
<1>. QED
  BY <1>2, <1>4, <1>5

\* i joined the group of e, number k, which may be new: groups q became r
Enrolled(q, r, k, i, e) ==
  /\ Len(q) \in Nat /\ r \in Seq(Groups) /\ Distinct(r)
  /\ k \in 1..Len(r) /\ k \in 1..(Len(q) + 1) /\ r[k].edge = e
  /\ Len(r) = IF k = Len(q) + 1 THEN Len(q) + 1 ELSE Len(q)
  /\ \A g \in 1..Len(q) : g # k => r[g] = q[g]
  /\ k \in 1..Len(q) => r[k].members = q[k].members \cup {i}
  /\ k = Len(q) + 1 => r[k].members = {i}
  /\ \A g \in 1..Len(q) : q[g].edge = e <=> g = k

LEMMA EnrolProperties ==
  ASSUME NEW v, v.groups \in Seq(Groups), Distinct(v.groups), NEW i \in Nat, NEW e \in Op
  PROVE  Enrolled(v.groups, Enrol(v, i, e), GroupFor(v, e), i, e)
<1>1. PICK q, r, k : q = v.groups /\ r = Enrol(v, i, e) /\ k = GroupFor(v, e)
  OBVIOUS
<1>0. PICK n : n = Len(q)
  OBVIOUS
<1>2. n \in Nat /\ q \in Seq(Groups) /\ Len(q) = n /\ \A g \in 1..n : q[g] \in Groups
  BY <1>0, <1>1, LenProperties, ElementOfSeq
<1>3. /\ GroupOf(v, e) \in 0..n
      /\ \A g \in 1..n : q[g].edge = e <=> GroupOf(v, e) = g
  BY <1>0, <1>1, <1>2, GroupOfProperties
<1>4. k = IF GroupOf(v, e) = 0 THEN n + 1 ELSE GroupOf(v, e)
  BY <1>0, <1>1 DEF GroupFor
<1>5. \A g, h \in 1..n : q[g].edge = q[h].edge => g = h
  BY <1>0, <1>1 DEF Distinct
<1>6. ASSUME GroupOf(v, e) = 0
      PROVE  /\ n \in Nat /\ r \in Seq(Groups) /\ Distinct(r)
             /\ k \in 1..Len(r) /\ k \in 1..(n + 1) /\ r[k].edge = e
             /\ Len(r) = IF k = n + 1 THEN n + 1 ELSE n
             /\ \A g \in 1..n : g # k => r[g] = q[g]
             /\ k \in 1..n => r[k].members = q[k].members \cup {i}
             /\ k = n + 1 => r[k].members = {i}
  <2>1. PICK c : c = [edge |-> e, members |-> {i}]
    OBVIOUS
  <2>2. c \in Groups /\ c.edge = e
    BY <2>1 DEF Groups
  <2>3. r = Append(q, c) /\ k = n + 1
    BY <1>1, <1>2, <1>4, <1>6, <2>1 DEF Enrol
  <2>4. /\ r \in Seq(Groups) /\ Len(r) = n + 1 /\ r[n + 1] = c
        /\ \A g \in 1..n : r[g] = q[g]
    BY <1>2, <2>2, <2>3, AppendProperties
  <2>5. Distinct(r)
    BY <1>2, <1>3, <1>5, <1>6, <2>2, <2>4 DEF Distinct
  <2>6. \A g \in 1..n : g # k
    BY <1>2, <2>3
  <2>. QED
    <3>1. k \in 1..Len(r) /\ k \in 1..(n + 1) /\ Len(r) = IF k = n + 1 THEN n + 1 ELSE n
      BY <1>2, <2>3, <2>4
    <3>2. k \notin 1..n /\ \A g \in 1..n : r[g] = q[g]
      BY <2>4, <2>6
    <3>3. r[k].members = {i} /\ r[k].edge = e
      BY <2>1, <2>3, <2>4
    <3>. QED
      BY <1>2, <2>4, <2>5, <3>1, <3>2, <3>3
<1>7. ASSUME GroupOf(v, e) # 0
      PROVE  /\ n \in Nat /\ r \in Seq(Groups) /\ Distinct(r)
             /\ k \in 1..Len(r) /\ k \in 1..(n + 1) /\ r[k].edge = e
             /\ Len(r) = IF k = n + 1 THEN n + 1 ELSE n
             /\ \A g \in 1..n : g # k => r[g] = q[g]
             /\ k \in 1..n => r[k].members = q[k].members \cup {i}
             /\ k = n + 1 => r[k].members = {i}
  <2>1. k \in 1..n /\ q[k].edge = e /\ k # n + 1 /\ GroupOf(v, e) = k
    BY <1>2, <1>3, <1>4, <1>7
  <2>2. PICK c : c = [edge |-> e, members |-> q[k].members \cup {i}]
    OBVIOUS
  <2>3. q[k] \in Groups /\ q[k] = [edge |-> e, members |-> q[k].members]
    BY <1>2, <2>1 DEF Groups
  <2>4. c \in Groups /\ c.edge = e
    BY <2>2, <2>3 DEF Groups
  <2>5. r = [q EXCEPT ![k] = c]
    <3>1. r = [q EXCEPT ![k].members = @ \cup {i}]
      BY <1>1, <1>7, <2>1 DEF Enrol
    <3>2. [q[k] EXCEPT !.members = @ \cup {i}] = c
      <4>1. PICK x, y : x = q[k] /\ y = [x EXCEPT !.members = @ \cup {i}]
        OBVIOUS
      <4>2. x \in Groups
        BY <2>3, <4>1
      <4>3. y \in Groups /\ y.edge = x.edge /\ y.members = x.members \cup {i}
        BY <4>1, <4>2 DEF Groups
      <4>4. y = [edge |-> y.edge, members |-> y.members]
        BY <4>3 DEF Groups
      <4>. QED
        BY <2>1, <2>2, <4>1, <4>3, <4>4
    <3>. QED
      BY <3>1, <3>2
  <2>6. /\ r \in Seq(Groups) /\ Len(r) = n
        /\ \A g \in 1..n : r[g] = IF g = k THEN c ELSE q[g]
    BY <1>2, <2>1, <2>4, <2>5, ExceptSeq
  <2>7. Distinct(r)
    BY <1>5, <2>1, <2>4, <2>6 DEF Distinct
  <2>. QED
    <3>1. k \in 1..Len(r) /\ k \in 1..(n + 1) /\ Len(r) = IF k = n + 1 THEN n + 1 ELSE n
      BY <1>2, <2>1, <2>6
    <3>2. \A g \in 1..n : g # k => r[g] = q[g]
      BY <2>6
    <3>3. r[k].edge = e /\ r[k].members = q[k].members \cup {i}
      BY <2>1, <2>2, <2>6
    <3>. QED
      BY <1>2, <2>1, <2>6, <2>7, <3>1, <3>2, <3>3
<1>8. /\ n \in Nat /\ r \in Seq(Groups) /\ Distinct(r)
      /\ k \in 1..Len(r) /\ k \in 1..(n + 1) /\ r[k].edge = e
      /\ Len(r) = IF k = n + 1 THEN n + 1 ELSE n
      /\ \A g \in 1..n : g # k => r[g] = q[g]
      /\ k \in 1..n => r[k].members = q[k].members \cup {i}
      /\ k = n + 1 => r[k].members = {i}
  BY <1>6, <1>7
<1>9. \A g \in 1..n : q[g].edge = e <=> g = k
  BY <1>2, <1>3, <1>4
<1>10. Enrolled(q, r, k, i, e)
  BY <1>0, <1>8, <1>9, Zenon DEF Enrolled
<1>. QED
  BY <1>1, <1>10

Lower(i, m) == IF m >= i THEN m - 1 ELSE m
Raise(i, m) == IF m >= i THEN m + 1 ELSE m

\* members of a group once element i was erased, or before one is put there
Lowered(i, M) == {Lower(i, m) : m \in M \ {i}}
Raised(i, M) == {Raise(i, m) : m \in M}

\* w is the vertex v after its edge i was erased
Erased(v, w, i) ==
  /\ w = [edgeToGroup |-> RemoveAt(v.edgeToGroup, i), groups |-> w.groups]
  /\ w.groups \in Seq(Groups) /\ Len(w.groups) = Len(v.groups) /\ Distinct(w.groups)
  /\ \A g \in 1..Len(v.groups) :
       /\ w.groups[g].edge = v.groups[g].edge
       /\ w.groups[g].members = Lowered(i, v.groups[g].members)

\* u is the vertex w after e was put before its edge i, in group k
Inserted(w, u, k, i, e) ==
  /\ u = [edgeToGroup |-> InsertAt(w.edgeToGroup, i, k), groups |-> u.groups]
  /\ u.groups \in Seq(Groups) /\ Distinct(u.groups) /\ Len(w.groups) \in Nat
  /\ k \in 1..Len(u.groups) /\ k \in 1..(Len(w.groups) + 1) /\ u.groups[k].edge = e
  /\ Len(u.groups) = IF k = Len(w.groups) + 1 THEN Len(w.groups) + 1 ELSE Len(w.groups)
  /\ \A g \in 1..Len(w.groups) :
       /\ u.groups[g].edge = w.groups[g].edge
       /\ u.groups[g].members
            = Raised(i, w.groups[g].members) \cup (IF g = k THEN {i} ELSE {})
  /\ k = Len(w.groups) + 1 => u.groups[k].members = {i}
  /\ \A g \in 1..Len(w.groups) : w.groups[g].edge = e <=> g = k

LEMMA EraseIs ==
  ASSUME NEW s, NEW v, Represents(v, s), Len(s) \in Nat, NEW i \in 1..Len(s)
  PROVE  Erased(v, Erase(v, i), i)
<1>w. PICK w : w = Erase(v, i)
  OBVIOUS
<1>1. PICK a, q, r : a = v.edgeToGroup /\ q = v.groups /\ r = w.groups
  OBVIOUS
<1>0. PICK n : n = Len(q)
  OBVIOUS
<1>2. /\ q \in Seq(Groups) /\ n \in Nat /\ DOMAIN q = 1..n /\ \A g \in 1..n : q[g] \in Groups
  BY <1>0, <1>1, LenProperties, ElementOfSeq DEF Represents, Vertices, Groups
<1>3. PICK own : own = a[i]
  OBVIOUS
<1>4. /\ own \in 1..n
      /\ \A g \in 1..n : i \in q[g].members => g = own
      /\ \A g \in 1..n : q[g].members \subseteq 1..Len(s)
  BY <1>0, <1>1, <1>3 DEF Represents
<1>5. PICK p : p = [q EXCEPT ![own].members = @ \ {i}]
  OBVIOUS
<1>6. /\ DOMAIN p = 1..n
      /\ \A g \in 1..n : p[g].edge = q[g].edge /\ p[g].members = q[g].members \ {i}
  <2>1. \A g \in 1..n : q[g].members = IF g = own THEN q[g].members ELSE q[g].members \ {i}
    BY <1>4
  <2>2. \A g \in 1..n : g # own => p[g] = q[g]
    BY <1>2, <1>4, <1>5
  <2>3. p[own].edge = q[own].edge /\ p[own].members = q[own].members \ {i}
    BY <1>2, <1>4, <1>5 DEF Groups
  <2>. QED
    BY <1>2, <1>5, <2>1, <2>2, <2>3
<1>7. w = [edgeToGroup |-> RemoveAt(a, i),
           groups |-> [g \in DOMAIN p |->
             [edge |-> p[g].edge, members |-> {Lower(i, m) : m \in p[g].members}]]]
  BY <1>w, <1>1, <1>3, <1>5 DEF Erase, Renumbered, Lower
<1>8. r = [g \in 1..n |-> [edge |-> q[g].edge, members |-> Lowered(i, q[g].members)]]
  <2>1. r = [g \in 1..n |->
               [edge |-> p[g].edge, members |-> {Lower(i, m) : m \in p[g].members}]]
    BY <1>1, <1>6, <1>7
  <2>2. ASSUME NEW g \in 1..n
        PROVE  {Lower(i, m) : m \in p[g].members} = Lowered(i, q[g].members)
    BY <1>6 DEF Lowered
  <2>. QED
    BY <1>6, <2>1, <2>2
<1>9. \A g \in 1..n : [edge |-> q[g].edge, members |-> Lowered(i, q[g].members)] \in Groups
  <2>. TAKE g \in 1..n
  <2>1. q[g].edge \in Op
    BY <1>2 DEF Groups
  <2>2. \A m \in q[g].members \ {i} : Lower(i, m) \in Nat
    BY <1>4 DEF Lower
  <2>. QED
    BY <2>1, <2>2 DEF Groups, Lowered
<1>10. r \in Seq(Groups) /\ Len(r) = n
  <2>1. r \in [1..n -> Groups]
    BY <1>8, <1>9
  <2>. QED
    BY <1>2, <2>1, LenProperties
<1>11. Distinct(r)
  BY <1>0, <1>1, <1>8, <1>10 DEF Represents, Distinct
<1>12. w = [edgeToGroup |-> RemoveAt(a, i), groups |-> r]
  BY <1>1, <1>7
<1>13. /\ Len(r) = Len(q)
       /\ \A g \in 1..Len(q) : r[g].edge = q[g].edge /\ r[g].members = Lowered(i, q[g].members)
  BY <1>0, <1>8, <1>10
<1>14. Erased(v, w, i)
  BY <1>1, <1>10, <1>11, <1>12, <1>13, Zenon DEF Erased
<1>. QED
  BY <1>w, <1>14

LEMMA InsertIs ==
  ASSUME NEW t, NEW w, Represents(w, t), Len(t) \in Nat, NEW i \in 1..(Len(t) + 1), NEW e \in Op
  PROVE  Inserted(w, Insert(w, i, e), GroupFor(w, e), i, e)
<1>1. PICK u, k, a, q : /\ u = Insert(w, i, e) /\ k = GroupFor(w, e)
                        /\ a = w.edgeToGroup /\ q = w.groups
  OBVIOUS
<1>0. PICK n, r : n = Len(q) /\ r = u.groups
  OBVIOUS
<1>2. /\ q \in Seq(Groups) /\ n \in Nat /\ DOMAIN q = 1..n /\ \A g \in 1..n : q[g] \in Groups
      /\ \A g \in 1..n : q[g].members \subseteq 1..Len(t)
  <2>1. q \in Seq(Groups)
    BY <1>1 DEF Represents, Vertices, Groups
  <2>2. n \in Nat /\ DOMAIN q = 1..n /\ \A g \in 1..n : q[g] \in Groups
    BY <1>0, <2>1, LenProperties, ElementOfSeq
  <2>3. \A g \in 1..n : q[g].members \subseteq 1..Len(t)
    BY <1>0, <1>1 DEF Represents
  <2>. QED
    BY <2>1, <2>2, <2>3
<1>3. PICK p : p = [g \in 1..n |-> [edge |-> q[g].edge, members |-> Raised(i, q[g].members)]]
  OBVIOUS
<1>4. PICK moved : moved = [w EXCEPT !.groups = p]
  OBVIOUS
<1>5. moved.groups = p /\ moved.edgeToGroup = a
  BY <1>1, <1>4 DEF Represents, Vertices
<1>6. u = [edgeToGroup |-> InsertAt(a, i, k), groups |-> Enrol(moved, i, e)]
  <2>1. p = Renumbered(q, LAMBDA m : IF m >= i THEN m + 1 ELSE m)
    BY <1>2, <1>3 DEF Renumbered, Raised, Raise
  <2>. QED
    BY <1>1, <1>4, <2>1, Zenon DEF Insert
<1>7. p \in Seq(Groups) /\ Len(p) = n /\ \A g \in 1..n : p[g] \in Groups /\ p[g].edge = q[g].edge
  <2>1. \A g \in 1..n : [edge |-> q[g].edge, members |-> Raised(i, q[g].members)] \in Groups
    <3>. TAKE g \in 1..n
    <3>1. q[g].edge \in Op
      BY <1>2 DEF Groups
    <3>2. \A m \in q[g].members : Raise(i, m) \in Nat
      BY <1>2 DEF Raise
    <3>. QED
      BY <3>1, <3>2 DEF Groups, Raised
  <2>2. p \in [1..n -> Groups]
    BY <1>3, <2>1
  <2>. QED
    BY <1>2, <1>3, <2>2, LenProperties
<1>8. Distinct(q) /\ Distinct(p)
  BY <1>0, <1>1, <1>7 DEF Represents, Distinct
<1>9. /\ GroupOf(w, e) \in 0..n /\ \A g \in 1..n : q[g].edge = e <=> GroupOf(w, e) = g
      /\ GroupOf(moved, e) \in 0..n /\ \A g \in 1..n : p[g].edge = e <=> GroupOf(moved, e) = g
  <2>1. /\ GroupOf(w, e) \in 0..n /\ \A g \in 1..n : q[g].edge = e <=> GroupOf(w, e) = g
    BY <1>0, <1>1, <1>2, <1>8, GroupOfProperties
  <2>2. /\ GroupOf(moved, e) \in 0..n /\ \A g \in 1..n : p[g].edge = e <=> GroupOf(moved, e) = g
    BY <1>2, <1>5, <1>7, <1>8, GroupOfProperties
  <2>. QED
    BY <2>1, <2>2
<1>10. GroupOf(moved, e) = GroupOf(w, e)
  BY <1>2, <1>7, <1>9
<1>11. GroupFor(moved, e) = k /\ k = IF GroupOf(w, e) = 0 THEN n + 1 ELSE GroupOf(w, e)
  BY <1>0, <1>1, <1>5, <1>7, <1>10 DEF GroupFor
<1>12. r = Enrol(moved, i, e) /\ u = [edgeToGroup |-> InsertAt(a, i, k), groups |-> r]
  BY <1>0, <1>6
<1>13. i \in Nat
  OBVIOUS
<1>14. /\ r \in Seq(Groups) /\ Distinct(r)
       /\ k \in 1..Len(r) /\ k \in 1..(n + 1) /\ r[k].edge = e
       /\ Len(r) = IF k = n + 1 THEN n + 1 ELSE n
       /\ \A g \in 1..n : g # k => r[g] = p[g]
       /\ k \in 1..n => r[k].members = p[k].members \cup {i}
       /\ k = n + 1 => r[k].members = {i}
  <2>1. p = moved.groups /\ n = Len(p) /\ k = GroupFor(moved, e) /\ r = Enrol(moved, i, e)
    BY <1>5, <1>7, <1>11, <1>12
  <2>2. moved.groups \in Seq(Groups) /\ Distinct(moved.groups)
    BY <1>7, <1>8, <2>1
  <2>3. Enrolled(moved.groups, Enrol(moved, i, e), GroupFor(moved, e), i, e)
    BY <1>13, <2>2, EnrolProperties
  <2>4. Enrolled(p, r, k, i, e)
    BY <2>1, <2>3
  <2>. QED
    BY <2>1, <2>4, Zenon DEF Enrolled
<1>15. \A g \in 1..n : q[g].edge = e <=> g = k
  BY <1>2, <1>9, <1>11
<1>16. ASSUME NEW g \in 1..n
       PROVE  /\ r[g].edge = q[g].edge
              /\ r[g].members = Raised(i, q[g].members) \cup (IF g = k THEN {i} ELSE {})
  <2>1. PICK x, y : x = q[g].edge /\ y = q[g].members
    OBVIOUS
  <2>2. p[g].edge = x /\ p[g].members = Raised(i, y)
    BY <1>3, <2>1
  <2>3. CASE g = k
    <3>1. x = e
      BY <1>15, <2>1, <2>3
    <3>3. r[g].edge = e /\ r[g].members = p[g].members \cup {i}
      BY <1>14, <2>3
    <3>4. r[g].edge = x /\ r[g].members = Raised(i, y) \cup {i}
      BY <2>2, <3>1, <3>3
    <3>. QED
      BY <2>1, <2>3, <3>4
  <2>4. CASE g # k
    <3>1. r[g] = p[g]
      BY <1>14, <2>4
    <3>2. r[g].edge = x /\ r[g].members = Raised(i, y)
      BY <2>2, <3>1
    <3>. QED
      BY <2>1, <2>4, <3>2
  <2>. QED
    BY <2>3, <2>4
<1>17. k = n + 1 => r[k].members = {i}
  BY <1>14
<1>18. /\ u = [edgeToGroup |-> InsertAt(a, i, k), groups |-> r]
       /\ r \in Seq(Groups) /\ Distinct(r) /\ n \in Nat
       /\ k \in 1..Len(r) /\ k \in 1..(n + 1) /\ r[k].edge = e
       /\ Len(r) = IF k = n + 1 THEN n + 1 ELSE n
       /\ \A g \in 1..n :
            /\ r[g].edge = q[g].edge
            /\ r[g].members = Raised(i, q[g].members) \cup (IF g = k THEN {i} ELSE {})
       /\ k = n + 1 => r[k].members = {i}
       /\ \A g \in 1..n : q[g].edge = e <=> g = k
  BY <1>2, <1>12, <1>14, <1>15, <1>16, <1>17
<1>19. Inserted(w, u, k, i, e)
  BY <1>0, <1>1, <1>18, Zenon DEF Inserted
<1>. QED
  BY <1>1, <1>19

\* what Raise and Lower do to the places of a sequence of n elements
LEMMA RaiseProperties ==
  ASSUME NEW n \in Nat, NEW i \in 1..(n + 1), NEW j \in 1..n
  PROVE  Raise(i, j) \in 1..(n + 1) /\ Raise(i, j) # i /\ Lower(i, Raise(i, j)) = j
  BY DEF Raise, Lower

LEMMA LowerProperties ==
  ASSUME NEW n \in Nat, NEW i \in 1..(n + 1), NEW m \in 1..(n + 1), m # i
  PROVE  Lower(i, m) \in 1..n /\ Raise(i, Lower(i, m)) = m
  BY DEF Raise, Lower

\* q is s without its element i, or with e put before it
Without(s, q, i) ==
  Len(q) = Len(s) - 1 /\ \A j \in 1..Len(q) : q[j] = s[Raise(i, j)]
With(s, q, i, e) ==
  /\ Len(q) = Len(s) + 1 /\ q[i] = e
  /\ \A m \in 1..Len(q) : m # i => q[m] = s[Lower(i, m)]

LEMMA Removed ==
  ASSUME NEW S, NEW s \in Seq(S), NEW i \in 1..Len(s)
  PROVE  RemoveAt(s, i) \in Seq(S) /\ Without(s, RemoveAt(s, i), i)
<1>. DEFINE q == RemoveAt(s, i)
<1>1. /\ q \in Seq(S) /\ Len(q) = Len(s) - 1
      /\ \A k \in 1..(Len(s) - 1) : q[k] = IF k < i THEN s[k] ELSE s[k + 1]
  BY RemoveAtProperties
<1>. HIDE DEF q
<1>2. q \in Seq(S) /\ Without(s, q, i)
  BY <1>1 DEF Raise, Without
<1>. QED
  BY <1>2 DEF q

LEMMA Put ==
  ASSUME NEW S, NEW s \in Seq(S), NEW i \in 1..(Len(s) + 1), NEW e \in S
  PROVE  InsertAt(s, i, e) \in Seq(S) /\ With(s, InsertAt(s, i, e), i, e)
<1>. DEFINE q == InsertAt(s, i, e)
<1>1. /\ q \in Seq(S) /\ Len(q) = Len(s) + 1
      /\ \A k \in 1..(Len(s) + 1) :
           q[k] = IF k < i THEN s[k] ELSE IF k = i THEN e ELSE s[k - 1]
  BY InsertAtProperties
<1>. HIDE DEF q
<1>2. q \in Seq(S) /\ With(s, q, i, e)
  BY <1>1 DEF Lower, With
<1>. QED
  BY <1>2 DEF q

LEMMA EraseRepresents ==
  ASSUME NEW n \in Nat, NEW s \in Seq(Op), Len(s) = n + 1,
         NEW v, Represents(v, s), NEW i \in 1..(n + 1),
         NEW w, w = Erase(v, i), NEW t, t = RemoveAt(s, i)
  PROVE  Represents(w, t)
<1>1. PICK a, b, q, r : /\ a = v.edgeToGroup /\ b = RemoveAt(a, i)
                        /\ q = v.groups /\ r = w.groups
  OBVIOUS
<1>2. PICK N : N = Len(q)
  OBVIOUS
<1>3. /\ a \in Seq(Nat) /\ Len(a) = n + 1
      /\ \A j \in 1..(n + 1) : a[j] \in 1..N /\ q[a[j]].edge = s[j]
      /\ \A g \in 1..N : q[g].members = {j \in 1..(n + 1) : a[j] = g}
  BY <1>1, <1>2 DEF Represents, Vertices
<1>4. /\ w = [edgeToGroup |-> b, groups |-> r]
      /\ r \in Seq(Groups) /\ Len(r) = N /\ Distinct(r)
      /\ \A g \in 1..N :
           r[g].edge = q[g].edge /\ r[g].members = Lowered(i, q[g].members)
  <2>1. i \in 1..Len(s) /\ Len(s) \in Nat
    OBVIOUS
  <2>2. Erased(v, w, i)
    BY <2>1, EraseIs
  <2>3. /\ w = [edgeToGroup |-> RemoveAt(a, i), groups |-> r]
        /\ r \in Seq(Groups) /\ Len(r) = Len(q) /\ Distinct(r)
        /\ \A g \in 1..Len(q) : r[g].edge = q[g].edge /\ r[g].members = Lowered(i, q[g].members)
    BY <1>1, <2>2, Zenon DEF Erased
  <2>. QED
    BY <1>1, <1>2, <2>3
<1>5. b \in Seq(Nat) /\ Len(b) = n /\ \A j \in 1..n : b[j] = a[Raise(i, j)]
  <2>1. i \in 1..Len(a)
    BY <1>3
  <2>2. b \in Seq(Nat) /\ Without(a, b, i)
    BY <1>1, <1>3, <2>1, Removed
  <2>. QED
    BY <1>3, <2>2 DEF Without
<1>6. t \in Seq(Op) /\ Len(t) = n /\ \A j \in 1..n : t[j] = s[Raise(i, j)]
  <2>1. i \in 1..Len(s)
    OBVIOUS
  <2>2. t \in Seq(Op) /\ Without(s, t, i)
    BY <2>1, Removed
  <2>. QED
    BY <2>2 DEF Without
<1>7. \A j \in 1..n : Raise(i, j) \in 1..(n + 1) /\ Raise(i, j) # i /\ Lower(i, Raise(i, j)) = j
  BY RaiseProperties
<1>8. \A m \in 1..(n + 1) : m # i => Lower(i, m) \in 1..n /\ Raise(i, Lower(i, m)) = m
  BY LowerProperties
<1>9. w \in Vertices(Op) /\ w.edgeToGroup = b /\ w.groups = r
  BY <1>4, <1>5 DEF Vertices, Groups
<1>10. ASSUME NEW j \in 1..n PROVE b[j] \in 1..N /\ r[b[j]].edge = t[j]
  <2>1. PICK m \in 1..(n + 1) : m = Raise(i, j)
    BY <1>7
  <2>2. b[j] = a[m] /\ t[j] = s[m]
    BY <1>5, <1>6, <2>1
  <2>3. a[m] \in 1..N /\ q[a[m]].edge = s[m]
    BY <1>3
  <2>4. r[a[m]].edge = q[a[m]].edge
    BY <1>4, <2>3
  <2>. QED
    BY <2>2, <2>3, <2>4
<1>11. ASSUME NEW g \in 1..N PROVE r[g].members = {j \in 1..n : b[j] = g}
  <2>1. PICK A, B : A = q[g].members /\ B = r[g].members
    OBVIOUS
  <2>2. A = {j \in 1..(n + 1) : a[j] = g}
    BY <1>3, <2>1
  <2>3. B = {Lower(i, m) : m \in A \ {i}}
    BY <1>4, <2>1 DEF Lowered
  <2>4. ASSUME NEW m \in A \ {i} PROVE Lower(i, m) \in 1..n /\ b[Lower(i, m)] = g
    <3>1. m \in 1..(n + 1) /\ m # i /\ a[m] = g
      BY <2>2
    <3>. QED
      BY <1>5, <1>8, <3>1
  <2>5. ASSUME NEW j \in 1..n, b[j] = g PROVE Raise(i, j) \in A \ {i}
    BY <1>5, <1>7, <2>2, <2>5
  <2>6. B \subseteq {j \in 1..n : b[j] = g}
    BY <2>3, <2>4
  <2>7. {j \in 1..n : b[j] = g} \subseteq B
    BY <1>7, <2>3, <2>5
  <2>. QED
    BY <2>1, <2>6, <2>7
<1>12. \A g \in 1..Len(r) : r[g].members = {j \in 1..n : b[j] = g}
  BY <1>4, <1>11
<1>13. \A j \in 1..n : b[j] \in 1..Len(r) /\ r[b[j]].edge = t[j]
  BY <1>4, <1>10
<1>14. Represents(w, t)
  <2>1. Len(w.edgeToGroup) = Len(t) /\ Distinct(w.groups) /\ Len(t) = n
    BY <1>9, <1>4, <1>5, <1>6
  <2>2. \A j \in 1..Len(t) : /\ w.edgeToGroup[j] \in 1..Len(w.groups)
                          /\ w.groups[w.edgeToGroup[j]].edge = t[j]
    BY <1>9, <1>13, <2>1
  <2>3. \A g \in 1..Len(w.groups) :
          w.groups[g].members = {j \in 1..Len(t) : w.edgeToGroup[j] = g}
    BY <1>9, <1>12, <2>1
  <2>. QED
    BY <1>9, <2>1, <2>2, <2>3, Zenon DEF Represents
<1>. QED
  BY <1>14

LEMMA InsertRepresents ==
  ASSUME NEW n \in Nat, NEW s \in Seq(Op), n = Len(s),
         NEW v, Represents(v, s), NEW i \in 1..(n + 1), NEW e \in Op,
         NEW w, w = Insert(v, i, e), NEW t, t = InsertAt(s, i, e)
  PROVE  Represents(w, t)
<1>0. PICK k : k = GroupFor(v, e)
  OBVIOUS
<1>1. PICK a, b, q, r : /\ a = v.edgeToGroup /\ b = InsertAt(a, i, k)
                        /\ q = v.groups /\ r = w.groups
  OBVIOUS
<1>2. PICK N : N = Len(q)
  OBVIOUS
<1>3. /\ a \in Seq(Nat) /\ n = Len(a)
      /\ \A j \in 1..n : a[j] \in 1..N /\ q[a[j]].edge = s[j]
      /\ \A g \in 1..N : q[g].members = {j \in 1..n : a[j] = g}
  BY <1>1, <1>2 DEF Represents, Vertices
<1>4. /\ w = [edgeToGroup |-> b, groups |-> r]
      /\ r \in Seq(Groups) /\ Distinct(r) /\ N \in Nat
      /\ k \in 1..Len(r) /\ k \in 1..(N + 1) /\ r[k].edge = e
      /\ Len(r) = IF k = N + 1 THEN N + 1 ELSE N
      /\ \A g \in 1..N :
           /\ r[g].edge = q[g].edge
           /\ r[g].members = Raised(i, q[g].members) \cup (IF g = k THEN {i} ELSE {})
      /\ k = N + 1 => r[k].members = {i}
  <2>1. i \in 1..(Len(s) + 1) /\ Len(s) \in Nat
    OBVIOUS
  <2>2. Inserted(v, w, k, i, e)
    BY <1>0, <2>1, InsertIs
  <2>3. /\ w = [edgeToGroup |-> InsertAt(a, i, k), groups |-> r]
        /\ r \in Seq(Groups) /\ Distinct(r) /\ N \in Nat
        /\ k \in 1..Len(r) /\ k \in 1..(N + 1) /\ r[k].edge = e
        /\ Len(r) = IF k = N + 1 THEN N + 1 ELSE N
        /\ \A g \in 1..N :
             /\ r[g].edge = q[g].edge
             /\ r[g].members = Raised(i, q[g].members) \cup (IF g = k THEN {i} ELSE {})
        /\ k = N + 1 => r[k].members = {i}
    BY <1>1, <1>2, <2>2, Zenon DEF Inserted
  <2>. QED
    BY <1>1, <2>3
<1>5. /\ b \in Seq(Nat) /\ Len(b) = n + 1 /\ b[i] = k
      /\ \A m \in 1..(n + 1) : m # i => b[m] = a[Lower(i, m)]
  <2>1. k \in Nat /\ i \in 1..(Len(a) + 1)
    BY <1>3, <1>4
  <2>2. b \in Seq(Nat) /\ With(a, b, i, k)
    BY <1>1, <1>3, <2>1, Put
  <2>. QED
    BY <1>3, <2>2 DEF With
<1>6. /\ t \in Seq(Op) /\ Len(t) = n + 1 /\ t[i] = e
      /\ \A m \in 1..(n + 1) : m # i => t[m] = s[Lower(i, m)]
  <2>1. i \in 1..(Len(s) + 1)
    OBVIOUS
  <2>2. t \in Seq(Op) /\ With(s, t, i, e)
    BY <2>1, Put
  <2>. QED
    BY <2>2 DEF With
<1>7. \A j \in 1..n : Raise(i, j) \in 1..(n + 1) /\ Raise(i, j) # i /\ Lower(i, Raise(i, j)) = j
  BY RaiseProperties
<1>8. \A m \in 1..(n + 1) : m # i => Lower(i, m) \in 1..n /\ Raise(i, Lower(i, m)) = m
  BY LowerProperties
<1>9. w \in Vertices(Op) /\ w.edgeToGroup = b /\ w.groups = r
  BY <1>4, <1>5 DEF Vertices, Groups
<1>10. ASSUME NEW m \in 1..(n + 1), m # i PROVE b[m] \in 1..N /\ r[b[m]].edge = t[m]
  <2>1. PICK j \in 1..n : j = Lower(i, m)
    BY <1>8, <1>10
  <2>2. b[m] = a[j] /\ t[m] = s[j]
    BY <1>5, <1>6, <1>10, <2>1
  <2>3. a[j] \in 1..N /\ q[a[j]].edge = s[j]
    BY <1>3
  <2>4. r[a[j]].edge = q[a[j]].edge
    BY <1>4, <2>3
  <2>. QED
    BY <2>2, <2>3, <2>4
<1>11. ASSUME NEW m \in 1..(n + 1) PROVE b[m] \in 1..Len(r) /\ r[b[m]].edge = t[m]
  <2>1. CASE m = i
    BY <1>4, <1>5, <1>6, <2>1
  <2>2. CASE m # i
    BY <1>4, <1>10, <2>2
  <2>. QED
    BY <2>1, <2>2
<1>12. ASSUME NEW g \in 1..N PROVE r[g].members = {m \in 1..(n + 1) : b[m] = g}
  <2>1. PICK A, B, C : /\ A = q[g].members /\ B = r[g].members
                       /\ C = Raised(i, A)
    OBVIOUS
  <2>2. A = {j \in 1..n : a[j] = g}
    BY <1>3, <2>1
  <2>3. B = C \cup (IF g = k THEN {i} ELSE {})
    BY <1>4, <2>1
  <2>4. ASSUME NEW m \in C PROVE m \in 1..(n + 1) /\ b[m] = g
    <3>1. PICK j \in A : m = Raise(i, j)
      BY <2>1 DEF Raised
    <3>2. j \in 1..n /\ a[j] = g
      BY <2>2
    <3>. QED
      BY <1>5, <1>7, <3>1, <3>2
  <2>5. ASSUME NEW m \in 1..(n + 1), b[m] = g, m # i PROVE m \in C
    <3>1. Lower(i, m) \in A /\ Raise(i, Lower(i, m)) = m
      BY <1>5, <1>8, <2>2, <2>5
    <3>. QED
      BY <2>1, <3>1 DEF Raised
  <2>6. \A m : m \in B <=> m \in 1..(n + 1) /\ b[m] = g
    BY <1>5, <2>3, <2>4, <2>5
  <2>. QED
    BY <2>1, <2>6
<1>13. ASSUME k = N + 1 PROVE r[k].members = {m \in 1..(n + 1) : b[m] = k}
  <2>1. ASSUME NEW m \in 1..(n + 1), m # i PROVE b[m] # k
    BY <1>4, <1>10, <1>13, <2>1
  <2>2. r[k].members = {i}
    BY <1>4, <1>13
  <2>3. {m \in 1..(n + 1) : b[m] = k} = {i}
    BY <1>5, <2>1
  <2>. QED
    BY <2>2, <2>3
<1>14. \A g \in 1..Len(r) : r[g].members = {m \in 1..(n + 1) : b[m] = g}
  <2>1. ASSUME NEW g \in 1..Len(r) PROVE r[g].members = {m \in 1..(n + 1) : b[m] = g}
    <3>1. g \in 1..N \/ (k = N + 1 /\ g = k)
      BY <1>4
    <3>. QED
      BY <1>12, <1>13, <3>1
  <2>. QED
    BY <2>1
<1>15. Represents(w, t)
  <2>1. Len(w.edgeToGroup) = Len(t) /\ Distinct(w.groups) /\ Len(t) = n + 1
    BY <1>9, <1>4, <1>5, <1>6
  <2>2. \A m \in 1..Len(t) : /\ w.edgeToGroup[m] \in 1..Len(w.groups)
                          /\ w.groups[w.edgeToGroup[m]].edge = t[m]
    BY <1>9, <1>11, <2>1
  <2>3. \A g \in 1..Len(w.groups) :
          w.groups[g].members = {m \in 1..Len(t) : w.edgeToGroup[m] = g}
    BY <1>9, <1>14, <2>1
  <2>. QED
    BY <1>9, <2>1, <2>2, <2>3, Zenon DEF Represents
<1>. QED
  BY <1>15

-----------------------------------------------------------------------------
(***************************************************************************)
(* The constructor: what the recursive function that adds the edges one by *)
(* one returns.                                                            *)
(***************************************************************************)
Added(v, e, i) ==
  [edgeToGroup |-> Append(v.edgeToGroup, GroupFor(v, e)), groups |-> Enrol(v, i, e)]

LEMMA AddedRepresents ==
  ASSUME NEW n \in Nat, NEW s \in Seq(Op), n = Len(s), NEW v, Represents(v, s), NEW e \in Op
  PROVE  Represents(Added(v, e, n + 1), Append(s, e))
<1>1. PICK w, t, k : w = Added(v, e, n + 1) /\ t = Append(s, e) /\ k = GroupFor(v, e)
  OBVIOUS
<1>2. PICK a, b, q, r : /\ a = v.edgeToGroup /\ b = Append(a, k)
                        /\ q = v.groups /\ r = w.groups
  OBVIOUS
<1>3. PICK N : N = Len(q)
  OBVIOUS
<1>4. /\ a \in Seq(Nat) /\ n = Len(a) /\ q \in Seq(Groups) /\ Distinct(q)
      /\ \A j \in 1..n : a[j] \in 1..N /\ q[a[j]].edge = s[j]
      /\ \A g \in 1..N : q[g].members = {j \in 1..n : a[j] = g}
  BY <1>2, <1>3 DEF Represents, Vertices, Groups
<1>5. w = [edgeToGroup |-> b, groups |-> r] /\ r = Enrol(v, n + 1, e)
  BY <1>1, <1>2 DEF Added
<1>6. /\ N \in Nat /\ r \in Seq(Groups) /\ Distinct(r)
      /\ k \in 1..Len(r) /\ k \in 1..(N + 1) /\ r[k].edge = e
      /\ Len(r) = IF k = N + 1 THEN N + 1 ELSE N
      /\ \A g \in 1..N : g # k => r[g] = q[g]
      /\ k \in 1..N => r[k].members = q[k].members \cup {n + 1}
      /\ k = N + 1 => r[k].members = {n + 1}
      /\ \A g \in 1..N : q[g].edge = e <=> g = k
  <2>1. n + 1 \in Nat /\ v.groups \in Seq(Groups) /\ Distinct(v.groups)
    BY <1>2, <1>4
  <2>2. Enrolled(v.groups, Enrol(v, n + 1, e), GroupFor(v, e), n + 1, e)
    BY <2>1, EnrolProperties
  <2>3. Enrolled(q, r, k, n + 1, e)
    BY <1>1, <1>2, <1>5, <2>2
  <2>. QED
    BY <1>3, <2>3, Zenon DEF Enrolled
<1>7. b \in Seq(Nat) /\ Len(b) = n + 1 /\ b[n + 1] = k /\ \A j \in 1..n : b[j] = a[j]
  BY <1>2, <1>4, <1>6, AppendProperties
<1>8. t \in Seq(Op) /\ Len(t) = n + 1 /\ t[n + 1] = e /\ \A j \in 1..n : t[j] = s[j]
  BY <1>1, AppendProperties
<1>9. w \in Vertices(Op) /\ w.edgeToGroup = b /\ w.groups = r
  BY <1>5, <1>6, <1>7 DEF Vertices, Groups
<1>10. ASSUME NEW j \in 1..(n + 1) PROVE b[j] \in 1..Len(r) /\ r[b[j]].edge = t[j]
  <2>1. CASE j = n + 1
    BY <1>6, <1>7, <1>8, <2>1
  <2>2. CASE j # n + 1
    <3>1. j \in 1..n
      BY <2>2
    <3>2. b[j] = a[j] /\ t[j] = s[j] /\ a[j] \in 1..N /\ q[a[j]].edge = s[j]
      BY <1>4, <1>7, <1>8, <3>1
    <3>3. r[a[j]].edge = s[j]
      BY <1>6, <3>2
    <3>. QED
      BY <1>6, <3>2, <3>3
  <2>. QED
    BY <2>1, <2>2
<1>11. ASSUME NEW g \in 1..N PROVE r[g].members = {j \in 1..(n + 1) : b[j] = g}
  <2>1. PICK A : A = q[g].members
    OBVIOUS
  <2>2. A = {j \in 1..n : a[j] = g}
    BY <1>4, <2>1
  <2>3. \A j : j \in 1..(n + 1) /\ b[j] = g <=> j \in A \/ (j = n + 1 /\ g = k)
    BY <1>7, <2>2
  <2>4. CASE g = k
    BY <1>6, <2>1, <2>3, <2>4
  <2>5. CASE g # k
    BY <1>6, <2>1, <2>3, <2>5
  <2>. QED
    BY <2>4, <2>5
<1>12. ASSUME k = N + 1 PROVE r[k].members = {j \in 1..(n + 1) : b[j] = k}
  <2>1. \A j \in 1..n : b[j] # k
    BY <1>4, <1>6, <1>7, <1>12
  <2>2. {j \in 1..(n + 1) : b[j] = k} = {n + 1}
    BY <1>7, <2>1
  <2>. QED
    BY <1>6, <1>12, <2>2
<1>13. \A g \in 1..Len(r) : r[g].members = {j \in 1..(n + 1) : b[j] = g}
  <2>1. ASSUME NEW g \in 1..Len(r) PROVE r[g].members = {j \in 1..(n + 1) : b[j] = g}
    <3>1. g \in 1..N \/ (k = N + 1 /\ g = k)
      BY <1>6
    <3>. QED
      BY <1>11, <1>12, <3>1
  <2>. QED
    BY <2>1
<1>14. Represents(w, t)
  <2>1. Len(w.edgeToGroup) = Len(t) /\ Distinct(w.groups) /\ Len(t) = n + 1
    BY <1>9, <1>6, <1>7, <1>8
  <2>2. \A j \in 1..Len(t) : /\ w.edgeToGroup[j] \in 1..Len(w.groups)
                          /\ w.groups[w.edgeToGroup[j]].edge = t[j]
    BY <1>9, <1>10, <2>1
  <2>3. \A g \in 1..Len(w.groups) :
          w.groups[g].members = {j \in 1..Len(t) : w.edgeToGroup[j] = g}
    BY <1>9, <1>13, <2>1
  <2>. QED
    BY <1>9, <2>1, <2>2, <2>3, Zenon DEF Represents
<1>. QED
  BY <1>1, <1>14

IsAdd(u, s) ==
  u = [k \in 0..Len(s) |-> IF k = 0 THEN NoEdges ELSE Added(u[k - 1], s[k], k)]

LEMMA AddExists ==
  ASSUME NEW s, Len(s) \in Nat
  PROVE  \E u : IsAdd(u, s)
<1>1. PICK n : n = Len(s)
  OBVIOUS
<1>. DEFINE Step(u) == [k \in 0..n |-> IF k = 0 THEN NoEdges ELSE Added(u[k - 1], s[k], k)]
            IsAddTo(u, m) == \A k \in 0..m : u[k] = Step(u)[k]
            R == {m \in 0..n : \E u : IsAddTo(u, m)}
<1>2. n \in Nat
  BY <1>1
<1>3. \A u : \A k \in 0..n :
        Step(u)[k] = IF k = 0 THEN NoEdges ELSE Added(u[k - 1], s[k], k)
  OBVIOUS
<1>. HIDE DEF Step
<1>4. 0 \in R
  <2>1. PICK u : u = [k \in 0..n |-> NoEdges]
    OBVIOUS
  <2>2. IsAddTo(u, 0)
    BY <1>2, <1>3, <2>1
  <2>. QED
    BY <1>2, <2>2
<1>5. ASSUME NEW m \in 0..(n - 1), m \in R
      PROVE  m + 1 \in R
  <2>1. PICK u : IsAddTo(u, m)
    BY <1>5
  <2>2. ASSUME NEW k \in 0..(m + 1)
        PROVE  Step(u)[k] = Step(Step(u))[k]
    <3>1. k \in 0..n
      BY <1>2
    <3>2. CASE k = 0
      BY <1>3, <3>1, <3>2
    <3>3. CASE k # 0
      <4>1. k - 1 \in 0..m
        BY <3>3
      <4>2. u[k - 1] = Step(u)[k - 1]
        BY <2>1, <4>1
      <4>. QED
        BY <1>3, <3>1, <3>3, <4>2
    <3>. QED
      BY <3>2, <3>3
  <2>3. IsAddTo(Step(u), m + 1)
    BY <2>2
  <2>. QED
    BY <1>2, <2>3
<1>. HIDE DEF R
<1>6. n \in R
  <2>. HIDE DEF IsAddTo
  <2>1. \A m \in 0..n : m \in R
    BY <1>2, <1>4, <1>5, IntervalInduction
  <2>. QED
    BY <1>2, <2>1
<1>7. PICK u : IsAddTo(u, n)
  BY <1>6 DEF R
<1>8. Step(u) = Step(Step(u))
  <2>1. \A k \in 0..n : k # 0 => u[k - 1] = Step(u)[k - 1]
    BY <1>2, <1>7
  <2>. QED
    BY <2>1 DEF Step
<1>9. IsAdd(Step(u), s)
  <2>1. PICK w : w = Step(u)
    OBVIOUS
  <2>2. w = Step(w)
    BY <1>8, <2>1
  <2>3. IsAdd(w, s)
    BY <1>1, <2>2, Zenon DEF IsAdd, Step
  <2>. QED
    BY <2>1, <2>3
<1>. QED
  BY <1>9

LEMMA VertexRepresents ==
  ASSUME NEW s \in Seq(Op)
  PROVE  Represents(Vertex(s), s)
<1>. DEFINE add[k \in 0..Len(s)] ==
              IF k = 0 THEN NoEdges
              ELSE [edgeToGroup |-> Append(add[k - 1].edgeToGroup, GroupFor(add[k - 1], s[k])),
                    groups      |-> Enrol(add[k - 1], k, s[k])]
<1>0. Len(s) \in Nat /\ \A i \in 1..Len(s) : s[i] \in Op
  BY LenProperties, ElementOfSeq
<1>1. Vertex(s) = add[Len(s)]
  BY Zenon DEF Vertex
<1>2. IsAdd(add, s)
  <2>. DEFINE IsIter(u) ==
         u = [k \in 0..Len(s) |->
                IF k = 0 THEN NoEdges
                ELSE [edgeToGroup |-> Append(u[k - 1].edgeToGroup, GroupFor(u[k - 1], s[k])),
                      groups      |-> Enrol(u[k - 1], k, s[k])]]
  <2>1. \A u : IsAdd(u, s) <=> IsIter(u)
    BY Zenon DEF IsAdd, Added
  <2>2. \E u : IsIter(u)
    <3>. HIDE DEF IsIter
    <3>. QED
      BY <1>0, <2>1, AddExists
  <2>. QED
    BY <2>1, <2>2
<1>. HIDE DEF add
<1>3. PICK u, n : u = add /\ n = Len(s)
  OBVIOUS
<1>4. \A k \in 0..n : u[k] = IF k = 0 THEN NoEdges ELSE Added(u[k - 1], s[k], k)
  BY <1>2, <1>3 DEF IsAdd
<1>. DEFINE Start(k) == [j \in 1..k |-> s[j]]
            T == {k \in 0..n : Represents(u[k], Start(k))}
<1>5. \A k \in 0..n : Start(k) \in Seq(Op) /\ Len(Start(k)) = k
  <2>. TAKE k \in 0..n
  <2>1. \A j \in 1..k : s[j] \in Op
    BY <1>0, <1>3
  <2>2. k \in Nat
    BY <1>0, <1>3
  <2>3. Start(k) \in Seq(Op)
    BY <2>1, <2>2, IsASeq
  <2>. QED
    BY <2>2, <2>3, LenProperties
<1>6. 0 \in T
  <2>1. u[0] = NoEdges /\ Len(Start(0)) = 0 /\ 0 \in 0..n
    BY <1>0, <1>3, <1>4, <1>5
  <2>. HIDE DEF Start
  <2>2. Represents(NoEdges, Start(0))
    BY <2>1 DEF Represents, NoEdges, Vertices, Distinct
  <2>. QED
    BY <2>1, <2>2
<1>7. ASSUME NEW k \in 0..(n - 1), k \in T
      PROVE  k + 1 \in T
  <2>1. k \in Nat /\ k \in 0..n /\ k + 1 \in 0..n /\ s[k + 1] \in Op
    BY <1>0, <1>3
  <2>2. PICK f, e : f = Start(k) /\ e = s[k + 1]
    OBVIOUS
  <2>3. f \in Seq(Op) /\ k = Len(f) /\ Represents(u[k], f) /\ e \in Op
    BY <1>5, <1>7, <2>1, <2>2
  <2>4. Represents(Added(u[k], e, k + 1), Append(f, e))
    BY <2>1, <2>3, AddedRepresents
  <2>5. u[k + 1] = Added(u[k], e, k + 1)
    BY <1>4, <2>1, <2>2
  <2>6. Start(k + 1) = Append(f, e)
    <3>1. PICK x, y : x = Append(f, e) /\ y = Start(k + 1)
      OBVIOUS
    <3>2. x \in Seq(Op) /\ Len(x) = k + 1 /\ x[k + 1] = e /\ \A j \in 1..k : x[j] = f[j]
      BY <2>3, <3>1, AppendProperties
    <3>3. y = [j \in 1..(k + 1) |-> s[j]] /\ \A j \in 1..k : f[j] = s[j]
      BY <2>2, <3>1
    <3>4. DOMAIN x = 1..(k + 1) /\ x = [j \in DOMAIN x |-> x[j]]
      BY <3>2, LenProperties
    <3>5. \A j \in 1..(k + 1) : x[j] = s[j]
      BY <2>1, <2>2, <3>2, <3>3
    <3>6. x = y
      BY <3>3, <3>4, <3>5
    <3>. QED
      BY <3>1, <3>6
  <2>. QED
    BY <2>1, <2>4, <2>5, <2>6
<1>8. n \in T
  <2>. HIDE DEF T
  <2>. QED
    BY <1>0, <1>3, <1>6, <1>7, IntervalInduction
<1>9. Start(n) = s
  BY <1>0, <1>3
<1>. HIDE DEF Start
<1>. QED
  BY <1>1, <1>3, <1>8, <1>9

-----------------------------------------------------------------------------
(***************************************************************************)
(* An op that is put back goes to the group it came from, as groups are    *)
(* never erased, and the members of all groups get their numbers back.     *)
(***************************************************************************)
LEMMA InsertUndoesErase ==
  ASSUME NEW n \in Nat, NEW s \in Seq(Op), Len(s) = n + 1,
         NEW v, Represents(v, s), NEW i \in 1..(n + 1)
  PROVE  Insert(Erase(v, i), i, s[i]) = v
<1>1. PICK w, t, e : w = Erase(v, i) /\ t = RemoveAt(s, i) /\ e = s[i]
  OBVIOUS
<1>2. PICK u, k : u = Insert(w, i, e) /\ k = GroupFor(w, e)
  OBVIOUS
<1>3. PICK a, b, c : a = v.edgeToGroup /\ b = RemoveAt(a, i) /\ c = InsertAt(b, i, k)
  OBVIOUS
<1>4. PICK q, r, z : q = v.groups /\ r = w.groups /\ z = u.groups
  OBVIOUS
<1>5. PICK N : N = Len(q)
  OBVIOUS
<1>6. /\ a \in Seq(Nat) /\ Len(a) = n + 1 /\ q \in Seq(Groups)
      /\ \A j \in 1..(n + 1) : a[j] \in 1..N /\ q[a[j]].edge = s[j]
      /\ \A g \in 1..N : q[g].members = {j \in 1..(n + 1) : a[j] = g}
      /\ v = [edgeToGroup |-> a, groups |-> q]
  BY <1>3, <1>4, <1>5 DEF Represents, Vertices, Groups
<1>7. /\ w.edgeToGroup = b /\ r \in Seq(Groups) /\ Len(r) = N
      /\ \A g \in 1..N : r[g].edge = q[g].edge /\ r[g].members = Lowered(i, q[g].members)
  <2>1. i \in 1..Len(s) /\ Len(s) \in Nat
    OBVIOUS
  <2>2. Erased(v, w, i)
    BY <1>1, <2>1, EraseIs
  <2>3. /\ w = [edgeToGroup |-> b, groups |-> r]
        /\ r \in Seq(Groups) /\ Len(r) = Len(q)
        /\ \A g \in 1..Len(q) : r[g].edge = q[g].edge /\ r[g].members = Lowered(i, q[g].members)
    BY <1>3, <1>4, <2>2, Zenon DEF Erased
  <2>. QED
    BY <1>5, <2>3
<1>8. e \in Op
  BY <1>1, ElementOfSeq
<1>9. t \in Seq(Op) /\ Len(t) = n /\ Represents(w, t)
  <2>1. i \in 1..Len(s)
    OBVIOUS
  <2>2. t \in Seq(Op) /\ Without(s, t, i)
    BY <1>1, <2>1, Removed
  <2>3. Len(t) = n
    BY <2>2 DEF Without
  <2>. QED
    BY <1>1, <2>2, <2>3, EraseRepresents
<1>10. /\ u = [edgeToGroup |-> c, groups |-> z]
       /\ z \in Seq(Groups) /\ N \in Nat
       /\ Len(z) = IF k = N + 1 THEN N + 1 ELSE N
       /\ \A g \in 1..N :
            /\ z[g].edge = r[g].edge
            /\ z[g].members = Raised(i, r[g].members) \cup (IF g = k THEN {i} ELSE {})
       /\ \A g \in 1..N : r[g].edge = e <=> g = k
  <2>1. i \in 1..(Len(t) + 1) /\ Len(t) \in Nat
    BY <1>9
  <2>2. Inserted(w, u, k, i, e)
    BY <1>2, <1>8, <1>9, <2>1, InsertIs
  <2>3. /\ u = [edgeToGroup |-> c, groups |-> z]
        /\ z \in Seq(Groups) /\ Len(r) \in Nat
        /\ Len(z) = IF k = Len(r) + 1 THEN Len(r) + 1 ELSE Len(r)
        /\ \A g \in 1..Len(r) :
             /\ z[g].edge = r[g].edge
             /\ z[g].members = Raised(i, r[g].members) \cup (IF g = k THEN {i} ELSE {})
        /\ \A g \in 1..Len(r) : r[g].edge = e <=> g = k
    BY <1>3, <1>4, <1>7, <2>2, Zenon DEF Inserted
  <2>. QED
    BY <1>7, <2>3
\* the group is the one it was in
<1>11. k = a[i] /\ k \in 1..N /\ Len(z) = N
  <2>1. a[i] \in 1..N /\ q[a[i]].edge = e
    BY <1>1, <1>6
  <2>2. r[a[i]].edge = e
    BY <1>7, <2>1
  <2>3. a[i] = k
    BY <1>10, <2>1, <2>2
  <2>. QED
    BY <1>10, <2>1, <2>3
<1>12. \A m \in 1..(n + 1) : m # i => Lower(i, m) \in 1..n /\ Raise(i, Lower(i, m)) = m
  BY LowerProperties
<1>13. c = a
  <2>1. i \in 1..Len(a)
    BY <1>6
  <2>2. b \in Seq(Nat) /\ Without(a, b, i)
    BY <1>3, <1>6, <2>1, Removed
  <2>3. Len(b) = n /\ \A j \in 1..n : b[j] = a[Raise(i, j)]
    BY <1>6, <2>2 DEF Without
  <2>4. i \in 1..(Len(b) + 1) /\ k \in Nat
    BY <1>11, <2>3
  <2>5. c \in Seq(Nat) /\ With(b, c, i, k)
    BY <1>3, <2>2, <2>4, Put
  <2>6. Len(c) = n + 1 /\ c[i] = k /\ \A m \in 1..(n + 1) : m # i => c[m] = b[Lower(i, m)]
    BY <2>3, <2>5 DEF With
  <2>7. \A m \in 1..(n + 1) : c[m] = a[m]
    BY <1>11, <1>12, <2>3, <2>6
  <2>8. /\ DOMAIN c = 1..(n + 1) /\ c = [m \in DOMAIN c |-> c[m]]
        /\ DOMAIN a = 1..(n + 1) /\ a = [m \in DOMAIN a |-> a[m]]
    BY <1>6, <2>5, <2>6, LenProperties
  <2>. QED
    BY <2>7, <2>8
<1>14. ASSUME NEW g \in 1..N PROVE z[g] = q[g]
  <2>1. PICK A, B : A = q[g].members /\ B = z[g].members
    OBVIOUS
  <2>2. A = {j \in 1..(n + 1) : a[j] = g}
    BY <1>6, <2>1
  <2>3. B = Raised(i, Lowered(i, A)) \cup (IF g = k THEN {i} ELSE {})
    BY <1>7, <1>10, <2>1
  <2>4. Raised(i, Lowered(i, A)) = A \ {i}
    <3>1. Raised(i, Lowered(i, A)) = {Raise(i, Lower(i, m)) : m \in A \ {i}}
      BY DEF Raised, Lowered
    <3>2. \A m \in A \ {i} : Raise(i, Lower(i, m)) = m
      BY <1>12, <2>2
    <3>. QED
      BY <3>1, <3>2
  <2>5. i \in A <=> g = k
    BY <1>11, <2>2
  <2>6. B = A
    BY <2>3, <2>4, <2>5
  <2>7. z[g].edge = q[g].edge
    BY <1>7, <1>10
  <2>8. z[g] \in Groups /\ q[g] \in Groups
    BY <1>6, <1>10, <1>11, <1>5, ElementOfSeq
  <2>9. PICK x, y : x = z[g] /\ y = q[g]
    OBVIOUS
  <2>10. x = [edge |-> x.edge, members |-> x.members] /\ y = [edge |-> y.edge, members |-> y.members]
    BY <2>8, <2>9 DEF Groups
  <2>. QED
    BY <2>1, <2>6, <2>7, <2>9, <2>10
<1>15. z = q
  <2>1. /\ DOMAIN z = 1..N /\ z = [m \in DOMAIN z |-> z[m]]
        /\ DOMAIN q = 1..N /\ q = [m \in DOMAIN q |-> q[m]]
    BY <1>5, <1>6, <1>10, <1>11, LenProperties
  <2>. QED
    BY <1>14, <2>1
<1>16. u = v
  BY <1>6, <1>10, <1>13, <1>15
<1>. QED
  BY <1>1, <1>2, <1>16

LEMMA RepresentedIsCurrent ==
  ASSUME NEW s \in Seq(Op), NEW v, Represents(v, s)
  PROVE  /\ Len(v.edgeToGroup) = Len(s)
         /\ \A i \in 1..Len(s) : /\ v.groups[v.edgeToGroup[i]].edge = s[i]
                                 /\ Group(v, i) = {j \in 1..Len(s) : s[j] = s[i]}
         /\ \A g \in DOMAIN v.groups :
              v.groups[g].members = {i \in 1..Len(s) : v.edgeToGroup[i] = g}
<1>1. PICK a, q, n, N : a = v.edgeToGroup /\ q = v.groups /\ n = Len(s) /\ N = Len(v.groups)
  OBVIOUS
<1>2. /\ Len(a) = n /\ q \in Seq(Groups) /\ N = Len(q)
      /\ \A j \in 1..n : a[j] \in 1..N /\ q[a[j]].edge = s[j]
      /\ \A g \in 1..N : q[g].members = {j \in 1..n : a[j] = g}
      /\ \A g, h \in 1..N : q[g].edge = q[h].edge => g = h
  BY <1>1 DEF Represents, Vertices, Groups, Distinct
<1>3. DOMAIN q = 1..N
  BY <1>2, LenProperties
<1>4. ASSUME NEW i \in 1..n PROVE Group(v, i) = {j \in 1..n : s[j] = s[i]}
  <2>1. Group(v, i) = q[a[i]].members
    BY <1>1 DEF Group
  <2>2. PICK g : g = a[i]
    OBVIOUS
  <2>3. g \in 1..N /\ q[g].members = {j \in 1..n : a[j] = g}
    BY <1>2, <2>2
  <2>4. \A j \in 1..n : a[j] = g <=> s[j] = s[i]
    BY <1>2, <2>2
  <2>. QED
    BY <2>1, <2>2, <2>3, <2>4
<1>. QED
  BY <1>1, <1>2, <1>3, <1>4

-----------------------------------------------------------------------------
(***************************************************************************)
(* The vertex represents ops of which only the types may be out of date:   *)
(* transform_indices replaces the types of the ops and leaves the vertex.  *)
(* If the index maps keep the types it represents the ops as they are.     *)
(***************************************************************************)
HugInv ==
  /\ Len(ops) <= MaxOps
  /\ HasHug => \E s \in Seq(Op) : Len(s) = Len(ops) /\ Represents(hug, s)

CurrentInv == HasHug => Represents(hug, ops)

KeepsTypes == \A r \in Replacements : r[1] = r[2]

LEMMA HugInit == Init => HugInv /\ CurrentInv
<1>. SUFFICES ASSUME Init PROVE HugInv /\ CurrentInv
  OBVIOUS
<1>1. PICK cre \in SeqOf(Types, MaxOps), ann \in SeqOf(Types, MaxOps) :
        /\ Len(cre) + Len(ann) <= MaxOps
        /\ ops = Ops("create", cre) \o Ops("annihilate", Reverse(ann))
        /\ hug = NoHug
  BY DEF Init
<1>2. cre \in Seq(Types) /\ ann \in Seq(Types)
  BY NormalOperatorAssumption, IsASeq DEF SeqOf
<1>3. Reverse(ann) \in Seq(Types) /\ Len(Reverse(ann)) = Len(ann)
  BY <1>2, ReverseProperties
<1>4. PICK c, a : c = Ops("create", cre) /\ a = Ops("annihilate", Reverse(ann))
  OBVIOUS
<1>5. c \in Seq(Op) /\ Len(c) = Len(cre) /\ a \in Seq(Op) /\ Len(a) = Len(ann)
  BY <1>2, <1>3, <1>4, OpsProperties
<1>6. Len(c \o a) = Len(c) + Len(a)
  BY <1>5, ConcatProperties
<1>. QED
  BY <1>1, <1>4, <1>5, <1>6 DEF HugInv, CurrentInv, HasHug

LEMMA HugStep == Inv /\ HugInv /\ [Next]_vars => HugInv'
<1>. SUFFICES ASSUME Inv, HugInv, [Next]_vars PROVE HugInv'
  OBVIOUS
<1>0. PICK n : n = Len(ops)
  OBVIOUS
<1>1. /\ ops \in Seq(Op) /\ n \in Nat /\ n <= MaxOps /\ DOMAIN ops = 1..n
  BY <1>0, LenProperties DEF Inv, Splits, HugInv
<1>2. CASE Hug
  <2>1. Represents(hug', ops)
    BY <1>1, <1>2, VertexRepresents DEF Hug
  <2>2. ops' = ops
    BY <1>2 DEF Hug
  <2>. QED
    BY <1>0, <1>1, <2>1, <2>2 DEF HugInv
<1>3. ASSUME NEW i \in DOMAIN ops, EraseAt(i) PROVE HugInv'
  <2>1. i \in 1..Len(ops) /\ ops' = RemoveAt(ops, i)
    BY <1>0, <1>1, <1>3 DEF EraseAt
  <2>2. ops' \in Seq(Op) /\ Without(ops, ops', i)
    BY <1>1, <2>1, Removed
  <2>3. Len(ops') = n - 1
    BY <1>0, <2>2 DEF Without
  <2>4. CASE HasHug
    <3>1. hug' = Erase(hug, i)
      BY <1>3, <2>4 DEF EraseAt
    <3>2. PICK s \in Seq(Op) : Len(s) = n /\ Represents(hug, s)
      BY <1>0, <2>4 DEF HugInv
    <3>3. PICK m, t : m = n - 1 /\ t = RemoveAt(s, i)
      OBVIOUS
    <3>4. m \in Nat /\ n = m + 1 /\ i \in 1..(m + 1) /\ Len(s) = m + 1
      BY <1>0, <1>1, <2>1, <3>2, <3>3
    <3>5. Represents(hug', t)
      BY <3>1, <3>2, <3>3, <3>4, EraseRepresents
    <3>6. i \in 1..Len(s)
      BY <3>4
    <3>7. t \in Seq(Op) /\ Without(s, t, i)
      BY <3>2, <3>3, <3>6, Removed
    <3>8. Len(t) = n - 1
      BY <3>2, <3>7 DEF Without
    <3>9. Len(ops') <= MaxOps
      BY <1>1, <2>3, NormalOperatorAssumption
    <3>. QED
      BY <2>3, <3>5, <3>7, <3>8, <3>9 DEF HugInv
  <2>5. CASE ~HasHug
    <3>1. ~HasHug'
      BY <1>3, <2>5 DEF EraseAt, HasHug
    <3>2. Len(ops') <= MaxOps
      BY <1>1, <2>3, NormalOperatorAssumption
    <3>. QED
      BY <3>1, <3>2 DEF HugInv
  <2>. QED
    BY <2>4, <2>5
<1>4. ASSUME Len(ops) < MaxOps, NEW i \in 1..(Len(ops) + 1), NEW op \in Op, InsertAtPlace(i, op)
      PROVE  HugInv'
  <2>1. ops' = InsertAt(ops, i, op)
    BY <1>4 DEF InsertAtPlace
  <2>2. ops' \in Seq(Op) /\ With(ops, ops', i, op)
    BY <1>1, <1>4, <2>1, Put
  <2>3. Len(ops') = n + 1
    BY <1>0, <2>2 DEF With
  <2>4. Len(ops') <= MaxOps
    BY <1>0, <1>1, <1>4, <2>3, NormalOperatorAssumption
  <2>5. CASE HasHug
    <3>1. hug' = Insert(hug, i, op)
      BY <1>4, <2>5 DEF InsertAtPlace
    <3>2. PICK s \in Seq(Op) : Len(s) = n /\ Represents(hug, s)
      BY <1>0, <2>5 DEF HugInv
    <3>3. PICK t : t = InsertAt(s, i, op)
      OBVIOUS
    <3>4. i \in 1..(n + 1) /\ n = Len(s)
      BY <1>0, <1>4, <3>2
    <3>5. Represents(hug', t)
      BY <1>1, <1>4, <3>1, <3>2, <3>3, <3>4, InsertRepresents
    <3>6. i \in 1..(Len(s) + 1)
      BY <3>4
    <3>7. t \in Seq(Op) /\ With(s, t, i, op)
      BY <1>4, <3>2, <3>3, <3>6, Put
    <3>8. Len(t) = n + 1
      BY <3>2, <3>7 DEF With
    <3>. QED
      BY <2>3, <2>4, <3>5, <3>7, <3>8 DEF HugInv
  <2>6. CASE ~HasHug
    <3>1. ~HasHug'
      BY <1>4, <2>6 DEF InsertAtPlace, HasHug
    <3>. QED
      BY <2>4, <3>1 DEF HugInv
  <2>. QED
    BY <2>5, <2>6
<1>5. CASE Adjoint
  <2>1. ops' = [i \in DOMAIN ops |-> Dagger(Reverse(ops)[i])] /\ ~HasHug'
    BY <1>5 DEF Adjoint, HasHug
  <2>2. /\ Reverse(ops) \in Seq(Op) /\ Len(Reverse(ops)) = n
    BY <1>0, <1>1, ReverseProperties
  <2>3. \A i \in 1..n : Dagger(Reverse(ops)[i]) \in Op
    BY <2>2, DaggerProperties, ElementOfSeq
  <2>4. ops' \in Seq(Op)
    BY <1>1, <2>1, <2>3, IsASeq
  <2>5. DOMAIN ops' = 1..n
    BY <1>1, <2>1
  <2>6. Len(ops') = n
    BY <1>1, <2>4, <2>5, LenProperties
  <2>. QED
    BY <1>1, <2>1, <2>6 DEF HugInv
<1>6. CASE TransformIndices
  <2>1. PICK new \in [DOMAIN ops -> Types] :
          ops' = [i \in DOMAIN ops |-> [ops[i] EXCEPT !.type = new[i]]]
    BY <1>6 DEF TransformIndices
  <2>2. \A i \in 1..n : [ops[i] EXCEPT !.type = new[i]] \in Op
    <3>1. \A i \in 1..n : ops[i] \in Op /\ new[i] \in Types
      BY <1>0, <1>1, ElementOfSeq
    <3>. QED
      BY <3>1, TypesOfOps DEF Op
  <2>3. ops' \in Seq(Op)
    BY <1>1, <2>1, <2>2, IsASeq
  <2>4. DOMAIN ops' = 1..n
    BY <1>1, <2>1
  <2>5. Len(ops') = n
    BY <1>1, <2>3, <2>4, LenProperties
  <2>6. hug' = hug
    BY <1>6 DEF TransformIndices
  <2>. QED
    BY <1>0, <1>1, <2>5, <2>6 DEF HugInv, HasHug
<1>7. CASE UNCHANGED vars
  BY <1>7 DEF vars, HugInv, HasHug
<1>. QED
  BY <1>2, <1>3, <1>4, <1>5, <1>6, <1>7 DEF Next

LEMMA CurrentStep ==
  ASSUME KeepsTypes
  PROVE  Inv /\ CurrentInv /\ [Next]_vars => CurrentInv'
<1>. SUFFICES ASSUME Inv, CurrentInv, [Next]_vars PROVE CurrentInv'
  OBVIOUS
<1>0. PICK n : n = Len(ops)
  OBVIOUS
<1>1. ops \in Seq(Op) /\ n \in Nat /\ DOMAIN ops = 1..n
  BY <1>0, LenProperties DEF Inv, Splits
<1>2. CASE Hug
  BY <1>1, <1>2, VertexRepresents DEF Hug, CurrentInv
<1>3. ASSUME NEW i \in DOMAIN ops, EraseAt(i) PROVE CurrentInv'
  <2>1. ops' = RemoveAt(ops, i) /\ hug' = IF HasHug THEN Erase(hug, i) ELSE hug
    BY <1>3 DEF EraseAt
  <2>2. CASE HasHug
    <3>1. PICK m : m = n - 1
      OBVIOUS
    <3>2. m \in Nat /\ i \in 1..(m + 1) /\ Len(ops) = m + 1
      BY <1>0, <1>1, <3>1
    <3>. QED
      BY <1>1, <2>1, <2>2, <3>2, EraseRepresents DEF CurrentInv
  <2>. QED
    BY <2>1, <2>2 DEF CurrentInv, HasHug
<1>4. ASSUME NEW i \in 1..(Len(ops) + 1), NEW op \in Op, InsertAtPlace(i, op) PROVE CurrentInv'
  <2>1. ops' = InsertAt(ops, i, op) /\ hug' = IF HasHug THEN Insert(hug, i, op) ELSE hug
    BY <1>4 DEF InsertAtPlace
  <2>2. CASE HasHug
    <3>1. i \in 1..(n + 1) /\ n = Len(ops)
      BY <1>0, <1>4
    <3>. QED
      BY <1>1, <1>4, <2>1, <2>2, <3>1, InsertRepresents DEF CurrentInv
  <2>. QED
    BY <2>1, <2>2 DEF CurrentInv, HasHug
<1>5. CASE Adjoint
  BY <1>5 DEF Adjoint, CurrentInv, HasHug
<1>6. CASE TransformIndices
  <2>1. PICK new \in [DOMAIN ops -> Types] :
          /\ \A i \in DOMAIN ops : <<ops[i].type, new[i]>> \in Replacements
          /\ ops' = [i \in DOMAIN ops |-> [ops[i] EXCEPT !.type = new[i]]]
    BY <1>6 DEF TransformIndices
  <2>2. ASSUME NEW i \in 1..n PROVE [ops[i] EXCEPT !.type = new[i]] = ops[i]
    <3>1. ops[i] \in Op
      BY <1>0, <1>1, ElementOfSeq
    <3>2. new[i] = ops[i].type
      <4>1. PICK x, y, r : x = ops[i].type /\ y = new[i] /\ r = <<x, y>>
        OBVIOUS
      <4>2. r \in Replacements
        BY <1>1, <2>1, <4>1
      <4>3. r[1] = r[2]
        BY <4>2 DEF KeepsTypes
      <4>. QED
        BY <4>1, <4>3
    <3>. QED
      BY <3>1, <3>2 DEF Op
  <2>3. ops' = ops
    BY <1>0, <1>1, <2>1, <2>2, LenProperties
  <2>4. hug' = hug
    BY <1>6 DEF TransformIndices
  <2>. QED
    BY <2>3, <2>4 DEF CurrentInv, HasHug
<1>7. CASE UNCHANGED vars
  BY <1>7 DEF vars, CurrentInv, HasHug
<1>. QED
  BY <1>2, <1>3, <1>4, <1>5, <1>6, <1>7 DEF Next

\* The ops, their count and the vertex always have their types.
THEOREM TypeCorrect == Spec => []TypeOK
<1>1. Inv /\ HugInv => TypeOK
  <2>1. Inv => ops \in Seq(Op) /\ ncreators \in 0..Len(ops)
    BY DEF Inv, Splits
  <2>2. HugInv => Len(ops) <= MaxOps /\ (HasHug => hug \in Vertices(Op))
    BY DEF HugInv, Represents
  <2>. QED
    BY <2>1, <2>2 DEF TypeOK
<1>. QED
  BY <1>1, InvInit, InvStep, HugInit, HugStep, PTL DEF Spec

\* If no index map changes the type of an index, as none of the library's
\* does, hug() is at any time what it would be if it were made anew but for
\* groups that are empty and the order of the groups.
THEOREM HugIsCurrentCorrect ==
  ASSUME KeepsTypes
  PROVE  Spec => []HugIsCurrent
<1>1. Inv /\ CurrentInv => HugIsCurrent
  <2>. SUFFICES ASSUME Inv, Represents(hug, ops) PROVE HugIsCurrent
    BY DEF CurrentInv, HugIsCurrent
  <2>1. ops \in Seq(Op)
    BY DEF Inv, Splits
  <2>2. DOMAIN ops = 1..Len(ops)
    BY <2>1, LenProperties
  <2>3. /\ Len(hug.edgeToGroup) = Len(ops)
        /\ \A i \in 1..Len(ops) :
             /\ hug.groups[hug.edgeToGroup[i]].edge = ops[i]
             /\ Group(hug, i) = {j \in 1..Len(ops) : ops[j] = ops[i]}
        /\ \A g \in DOMAIN hug.groups :
             hug.groups[g].members = {i \in 1..Len(ops) : hug.edgeToGroup[i] = g}
    BY <2>1, RepresentedIsCurrent
  <2>. QED
    BY <2>2, <2>3, Zenon DEF HugIsCurrent
<1>. QED
  BY <1>1, InvInit, InvStep, HugInit, CurrentStep, PTL DEF Spec

\* An op that is erased and put back leaves no trace in the vertex.
THEOREM RestoreUndoesEraseCorrect ==
  ASSUME KeepsTypes
  PROVE  Spec => []RestoreUndoesErase
<1>1. Inv /\ CurrentInv => RestoreUndoesErase
  <2>. SUFFICES ASSUME Inv, Represents(hug, ops), NEW i \in DOMAIN ops
                PROVE  Insert(Erase(hug, i), i, ops[i]) = hug
    BY DEF CurrentInv, RestoreUndoesErase
  <2>1. ops \in Seq(Op)
    BY DEF Inv, Splits
  <2>2. PICK n : n = Len(ops) - 1
    OBVIOUS
  <2>3. n \in Nat /\ Len(ops) = n + 1 /\ i \in 1..(n + 1)
    BY <2>1, <2>2, LenProperties
  <2>. QED
    BY <2>1, <2>3, InsertUndoesErase
<1>. QED
  BY <1>1, InvInit, InvStep, HugInit, CurrentStep, PTL DEF Spec

\* A group keeps its number and its edge while ops are erased and inserted,
\* and while indices are replaced.
THEOREM GroupsAreStableCorrect == Spec => GroupsAreStable
<1>. DEFINE Kept == HasHug /\ hug' # NoHug =>
                      \A g \in DOMAIN hug.groups :
                        /\ g \in DOMAIN hug'.groups
                        /\ hug'.groups[g].edge = hug.groups[g].edge
<1>1. Inv /\ HugInv /\ [Next]_vars => [Kept]_vars
  <2>. SUFFICES ASSUME Inv, HugInv, Next, HasHug, hug' # NoHug,
                       NEW g \in DOMAIN hug.groups
                PROVE  /\ g \in DOMAIN hug'.groups
                       /\ hug'.groups[g].edge = hug.groups[g].edge
    BY DEF vars
  <2>1. PICK s \in Seq(Op) : Len(s) = Len(ops) /\ Represents(hug, s)
    BY DEF HugInv
  <2>2. PICK q, n : q = hug.groups /\ n = Len(q)
    OBVIOUS
  <2>3. /\ q \in Seq(Groups) /\ n \in Nat /\ DOMAIN q = 1..n /\ g \in 1..n
    BY <2>1, <2>2, LenProperties DEF Represents, Vertices, Groups
  <2>4. ops \in Seq(Op) /\ Len(ops) \in Nat /\ DOMAIN ops = 1..Len(ops)
    BY LenProperties DEF Inv, Splits
  <2>5. CASE Hug
    BY <2>5 DEF Hug
  <2>6. ASSUME NEW i \in DOMAIN ops, EraseAt(i)
        PROVE  /\ g \in DOMAIN hug'.groups
               /\ hug'.groups[g].edge = hug.groups[g].edge
    <3>1. i \in 1..Len(s) /\ Len(s) \in Nat
      BY <2>1, <2>4
    <3>2. PICK w : w = hug'
      OBVIOUS
    <3>3. w = Erase(hug, i)
      BY <2>6, <3>2 DEF EraseAt
    <3>4. Erased(hug, w, i)
      BY <2>1, <3>1, <3>3, EraseIs
    <3>5. /\ w.groups \in Seq(Groups) /\ Len(w.groups) = n
          /\ \A h \in 1..n : w.groups[h].edge = q[h].edge
      BY <2>2, <3>4 DEF Erased
    <3>6. DOMAIN w.groups = 1..n
      BY <3>5, LenProperties
    <3>. QED
      BY <2>2, <2>3, <3>2, <3>5, <3>6
  <2>7. ASSUME NEW i \in 1..(Len(ops) + 1), NEW op \in Op, InsertAtPlace(i, op)
        PROVE  /\ g \in DOMAIN hug'.groups
               /\ hug'.groups[g].edge = hug.groups[g].edge
    <3>1. i \in 1..(Len(s) + 1) /\ Len(s) \in Nat
      BY <2>1, <2>4, <2>7
    <3>2. PICK w, k : w = hug' /\ k = GroupFor(hug, op)
      OBVIOUS
    <3>3. w = Insert(hug, i, op)
      BY <2>7, <3>2 DEF InsertAtPlace
    <3>4. Inserted(hug, w, k, i, op)
      BY <2>1, <2>7, <3>1, <3>2, <3>3, InsertIs
    <3>5. /\ w.groups \in Seq(Groups) /\ Len(w.groups) = (IF k = n + 1 THEN n + 1 ELSE n)
          /\ \A h \in 1..n : w.groups[h].edge = q[h].edge
      BY <2>2, <3>4 DEF Inserted
    <3>6. DOMAIN w.groups = 1..Len(w.groups) /\ g \in 1..Len(w.groups)
      BY <2>3, <3>5, LenProperties
    <3>. QED
      BY <2>2, <2>3, <3>2, <3>5, <3>6
  <2>8. CASE Adjoint
    BY <2>8 DEF Adjoint
  <2>9. CASE TransformIndices
    BY <2>9 DEF TransformIndices
  <2>. QED
    BY <2>5, <2>6, <2>7, <2>8, <2>9 DEF Next
<1>. QED
  BY <1>1, InvInit, InvStep, HugInit, HugStep, PTL DEF Spec, GroupsAreStable
=============================================================================
