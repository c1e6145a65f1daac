-------------------------- MODULE WickTheoremProofs --------------------------
(***************************************************************************)
(* The engine and Wick's theorem, for every set of inputs: the order in    *)
(* which the search visits sets of contractions, that it visits none       *)
(* twice, and that every term it delivers is one of Wick's theorem, with   *)
(* its sign.                                                               *)
(***************************************************************************)
EXTENDS WickCorrect, WickEngineProofs, DataInduction

-----------------------------------------------------------------------------
(***************************************************************************)
(* A call takes its left ops from the left, and for each its right ops     *)
(* from the left.  Nested calls look for their left op behind that of the  *)
(* caller.  Hence a branch that the search has left holds a pair that was  *)
(* tried before the one its call is at, and is never entered again.        *)
(***************************************************************************)
\* pair q is tried before the pair of l and r
Precedes(q, l, r) == q[1] < l \/ (q[1] = l /\ q[2] < r)

\* M is in a branch that the call with prefactor P left before it came to l and r
Passed(M, P, l, r) == P \subseteq M /\ \E q \in M \ P : Precedes(q, l, r)

PassedFrame(M, k) == Passed(M, stack[k].sp.pairs, stack[k].left, stack[k].right)

\* M is on the way to where the search is, or in a branch that it has left
Visited(M) ==
  \/ M = sp.pairs
  \/ pc = "scan" /\ Passed(M, sp.pairs, left, right)
  \/ pc = "return" /\ sp.pairs \subseteq M
  \/ \E k \in 1..Len(stack) : M = stack[k].sp.pairs \/ PassedFrame(M, k)

Before(S, x) == {y \in S : y < x}

\* the string of the call that frame k suspends
LiveAt(k) == AllOps(inp) \ OpsIn(stack[k].sp.pairs)

\* the offsets are the places of the left ops
OffsetInv ==
  /\ pc = "scan" => Cardinality(Before(live, left)) = leftOffset
  /\ pc = "enter" /\ stack # <<>> => offset = stack[Len(stack)].leftOffset
  /\ \A k \in 1..Len(stack) :
       Cardinality(Before(LiveAt(k), stack[k].left)) = stack[k].leftOffset

\* nested calls have more contractions, and left ops further to the right
NestingInv ==
  /\ \A j, k \in 1..Len(stack) : j < k =>
       /\ stack[j].left < stack[k].left
       /\ stack[j].sp.pairs \subseteq stack[k].sp.pairs
  /\ \A k \in 1..Len(stack) :
       /\ pc = "scan" => stack[k].left < left
       /\ stack[k].sp.pairs \subseteq sp.pairs
  /\ stack = <<>> => sp.pairs = {}
  /\ stack # <<>> => stack[1].sp.pairs = {}

\* no pair of the prefactor was tried before that of the frame it came after
AheadInv ==
  \A k \in 1..Len(stack) :
    \A q \in sp.pairs \ stack[k].sp.pairs : ~Precedes(q, stack[k].left, stack[k].right)

VisitedInv ==
  pc # "done" =>
    \A i \in DOMAIN result : result[i].pairs # {} /\ Visited(result[i].pairs)

OrderInv == OffsetInv /\ NestingInv /\ AheadInv /\ VisitedInv /\ TermsAreDistinct

-----------------------------------------------------------------------------
(***************************************************************************)
(* What the actions do to the call stack.                                  *)
(***************************************************************************)
LEMMA StackType ==
  ASSUME Inv
  PROVE  /\ stack \in Seq(Frame) /\ Len(stack) \in Nat
         /\ stack = <<>> <=> Len(stack) = 0
         /\ \A k \in 1..Len(stack) :
              /\ stack[k].left \in Nat /\ stack[k].right \in Nat
              /\ stack[k].left \in AllOps(inp) /\ stack[k].right \in AllOps(inp)
<1>1. stack \in Seq(Frame) /\ Len(stack) \in Nat
  BY LenProperties DEF Inv, TypeOK
<1>2. stack = <<>> <=> Len(stack) = 0
  BY <1>1, EmptySeq
<1>3. AllOps(inp) \subseteq Nat
  BY InputFacts DEF Inv, TypeOK
<1>4. \A k \in 1..Len(stack) : stack[k] \in Frame
  BY <1>1, ElementOfSeq
<1>. QED
  BY <1>1, <1>2, <1>3, <1>4 DEF Frame

LEMMA Push ==
  ASSUME Inv, Contract
  PROVE  /\ Len(stack') = Len(stack) + 1
         /\ \A k \in 1..Len(stack) : stack'[k] = stack[k]
         /\ stack'[Len(stack')].left = left
         /\ stack'[Len(stack')].leftOffset = leftOffset
         /\ stack'[Len(stack')].right = right
         /\ stack'[Len(stack')].sp = sp
         /\ stack'[Len(stack')].useful = useful'
         /\ stack' # <<>>
<1>. DEFINE g == [left |-> left, leftOffset |-> leftOffset,
                  right |-> right, sp |-> sp, useful |-> useful']
<1>1. stack' = Append(stack, g)
  BY DEF Contract
<1>2. g \in Frame
  BY TypeStep, ContractStep DEF Inv, TypeOK, Frame, Next
<1>3. stack \in Seq(Frame) /\ Len(stack) \in Nat
  BY StackType
<1>4. /\ Len(stack') = Len(stack) + 1
      /\ \A k \in 1..Len(stack) : stack'[k] = stack[k]
      /\ stack'[Len(stack) + 1] = g
  BY <1>1, <1>2, <1>3, AppendProperties
<1>5. stack' # <<>>
  BY <1>3, <1>4, EmptySeq
<1>. QED
  BY <1>4, <1>5

LEMMA Pop ==
  ASSUME Inv, Restore
  PROVE  LET f == stack[Len(stack)]
         IN  /\ Len(stack) >= 1 /\ Len(stack') = Len(stack) - 1
             /\ \A k \in 1..Len(stack') : k \in 1..Len(stack) /\ stack'[k] = stack[k]
             /\ sp' = f.sp /\ left' = f.left /\ leftOffset' = f.leftOffset
             /\ right' \in Nat /\ right' > f.right
             /\ pc' = "scan" /\ inp' = inp /\ result' = result /\ pc = "return"
             /\ live' = AllOps(inp) \ OpsIn(f.sp.pairs)
             /\ sp.pairs = f.sp.pairs \cup {<<f.left, f.right>>}
             /\ <<f.left, f.right>> \notin f.sp.pairs
             /\ f.left < f.right
             /\ f.left \in AllOps(inp) /\ f.right \in AllOps(inp)
<1>. DEFINE f == stack[Len(stack)]
<1>1. stack \in Seq(Frame) /\ Len(stack) \in Nat /\ stack # <<>> /\ Len(stack) >= 1
  BY StackType DEF Restore
<1>2. stack' = SubSeq(stack, 1, Len(stack) - 1)
  BY DEF Restore
<1>3. /\ Len(stack') = Len(stack) - 1
      /\ \A k \in 1..(Len(stack) - 1) : stack'[k] = stack[k]
  BY <1>1, <1>2, PopProperties, Zenon
<1>4. \A k \in 1..Len(stack') : k \in 1..Len(stack) /\ stack'[k] = stack[k]
  BY <1>1, <1>3
<1>5. /\ sp' = f.sp /\ f.left < f.right
      /\ f.left \in AllOps(inp) /\ f.right \in AllOps(inp)
      /\ live' = live \cup {f.left, f.right} /\ live' = AllOps(inp) \ OpsIn(f.sp.pairs)
      /\ sp.pairs = f.sp.pairs \cup {<<f.left, f.right>>}
      /\ <<f.left, f.right>> \notin f.sp.pairs
  BY RestoreStep
<1>6. /\ left' = f.left /\ leftOffset' = f.leftOffset
      /\ pc' = "scan" /\ inp' = inp /\ result' = result /\ pc = "return"
  BY DEF Restore
<1>7. \E y \in live' \cup {End(inp)} : IsResumePlace(live', f.right, y) /\ right' = y
  BY DEF Restore
<1>8. AllOps(inp) \subseteq Nat /\ End(inp) \in Nat
  BY InputFacts DEF Inv, TypeOK
<1>9. right' \in Nat /\ right' > f.right
  BY <1>5, <1>7, <1>8 DEF IsResumePlace, IsNextLive
<1>. QED
  BY <1>1, <1>3, <1>4, <1>5, <1>6, <1>9

\* all other actions leave the frames and the prefactor as they are
Quiet == ReturnEarly \/ NoLeftOp \/ Enter \/ Skip \/ Refuse \/ AdvanceLeft \/ Return

LEMMA QuietKeeps ==
  ASSUME Quiet
  PROVE  /\ inp' = inp /\ sp' = sp /\ live' = live /\ stack' = stack /\ result' = result
         /\ pc # "done" /\ pc' # "done"
BY DEF Quiet, ReturnEarly, NoLeftOp, Enter, Skip, Refuse, Scanning, AdvanceLeft, Return,
       state, output

-----------------------------------------------------------------------------
(***************************************************************************)
(* The offsets.                                                            *)
(***************************************************************************)
LEMMA BeforeFinite ==
  ASSUME IsInput(inp), NEW S \in SUBSET AllOps(inp), NEW x
  PROVE  IsFiniteSet(Before(S, x)) /\ Cardinality(Before(S, x)) \in Nat
BY InputFacts, FS_Subset, FS_CardinalityType DEF Before

\* erasing ops that are not to the left of x does not move x
LEMMA BeforeErased ==
  ASSUME NEW S \in SUBSET Nat, NEW l \in Nat, NEW r \in Nat, l < r
  PROVE  Before(S \ {l, r}, l) = Before(S, l)
BY DEF Before

LEMMA BeforeNext ==
  ASSUME IsInput(inp), NEW S \in SUBSET AllOps(inp), NEW x \in S, NEW y \in S,
         IsNextLive(S, x, y)
  PROVE  Cardinality(Before(S, y)) = Cardinality(Before(S, x)) + 1
<1>. DEFINE B == Before(S, x)
            C == Before(S, y)
<1>1. AllOps(inp) \subseteq Nat
  BY InputFacts
<1>2. C = B \cup {x} /\ x \notin B
  BY <1>1 DEF Before, IsNextLive
<1>3. IsFiniteSet(B)
  BY BeforeFinite
<1>. HIDE DEF B, C
<1>4. Cardinality(C) = Cardinality(B) + 1
  BY <1>2, <1>3, OneMore
<1>. QED
  BY <1>4 DEF B, C

\* an op with more ops to its left is further to the right
LEMMA OffsetOrders ==
  ASSUME IsInput(inp), NEW S \in SUBSET AllOps(inp), NEW x \in Nat, NEW y \in S,
         x \notin S, Cardinality(Before(S, y)) = Cardinality(Before(S, x))
  PROVE  x < y
<1>. DEFINE B == Before(S, x)
            C == Before(S, y)
<1>. SUFFICES ASSUME y <= x PROVE FALSE
  BY InputFacts
<1>1. AllOps(inp) \subseteq Nat
  BY InputFacts
<1>2. y < x
  BY <1>1
<1>3. C \subseteq B /\ y \in B /\ y \notin C
  BY <1>1, <1>2 DEF Before
<1>4. IsFiniteSet(B) /\ Cardinality(B) = Cardinality(C)
  BY BeforeFinite
<1>. HIDE DEF B, C
<1>5. B = C
  BY <1>3, <1>4, FS_Subset
<1>. QED
  BY <1>3, <1>5

LEMMA EnterLeft ==
  ASSUME Inv, OffsetInv, NestingInv, Enter
  PROVE  /\ left' \in live /\ Cardinality(Before(live, left')) = offset
         /\ \A k \in 1..Len(stack) : stack[k].left < left'
<1>1. left' \in live /\ Cardinality(Before(live, left')) = offset
  BY DEF Enter, IsAtOffset, Before
<1>2. IsInput(inp) /\ live \in SUBSET AllOps(inp) /\ AllOps(inp) \subseteq Nat
  BY InputFacts DEF Inv, TypeOK
<1>3. ASSUME NEW k \in 1..Len(stack)
      PROVE  stack[k].left < left'
  <2>. DEFINE n == Len(stack)
              f == stack[n]
  <2>1. n \in 1..n /\ stack # <<>> /\ f.left \in Nat /\ f.right \in Nat /\ stack[k].left \in Nat
    BY <1>3, StackType
  <2>2. /\ f.left < f.right /\ sp.pairs = f.sp.pairs \cup {<<f.left, f.right>>}
    BY <2>1 DEF Inv, FramesInv, FrameInv, PairsAbove
  <2>3. live = LiveAt(n) \ {f.left, f.right}
    <3>. DEFINE t == <<f.left, f.right>>
    <3>1. t[1] = f.left /\ t[2] = f.right /\ sp.pairs = f.sp.pairs \cup {t}
      BY <2>2
    <3>. HIDE DEF t
    <3>2. OpsIn(sp.pairs) = OpsIn(f.sp.pairs) \cup {t[1], t[2]}
      BY <3>1, OpsInAdd
    <3>. QED
      BY <3>1, <3>2 DEF Inv, StringMatchesPrefactor, LiveAt
  <2>4. LiveAt(n) \in SUBSET Nat
    BY <1>2 DEF LiveAt
  <2>5. Before(live, f.left) = Before(LiveAt(n), f.left)
    BY <2>1, <2>2, <2>3, <2>4, BeforeErased
  <2>6. Cardinality(Before(live, f.left)) = offset
    BY <2>1, <2>5 DEF OffsetInv, Enter
  <2>7. f.left < left'
    BY <1>1, <1>2, <2>1, <2>3, <2>6, OffsetOrders
  <2>8. stack[k].left <= f.left
    BY <2>1, <1>3 DEF NestingInv
  <2>. QED
    BY <1>1, <1>2, <2>1, <2>7, <2>8
<1>. QED
  BY <1>1, <1>3

LEMMA OffsetStep == Inv /\ OffsetInv /\ NestingInv /\ [Next]_vars => OffsetInv'
<1>. SUFFICES ASSUME Inv, OffsetInv, NestingInv, [Next]_vars
              PROVE  OffsetInv'
  OBVIOUS
<1>. USE DEF state, output, cursor
<1>0. IsInput(inp) /\ live \in SUBSET AllOps(inp)
  BY DEF Inv, TypeOK
<1>1. CASE Enter
  BY <1>1, EnterLeft DEF Enter, OffsetInv, LiveAt
<1>2. CASE AdvanceLeft
  <2>1. left \in live
    BY <1>2 DEF AdvanceLeft, Inv, CursorInv
  <2>2. left' \in live /\ IsNextLive(live, left, left')
    BY <1>2 DEF AdvanceLeft
  <2>3. Cardinality(Before(live, left')) = Cardinality(Before(live, left)) + 1
    BY <1>0, <2>1, <2>2, BeforeNext
  <2>. QED
    BY <1>2, <2>3 DEF AdvanceLeft, OffsetInv, LiveAt
<1>3. CASE Contract
  <2>1. /\ Len(stack') = Len(stack) + 1 /\ inp' = inp
        /\ \A k \in 1..Len(stack) : stack'[k] = stack[k]
        /\ stack'[Len(stack')].left = left /\ stack'[Len(stack')].leftOffset = leftOffset
        /\ stack'[Len(stack')].sp = sp
    BY <1>3, Push DEF Contract
  <2>2. pc = "scan" /\ (pc' = "enter" => offset' = leftOffset) /\ pc' # "scan"
    BY <1>3 DEF Contract, Scanning, NestedOffset
  <2>3. ASSUME NEW k \in 1..Len(stack')
        PROVE  Cardinality(Before(LiveAt(k)', stack'[k].left)) = stack'[k].leftOffset
    <3>1. CASE k = Len(stack')
      <4>1. LiveAt(k)' = live
        BY <2>1, <3>1 DEF LiveAt, Inv, StringMatchesPrefactor
      <4>. QED
        BY <2>1, <2>2, <3>1, <4>1 DEF OffsetInv
    <3>2. CASE k # Len(stack')
      <4>1. k \in 1..Len(stack) /\ stack'[k] = stack[k]
        BY <2>1, <3>2, StackType
      <4>2. LiveAt(k)' = LiveAt(k)
        BY <2>1, <4>1 DEF LiveAt
      <4>. QED
        BY <4>1, <4>2 DEF OffsetInv
    <3>. QED
      BY <3>1, <3>2
  <2>. QED
    BY <2>1, <2>2, <2>3 DEF OffsetInv, Before
<1>4. CASE Restore
  <2>. DEFINE f == stack[Len(stack)]
  <2>1. /\ Len(stack) >= 1 /\ inp' = inp /\ pc' = "scan"
        /\ \A k \in 1..Len(stack') : k \in 1..Len(stack) /\ stack'[k] = stack[k]
        /\ left' = f.left /\ leftOffset' = f.leftOffset
        /\ live' = AllOps(inp) \ OpsIn(f.sp.pairs)
    BY <1>4, Pop
  <2>2. Len(stack) \in 1..Len(stack)
    BY <2>1, StackType
  <2>3. live' = LiveAt(Len(stack))
    BY <2>1 DEF LiveAt
  <2>4. Cardinality(Before(live', left')) = leftOffset'
    BY <2>1, <2>2, <2>3 DEF OffsetInv
  <2>5. \A k \in 1..Len(stack') : LiveAt(k)' = LiveAt(k)
    BY <2>1 DEF LiveAt
  <2>. QED
    BY <2>1, <2>4, <2>5 DEF OffsetInv, Before
<1>5. CASE ReturnEarly \/ NoLeftOp \/ Skip \/ Refuse \/ Return \/ Finish
  BY <1>5 DEF ReturnEarly, NoLeftOp, Skip, Refuse, Scanning, Return, Finish, OffsetInv, LiveAt
<1>6. CASE UNCHANGED vars
  BY <1>6 DEF vars, OffsetInv, LiveAt, Before
<1>. QED
  BY <1>1, <1>2, <1>3, <1>4, <1>5, <1>6 DEF Next, Done

-----------------------------------------------------------------------------
(***************************************************************************)
(* The nesting of the calls.                                               *)
(***************************************************************************)
LEMMA QuietAdvances ==
  ASSUME Inv, OffsetInv, NestingInv, Quiet, NEW k \in 1..Len(stack)
  PROVE  pc' = "scan" => stack[k].left < left'
<1>1. CASE Enter
  BY <1>1, EnterLeft
<1>2. CASE AdvanceLeft
  <2>1. left' \in live /\ left' > left /\ stack[k].left < left
    BY <1>2 DEF AdvanceLeft, IsNextLive, NestingInv
  <2>2. live \subseteq Nat /\ left \in Nat /\ stack[k].left \in Nat
    BY StackType, InputFacts DEF Inv, TypeOK
  <2>. QED
    BY <2>1, <2>2
<1>3. CASE Skip \/ Refuse
  BY <1>3 DEF Skip, Refuse, Scanning, NestingInv
<1>4. CASE ReturnEarly \/ NoLeftOp \/ Return
  BY <1>4 DEF ReturnEarly, NoLeftOp, Return
<1>. QED
  BY <1>1, <1>2, <1>3, <1>4 DEF Quiet

LEMMA NestingStep == Inv /\ OffsetInv /\ NestingInv /\ [Next]_vars => NestingInv'
<1>. SUFFICES ASSUME Inv, OffsetInv, NestingInv, [Next]_vars
              PROVE  NestingInv'
  OBVIOUS
<1>0. Len(stack) \in Nat /\ (stack = <<>> <=> Len(stack) = 0)
  BY StackType
<1>1. CASE Quiet
  BY <1>1, QuietKeeps, QuietAdvances DEF NestingInv
<1>2. CASE Contract
  <2>. DEFINE n == Len(stack')
  <2>1. /\ n = Len(stack) + 1 /\ stack' # <<>>
        /\ \A k \in 1..Len(stack) : stack'[k] = stack[k]
        /\ stack'[n].left = left /\ stack'[n].sp = sp
    BY <1>2, Push
  <2>2. /\ pc = "scan" /\ pc' # "scan" /\ sp.pairs \subseteq sp'.pairs
    BY <1>2, ContractStep DEF Contract, Scanning
  <2>3. ASSUME NEW k \in 1..n, k # n
        PROVE  k \in 1..Len(stack) /\ stack'[k] = stack[k]
    BY <1>0, <2>1, <2>3
  <2>. HIDE DEF n
  <2>4. ASSUME NEW j \in 1..n, NEW k \in 1..n, j < k
        PROVE  stack'[j].left < stack'[k].left /\ stack'[j].sp.pairs \subseteq stack'[k].sp.pairs
    <3>1. j \in 1..Len(stack) /\ stack'[j] = stack[j]
      BY <1>0, <2>1, <2>4
    <3>2. CASE k = n
      BY <2>1, <2>2, <3>1, <3>2 DEF NestingInv
    <3>3. CASE k # n
      BY <2>3, <2>4, <3>1, <3>3 DEF NestingInv
    <3>. QED
      BY <3>2, <3>3
  <2>5. ASSUME NEW k \in 1..n
        PROVE  stack'[k].sp.pairs \subseteq sp'.pairs
    BY <2>1, <2>2, <2>3 DEF NestingInv
  <2>6. stack'[1].sp.pairs = {}
    <3>1. CASE n = 1
      BY <1>0, <2>1, <3>1 DEF NestingInv
    <3>2. CASE n # 1
      BY <1>0, <2>1, <3>2 DEF NestingInv
    <3>. QED
      BY <3>1, <3>2
  <2>. QED
    BY <2>1, <2>2, <2>4, <2>5, <2>6 DEF NestingInv, n
<1>3. CASE Restore
  <2>. DEFINE f == stack[Len(stack)]
  <2>1. /\ Len(stack) >= 1 /\ Len(stack') = Len(stack) - 1
        /\ \A k \in 1..Len(stack') : k \in 1..Len(stack) /\ stack'[k] = stack[k]
        /\ left' = f.left /\ sp' = f.sp
    BY <1>3, Pop
  <2>2. Len(stack) \in 1..Len(stack) /\ \A k \in 1..Len(stack') : k < Len(stack)
    BY <1>0, <2>1
  <2>3. stack # <<>>
    BY <1>0, <2>1
  <2>4. stack' = <<>> => sp'.pairs = {}
    <3>1. ASSUME stack' = <<>>
          PROVE  Len(stack) = 1
      <4>1. Len(stack') = 0
        BY <3>1, EmptySeq
      <4>. QED
        BY <1>0, <2>1, <4>1
    <3>2. stack[1].sp.pairs = {}
      BY <2>3 DEF NestingInv
    <3>3. Len(stack) = 1 => sp'.pairs = {}
      BY <2>1, <3>2
    <3>. QED
      BY <3>1, <3>3
  <2>5. stack' # <<>> => Len(stack') >= 1
    <3>1. stack' = SubSeq(stack, 1, Len(stack) - 1)
      BY <1>3 DEF Restore
    <3>2. Len(stack') = 0 => stack' = <<>>
      BY <1>0, <2>1, <3>1
    <3>. QED
      BY <1>0, <2>1, <3>2
  <2>6. stack' # <<>> => stack'[1].sp.pairs = {}
    BY <1>0, <2>1, <2>3, <2>5 DEF NestingInv
  <2>. QED
    BY <2>1, <2>2, <2>4, <2>6 DEF NestingInv
<1>4. CASE Finish
  BY <1>4 DEF Finish, NestingInv, state, cursor
<1>5. CASE UNCHANGED vars
  BY <1>5 DEF vars, NestingInv, state, cursor
<1>. QED
  BY <1>1, <1>2, <1>3, <1>4, <1>5 DEF Next, Done, Quiet

LEMMA AheadStep == Inv /\ NestingInv /\ AheadInv /\ [Next]_vars => AheadInv'
<1>. SUFFICES ASSUME Inv, NestingInv, AheadInv, [Next]_vars
              PROVE  AheadInv'
  OBVIOUS
<1>0. Len(stack) \in Nat
  BY StackType
<1>1. CASE Contract
  <2>. DEFINE n == Len(stack')
  <2>1. /\ n = Len(stack) + 1
        /\ \A k \in 1..Len(stack) : stack'[k] = stack[k]
        /\ stack'[n].left = left /\ stack'[n].right = right /\ stack'[n].sp = sp
    BY <1>1, Push
  <2>2. sp'.pairs = sp.pairs \cup {<<left, right>>} /\ left \in live /\ right \in live
    BY <1>1, ContractStep
  <2>3. live \subseteq Nat
    BY InputFacts DEF Inv, TypeOK
  <2>. HIDE DEF n
  <2>4. ASSUME NEW k \in 1..n, NEW q \in sp'.pairs \ stack'[k].sp.pairs
        PROVE  ~Precedes(q, stack'[k].left, stack'[k].right)
    <3>1. CASE k = n
      <4>1. q = <<left, right>>
        BY <2>1, <2>2, <2>4, <3>1
      <4>. QED
        BY <2>1, <2>2, <2>3, <3>1, <4>1 DEF Precedes
    <3>2. CASE k # n
      <4>1. k \in 1..Len(stack) /\ stack'[k] = stack[k]
        BY <1>0, <2>1, <3>2
      <4>2. CASE q = <<left, right>>
        <5>1. stack[k].left < left /\ stack[k].left \in Nat
          BY <1>1, <4>1, StackType DEF NestingInv, Contract, Scanning
        <5>. QED
          BY <2>2, <2>3, <4>1, <4>2, <5>1 DEF Precedes
      <4>3. CASE q # <<left, right>>
        BY <2>2, <2>4, <4>1, <4>3 DEF AheadInv
      <4>. QED
        BY <4>2, <4>3
    <3>. QED
      BY <3>1, <3>2
  <2>. QED
    BY <2>4 DEF AheadInv, n
<1>2. CASE Restore
  <2>1. /\ Len(stack) >= 1
        /\ \A k \in 1..Len(stack') : k \in 1..Len(stack) /\ stack'[k] = stack[k]
        /\ sp' = stack[Len(stack)].sp
    BY <1>2, Pop
  <2>2. Len(stack) \in 1..Len(stack)
    BY <1>0, <2>1
  <2>3. sp'.pairs \subseteq sp.pairs
    BY <2>1, <2>2 DEF NestingInv
  <2>. QED
    BY <2>1, <2>3 DEF AheadInv
<1>3. CASE Quiet \/ Finish \/ UNCHANGED vars
  <2>1. stack' = stack /\ sp' = sp
    BY <1>3, QuietKeeps DEF Finish, vars, state
  <2>. QED
    BY <2>1 DEF AheadInv
<1>. QED
  BY <1>1, <1>2, <1>3 DEF Next, Done, Quiet

-----------------------------------------------------------------------------
(***************************************************************************)
(* Whatever was visited stays visited, and what is about to be delivered   *)
(* was not visited before.                                                 *)
(***************************************************************************)
LEMMA PassedFurther ==
  ASSUME NEW M \in SUBSET (Nat \X Nat), NEW P, NEW l \in Nat, NEW r \in Nat,
         NEW x \in Nat, NEW y \in Nat, Passed(M, P, l, r), l < x \/ (l = x /\ r < y)
  PROVE  Passed(M, P, x, y)
<1>1. PICK q \in M \ P : Precedes(q, l, r)
  BY DEF Passed
<1>2. q[1] \in Nat /\ q[2] \in Nat
  OBVIOUS
<1>3. Precedes(q, x, y)
  BY <1>1, <1>2 DEF Precedes
<1>. QED
  BY <1>3 DEF Passed

LEMMA VisitedQuiet ==
  ASSUME Inv, Quiet, NEW M \in SUBSET Pairs, Visited(M)
  PROVE  Visited(M)'
<1>1. /\ inp' = inp /\ sp' = sp /\ stack' = stack
  BY QuietKeeps
<1>2. CASE pc = "enter" \/ M = sp.pairs \/ \E k \in 1..Len(stack) : M = stack[k].sp.pairs \/ PassedFrame(M, k)
  <2>1. M = sp.pairs \/ \E k \in 1..Len(stack) : M = stack[k].sp.pairs \/ PassedFrame(M, k)
    BY <1>2 DEF Visited
  <2>. QED
    BY <1>1, <2>1 DEF Visited, PassedFrame
<1>3. CASE pc = "scan" /\ Passed(M, sp.pairs, left, right)
  <2>1. M \in SUBSET (Nat \X Nat) /\ left \in Nat /\ right \in Nat
    BY InputFacts DEF Inv, TypeOK, Pairs
  <2>2. CASE Return
    BY <1>1, <1>3, <2>2 DEF Return, Passed, Visited
  <2>3. CASE Skip \/ Refuse \/ AdvanceLeft
    <3>1. pc' = "scan" /\ left' \in Nat /\ right' \in Nat
      BY <1>3, <2>3, TypeStep, InputFacts, QuietKeeps
         DEF Next, Inv, TypeOK, Skip, Refuse, AdvanceLeft, Scanning
    <3>2. left < left' \/ (left = left' /\ right < right')
      BY <2>1, <2>3, <3>1 DEF Skip, Refuse, AdvanceLeft, AdvanceRight, IsNextLive
    <3>3. Passed(M, sp.pairs, left', right')
      BY <1>3, <2>1, <3>1, <3>2, PassedFurther
    <3>. QED
      BY <1>1, <3>1, <3>3 DEF Visited
  <2>. QED
    BY <1>3, <2>2, <2>3 DEF Quiet, ReturnEarly, NoLeftOp, Enter
<1>4. CASE pc = "return"
  BY <1>4 DEF Quiet, ReturnEarly, NoLeftOp, Enter, Skip, Refuse, Scanning, AdvanceLeft, Return
<1>. QED
  BY <1>2, <1>3, <1>4 DEF Visited

LEMMA VisitedContract ==
  ASSUME Inv, NestingInv, AheadInv, Contract, NEW M \in SUBSET Pairs, Visited(M)
  PROVE  Visited(M)' /\ M # sp'.pairs
<1>1. PICK n \in 1..Len(stack') :
        /\ n = Len(stack') /\ Len(stack) \in Nat
        /\ \A k \in 1..Len(stack) : k \in 1..n /\ stack'[k] = stack[k]
        /\ stack'[n].left = left /\ stack'[n].right = right /\ stack'[n].sp = sp
  BY Push, StackType
<1>2. /\ pc = "scan" /\ sp'.pairs = sp.pairs \cup {<<left, right>>}
      /\ <<left, right>> \notin sp.pairs /\ left \in Nat /\ right \in Nat
  <2>1. \A l, r : <<l, r>> \in sp.pairs => l \in OpsIn(sp.pairs)
    BY DEF OpsIn
  <2>2. left \notin OpsIn(sp.pairs) /\ sp'.pairs = sp.pairs \cup {<<left, right>>}
    BY ContractStep
  <2>3. pc = "scan" /\ left \in Nat /\ right \in Nat
    BY InputFacts DEF Inv, TypeOK, Contract, Scanning
  <2>. QED
    BY <2>1, <2>2, <2>3
<1>3. AheadInv'
  BY AheadStep DEF Next
<1>4. CASE M = sp.pairs
  BY <1>1, <1>2, <1>4 DEF Visited
<1>5. CASE Passed(M, sp.pairs, left, right)
  <2>1. PassedFrame(M, n)'
    BY <1>1, <1>5 DEF PassedFrame
  <2>2. M # sp'.pairs
    BY <1>2, <1>5 DEF Passed, Precedes
  <2>. QED
    BY <1>1, <2>1, <2>2 DEF Visited
<1>6. ASSUME NEW k \in 1..Len(stack), M = stack[k].sp.pairs
      PROVE  Visited(M)' /\ M # sp'.pairs
  <2>1. M \subseteq sp.pairs
    BY <1>6 DEF NestingInv
  <2>. QED
    BY <1>1, <1>2, <1>6, <2>1 DEF Visited
<1>7. ASSUME NEW k \in 1..Len(stack), PassedFrame(M, k)
      PROVE  Visited(M)' /\ M # sp'.pairs
  <2>1. k \in 1..n /\ stack'[k] = stack[k]
    BY <1>1
  <2>2. PassedFrame(M, k)'
    BY <1>7, <2>1 DEF PassedFrame
  <2>3. M # sp'.pairs
    BY <1>3, <1>7, <2>1 DEF AheadInv, PassedFrame, Passed
  <2>. QED
    BY <2>1, <2>2, <2>3 DEF Visited
<1>. QED
  BY <1>2, <1>4, <1>5, <1>6, <1>7 DEF Visited

LEMMA VisitedRestore ==
  ASSUME Inv, Restore, NEW M \in SUBSET Pairs, Visited(M)
  PROVE  Visited(M)'
<1>. DEFINE n == Len(stack)
            f == stack[n]
<1>1. /\ n >= 1 /\ Len(stack') = n - 1 /\ n \in Nat /\ n \in 1..n
      /\ \A k \in 1..Len(stack') : k \in 1..n /\ stack'[k] = stack[k]
      /\ sp' = f.sp /\ left' = f.left /\ right' \in Nat /\ right' > f.right
      /\ pc' = "scan" /\ pc = "return"
      /\ sp.pairs = f.sp.pairs \cup {<<f.left, f.right>>}
      /\ <<f.left, f.right>> \notin f.sp.pairs
  BY Pop, StackType
<1>2. f.left \in Nat /\ f.right \in Nat /\ M \in SUBSET (Nat \X Nat)
  BY <1>1, StackType, InputFacts DEF Inv, TypeOK, Pairs
<1>. HIDE DEF n, f
<1>3. CASE sp.pairs \subseteq M
  <2>. DEFINE q == <<f.left, f.right>>
  <2>1. q[1] = f.left /\ q[2] = f.right /\ q \in M \ f.sp.pairs
    BY <1>1, <1>3
  <2>. HIDE DEF q
  <2>2. Precedes(q, left', right')
    BY <1>1, <1>2, <2>1 DEF Precedes
  <2>3. Passed(M, sp'.pairs, left', right')
    BY <1>1, <1>3, <2>1, <2>2 DEF Passed
  <2>. QED
    BY <1>1, <2>3 DEF Visited
<1>4. ASSUME NEW k \in 1..n, M = stack[k].sp.pairs \/ PassedFrame(M, k)
      PROVE  Visited(M)'
  <2>1. CASE k = n
    <3>1. CASE M = f.sp.pairs
      BY <1>1, <3>1 DEF Visited
    <3>2. CASE Passed(M, f.sp.pairs, f.left, f.right)
      <4>1. Passed(M, f.sp.pairs, f.left, right')
        BY <1>1, <1>2, <3>2, PassedFurther
      <4>. QED
        BY <1>1, <4>1 DEF Visited
    <3>. QED
      BY <1>4, <2>1, <3>1, <3>2 DEF PassedFrame, n, f
  <2>2. CASE k # n
    <3>1. k \in 1..Len(stack') /\ stack'[k] = stack[k]
      BY <1>1, <2>2
    <3>. QED
      BY <1>4, <3>1 DEF Visited, PassedFrame
  <2>. QED
    BY <2>1, <2>2
<1>. QED
  BY <1>1, <1>3, <1>4 DEF Visited, n

\* one more term keeps the terms distinct if it is a new one
LEMMA DistinctAppend ==
  ASSUME TypeOK, TermsAreDistinct, NEW t \in TermRecord,
         \A i \in DOMAIN result : result[i].pairs # t.pairs,
         result' = Append(result, t)
  PROVE  /\ TermsAreDistinct'
         /\ \A i \in DOMAIN result' : \/ i \in DOMAIN result /\ result'[i] = result[i]
                                     \/ result'[i] = t
<1>1. /\ DOMAIN result' = 1..(Len(result) + 1) /\ DOMAIN result = 1..Len(result)
      /\ \A i \in 1..Len(result) : result'[i] = result[i]
      /\ result'[Len(result) + 1] = t
      /\ Len(result) \in Nat
  BY DEF TypeOK
<1>2. ASSUME NEW i \in DOMAIN result'
      PROVE  \/ i \in DOMAIN result /\ result'[i] = result[i]
             \/ i = Len(result) + 1 /\ result'[i] = t
  <2>1. i \in 1..Len(result) \/ i = Len(result) + 1
    BY <1>1
  <2>. QED
    BY <1>1, <2>1
<1>. QED
  BY <1>2 DEF TermsAreDistinct

LEMMA TermPairs ==
  ASSUME TypeOK, NEW i \in DOMAIN result
  PROVE  result[i] \in TermRecord /\ result[i].pairs \in SUBSET Pairs
<1>1. result[i] \in TermRecord
  BY DEF TypeOK
<1>. QED
  BY <1>1 DEF TermRecord

LEMMA VisitedStep ==
  Inv /\ NestingInv /\ AheadInv /\ VisitedInv /\ TermsAreDistinct /\ [Next]_vars
    => VisitedInv' /\ TermsAreDistinct'
<1>. SUFFICES ASSUME Inv, NestingInv, AheadInv, VisitedInv, TermsAreDistinct, [Next]_vars
              PROVE  VisitedInv' /\ TermsAreDistinct'
  OBVIOUS
<1>0. TypeOK /\ \A i \in DOMAIN result : result[i].pairs \in SUBSET Pairs
  BY TermPairs DEF Inv
<1>1. CASE Quiet
  <2>1. result' = result /\ pc # "done" /\ \A i \in DOMAIN result : Visited(result[i].pairs)'
    BY <1>0, <1>1, QuietKeeps, VisitedQuiet DEF VisitedInv
  <2>. QED
    BY <2>1 DEF VisitedInv, TermsAreDistinct, Visited, PassedFrame
<1>2. CASE Restore
  <2>1. result' = result /\ pc # "done" /\ \A i \in DOMAIN result : Visited(result[i].pairs)'
    BY <1>0, <1>2, VisitedRestore DEF VisitedInv, Restore
  <2>. QED
    BY <2>1 DEF VisitedInv, TermsAreDistinct, Visited, PassedFrame
<1>3. CASE Contract
  <2>0. pc # "done"
    BY <1>3 DEF Contract, Scanning
  <2>1. \A M : (\E i \in DOMAIN result : M = result[i].pairs) =>
                M # {} /\ Visited(M)' /\ M # sp'.pairs
    BY <1>0, <1>3, <2>0, VisitedContract DEF VisitedInv
  <2>2. sp'.pairs # {} /\ \A M : M = sp'.pairs => Visited(M)'
    BY <1>3, ContractStep DEF Visited
  <2>3. CASE result' = result
    <3>1. VisitedInv'
      BY <2>1, <2>3 DEF VisitedInv, Visited, PassedFrame
    <3>2. TermsAreDistinct'
      BY <2>3 DEF TermsAreDistinct
    <3>. QED
      BY <3>1, <3>2
  <2>4. CASE result' # result
    <3>. DEFINE t == Term(sp', live')
    <3>1. result' = Append(result, t)
      BY <1>3, <2>4 DEF Contract
    <3>2. t \in TermRecord /\ t.pairs = sp'.pairs
      <4>1. sp' \in Product /\ live' \in SUBSET AllOps(inp) /\ inp' = inp
        BY <1>3, TypeStep DEF Next, Inv, TypeOK, Product, Pairs, Contract
      <4>. QED
        BY <4>1 DEF Term, TermRecord, Product
    <3>. HIDE DEF t
    <3>3. /\ TermsAreDistinct'
          /\ \A i \in DOMAIN result' : \/ i \in DOMAIN result /\ result'[i] = result[i]
                                      \/ result'[i] = t
      BY <1>0, <2>1, <3>1, <3>2, DistinctAppend
    <3>4. \A i \in DOMAIN result' : result'[i].pairs # {} /\ \A M : M = result'[i].pairs => Visited(M)'
      BY <2>1, <2>2, <3>2, <3>3
    <3>. QED
      BY <3>3, <3>4 DEF VisitedInv, Visited, PassedFrame
  <2>. QED
    BY <2>3, <2>4
<1>4. CASE Finish
  <2>1. VisitedInv'
    BY <1>4 DEF Finish, VisitedInv
  <2>2. CASE result' = result
    BY <2>1, <2>2 DEF TermsAreDistinct
  <2>3. CASE result' # result
    <3>. DEFINE t == Term([scalar |-> 1, pairs |-> {}], AllOps(inp))
    <3>1. result' = Append(result, t)
      BY <1>4, <2>3 DEF Finish
    <3>2. t \in TermRecord /\ t.pairs = {}
      BY DEF Term, TermRecord
    <3>. HIDE DEF t
    <3>3. \A i \in DOMAIN result : result[i].pairs # t.pairs
      BY <1>4, <3>2 DEF Finish, VisitedInv
    <3>. QED
      BY <1>0, <2>1, <3>1, <3>2, <3>3, DistinctAppend
  <2>. QED
    BY <2>2, <2>3
<1>5. CASE UNCHANGED vars
  BY <1>5 DEF vars, state, output, cursor, VisitedInv, TermsAreDistinct, Visited, PassedFrame
<1>. QED
  BY <1>1, <1>2, <1>3, <1>4, <1>5 DEF Next, Done, Quiet

LEMMA OrderInit == Init => OrderInv
<1>. SUFFICES ASSUME Init
              PROVE  OrderInv
  OBVIOUS
<1>1. Len(stack) = 0 /\ stack = <<>> /\ DOMAIN result = {} /\ pc = "enter" /\ sp.pairs = {}
  BY EmptySeq DEF Init
<1>. QED
  BY <1>1 DEF OrderInv, OffsetInv, NestingInv, AheadInv, VisitedInv, TermsAreDistinct

LEMMA OrderCorrect == Spec => [](Inv /\ OrderInv)
<1>1. Init => Inv /\ OrderInv
  BY InvInit, OrderInit
<1>2. Inv /\ OrderInv /\ [Next]_vars => (Inv /\ OrderInv)'
  BY InvStep, OffsetStep, NestingStep, AheadStep, VisitedStep DEF OrderInv
<1>. QED
  BY <1>1, <1>2, PTL DEF Spec

\* No set of contractions is delivered twice, for every set of inputs: however
\* the search in recursive_nontensor_wick backtracks, advances its two
\* iterators and resumes by the offset of the left op, it never comes to the
\* same contractions by two ways.
THEOREM TermsAreDistinctCorrect == Spec => []TermsAreDistinct
<1>1. Inv /\ OrderInv => TermsAreDistinct
  BY DEF OrderInv
<1>. QED
  BY <1>1, OrderCorrect, PTL

-----------------------------------------------------------------------------
(***************************************************************************)
(* What is still to come.  Without topological degeneracies the search     *)
(* delivers every set of contractions that a term is wanted for, and the   *)
(* contraction that delivers it is the one that ends its being to come.    *)
(***************************************************************************)
\* no contraction stands for others
Plain == ~inp.topology /\ \A a \in Nops(inp) : inp.partition[a] = 0

\* the search is to find a term with contractions M
IsWanted(M) ==
  /\ M \in SUBSET Pairs /\ M # {}
  /\ IsContraction(M) /\ Reachable(M)
  /\ inp.full => OpsIn(M) = AllOps(inp)

\* a call with prefactor P that is at l and r has M before it
AheadAt(M, P, l, r) == P \subseteq M /\ P # M /\ \A q \in M \ P : ~Precedes(q, l, r)

AheadFrame(M, k) ==
  /\ AheadAt(M, stack[k].sp.pairs, stack[k].left, stack[k].right)
  /\ <<stack[k].left, stack[k].right>> \notin M

\* the running call has M before it
IsInFront(M) ==
  \/ pc = "scan" /\ AheadAt(M, sp.pairs, left, right)
  \/ /\ pc = "enter"
     /\ sp.pairs \subseteq M /\ sp.pairs # M
     /\ \A q \in M \ sp.pairs : Cardinality(Before(live, q[1])) >= offset

Coming(M) == IsInFront(M) \/ \E k \in 1..Len(stack) : AheadFrame(M, k)

\* full contractions: the left op is the first one
FirstInv ==
  inp.full => /\ offset = 0 /\ leftOffset = 0
              /\ \A k \in 1..Len(stack) : stack[k].leftOffset = 0

Wanted == {M \in SUBSET Pairs : IsWanted(M)}

\* what the search has found, by the contractions that it still has before it
Gone == {M \in Wanted : ~Coming(M)}

Accounted == IF pc = "done" THEN Wanted \cup (IF inp.full THEN {} ELSE {{}}) ELSE Gone

Found == {result[i].pairs : i \in DOMAIN result}

CompleteInv ==
  Plain => IF inp.countOnly THEN count = Cardinality(Accounted) ELSE Found = Accounted

LEMMA RestIsFree ==
  ASSUME IsInput(inp), NEW M, IsWanted(M), NEW P \in SUBSET M, NEW q \in M \ P
  PROVE  /\ q = <<q[1], q[2]>> /\ q[1] \in Nat /\ q[2] \in Nat /\ q[1] < q[2]
         /\ q[1] \in AllOps(inp) \ OpsIn(P) /\ q[2] \in AllOps(inp) \ OpsIn(P)
         /\ q[2] < End(inp)
         /\ inp.nop[q[1]] # inp.nop[q[2]] /\ CanContract(inp, q[1], q[2])
<1>1. q \in AllOps(inp) \X AllOps(inp) /\ IsContraction(M)
  BY DEF IsWanted, Pairs
<1>2. AllOps(inp) \subseteq Nat /\ \A o \in AllOps(inp) : o < End(inp)
  BY InputFacts DEF AllOps, End
<1>3. q[1] \notin OpsIn(P) /\ q[2] \notin OpsIn(P)
  <2>1. \A p \in P : {p[1], p[2]} \cap {q[1], q[2]} = {}
    BY <1>1 DEF IsContraction
  <2>. QED
    BY <2>1 DEF OpsIn
<1>. QED
  BY <1>1, <1>2, <1>3 DEF IsContraction

LEMMA BeforeOrder ==
  ASSUME IsInput(inp), NEW S \in SUBSET AllOps(inp), NEW x \in Nat, NEW y \in S
  PROVE  x <= y <=> Cardinality(Before(S, x)) <= Cardinality(Before(S, y))
<1>. DEFINE B == Before(S, x)
            C == Before(S, y)
<1>1. S \subseteq Nat /\ y \in Nat
  BY InputFacts
<1>2. /\ IsFiniteSet(B) /\ Cardinality(B) \in Nat
      /\ IsFiniteSet(C) /\ Cardinality(C) \in Nat
  BY BeforeFinite
<1>3. CASE x <= y
  <2>0. \A u \in S : u < x => u < y
    BY <1>1, <1>3
  <2>1. B \in SUBSET C
    BY <2>0, Zenon DEF Before
  <2>. HIDE DEF B, C
  <2>2. Cardinality(B) <= Cardinality(C)
    BY <1>2, <2>1, FS_Subset
  <2>. QED
    BY <1>3, <2>2 DEF B, C
<1>4. CASE y < x
  <2>0. \A u \in S : u < y => u < x
    BY <1>1, <1>4
  <2>1. C \in SUBSET B /\ y \in B
    BY <1>4, <2>0, Zenon DEF Before
  <2>2. y \notin C
    BY <1>1 DEF Before
  <2>. HIDE DEF B, C
  <2>3. Cardinality(C) <= Cardinality(B) /\ Cardinality(B) # Cardinality(C)
    BY <1>2, <2>1, <2>2, FS_Subset
  <2>4. ~(Cardinality(B) <= Cardinality(C))
    BY <1>2, <2>3
  <2>. QED
    BY <1>1, <1>4, <2>4 DEF B, C
<1>. QED
  BY <1>1, <1>3, <1>4

\* a full contraction has a pair for the first free op
LEMMA FirstIsTaken ==
  ASSUME Inv, inp.full, NEW M, IsWanted(M), sp.pairs \subseteq M,
         NEW x \in live, Cardinality(Before(live, x)) = 0
  PROVE  \E q \in M \ sp.pairs : q[1] = x
<1>1. IsInput(inp) /\ live = AllOps(inp) \ OpsIn(sp.pairs) /\ live \in SUBSET AllOps(inp)
  BY DEF Inv, TypeOK, StringMatchesPrefactor
<1>2. Before(live, x) = {}
  BY <1>1, BeforeFinite, FS_EmptySet
<1>3. x \in OpsIn(M)
  BY <1>1 DEF IsWanted
<1>4. PICK q \in M : x \in {q[1], q[2]}
  BY <1>3 DEF OpsIn
<1>5. q \notin sp.pairs
  BY <1>1, <1>4 DEF OpsIn
<1>6. q[1] \in live /\ q[1] < q[2] /\ q[1] \in Nat /\ q[2] \in Nat
  BY <1>1, <1>5, RestIsFree
<1>7. ~(q[1] < x)
  BY <1>2, <1>6 DEF Before
<1>. QED
  BY <1>4, <1>5, <1>6, <1>7

LEMMA FirstStep == Inv /\ FirstInv /\ [Next]_vars => FirstInv'
<1>. SUFFICES ASSUME Inv, FirstInv, [Next]_vars
              PROVE  FirstInv'
  OBVIOUS
<1>. USE DEF cursor
<1>1. CASE Contract
  <2>1. /\ \A k \in 1..Len(stack') : k \in 1..Len(stack) \/ k = Len(stack')
        /\ \A k \in 1..Len(stack) : stack'[k] = stack[k]
        /\ stack'[Len(stack')].leftOffset = leftOffset
    BY <1>1, Push, StackType
  <2>2. inp' = inp /\ leftOffset' = leftOffset /\ offset' \in {offset, leftOffset}
    BY <1>1 DEF Contract, NestedOffset
  <2>. QED
    BY <2>1, <2>2 DEF FirstInv
<1>2. CASE Restore
  <2>1. /\ Len(stack) \in 1..Len(stack) /\ leftOffset' = stack[Len(stack)].leftOffset
        /\ \A k \in 1..Len(stack') : k \in 1..Len(stack) /\ stack'[k] = stack[k]
        /\ inp' = inp /\ offset' = offset
    BY <1>2, Pop, StackType DEF Restore
  <2>. QED
    BY <2>1 DEF FirstInv
<1>3. CASE Quiet \/ Finish \/ UNCHANGED vars
  <2>1. /\ stack' = stack /\ inp' = inp /\ offset' = offset
        /\ inp.full => leftOffset' \in {leftOffset, offset}
    BY <1>3 DEF Quiet, ReturnEarly, NoLeftOp, Enter, Skip, Refuse, AdvanceLeft, Return,
                Finish, vars
  <2>. QED
    BY <2>1 DEF FirstInv
<1>. QED
  BY <1>1, <1>2, <1>3 DEF Next, Done, Quiet

\* the actions that leave the frames and the prefactor as they are do not
\* change what is to come
LEMMA FrontReturnEarly ==
  ASSUME Inv, FirstInv, ReturnEarly, NEW M, IsWanted(M)
  PROVE  ~IsInFront(M) /\ ~IsInFront(M)'
<1>1. /\ pc = "enter" /\ pc' = "return" /\ inp.full
  BY DEF ReturnEarly
<1>2. PICK x \in live : IsAtOffset(offset, x) /\ ~IsQpAnnihilator(inp.ops[x], inp.vacuum)
  BY DEF ReturnEarly
<1>3. Cardinality(Before(live, x)) = 0
  BY <1>1, <1>2 DEF FirstInv, IsAtOffset, Before
<1>4. ASSUME sp.pairs \subseteq M
      PROVE  FALSE
  <2>1. PICK q \in M \ sp.pairs : q[1] = x
    BY <1>1, <1>3, <1>4, FirstIsTaken
  <2>2. CanContract(inp, q[1], q[2])
    BY <1>4, <2>1, RestIsFree DEF Inv, TypeOK
  <2>. QED
    BY <1>2, <2>1, <2>2 DEF CanContract
<1>. QED
  BY <1>1, <1>4 DEF IsInFront

LEMMA FrontNoLeftOp ==
  ASSUME Inv, NoLeftOp, NEW M, IsWanted(M)
  PROVE  ~IsInFront(M) /\ ~IsInFront(M)'
<1>1. /\ pc = "enter" /\ pc' = "return" /\ Cardinality(Before(live, End(inp))) = offset
  BY DEF NoLeftOp, IsAtOffset, Before
<1>2. IsInput(inp) /\ live = AllOps(inp) \ OpsIn(sp.pairs) /\ live \in SUBSET AllOps(inp)
  BY DEF Inv, TypeOK, StringMatchesPrefactor
<1>3. ASSUME sp.pairs \subseteq M, sp.pairs # M,
             \A q \in M \ sp.pairs : Cardinality(Before(live, q[1])) >= offset
      PROVE  FALSE
  <2>1. PICK q \in M \ sp.pairs : TRUE
    BY <1>3
  <2>2. q[1] \in live
    BY <1>2, <1>3, RestIsFree
  <2>3. End(inp) \in Nat /\ q[1] \in Nat /\ q[1] < End(inp)
    BY <1>2, <2>2, InputFacts DEF AllOps, End
  <2>4. ~(Cardinality(Before(live, End(inp))) <= Cardinality(Before(live, q[1])))
    BY <1>2, <2>2, <2>3, BeforeOrder
  <2>. QED
    BY <1>1, <1>3, <2>4
<1>. QED
  BY <1>1, <1>3 DEF IsInFront

LEMMA FrontEnter ==
  ASSUME Inv, Enter, NEW M, IsWanted(M)
  PROVE  IsInFront(M)' <=> IsInFront(M)
<1>1. /\ pc = "enter" /\ pc' = "scan" /\ sp' = sp
      /\ left' \in live /\ Cardinality(Before(live, left')) = offset
      /\ IsNextLive(live, left', right')
  BY DEF Enter, IsAtOffset, Before, state
<1>2. IsInput(inp) /\ live = AllOps(inp) \ OpsIn(sp.pairs) /\ live \in SUBSET AllOps(inp)
  BY DEF Inv, TypeOK, StringMatchesPrefactor
<1>3. left' \in Nat /\ right' \in Nat /\ left' < right'
  BY <1>1, <1>2, InputFacts DEF IsNextLive
<1>4. ASSUME sp.pairs \subseteq M, NEW q \in M \ sp.pairs
      PROVE  Cardinality(Before(live, q[1])) >= offset <=> ~Precedes(q, left', right')
  <2>1. /\ q[1] \in live /\ q[2] \in live /\ q[1] < q[2]
        /\ q[1] \in Nat /\ q[2] \in Nat
    BY <1>2, <1>4, RestIsFree
  <2>2. left' <= q[1] <=> offset <= Cardinality(Before(live, q[1]))
    BY <1>1, <1>2, <1>3, <2>1, BeforeOrder
  <2>3. left' = q[1] => right' <= q[2]
    BY <1>1, <2>1 DEF IsNextLive
  <2>4. Cardinality(Before(live, q[1])) \in Nat /\ offset \in Nat
    BY <1>2, BeforeFinite DEF Inv, TypeOK
  <2>. QED
    BY <1>3, <2>1, <2>2, <2>3, <2>4 DEF Precedes
<1>. QED
  BY <1>1, <1>4 DEF IsInFront, AheadAt

LEMMA FrontSkip ==
  ASSUME Inv, Skip \/ Refuse, NEW M, IsWanted(M),
         sp.pairs \subseteq M => <<left, right>> \notin M
  PROVE  IsInFront(M)' <=> IsInFront(M)
<1>1. /\ pc = "scan" /\ pc' = "scan" /\ sp' = sp /\ left' = left
      /\ IsNextLive(live, right, right')
  BY DEF Skip, Refuse, Scanning, AdvanceRight, state
<1>2. IsInput(inp) /\ live = AllOps(inp) \ OpsIn(sp.pairs) /\ live \in SUBSET AllOps(inp)
  BY DEF Inv, TypeOK, StringMatchesPrefactor
<1>3. left \in Nat /\ right \in Nat /\ right' \in Nat /\ right < right'
  BY <1>1, <1>2, InputFacts DEF IsNextLive, Inv, TypeOK
<1>4. ASSUME sp.pairs \subseteq M, NEW q \in M \ sp.pairs
      PROVE  Precedes(q, left, right') <=> Precedes(q, left, right)
  <2>1. /\ q[1] \in live /\ q[2] \in live /\ q = <<q[1], q[2]>>
        /\ q[1] \in Nat /\ q[2] \in Nat
    BY <1>2, <1>4, RestIsFree
  <2>2. q[1] = left => q[2] # right
    BY <1>4, <2>1
  <2>3. q[2] > right => right' <= q[2]
    BY <1>1, <2>1 DEF IsNextLive
  <2>. QED
    BY <1>3, <2>1, <2>2, <2>3 DEF Precedes
<1>. QED
  BY <1>1, <1>4 DEF IsInFront, AheadAt

LEMMA FrontAdvanceLeft ==
  ASSUME Inv, AdvanceLeft, NEW M, IsWanted(M)
  PROVE  IsInFront(M)' <=> IsInFront(M)
<1>1. /\ pc = "scan" /\ pc' = "scan" /\ sp' = sp /\ right = End(inp) /\ left' \in live
      /\ IsNextLive(live, left, left') /\ IsNextLive(live, left', right')
  BY DEF AdvanceLeft, state
<1>2. IsInput(inp) /\ live = AllOps(inp) \ OpsIn(sp.pairs) /\ live \in SUBSET AllOps(inp)
  BY DEF Inv, TypeOK, StringMatchesPrefactor
<1>3. /\ left \in Nat /\ right \in Nat /\ left' \in Nat /\ right' \in Nat
      /\ left < left' /\ left' < right'
  BY <1>1, <1>2, InputFacts DEF IsNextLive, Inv, TypeOK
<1>4. ASSUME sp.pairs \subseteq M, NEW q \in M \ sp.pairs
      PROVE  Precedes(q, left', right') <=> Precedes(q, left, right)
  <2>1. /\ q[1] \in live /\ q[2] \in live /\ q[2] < right
        /\ q[1] \in Nat /\ q[2] \in Nat /\ q[1] < q[2]
    BY <1>1, <1>2, <1>4, RestIsFree
  <2>2. q[1] > left => left' <= q[1]
    BY <1>1, <2>1 DEF IsNextLive
  <2>3. q[2] > left' => right' <= q[2]
    BY <1>1, <2>1 DEF IsNextLive
  <2>. QED
    BY <1>3, <2>1, <2>2, <2>3 DEF Precedes
<1>. QED
  BY <1>1, <1>4 DEF IsInFront, AheadAt

LEMMA FrontReturn ==
  ASSUME Inv, OffsetInv, FirstInv, Return, NEW M, IsWanted(M)
  PROVE  ~IsInFront(M) /\ ~IsInFront(M)'
<1>1. /\ pc = "scan" /\ pc' = "return" /\ right = End(inp)
      /\ inp.full \/ IsNextLive(live, left, End(inp))
  BY DEF Return
<1>2. IsInput(inp) /\ live = AllOps(inp) \ OpsIn(sp.pairs) /\ live \in SUBSET AllOps(inp)
  BY DEF Inv, TypeOK, StringMatchesPrefactor
<1>3. left \in live /\ left \in Nat /\ right \in Nat
  BY <1>1, <1>2, InputFacts DEF Inv, CursorInv
<1>4. ASSUME sp.pairs \subseteq M, sp.pairs # M
      PROVE  \E q \in M \ sp.pairs : Precedes(q, left, right)
  <2>1. \A q \in M \ sp.pairs :
          /\ q[1] \in live /\ q[2] < right /\ q[1] < q[2]
          /\ q[1] \in Nat /\ q[2] \in Nat
    BY <1>1, <1>2, <1>4, RestIsFree
  <2>2. CASE inp.full
    <3>1. Cardinality(Before(live, left)) = 0
      BY <1>1, <2>2 DEF OffsetInv, FirstInv
    <3>2. PICK q \in M \ sp.pairs : q[1] = left
      BY <1>3, <1>4, <2>2, <3>1, FirstIsTaken
    <3>. QED
      BY <2>1, <3>2 DEF Precedes
  <2>3. CASE IsNextLive(live, left, End(inp))
    <3>1. PICK q \in M \ sp.pairs : TRUE
      BY <1>4
    <3>2. ~(q[1] > left)
      <4>1. q[1] > left => End(inp) <= q[1]
        BY <2>1, <2>3 DEF IsNextLive
      <4>. QED
        BY <1>1, <1>3, <2>1, <4>1
    <3>. QED
      BY <1>3, <2>1, <3>1, <3>2 DEF Precedes
  <2>. QED
    BY <1>1, <2>2, <2>3
<1>. QED
  BY <1>1, <1>4 DEF IsInFront, AheadAt

\* what can be connected by some contractions can be connected while only part
\* of them is made: each nop still to be connected has an op waiting for it
LEMMA ReachableDown ==
  ASSUME IsInput(inp), Constrained, NEW M \in SUBSET Pairs, IsContraction(M), Reachable(M),
         NEW N \in SUBSET M, NEW c \in Nops(inp), NEW x \in OpsOf(inp, c), x \in OpsIn(M)
  PROVE  Cardinality(Missing(N, c)) <= Cardinality(Free(N, c))
<1>. DEFINE FM == Free(M, c)
            FN == Free(N, c)
            MM == Missing(M, c)
            MN == Missing(N, c)
            D == FN \ FM
            J == MN \ MM
            Serves(o, d) == \E p \in M : o \in {p[1], p[2]} /\ Joins(p, c, d)
            f == [d \in J |-> CHOOSE o \in D : Serves(o, d)]
<1>1. /\ IsFiniteSet(OpsOf(inp, c)) /\ FM \in SUBSET OpsOf(inp, c) /\ FN \in SUBSET OpsOf(inp, c)
      /\ FM \subseteq FN /\ FM # OpsOf(inp, c)
  <2>1. OpsIn(N) \subseteq OpsIn(M)
    BY DEF OpsIn
  <2>2. OpsOf(inp, c) \in SUBSET AllOps(inp)
    BY DEF OpsOf
  <2>. QED
    BY <2>1, <2>2, InputFacts, FS_Subset DEF Free
<1>2. IsFiniteSet(MM) /\ IsFiniteSet(MN) /\ MM \subseteq MN
  <2>1. inp.nops \in Nat
    BY DEF IsInput
  <2>2. IsFiniteSet(Nops(inp))
    BY <2>1, FS_Interval DEF Nops
  <2>3. \A d : Between(N, c, d) \subseteq Between(M, c, d)
    BY DEF Between
  <2>. QED
    BY <2>2, <2>3, FS_Subset DEF Missing
<1>3. /\ IsFiniteSet(FM) /\ IsFiniteSet(FN) /\ IsFiniteSet(D) /\ IsFiniteSet(J)
      /\ Cardinality(FM) \in Nat /\ Cardinality(FN) \in Nat /\ Cardinality(D) \in Nat
      /\ Cardinality(MM) \in Nat /\ Cardinality(MN) \in Nat /\ Cardinality(J) \in Nat
  BY <1>1, <1>2, FS_Subset, FS_CardinalityType
<1>4. Cardinality(MM) <= Cardinality(FM)
  <2>1. Cardinality(FM) # Cardinality(OpsOf(inp, c))
    BY <1>1, FS_Subset
  <2>. QED
    BY <2>1 DEF Reachable
<1>5. ASSUME NEW d \in J
      PROVE  \E o \in D : Serves(o, d)
  <2>1. Between(N, c, d) = {} /\ Between(M, c, d) # {}
    BY <1>5 DEF Missing
  <2>2. PICK p \in M : p \notin N /\ Joins(p, c, d)
    BY <2>1 DEF Between, Joins
  <2>3. PICK o \in {p[1], p[2]} : inp.nop[o] = c
    BY <2>2 DEF Joins
  <2>4. o \in AllOps(inp) /\ o \in OpsIn(M)
    BY <2>3 DEF Pairs, OpsIn
  <2>5. o \notin OpsIn(N)
    <3>1. \A q \in N : {p[1], p[2]} \cap {q[1], q[2]} = {}
      BY <2>2 DEF IsContraction
    <3>. QED
      BY <2>3, <3>1 DEF OpsIn
  <2>6. o \in D
    BY <2>3, <2>4, <2>5 DEF Free, OpsOf
  <2>. QED
    BY <2>2, <2>3, <2>6
<1>6. ASSUME NEW o \in D, NEW d, NEW e, Serves(o, d), Serves(o, e)
      PROVE  d = e
  <2>1. PICK p \in M : o \in {p[1], p[2]} /\ Joins(p, c, d)
    BY <1>6
  <2>2. PICK q \in M : o \in {q[1], q[2]} /\ Joins(q, c, e)
    BY <1>6
  <2>3. p = q
    BY <2>1, <2>2 DEF IsContraction
  <2>4. {c, d} = {c, e}
    BY <2>1, <2>2, <2>3 DEF Joins
  <2>. QED
    BY <2>4
<1>. HIDE DEF Serves, D, J
<1>7. \A d \in J : f[d] \in D /\ Serves(f[d], d)
  BY <1>5
<1>. HIDE DEF f
<1>8. f \in Injection(J, D)
  <2>1. f \in [J -> D]
    BY <1>7 DEF f
  <2>2. \A d, e \in J : f[d] = f[e] => d = e
    BY <1>6, <1>7
  <2>. QED
    BY <2>1, <2>2 DEF Injection, IsInjective
<1>9. Cardinality(J) <= Cardinality(D)
  BY <1>3, <1>8, FS_Injection
<1>10. /\ Cardinality(J) = Cardinality(MN) - Cardinality(MM)
       /\ Cardinality(D) = Cardinality(FN) - Cardinality(FM)
  <2>1. MN \cap MM = MM /\ FN \cap FM = FM
    BY <1>1, <1>2
  <2>. HIDE DEF MN, MM, FN, FM
  <2>2. Cardinality(MN \ MM) = Cardinality(MN) - Cardinality(MM)
    <3>1. IsFiniteSet(MN)
      BY <1>2
    <3>2. Cardinality(MN \ MM) = Cardinality(MN) - Cardinality(MN \cap MM)
      BY <3>1, FS_Difference, Zenon
    <3>. QED
      BY <2>1, <3>2
  <2>3. Cardinality(FN \ FM) = Cardinality(FN) - Cardinality(FM)
    <3>1. IsFiniteSet(FN)
      BY <1>3
    <3>2. Cardinality(FN \ FM) = Cardinality(FN) - Cardinality(FN \cap FM)
      BY <3>1, FS_Difference, Zenon
    <3>. QED
      BY <2>1, <3>2
  <2>. QED
    BY <2>2, <2>3 DEF J, D
<1>. QED
  BY <1>3, <1>4, <1>9, <1>10

LEMMA PlainDegeneracy ==
  ASSUME Inv, Plain, NEW r \in AllOps(inp)
  PROVE  TopologicalDegeneracy(r) = 1
<1>1. OpDegeneracy(r) = 1
  BY DEF Plain, OpDegeneracy
<1>2. NopDegeneracy(inp.nop[r]) = 1
  BY InputFacts DEF Plain, NopDegeneracy, Inv, TypeOK
<1>. QED
  BY <1>1, <1>2 DEF TopologicalDegeneracy

\* a contraction of a set that is wanted is neither skipped nor refused
LEMMA WantedIsTried ==
  ASSUME Inv, Books, Plain, pc = "scan", right # End(inp), NEW M, IsWanted(M),
         sp.pairs \subseteq M, <<left, right>> \in M
  PROVE  Contractible(left, right) /\ Connectable(inp.nop[right], inp.nop[left])
<1>. DEFINE t == <<left, right>>
            a == inp.nop[right]
            b == inp.nop[left]
            P == sp.pairs
            N == P \cup {t}
<1>1. /\ IsInput(inp) /\ live = AllOps(inp) \ OpsIn(P) /\ P \in SUBSET Pairs
      /\ conn \in [Nops(inp) -> SUBSET Nops(inp)]
  BY DEF Inv, TypeOK, StringMatchesPrefactor, Product
<1>2. left \in live /\ right \in live /\ left < right
  BY DEF Inv, CursorInv
<1>3. t[1] = left /\ t[2] = right /\ t \in M
  OBVIOUS
<1>4. t \notin P
  BY <1>1, <1>2, <1>3 DEF OpsIn
<1>5. /\ a # b /\ CanContract(inp, left, right) /\ a \in Nops(inp) /\ b \in Nops(inp)
  <2>1. inp.nop[t[1]] # inp.nop[t[2]] /\ CanContract(inp, t[1], t[2])
    BY <1>3 DEF IsWanted, IsContraction
  <2>. QED
    BY <1>1, <1>2, <1>3, <2>1, InputFacts
<1>6. Contractible(left, right)
  <2>1. TopologicalDegeneracy(right) = 1
    BY <1>1, <1>2, PlainDegeneracy
  <2>. QED
    BY <1>5, <2>1 DEF Contractible
<1>7. ASSUME Constrained, NEW c \in {a, b}
      PROVE  Cardinality(Needs(c, Joined(a, b))) <= Remain(c)
  <2>. DEFINE K == Joined(a, b)
              O == OpsOf(inp, c)
              x == IF c = a THEN right ELSE left
  <2>1. c \in Nops(inp) /\ N \in SUBSET M /\ M \in SUBSET Pairs /\ IsContraction(M) /\ Reachable(M)
    BY <1>3, <1>5 DEF IsWanted
  <2>2. x \in O /\ x \in OpsIn(M) /\ live \cap O \cap {left, right} = {x}
    BY <1>1, <1>2, <1>3, <1>5 DEF OpsOf, OpsIn
  <2>3. Cardinality(Missing(N, c)) <= Cardinality(Free(N, c))
    <3>. HIDE DEF N, x, a, b
    <3>. QED
      BY <1>1, <1>7, <2>1, <2>2, ReachableDown
  <2>4. Cardinality(Free(N, c)) = Remain(c)
    <3>1. OpsIn(N) = OpsIn(P) \cup {left, right}
      BY <1>3, OpsInAdd
    <3>2. Free(N, c) = (live \cap O) \ {x} /\ x \in live \cap O
      BY <1>1, <1>2, <2>2, <3>1 DEF Free
    <3>3. IsFiniteSet(live \cap O)
      BY <1>1, InputFacts, FS_Subset
    <3>. QED
      BY <3>2, <3>3, FS_RemoveElement DEF Remain
  <2>5. Missing(N, c) = Needs(c, K)
    <3>. SUFFICES ASSUME NEW y \in Nops(inp), c # y
                  PROVE  y \in K[c] <=> Between(N, c, y) # {}
      BY <1>1, <2>1, MissingIsNeeds
    <3>1. y \in conn[c] <=> Between(P, c, y) # {}
      BY <1>7, <2>1 DEF Books, ConnectionsMatch
    <3>2. y \in K[c] <=> y \in conn[c] \/ {a, b} = {c, y}
      BY <1>1, <1>5, <2>1 DEF Joined
    <3>3. Joins(t, c, y) <=> {a, b} = {c, y}
      BY <1>3 DEF Joins
    <3>4. /\ Joins(t, c, y) => Between(N, c, y) # {}
          /\ ~Joins(t, c, y) => Between(N, c, y) = Between(P, c, y)
      <4>. HIDE DEF t
      <4>. QED
        BY <1>1, <1>4, BetweenAdd
    <3>. QED
      BY <3>1, <3>2, <3>3, <3>4
  <2>. QED
    BY <2>3, <2>4, <2>5
<1>. QED
  BY <1>6, <1>7 DEF Connectable

\* the contraction of a frame is one of the prefactor
LEMMA FramePairs ==
  ASSUME Inv, NestingInv, NEW k \in 1..Len(stack)
  PROVE  /\ <<stack[k].left, stack[k].right>> \in sp.pairs
         /\ stack[k].sp.pairs \subseteq sp.pairs
<1>1. Len(stack) \in Nat
  BY StackType
<1>2. PairsAbove(k) = stack[k].sp.pairs \cup {<<stack[k].left, stack[k].right>>}
  BY DEF Inv, FramesInv, FrameInv
<1>3. PairsAbove(k) \subseteq sp.pairs
  BY <1>1 DEF PairsAbove, NestingInv
<1>. QED
  BY <1>2, <1>3

LEMMA FrontContract ==
  ASSUME Inv, OffsetInv, Contract, NEW M, IsWanted(M)
  PROVE  IsInFront(M)' <=> AheadAt(M, sp.pairs, left, right) /\ <<left, right>> \in M /\ M # sp'.pairs
<1>. DEFINE t == <<left, right>>
            N == sp'.pairs
            S == live'
<1>1. /\ IsInput(inp) /\ live = AllOps(inp) \ OpsIn(sp.pairs) /\ live \in SUBSET AllOps(inp)
      /\ AllOps(inp) \subseteq Nat
  BY InputFacts DEF Inv, TypeOK, StringMatchesPrefactor
<1>2. /\ left \in live /\ right \in live /\ left < right /\ left \in Nat /\ right \in Nat
      /\ N = sp.pairs \cup {t} /\ t[1] = left /\ t[2] = right
      /\ S = live \ {left, right} /\ S = AllOps(inp) \ OpsIn(N)
  BY <1>1, ContractStep
<1>3. /\ S = {} => pc' = "return"
      /\ S # {} => pc' = "enter" /\ offset' = leftOffset
  BY DEF Contract, NestedOffset
<1>4. Cardinality(Before(S, left)) = leftOffset
  <2>1. Before(S, left) = Before(live, left)
    BY <1>1, <1>2, BeforeErased
  <2>2. pc = "scan"
    BY DEF Contract, Scanning
  <2>. QED
    BY <2>1, <2>2 DEF OffsetInv
<1>5. ASSUME N \subseteq M, NEW q \in M \ N
      PROVE  q[1] \in S /\ (~Precedes(q, left, right) <=> Cardinality(Before(S, q[1])) >= leftOffset)
  <2>. HIDE DEF S, N, t
  <2>1. q[1] \in S /\ q[1] \in Nat /\ q[1] # left
    BY <1>1, <1>2, <1>5, RestIsFree
  <2>2. S \in SUBSET AllOps(inp)
    BY <1>1, <1>2
  <2>3. left <= q[1] <=> leftOffset <= Cardinality(Before(S, q[1]))
    BY <1>1, <1>2, <1>4, <2>1, <2>2, BeforeOrder
  <2>4. Cardinality(Before(S, q[1])) \in Nat /\ leftOffset \in Nat
    BY <1>1, <2>2, BeforeFinite DEF Inv, TypeOK
  <2>. QED
    BY <1>2, <2>1, <2>3, <2>4 DEF Precedes
<1>6. IsInFront(M)' <=> /\ pc' = "enter" /\ N \subseteq M /\ N # M
                    /\ \A q \in M \ N : Cardinality(Before(S, q[1])) >= offset'
  <2>1. pc' # "scan"
    BY <1>3
  <2>. QED
    BY <2>1 DEF IsInFront, Before
<1>7. ~Precedes(t, left, right)
  BY <1>2 DEF Precedes
<1>8. t \notin sp.pairs
  BY <1>1, <1>2 DEF OpsIn
<1>. HIDE DEF S, N, t
<1>9. ASSUME IsInFront(M)'
      PROVE  AheadAt(M, sp.pairs, left, right) /\ t \in M /\ M # N
  <2>1. \A q \in M \ N : ~Precedes(q, left, right)
    BY <1>3, <1>5, <1>6, <1>9
  <2>2. \A q \in M \ sp.pairs : q = t \/ q \in M \ N
    BY <1>2
  <2>. QED
    BY <1>2, <1>6, <1>7, <1>8, <1>9, <2>1, <2>2 DEF AheadAt
<1>10. ASSUME AheadAt(M, sp.pairs, left, right), t \in M, M # N
       PROVE  IsInFront(M)'
  <2>1. N \subseteq M /\ N # M
    BY <1>2, <1>10 DEF AheadAt
  <2>2. PICK q \in M \ N : TRUE
    BY <2>1
  <2>3. S # {}
    BY <1>5, <2>1, <2>2
  <2>4. \A p \in M \ N : ~Precedes(p, left, right)
    BY <1>2, <1>10 DEF AheadAt
  <2>. QED
    BY <1>3, <1>5, <1>6, <2>1, <2>3, <2>4
<1>. QED
  BY <1>9, <1>10 DEF N, t

LEMMA ComingContract ==
  ASSUME Inv, OffsetInv, NestingInv, Contract, NEW M, IsWanted(M)
  PROVE  Coming(M)' <=> Coming(M) /\ M # sp'.pairs
<1>1. PICK n \in 1..Len(stack') :
        /\ n = Len(stack')
        /\ \A k \in 1..Len(stack') : k \in 1..Len(stack) \/ k = n
        /\ \A k \in 1..Len(stack) : k \in 1..Len(stack') /\ stack'[k] = stack[k]
        /\ stack'[n].left = left /\ stack'[n].right = right /\ stack'[n].sp = sp
  BY Push, StackType
<1>2. /\ pc = "scan" /\ sp'.pairs = sp.pairs \cup {<<left, right>>}
  BY ContractStep DEF Contract, Scanning
<1>3. ASSUME NEW k \in 1..Len(stack)
      PROVE  /\ AheadFrame(M, k)' <=> AheadFrame(M, k)
             /\ AheadFrame(M, k) => M # sp'.pairs
  <2>1. AheadFrame(M, k)' <=> AheadFrame(M, k)
    BY <1>1 DEF AheadFrame
  <2>2. AheadFrame(M, k) => M # sp'.pairs
    BY <1>2, <1>3, FramePairs DEF AheadFrame
  <2>. QED
    BY <2>1, <2>2
<1>4. AheadFrame(M, n)' <=> AheadAt(M, sp.pairs, left, right) /\ <<left, right>> \notin M
  BY <1>1 DEF AheadFrame
<1>5. <<left, right>> \notin M => M # sp'.pairs
  BY <1>2
<1>6. IsInFront(M) <=> AheadAt(M, sp.pairs, left, right)
  BY <1>2 DEF IsInFront
<1>7. Coming(M)' <=> IsInFront(M)' \/ AheadFrame(M, n)' \/ \E k \in 1..Len(stack) : AheadFrame(M, k)'
  <2>1. Coming(M)' <=> IsInFront(M)' \/ \E k \in 1..Len(stack') : AheadFrame(M, k)'
    BY DEF Coming
  <2>2. (\E k \in 1..Len(stack') : AheadFrame(M, k)')
          <=> AheadFrame(M, n)' \/ \E k \in 1..Len(stack) : AheadFrame(M, k)'
    BY <1>1
  <2>. QED
    BY <2>1, <2>2
<1>. QED
  BY <1>3, <1>4, <1>5, <1>6, <1>7, FrontContract DEF Coming

LEMMA ComingRestore ==
  ASSUME Inv, Restore, NEW M, IsWanted(M)
  PROVE  Coming(M)' <=> Coming(M)
<1>. DEFINE n == Len(stack)
            f == stack[n]
            t == <<f.left, f.right>>
            P == f.sp.pairs
<1>1. /\ n >= 1 /\ Len(stack') = n - 1 /\ n \in Nat /\ n \in 1..n
      /\ \A k \in 1..Len(stack') : k \in 1..n /\ stack'[k] = stack[k]
      /\ sp' = f.sp /\ left' = f.left /\ right' \in Nat /\ right' > f.right
      /\ pc' = "scan" /\ pc = "return"
      /\ t \notin P /\ live' = AllOps(inp) \ OpsIn(P)
      /\ f.left \in Nat /\ f.right \in Nat
  BY Pop, StackType
<1>2. \A y \in live' : y > f.right => right' <= y
  BY DEF Restore, IsResumePlace, IsNextLive
<1>3. IsInput(inp)
  BY DEF Inv, TypeOK
<1>4. t[1] = f.left /\ t[2] = f.right /\ \A q : q = <<q[1], q[2]>> /\ q[1] = f.left /\ q[2] = f.right => q = t
  OBVIOUS
<1>. HIDE DEF f, t, P
<1>5. ASSUME P \subseteq M, NEW q \in M \ P
      PROVE  Precedes(q, f.left, right') <=> Precedes(q, f.left, f.right) \/ q = t
  <2>1. /\ q[2] \in live' /\ q = <<q[1], q[2]>>
        /\ q[1] \in Nat /\ q[2] \in Nat
    BY <1>1, <1>3, <1>5, RestIsFree
  <2>. QED
    BY <1>1, <1>2, <1>4, <2>1 DEF Precedes
<1>6. IsInFront(M)' <=> AheadAt(M, P, f.left, right')
  BY <1>1 DEF IsInFront, P
<1>7. AheadFrame(M, n) <=> AheadAt(M, P, f.left, f.right) /\ t \notin M
  BY DEF AheadFrame, P, f, t
<1>8. IsInFront(M)' <=> AheadFrame(M, n)
  BY <1>1, <1>5, <1>6, <1>7 DEF AheadAt
<1>9. ~IsInFront(M)
  BY <1>1 DEF IsInFront
<1>10. \A k \in 1..Len(stack') : AheadFrame(M, k)' <=> AheadFrame(M, k)
  BY <1>1 DEF AheadFrame
<1>11. \A k \in 1..n : k = n \/ k \in 1..Len(stack')
  BY <1>1
<1>. QED
  BY <1>1, <1>8, <1>9, <1>10, <1>11 DEF Coming, n

LEMMA WantedSame ==
  ASSUME inp' = inp
  PROVE  /\ \A M : IsWanted(M)' <=> IsWanted(M)
         /\ Wanted' = Wanted
         /\ Plain' <=> Plain
<1>1. \A M : \A x, y : Between(M, x, y)' = Between(M, x, y)
  BY DEF Between
<1>2. \A M : \A c : Missing(M, c)' = Missing(M, c)
  BY <1>1 DEF Missing
<1>3. \A M : \A c : Free(M, c)' = Free(M, c)
  BY DEF Free, OpsIn
<1>4. \A M : Reachable(M)' <=> Reachable(M)
  BY <1>2, <1>3 DEF Reachable, Constrained
<1>5. \A M : IsWanted(M)' <=> IsWanted(M)
  BY <1>4 DEF IsWanted, IsContraction, OpsIn, Pairs
<1>. QED
  BY <1>5 DEF Wanted, Pairs, Plain

LEMMA ComingQuiet ==
  ASSUME Inv, Books, OffsetInv, FirstInv, Plain, Quiet, NEW M, IsWanted(M)
  PROVE  Coming(M)' <=> Coming(M)
<1>1. stack' = stack /\ sp' = sp
  BY QuietKeeps
<1>2. \A k \in 1..Len(stack) : AheadFrame(M, k)' <=> AheadFrame(M, k)
  BY <1>1 DEF AheadFrame
<1>3. ASSUME Skip \/ Refuse
      PROVE  sp.pairs \subseteq M => <<left, right>> \notin M
  BY <1>3, WantedIsTried DEF Skip, Refuse, Scanning
<1>4. IsInFront(M)' <=> IsInFront(M)
  BY <1>3, FrontReturnEarly, FrontNoLeftOp, FrontEnter, FrontSkip, FrontAdvanceLeft, FrontReturn
  DEF Quiet
<1>. QED
  BY <1>1, <1>2, <1>4 DEF Coming

LEMMA GoneKept ==
  ASSUME Inv, Books, OffsetInv, FirstInv, Plain, Quiet \/ Restore
  PROVE  Gone' = Gone
<1>1. inp' = inp
  BY QuietKeeps DEF Restore
<1>2. \A M : IsWanted(M) => (Coming(M)' <=> Coming(M))
  BY ComingQuiet, ComingRestore
<1>. QED
  BY <1>1, <1>2, WantedSame DEF Gone, Wanted

\* the search is to deliver the contractions it has just made
LEMMA WantedContract ==
  ASSUME Inv, Books, ReachInv, Contract
  PROVE  IsWanted(sp'.pairs) <=> ~inp.full \/ live' = {}
<1>. DEFINE N == sp'.pairs
<1>1. /\ N # {} /\ IsContraction(N) /\ live' = AllOps(inp) \ OpsIn(N) /\ Reachable(N)
  BY ContractStep, ReachContract DEF ReachInv
<1>2. inp' = inp /\ sp' \in Product'
  BY TypeStep DEF Inv, TypeOK, Next, Contract
<1>3. N \in SUBSET Pairs
  BY <1>2 DEF Product, Pairs
<1>. HIDE DEF N
<1>4. OpsIn(N) \subseteq AllOps(inp)
  BY <1>3 DEF OpsIn, Pairs
<1>5. OpsIn(N) = AllOps(inp) <=> live' = {}
  BY <1>1, <1>4
<1>. QED
  BY <1>1, <1>3, <1>5 DEF IsWanted, N

LEMMA GoneContract ==
  ASSUME Inv, Books, ReachInv, OffsetInv, NestingInv, Contract
  PROVE  /\ sp'.pairs \notin Gone
         /\ Gone' = IF ~inp.full \/ live' = {} THEN Gone \cup {sp'.pairs} ELSE Gone
<1>. DEFINE N == sp'.pairs
            t == <<left, right>>
<1>1. /\ inp' = inp /\ pc = "scan"
      /\ N = sp.pairs \cup {t} /\ t \notin sp.pairs /\ ~Precedes(t, left, right)
  <2>1. t \notin sp.pairs
    BY ContractStep DEF OpsIn
  <2>2. ~Precedes(t, left, right)
    BY ContractStep, InputFacts DEF Precedes, Inv, TypeOK
  <2>. QED
    BY <2>1, <2>2, ContractStep DEF Contract, Scanning
<1>. HIDE DEF t
<1>2. Coming(N)
  <2>1. AheadAt(N, sp.pairs, left, right)
    BY <1>1 DEF AheadAt
  <2>. QED
    BY <1>1, <2>1 DEF Coming, IsInFront
<1>3. \A M : IsWanted(M) => (Coming(M)' <=> Coming(M) /\ M # N)
  BY ComingContract
<1>4. IsWanted(N) <=> ~inp.full \/ live' = {}
  BY WantedContract
<1>. HIDE DEF N
<1>5. \A M : IsWanted(M) => M \in SUBSET Pairs
  BY DEF IsWanted
<1>6. Gone' = {M \in Wanted : ~(Coming(M) /\ M # N)}
  BY <1>1, <1>3, WantedSame DEF Gone, Wanted
<1>7. N \in Wanted <=> ~inp.full \/ live' = {}
  BY <1>4, <1>5 DEF Wanted
<1>8. Gone' = IF N \in Wanted THEN Gone \cup {N} ELSE Gone
  BY <1>2, <1>6 DEF Gone
<1>. QED
  BY <1>2, <1>7, <1>8 DEF Gone, N

LEMMA FoundAppend ==
  ASSUME TypeOK, NEW t, result' = Append(result, t)
  PROVE  Found' = Found \cup {t.pairs}
<1>1. /\ DOMAIN result' = 1..(Len(result) + 1) /\ DOMAIN result = 1..Len(result)
      /\ \A i \in 1..Len(result) : result'[i] = result[i]
      /\ result'[Len(result) + 1] = t
      /\ Len(result) \in Nat
  BY DEF TypeOK
<1>2. \A i : i \in 1..(Len(result) + 1) <=> i \in 1..Len(result) \/ i = Len(result) + 1
  BY <1>1
<1>. QED
  BY <1>1, <1>2 DEF Found

LEMMA WantedFinite ==
  ASSUME IsInput(inp)
  PROVE  IsFiniteSet(Wanted) /\ IsFiniteSet(Gone)
<1>1. IsFiniteSet(Pairs)
  BY InputFacts, FS_Product DEF Pairs
<1>2. IsFiniteSet(SUBSET Pairs)
  BY <1>1, FS_SUBSET
<1>. QED
  BY <1>2, FS_Subset DEF Wanted, Gone

LEMMA CompleteStep ==
  Inv /\ Books /\ ReachInv /\ OffsetInv /\ NestingInv /\ FirstInv /\ CompleteInv /\ [Next]_vars
    => CompleteInv'
<1>. SUFFICES ASSUME Inv, Books, ReachInv, OffsetInv, NestingInv, FirstInv, CompleteInv,
                     [Next]_vars, Plain
              PROVE  (IF inp.countOnly THEN count = Cardinality(Accounted)
                                       ELSE Found = Accounted)'
  BY WantedSame DEF CompleteInv, Next, ReturnEarly, NoLeftOp, Enter, Skip, Refuse, Contract,
     AdvanceLeft, Return, Restore, Finish, Done, vars
<1>0. TypeOK /\ IsInput(inp)
  BY DEF Inv, TypeOK
<1>1. CASE Quiet \/ Restore
  <2>1. inp' = inp /\ result' = result /\ count' = count /\ pc # "done" /\ pc' # "done"
    BY <1>1, QuietKeeps DEF Quiet, output, ReturnEarly, NoLeftOp, Enter, Skip, Refuse,
       AdvanceLeft, Return, Restore
  <2>2. Gone' = Gone
    BY <1>1, GoneKept
  <2>. QED
    BY <2>1, <2>2 DEF CompleteInv, Accounted, Found
<1>2. CASE Contract
  <2>1. inp' = inp /\ pc # "done" /\ pc' # "done"
    BY <1>2 DEF Contract, Scanning
  <2>2. /\ sp'.pairs \notin Gone
        /\ Gone' = IF ~inp.full \/ live' = {} THEN Gone \cup {sp'.pairs} ELSE Gone
    BY <1>2, GoneContract
  <2>3. CASE ~(~inp.full \/ live' = {})
    <3>1. result' = result /\ count' = count
      BY <1>2, <2>3 DEF Contract
    <3>. QED
      BY <2>1, <2>2, <2>3, <3>1 DEF CompleteInv, Accounted, Found
  <2>4. CASE (~inp.full \/ live' = {}) /\ inp.countOnly
    <3>1. count' = count + 1 /\ count = Cardinality(Gone)
      BY <1>2, <2>1, <2>4 DEF Contract, CompleteInv, Accounted
    <3>2. Cardinality(Gone \cup {sp'.pairs}) = Cardinality(Gone) + 1
      BY <1>0, <2>2, WantedFinite, FS_AddElement
    <3>. QED
      BY <2>1, <2>2, <2>4, <3>1, <3>2 DEF Accounted
  <2>5. CASE (~inp.full \/ live' = {}) /\ ~inp.countOnly
    <3>. DEFINE t == Term(sp', live')
    <3>1. result' = Append(result, t) /\ Found = Gone /\ t.pairs = sp'.pairs
      BY <1>2, <2>1, <2>5 DEF Contract, CompleteInv, Accounted, Term
    <3>. HIDE DEF t
    <3>2. Found' = Found \cup {sp'.pairs}
      BY <1>0, <3>1, FoundAppend
    <3>. QED
      BY <2>1, <2>2, <2>5, <3>1, <3>2 DEF Accounted
  <2>. QED
    BY <2>3, <2>4, <2>5
<1>3. CASE Finish
  <2>1. inp' = inp /\ pc = "return" /\ pc' = "done" /\ Len(stack) = 0
    BY <1>3 DEF Finish
  <2>2. Gone = Wanted
    <3>1. \A M : ~Coming(M)
      BY <2>1 DEF Coming, IsInFront
    <3>. QED
      BY <3>1 DEF Gone
  <2>3. Accounted = Wanted /\ Accounted' = Wanted \cup (IF inp.full THEN {} ELSE {{}})
    BY <2>1, <2>2, WantedSame DEF Accounted
  <2>4. {} \notin Wanted
    BY DEF Wanted, IsWanted
  <2>5. CASE inp.full
    <3>1. result' = result /\ count' = count
      BY <1>3, <2>5 DEF Finish
    <3>. QED
      BY <2>1, <2>3, <2>5, <3>1 DEF CompleteInv, Found
  <2>6. CASE ~inp.full /\ inp.countOnly
    <3>1. count' = count + 1 /\ count = Cardinality(Wanted)
      BY <1>3, <2>3, <2>6 DEF Finish, CompleteInv
    <3>2. Cardinality(Wanted \cup {{}}) = Cardinality(Wanted) + 1
      BY <1>0, <2>4, WantedFinite, FS_AddElement
    <3>. QED
      BY <2>1, <2>3, <2>6, <3>1, <3>2
  <2>7. CASE ~inp.full /\ ~inp.countOnly
    <3>. DEFINE t == Term([scalar |-> 1, pairs |-> {}], AllOps(inp))
    <3>1. result' = Append(result, t) /\ Found = Wanted /\ t.pairs = {}
      BY <1>3, <2>3, <2>7 DEF Finish, CompleteInv, Term
    <3>. HIDE DEF t
    <3>2. Found' = Found \cup {{}}
      BY <1>0, <3>1, FoundAppend
    <3>. QED
      BY <2>1, <2>3, <2>7, <3>1, <3>2
  <2>. QED
    BY <2>5, <2>6, <2>7
<1>4. CASE UNCHANGED vars
  <2>1. inp' = inp /\ result' = result /\ count' = count /\ pc' = pc
    BY <1>4 DEF vars, output
  <2>2. \A M : Coming(M)' <=> Coming(M)
    BY <1>4 DEF vars, state, cursor, Coming, IsInFront, AheadFrame, Before
  <2>3. Accounted' = Accounted
    BY <2>1, <2>2, WantedSame DEF Accounted, Gone
  <2>. QED
    BY <2>1, <2>3 DEF CompleteInv, Found
<1>. QED
  BY <1>1, <1>2, <1>3, <1>4 DEF Next, Done, Quiet

LEMMA CompleteInit == Init => FirstInv /\ CompleteInv
<1>. SUFFICES ASSUME Init
              PROVE  FirstInv /\ CompleteInv
  OBVIOUS
<1>1. /\ Len(stack) = 0 /\ DOMAIN result = {} /\ pc = "enter" /\ sp.pairs = {}
      /\ offset = 0 /\ leftOffset = 0 /\ count = 0 /\ live = AllOps(inp) /\ IsInput(inp)
  BY EmptySeq, InputsAssumption DEF Init
<1>2. Gone = {}
  <2>. SUFFICES ASSUME NEW M, IsWanted(M)
                PROVE  IsInFront(M)
    BY DEF Gone, Wanted, Coming
  <2>1. \A x : IsFiniteSet(Before(live, x)) /\ Cardinality(Before(live, x)) \in Nat
    BY <1>1, BeforeFinite
  <2>. QED
    BY <1>1, <2>1 DEF IsWanted, IsInFront
<1>3. Found = {} /\ Cardinality({}) = 0
  BY <1>1, FS_EmptySet DEF Found
<1>. QED
  BY <1>1, <1>2, <1>3 DEF FirstInv, CompleteInv, Accounted

LEMMA CompleteCorrect == Spec => [](FirstInv /\ CompleteInv)
<1>1. /\ Inv /\ Books /\ ReachInv /\ OrderInv /\ FirstInv /\ CompleteInv /\ [Next]_vars
      => FirstInv' /\ CompleteInv'
  BY FirstStep, CompleteStep DEF OrderInv
<1>. QED
  BY <1>1, CompleteInit, OrderCorrect, ReachCorrect, PTL DEF Spec

-----------------------------------------------------------------------------
(***************************************************************************)
(* With topological degeneracies a skipped contraction stands for others   *)
(* and takes what is behind it along: what is to come never grows.         *)
(***************************************************************************)
CountInv == inp.countOnly => count <= Cardinality(Accounted)

LEMMA FrontSkipped ==
  ASSUME Inv, Skip \/ Refuse, NEW M, IsWanted(M), IsInFront(M)'
  PROVE  IsInFront(M)
<1>1. /\ pc = "scan" /\ pc' = "scan" /\ sp' = sp /\ left' = left
      /\ IsNextLive(live, right, right')
  BY DEF Skip, Refuse, Scanning, AdvanceRight, state
<1>2. /\ IsInput(inp) /\ right \in Nat /\ right' \in Nat /\ right < right'
  BY <1>1, InputFacts DEF IsNextLive, Inv, TypeOK, AllOps, End
<1>3. ASSUME sp.pairs \subseteq M, NEW q \in M \ sp.pairs, Precedes(q, left, right)
      PROVE  Precedes(q, left, right')
  <2>1. q[2] \in Nat
    BY <1>2, <1>3, RestIsFree
  <2>. QED
    BY <1>2, <1>3, <2>1 DEF Precedes
<1>. QED
  BY <1>1, <1>3 DEF IsInFront, AheadAt

LEMMA GoneGrows ==
  ASSUME Inv, OffsetInv, FirstInv, Quiet \/ Restore
  PROVE  Gone \subseteq Gone'
<1>1. inp' = inp
  BY QuietKeeps DEF Restore
<1>2. ASSUME NEW M, IsWanted(M), Coming(M)'
      PROVE  Coming(M)
  <2>1. CASE Restore
    BY <1>2, <2>1, ComingRestore
  <2>2. CASE Quiet
    <3>1. stack' = stack /\ sp' = sp
      BY <2>2, QuietKeeps
    <3>2. \A k \in 1..Len(stack) : AheadFrame(M, k)' <=> AheadFrame(M, k)
      BY <3>1 DEF AheadFrame
    <3>3. IsInFront(M)' => IsInFront(M)
      BY <1>2, <2>2, FrontReturnEarly, FrontNoLeftOp, FrontEnter, FrontSkipped,
         FrontAdvanceLeft, FrontReturn
      DEF Quiet
    <3>. QED
      BY <1>2, <3>1, <3>2, <3>3 DEF Coming
  <2>. QED
    BY <2>1, <2>2
<1>. QED
  BY <1>1, <1>2, WantedSame DEF Gone, Wanted

LEMMA CountStep ==
  Inv /\ Books /\ ReachInv /\ OffsetInv /\ NestingInv /\ FirstInv /\ CountInv /\ [Next]_vars
    => CountInv'
<1>. SUFFICES ASSUME Inv, Books, ReachInv, OffsetInv, NestingInv, FirstInv, CountInv,
                     [Next]_vars, inp.countOnly
              PROVE  (count <= Cardinality(Accounted))'
  BY DEF CountInv, Next, ReturnEarly, NoLeftOp, Enter, Skip, Refuse, Contract,
     AdvanceLeft, Return, Restore, Finish, Done, vars
<1>0. IsInput(inp) /\ count \in Nat
  BY DEF Inv, TypeOK
<1>1. /\ IsFiniteSet(Wanted) /\ IsFiniteSet(Gone) /\ Gone \subseteq Wanted
      /\ Cardinality(Gone) \in Nat /\ Cardinality(Wanted) \in Nat
      /\ Cardinality(Gone) <= Cardinality(Wanted)
  BY <1>0, WantedFinite, FS_CardinalityType, FS_Subset DEF Gone
<1>2. ASSUME inp' = inp
      PROVE  /\ IsFiniteSet(Gone') /\ Cardinality(Gone') \in Nat
             /\ Gone \subseteq Gone' => Cardinality(Gone) <= Cardinality(Gone')
  <2>1. Gone' \subseteq Wanted
    BY <1>2, WantedSame DEF Gone
  <2>. QED
    BY <1>1, <2>1, FS_Subset, FS_CardinalityType
<1>3. CASE Quiet \/ Restore
  <2>1. inp' = inp /\ count' = count /\ pc # "done" /\ pc' # "done"
    BY <1>3, QuietKeeps DEF Quiet, output, ReturnEarly, NoLeftOp, Enter, Skip, Refuse,
       AdvanceLeft, Return, Restore
  <2>2. Gone \subseteq Gone'
    BY <1>3, GoneGrows
  <2>. QED
    BY <1>0, <1>1, <1>2, <2>1, <2>2 DEF CountInv, Accounted
<1>4. CASE Contract
  <2>1. inp' = inp /\ pc # "done" /\ pc' # "done" /\ count <= Cardinality(Gone)
    BY <1>4 DEF Contract, Scanning, CountInv, Accounted
  <2>2. /\ sp'.pairs \notin Gone
        /\ Gone' = IF ~inp.full \/ live' = {} THEN Gone \cup {sp'.pairs} ELSE Gone
    BY <1>4, GoneContract
  <2>3. CASE ~(~inp.full \/ live' = {})
    BY <1>4, <2>1, <2>2, <2>3 DEF Contract, Accounted
  <2>4. CASE ~inp.full \/ live' = {}
    <3>1. count' = count + 1
      BY <1>4, <2>1, <2>4 DEF Contract
    <3>2. Cardinality(Gone \cup {sp'.pairs}) = Cardinality(Gone) + 1
      BY <1>1, <2>2, FS_AddElement
    <3>. QED
      BY <1>0, <1>1, <2>1, <2>2, <2>4, <3>1, <3>2 DEF Accounted
  <2>. QED
    BY <2>3, <2>4
<1>5. CASE Finish
  <2>1. inp' = inp /\ pc = "return" /\ pc' = "done" /\ count <= Cardinality(Gone)
    BY <1>5 DEF Finish, CountInv, Accounted
  <2>2. Accounted' = Wanted \cup (IF inp.full THEN {} ELSE {{}}) /\ {} \notin Wanted
    BY <2>1, WantedSame DEF Accounted, Wanted, IsWanted
  <2>3. CASE inp.full
    BY <1>0, <1>1, <1>5, <2>1, <2>2, <2>3 DEF Finish
  <2>4. CASE ~inp.full
    <3>1. count' = count + 1
      BY <1>5, <2>4 DEF Finish
    <3>2. Cardinality(Wanted \cup {{}}) = Cardinality(Wanted) + 1
      BY <1>1, <2>2, FS_AddElement
    <3>. QED
      BY <1>0, <1>1, <2>1, <2>2, <2>4, <3>1, <3>2
  <2>. QED
    BY <2>3, <2>4
<1>6. CASE UNCHANGED vars
  <2>1. inp' = inp /\ count' = count /\ pc' = pc
    BY <1>6 DEF vars, output
  <2>2. \A M : Coming(M)' <=> Coming(M)
    BY <1>6 DEF vars, state, cursor, Coming, IsInFront, AheadFrame, Before
  <2>3. Accounted' = Accounted
    BY <2>1, <2>2, WantedSame DEF Accounted, Gone
  <2>. QED
    BY <2>1, <2>3 DEF CountInv
<1>. QED
  BY <1>3, <1>4, <1>5, <1>6 DEF Next, Done, Quiet

LEMMA CountCorrect == Spec => []CountInv
<1>1. Init => CountInv
  <2>. SUFFICES ASSUME Init
                PROVE  count <= Cardinality(Gone)
    BY DEF CountInv, Accounted, Init
  <2>1. IsInput(inp) /\ count = 0
    BY InputsAssumption DEF Init
  <2>. QED
    BY <2>1, WantedFinite, FS_CardinalityType
<1>2. /\ Inv /\ Books /\ ReachInv /\ OrderInv /\ FirstInv /\ CompleteInv
      /\ CountInv /\ [Next]_vars
      => CountInv'
  BY CountStep DEF OrderInv
<1>. QED
  BY <1>1, <1>2, CompleteCorrect, OrderCorrect, ReachCorrect, PTL DEF Spec

-----------------------------------------------------------------------------
(***************************************************************************)
(* The reference builds the sets of contractions from ops 1..k, for k from *)
(* 0 on; these are all sets of disjoint contractions.                      *)
(***************************************************************************)
\* what the ops 1..k add to the sets S of contractions of the ops before k
WithOp(S, k) ==
  S \cup {c[1] \cup {<<c[2], k>>} :
            c \in {d \in S \X (1..(k - 1)) :
                     /\ d[2] \notin Ends(d[1])
                     /\ inp.nop[d[2]] # inp.nop[k]
                     /\ CanContract(inp, d[2], k)}}

UpTo(k) == {M \in SUBSET ((1..k) \X (1..k)) : IsContraction(M)}

LEMMA EndsAreOps == \A M : Ends(M) = OpsIn(M)
BY DEF Ends, OpsIn

LEMMA WithOpIsUpTo ==
  ASSUME IsInput(inp), NEW k \in 1..Len(inp.ops)
  PROVE  WithOp(UpTo(k - 1), k) = UpTo(k)
<1>. k \in Nat /\ k >= 1
  BY InputFacts
<1>1. ASSUME NEW M \in UpTo(k - 1)
      PROVE  M \in UpTo(k)
  BY <1>1 DEF UpTo
<1>2. ASSUME NEW M \in UpTo(k - 1), NEW l \in 1..(k - 1),
             l \notin Ends(M), inp.nop[l] # inp.nop[k], CanContract(inp, l, k)
      PROVE  M \cup {<<l, k>>} \in UpTo(k)
  <2>1. M \in SUBSET ((1..(k - 1)) \X (1..(k - 1))) /\ IsContraction(M)
    BY <1>2 DEF UpTo
  <2>2. l \notin OpsIn(M) /\ k \notin OpsIn(M) /\ l < k
    BY <1>2, <2>1, EndsAreOps DEF OpsIn
  <2>3. IsContraction(M \cup {<<l, k>>})
    BY <1>2, <2>1, <2>2, ContractionAdd
  <2>4. M \cup {<<l, k>>} \in SUBSET ((1..k) \X (1..k))
    BY <2>1
  <2>. QED
    BY <2>3, <2>4 DEF UpTo
<1>3. ASSUME NEW M \in UpTo(k)
      PROVE  M \in WithOp(UpTo(k - 1), k)
  <2>1. M \in SUBSET ((1..k) \X (1..k)) /\ IsContraction(M)
    BY <1>3 DEF UpTo
  <2>2. CASE k \notin OpsIn(M)
    <3>1. \A p \in M : p[1] # k /\ p[2] # k
      BY <2>2 DEF OpsIn
    <3>2. M \in SUBSET ((1..(k - 1)) \X (1..(k - 1)))
      BY <2>1, <3>1
    <3>. QED
      BY <2>1, <3>2 DEF UpTo, WithOp
  <2>3. CASE k \in OpsIn(M)
    <3>1. PICK p \in M : k \in {p[1], p[2]}
      BY <2>3 DEF OpsIn
    <3>2. p = <<p[1], p[2]>> /\ p[2] = k /\ p[1] \in 1..(k - 1)
      BY <2>1, <3>1 DEF IsContraction
    <3>. DEFINE l == p[1]
                N == M \ {p}
    <3>3. IsContraction(N)
      BY <2>1, ContractionSubset
    <3>4. \A q \in N : {p[1], p[2]} \cap {q[1], q[2]} = {}
      BY <2>1 DEF IsContraction
    <3>5. N \in SUBSET ((1..(k - 1)) \X (1..(k - 1)))
      <4>1. ASSUME NEW q \in N
            PROVE  q \in (1..(k - 1)) \X (1..(k - 1))
        <5>1. q \in (1..k) \X (1..k) /\ q[1] # k /\ q[2] # k
          BY <2>1, <3>2, <3>4
        <5>. QED
          BY <5>1
      <4>. QED
        BY <4>1
    <3>6. l \notin Ends(N)
      BY <3>4 DEF Ends
    <3>7. inp.nop[l] # inp.nop[k] /\ CanContract(inp, l, k)
      BY <2>1, <3>2 DEF IsContraction
    <3>8. M = N \cup {<<l, k>>} /\ N \in UpTo(k - 1) /\ l \in 1..(k - 1)
      BY <3>2, <3>3, <3>5 DEF UpTo
    <3>. HIDE DEF l, N
    <3>9. \E c \in {d \in UpTo(k - 1) \X (1..(k - 1)) :
                     /\ d[2] \notin Ends(d[1])
                     /\ inp.nop[d[2]] # inp.nop[k]
                     /\ CanContract(inp, d[2], k)} : M = c[1] \cup {<<c[2], k>>}
      <4>. DEFINE e == <<N, l>>
      <4>1. e[1] = N /\ e[2] = l /\ e \in UpTo(k - 1) \X (1..(k - 1))
        BY <3>8
      <4>. HIDE DEF e
      <4>. QED
        BY <3>6, <3>7, <3>8, <4>1
    <3>. QED
      BY <3>9 DEF WithOp
  <2>. QED
    BY <2>2, <2>3
<1>4. WithOp(UpTo(k - 1), k) \subseteq UpTo(k)
  BY <1>1, <1>2 DEF WithOp
<1>. QED
  BY <1>3, <1>4

LEMMA MatchingsAreContractions ==
  ASSUME IsInput(inp)
  PROVE  Matchings(inp) = {M \in SUBSET Pairs : IsContraction(M)}
<1>0. UpTo(0) = {{}}
  <2>1. (1..0) \X (1..0) = {} /\ IsContraction({})
    BY DEF IsContraction
  <2>. QED
    BY <2>1 DEF UpTo
<1>. DEFINE n == Len(inp.ops)
            upTo[k \in 0..n] ==
              IF k = 0 THEN {{}}
              ELSE upTo[k - 1] \cup
                   {c[1] \cup {<<c[2], k>>} :
                      c \in {d \in upTo[k - 1] \X (1..(k - 1)) :
                               /\ d[2] \notin Ends(d[1])
                               /\ inp.nop[d[2]] # inp.nop[k]
                               /\ CanContract(inp, d[2], k)}}
<1>1. Matchings(inp) = upTo[n]
  BY Zenon DEF Matchings
<1>2. upTo = [k \in 0..n |-> IF k = 0 THEN {{}} ELSE WithOp(upTo[k - 1], k)]
  <2>. DEFINE g == [k \in 0..n |-> UpTo(k)]
  <2>2. \A k \in 0..n : k # 0 => /\ k \in 1..n /\ k - 1 \in 0..n
                                 /\ UpTo(k) = WithOp(UpTo(k - 1), k)
    BY WithOpIsUpTo, InputFacts
  <2>3. g = [k \in 0..n |-> IF k = 0 THEN {{}} ELSE WithOp(g[k - 1], k)]
    BY <1>0, <2>2
  <2>4. \E f : f = [k \in 0..n |-> IF k = 0 THEN {{}} ELSE WithOp(f[k - 1], k)]
    BY <2>3
  <2>. QED
    BY <2>4 DEF WithOp
<1>. HIDE DEF upTo
<1>3. upTo[n] = UpTo(n)
  <2>. DEFINE T == {k \in 0..n : upTo[k] = UpTo(k)}
  <2>1. n \in Nat
    BY InputFacts
  <2>2. 0 \in T
    <3>1. upTo[0] = {{}}
      BY <1>2, <2>1
    <3>2. upTo[0] = UpTo(0) /\ 0 \in 0..n
      BY <1>0, <2>1, <3>1
    <3>. QED
      BY <3>2
  <2>3. ASSUME NEW k \in 0..(n - 1), k \in T
        PROVE  k + 1 \in T
    <3>1. k + 1 \in 1..n /\ k + 1 \in 0..n /\ k + 1 # 0 /\ (k + 1) - 1 = k
      BY <2>1
    <3>2. upTo[k + 1] = WithOp(upTo[k], k + 1)
      BY <1>2, <3>1
    <3>3. WithOp(UpTo(k), k + 1) = UpTo(k + 1)
      BY <3>1, WithOpIsUpTo
    <3>. QED
      BY <2>3, <3>1, <3>2, <3>3
  <2>4. \A k \in 0..n : k \in T
    <3>. HIDE DEF T
    <3>. QED
      BY <2>1, <2>2, <2>3, IntervalInduction
  <2>. QED
    BY <2>1, <2>4
<1>. QED
  BY <1>1, <1>3 DEF UpTo, Pairs, AllOps

-----------------------------------------------------------------------------
(***************************************************************************)
(* The sign.  A contraction to the right of all others that were made puts *)
(* its two ops in front of the free ops to their left: it adds to the      *)
(* inversions twice those to the left of its left op, and once those       *)
(* between its two ops, which is what the phase counts.                    *)
(***************************************************************************)
LEMMA PlaceOfContracted ==
  ASSUME NEW M, IsContraction(M), NEW p \in M
  PROVE  /\ p[1] \in Ends(M) /\ Place(inp, M, p[1]) = IF p[1] = p[2] THEN 2 * p[1] + 1 ELSE 2 * p[1] + 0
         /\ p[2] \in Ends(M) /\ Place(inp, M, p[2]) = 2 * p[1] + 1
<1>1. p[1] \in Ends(M) /\ p[2] \in Ends(M)
  BY DEF Ends
<1>2. ASSUME NEW o \in {p[1], p[2]}
      PROVE  (CHOOSE q \in M : o \in {q[1], q[2]}) = p
  <2>1. \A q \in M : o \in {q[1], q[2]} => q = p
    BY <1>2 DEF IsContraction
  <2>. QED
    BY <1>2, <2>1
<1>3. Place(inp, M, p[1]) = IF p[1] = p[2] THEN 2 * p[1] + 1 ELSE 2 * p[1] + 0
  BY <1>1, <1>2 DEF Place
<1>4. Place(inp, M, p[2]) = 2 * p[1] + 1
  BY <1>1, <1>2 DEF Place
<1>. QED
  BY <1>1, <1>3, <1>4

\* the places, in the terms of which the inversions are counted
LEMMA PlaceFacts ==
  ASSUME IsInput(inp), NEW M \in SUBSET Pairs, IsContraction(M)
  PROVE  \A o \in AllOps(inp) :
           /\ o \in OpsIn(M) =>
                \E p \in M : /\ o \in {p[1], p[2]} /\ p[1] \in AllOps(inp)
                            /\ Place(inp, M, o) = 2 * p[1] + (IF o = p[2] THEN 1 ELSE 0)
           /\ o \notin OpsIn(M) => Place(inp, M, o) = 2 * End(inp) + o
<1>1. ASSUME NEW o \in AllOps(inp), o \in OpsIn(M)
      PROVE  \E p \in M : /\ o \in {p[1], p[2]} /\ p[1] \in AllOps(inp)
                          /\ Place(inp, M, o) = 2 * p[1] + (IF o = p[2] THEN 1 ELSE 0)
  <2>1. PICK p \in M : o \in {p[1], p[2]}
    BY <1>1 DEF OpsIn
  <2>2. p[1] \in AllOps(inp) /\ p[2] \in AllOps(inp)
    BY DEF Pairs
  <2>. QED
    BY <2>1, <2>2, PlaceOfContracted
<1>2. \A o \in AllOps(inp) : o \notin OpsIn(M) => Place(inp, M, o) = 2 * End(inp) + o
  BY EndsAreOps DEF Place
<1>. QED
  BY <1>1, <1>2

LEMMA PlacesAfter ==
  ASSUME IsInput(inp), NEW M \in SUBSET Pairs, IsContraction(M),
         NEW l \in AllOps(inp) \ OpsIn(M), NEW r \in AllOps(inp) \ OpsIn(M), l < r,
         \A p \in M : p[1] < l, NEW N, N = M \cup {<<l, r>>}, IsContraction(N)
  PROVE  \A o \in AllOps(inp) :
           /\ Place(inp, M, o) \in Int /\ Place(inp, N, o) \in Int
           /\ o \in OpsIn(M) => /\ Place(inp, M, o) < 2 * l
                               /\ Place(inp, N, o) = Place(inp, M, o)
           /\ o \notin OpsIn(M) => Place(inp, M, o) = 2 * End(inp) + o
           /\ o \notin OpsIn(M) /\ o \notin {l, r} => Place(inp, N, o) = 2 * End(inp) + o
           /\ o = l => Place(inp, N, o) = 2 * l
           /\ o = r => Place(inp, N, o) = 2 * l + 1
<1>. DEFINE t == <<l, r>>
<1>0. t[1] = l /\ t[2] = r /\ t \in N /\ N = M \cup {t}
  OBVIOUS
<1>. HIDE DEF t
<1>1. OpsIn(N) = OpsIn(M) \cup {l, r}
  BY <1>0, OpsInAdd
<1>2. AllOps(inp) \subseteq Nat /\ End(inp) \in Nat
  BY InputFacts
<1>3. ASSUME NEW o \in AllOps(inp), o \in OpsIn(M)
      PROVE  /\ Place(inp, M, o) \in Int /\ Place(inp, M, o) < 2 * l
             /\ Place(inp, N, o) = Place(inp, M, o)
  <2>1. PICK p \in M : o \in {p[1], p[2]}
    BY <1>3 DEF OpsIn
  <2>2. p[1] \in Nat /\ p[2] \in Nat /\ p \in N /\ p[1] < l /\ p[1] # p[2]
    BY <1>0, <1>2 DEF Pairs, IsContraction
  <2>3. /\ Place(inp, M, p[1]) = 2 * p[1] + 0 /\ Place(inp, M, p[2]) = 2 * p[1] + 1
        /\ Place(inp, N, p[1]) = 2 * p[1] + 0 /\ Place(inp, N, p[2]) = 2 * p[1] + 1
    BY <2>2, PlaceOfContracted
  <2>. QED
    BY <1>2, <2>1, <2>2, <2>3
<1>4. Place(inp, N, l) = 2 * l /\ Place(inp, N, r) = 2 * l + 1
  BY <1>0, <1>2, PlaceOfContracted
<1>5. \A o \in AllOps(inp) :
        /\ o \notin OpsIn(M) => Place(inp, M, o) = 2 * End(inp) + o
        /\ o \notin OpsIn(N) => Place(inp, N, o) = 2 * End(inp) + o
  BY EndsAreOps DEF Place
<1>6. l \in AllOps(inp) /\ r \in AllOps(inp) /\ l \notin OpsIn(M) /\ r \notin OpsIn(M)
  OBVIOUS
<1>. SUFFICES ASSUME NEW o \in AllOps(inp)
              PROVE  /\ Place(inp, M, o) \in Int /\ Place(inp, N, o) \in Int
                     /\ o \in OpsIn(M) => /\ Place(inp, M, o) < 2 * l
                                         /\ Place(inp, N, o) = Place(inp, M, o)
                     /\ o \notin OpsIn(M) => Place(inp, M, o) = 2 * End(inp) + o
                     /\ o \notin OpsIn(M) /\ o \notin {l, r} => Place(inp, N, o) = 2 * End(inp) + o
                     /\ o = l => Place(inp, N, o) = 2 * l
                     /\ o = r => Place(inp, N, o) = 2 * l + 1
  OBVIOUS
<1>7. CASE o \in OpsIn(M)
  BY <1>3, <1>6, <1>7
<1>8. CASE o \notin OpsIn(M)
  <2>1. o \in Nat /\ l \in Nat /\ r \in Nat /\ l # r
    BY <1>2
  <2>2. Place(inp, M, o) = 2 * End(inp) + o
    BY <1>5, <1>8
  <2>3. CASE o \notin {l, r}
    <3>1. Place(inp, N, o) = 2 * End(inp) + o
      BY <1>1, <1>5, <1>8, <2>3
    <3>. QED
      BY <1>2, <1>8, <2>1, <2>2, <2>3, <3>1
  <2>4. CASE o \in {l, r}
    BY <1>2, <1>4, <1>8, <2>1, <2>2, <2>4
  <2>. QED
    BY <2>3, <2>4
<1>. QED
  BY <1>7, <1>8

\* the inversions a contraction adds
Overtaken(M, l, r) ==
  {y \in AllOps(inp) \ OpsIn(M) : y < l} \X {l}
    \cup {y \in AllOps(inp) \ OpsIn(M) : y < r /\ y # l} \X {r}

LEMMA InversionsAfter ==
  ASSUME IsInput(inp), NEW M \in SUBSET Pairs, IsContraction(M),
         NEW l \in AllOps(inp) \ OpsIn(M), NEW r \in AllOps(inp) \ OpsIn(M), l < r,
         \A p \in M : p[1] < l, NEW N, N = M \cup {<<l, r>>}, IsContraction(N)
  PROVE  /\ Inversions(inp, N) = Inversions(inp, M) \cup Overtaken(M, l, r)
         /\ Inversions(inp, M) \cap Overtaken(M, l, r) = {}
<1>1. /\ AllOps(inp) \subseteq Nat /\ End(inp) \in Nat
      /\ \A o \in AllOps(inp) : o < End(inp)
  BY InputFacts DEF AllOps, End
<1>. DEFINE PM(o) == Place(inp, M, o)
            PN(o) == Place(inp, N, o)
            X == OpsIn(M)
            E == End(inp)
<1>2. \A o \in AllOps(inp) :
        /\ PM(o) \in Int /\ PN(o) \in Int
        /\ o \in X => PM(o) < 2 * l /\ PN(o) = PM(o)
        /\ o \notin X => PM(o) = 2 * E + o
        /\ o \notin X /\ o \notin {l, r} => PN(o) = 2 * E + o
        /\ o = l => PN(o) = 2 * l
        /\ o = r => PN(o) = 2 * l + 1
  BY PlacesAfter
<1>3. l \in AllOps(inp) /\ r \in AllOps(inp) /\ l \notin X /\ r \notin X
  OBVIOUS
<1>. HIDE DEF PM, PN, X, E
<1>4. ASSUME NEW x \in AllOps(inp), NEW y \in AllOps(inp), x < y
      PROVE  /\ PN(x) > PN(y) <=> \/ PM(x) > PM(y)
                                  \/ y = l /\ x \notin X /\ x < l
                                  \/ y = r /\ x \notin X /\ x < r /\ x # l
             /\ PM(x) > PM(y) => y # l /\ y # r
  <2>1. l \in Nat /\ r \in Nat /\ E \in Nat /\ l < E /\ r < E /\ x \in Nat /\ y \in Nat /\ x < E /\ y < E
    BY <1>1, <1>3, <1>4 DEF E
  <2>. QED
    BY <1>2, <1>3, <1>4, <2>1
<1>5. ASSUME NEW c
      PROVE  c \in Inversions(inp, N) <=> c \in Inversions(inp, M) \/ c \in Overtaken(M, l, r)
  <2>1. c \in Overtaken(M, l, r) <=>
          /\ c \in AllOps(inp) \X AllOps(inp) /\ c[1] < c[2]
          /\ \/ c[2] = l /\ c[1] \notin X /\ c[1] < l
             \/ c[2] = r /\ c[1] \notin X /\ c[1] < r /\ c[1] # l
    BY <1>1, <1>3 DEF Overtaken, X
  <2>. QED
    BY <1>4, <2>1 DEF Inversions, PM, PN
<1>6. Inversions(inp, M) \cap Overtaken(M, l, r) = {}
  <2>1. \A c \in Overtaken(M, l, r) : c[2] \in {l, r}
    BY DEF Overtaken
  <2>. QED
    BY <1>4, <2>1 DEF Inversions, PM
<1>. QED
  BY <1>5, <1>6

Signum(n) == IF n % 2 = 1 THEN -1 ELSE 1

LEMMA SignumOfSum ==
  ASSUME NEW i \in Nat, NEW j \in Nat, NEW k \in Nat
  PROVE  Signum(i + (j + (j + k))) = Signum(i) * Signum(k)
<1>1. (i + (j + (j + k))) % 2 = (i + k) % 2
  OBVIOUS
<1>2. i % 2 \in {0, 1} /\ k % 2 \in {0, 1}
  OBVIOUS
<1>3. (i + k) % 2 = IF i % 2 = k % 2 THEN 0 ELSE 1
  OBVIOUS
<1>. QED
  BY <1>1, <1>2, <1>3 DEF Signum

LEMMA SignAfter ==
  ASSUME IsInput(inp), NEW M \in SUBSET Pairs, IsContraction(M),
         NEW l \in AllOps(inp) \ OpsIn(M), NEW r \in AllOps(inp) \ OpsIn(M), l < r,
         \A p \in M : p[1] < l, NEW N, N = M \cup {<<l, r>>}, IsContraction(N)
  PROVE  Sign(inp, N) =
           Sign(inp, M) * Signum(Cardinality({y \in AllOps(inp) \ OpsIn(M) : l < y /\ y < r}))
<1>. DEFINE F == AllOps(inp) \ OpsIn(M)
            A == {y \in F : y < l}
            B == {y \in F : y < r /\ y # l}
            C == {y \in F : l < y /\ y < r}
            I == Inversions(inp, M)
            J == Inversions(inp, N)
<1>1. AllOps(inp) \subseteq Nat /\ IsFiniteSet(AllOps(inp))
  BY InputFacts
<1>2. /\ IsFiniteSet(A) /\ IsFiniteSet(B) /\ IsFiniteSet(C)
      /\ Cardinality(A) \in Nat /\ Cardinality(B) \in Nat /\ Cardinality(C) \in Nat
  BY <1>1, FS_Subset, FS_CardinalityType
<1>3. IsFiniteSet(I) /\ Cardinality(I) \in Nat
  <2>1. IsFiniteSet(AllOps(inp) \X AllOps(inp))
    BY <1>1, FS_Product
  <2>2. I \in SUBSET (AllOps(inp) \X AllOps(inp))
    BY DEF Inversions
  <2>. HIDE DEF I
  <2>. QED
    BY <2>1, <2>2, FS_Subset, FS_CardinalityType
<1>4. B = A \cup C /\ A \cap C = {}
  BY <1>1
<1>5. Cardinality(B) = Cardinality(A) + Cardinality(C)
  <2>. HIDE DEF A, B, C
  <2>. QED
    BY <1>2, <1>4, DisjointUnion
<1>. DEFINE AL == A \X {l}
            BR == B \X {r}
<1>6. J = I \cup (AL \cup BR) /\ I \cap (AL \cup BR) = {}
  BY InversionsAfter DEF Overtaken
<1>7. AL \cap BR = {}
  <2>1. l # r
    BY <1>1
  <2>. QED
    BY <2>1
<1>. HIDE DEF A, B, C, I, J
<1>8. /\ IsFiniteSet(AL) /\ Cardinality(AL) = Cardinality(A)
      /\ IsFiniteSet(BR) /\ Cardinality(BR) = Cardinality(B)
  BY <1>2, TimesOne
<1>. HIDE DEF AL, BR
<1>9. /\ IsFiniteSet(AL \cup BR)
      /\ Cardinality(AL \cup BR) = Cardinality(A) + Cardinality(B)
  <2>1. /\ IsFiniteSet(AL \cup BR)
        /\ Cardinality(AL \cup BR) = Cardinality(AL) + Cardinality(BR)
    BY <1>7, <1>8, DisjointUnion
  <2>. QED
    BY <1>8, <2>1
<1>10. Cardinality(J) = Cardinality(I) + (Cardinality(A) + (Cardinality(A) + Cardinality(C)))
  <2>. DEFINE K == AL \cup BR
  <2>1. IsFiniteSet(K) /\ J = I \cup K /\ I \cap K = {}
    BY <1>6, <1>9
  <2>2. Cardinality(K) = Cardinality(A) + (Cardinality(A) + Cardinality(C))
    BY <1>2, <1>5, <1>9
  <2>. HIDE DEF K
  <2>. QED
    BY <1>3, <2>1, <2>2, DisjointUnion
<1>11. Signum(Cardinality(J)) = Signum(Cardinality(I)) * Signum(Cardinality(C))
  BY <1>2, <1>3, <1>10, SignumOfSum
<1>. QED
  BY <1>11 DEF C, I, J, Sign, Signum

LEMMA SignOfNone ==
  ASSUME IsInput(inp)
  PROVE  Sign(inp, {}) = 1
<1>1. \A o \in AllOps(inp) : Place(inp, {}, o) = 2 * End(inp) + o
  BY DEF Place, Ends
<1>2. AllOps(inp) \subseteq Nat /\ End(inp) \in Nat
  BY InputFacts
<1>3. Inversions(inp, {}) = {}
  BY <1>1, <1>2 DEF Inversions
<1>. QED
  BY <1>3, FS_EmptySet DEF Sign

\* what holds of a set of contractions the search has come to: one of Wick's
\* theorem if it is delivered
LEMMA IsWickContraction ==
  ASSUME IsInput(inp), NEW M \in SUBSET Pairs, IsContraction(M), Reachable(M),
         inp.full => AllOps(inp) \ OpsIn(M) = {}
  PROVE  M \in Contractions(inp)
<1>1. M \in Matchings(inp)
  BY MatchingsAreContractions
<1>2. \A a, b : Joining(inp, M, a, b) = Between(M, a, b)
  BY DEF Joining, Between
<1>3. CASE inp.full
  <2>1. IsComplete(inp, M)
    <3>1. OpsIn(M) \subseteq AllOps(inp)
      BY DEF OpsIn, Pairs
    <3>. QED
      BY <1>3, <3>1, EndsAreOps DEF IsComplete
  <2>2. Connected(M)
    BY <1>3, NothingMissing
  <2>3. IsConnected(inp, M)
    <3>. SUFFICES ASSUME NEW t \in inp.target, NEW a \in t, NEW b \in t, a # b
                  PROVE  Joining(inp, M, a, b) # {}
      BY DEF IsConnected
    <3>1. \E x, y \in Nops(inp) : x # y /\ t = {x, y}
      BY DEF IsInput, Nops
    <3>2. a \in Nops(inp) /\ b \in Nops(inp) /\ {a, b} \in inp.target
      <4>1. PICK x \in Nops(inp), y \in Nops(inp) : x # y /\ t = {x, y}
        BY <3>1
      <4>2. t = {a, b}
        BY <4>1
      <4>. QED
        BY <4>1, <4>2
    <3>. QED
      BY <1>2, <2>2, <3>2 DEF Connected
  <2>. QED
    BY <1>1, <1>3, <2>1, <2>3 DEF Contractions
<1>4. CASE ~inp.full
  <2>1. ASSUME NEW o \in Ends(M)
        PROVE  Cardinality({b \in Nops(inp) : {inp.nop[o], b} \in inp.target
                                             /\ Joining(inp, M, inp.nop[o], b) = {}})
                 <= Cardinality(OpsOf(inp, inp.nop[o]) \ Ends(M))
    <3>. DEFINE c == inp.nop[o]
                O == OpsOf(inp, c)
    <3>1. o \in AllOps(inp) /\ o \in OpsIn(M) /\ c \in Nops(inp) /\ o \in O
      <4>1. o \in AllOps(inp) /\ o \in OpsIn(M)
        BY <2>1, EndsAreOps DEF Ends, Pairs
      <4>. QED
        BY <4>1, InputFacts DEF OpsOf
    <3>2. {b \in Nops(inp) : {c, b} \in inp.target /\ Joining(inp, M, c, b) = {}} = Missing(M, c)
      BY <1>2 DEF Missing
    <3>3. O \ Ends(M) = Free(M, c)
      BY EndsAreOps DEF Free, OpsOf
    <3>4. O \in SUBSET AllOps(inp) /\ Free(M, c) \in SUBSET O /\ Free(M, c) # O
      BY <3>1 DEF Free, OpsOf
    <3>5. IsFiniteSet(O) /\ IsFiniteSet(Free(M, c))
      BY <3>4, InputFacts, FS_Subset
    <3>. HIDE DEF c, O
    <3>6. Cardinality(Free(M, c)) # Cardinality(O) /\ Cardinality(Free(M, c)) \in Nat
      BY <3>4, <3>5, FS_Subset, FS_CardinalityType
    <3>7. CASE Constrained
      BY <3>1, <3>2, <3>3, <3>6, <3>7 DEF Reachable, c, O
    <3>8. CASE ~Constrained
      <4>1. Missing(M, c) = {}
        BY <3>8 DEF Constrained, Missing
      <4>2. Cardinality(Missing(M, c)) <= Cardinality(Free(M, c))
        BY <3>6, <4>1, FS_EmptySet
      <4>. QED
        BY <3>2, <3>3, <4>2 DEF c, O
    <3>. QED
      BY <3>7, <3>8
  <2>2. MayConnect(inp, M)
    BY <2>1 DEF MayConnect
  <2>. QED
    BY <1>1, <1>4, <2>2 DEF Contractions
<1>. QED
  BY <1>3, <1>4

-----------------------------------------------------------------------------
(***************************************************************************)
(* The prefactors, from the first contraction on.                          *)
(***************************************************************************)
\* s is a number of equivalent contractions with the sign of M
Signed(M, s) == s \in Int /\ s # 0 /\ (s > 0 <=> Sign(inp, M) = 1)

\* the pairs of the prefactor are those of the frames
LeftsInv == \A p \in sp.pairs : \E k \in 1..Len(stack) : p = <<stack[k].left, stack[k].right>>

SignInv ==
  /\ Signed(sp.pairs, sp.scalar)
  /\ \A k \in 1..Len(stack) : Signed(stack[k].sp.pairs, stack[k].sp.scalar)

TermsInv ==
  \A i \in DOMAIN result :
    /\ result[i].pairs \in Contractions(inp)
    /\ result[i].rest = AllOps(inp) \ OpsIn(result[i].pairs)
    /\ Signed(result[i].pairs, result[i].scalar)

SoundInv == LeftsInv /\ SignInv /\ TermsInv

\* every term delivered is one of Wick's theorem, with its sign
TermsAreWicks == \A t \in Delivered : Terms!IsTerm(t)

LEMMA LeftsStep == Inv /\ LeftsInv /\ [Next]_vars => LeftsInv'
<1>. SUFFICES ASSUME Inv, LeftsInv, [Next]_vars
              PROVE  LeftsInv'
  OBVIOUS
<1>0. Len(stack) \in Nat
  BY StackType
<1>1. CASE Contract
  <2>1. /\ Len(stack') = Len(stack) + 1
        /\ \A k \in 1..Len(stack) : k \in 1..Len(stack') /\ stack'[k] = stack[k]
        /\ Len(stack') \in 1..Len(stack')
        /\ stack'[Len(stack')].left = left /\ stack'[Len(stack')].right = right
    BY <1>0, <1>1, Push
  <2>2. sp'.pairs = sp.pairs \cup {<<left, right>>}
    BY <1>1, ContractStep
  <2>. QED
    BY <2>1, <2>2 DEF LeftsInv
<1>2. CASE Restore
  <2>. DEFINE n == Len(stack)
              f == stack[n]
  <2>1. /\ n >= 1 /\ Len(stack') = n - 1
        /\ \A k \in 1..Len(stack') : stack'[k] = stack[k]
        /\ sp' = f.sp /\ sp.pairs = f.sp.pairs \cup {<<f.left, f.right>>}
        /\ <<f.left, f.right>> \notin f.sp.pairs
    BY <1>2, Pop
  <2>2. \A k \in 1..n : k = n \/ k \in 1..Len(stack')
    BY <1>0, <2>1
  <2>3. ASSUME NEW p \in sp'.pairs
        PROVE  \E k \in 1..Len(stack') : p = <<stack'[k].left, stack'[k].right>>
    <3>1. PICK k \in 1..n : p = <<stack[k].left, stack[k].right>>
      BY <2>1, <2>3 DEF LeftsInv
    <3>2. k # n
      BY <2>1, <2>3, <3>1
    <3>. QED
      BY <2>1, <2>2, <3>1, <3>2
  <2>. QED
    BY <2>3 DEF LeftsInv
<1>3. CASE Quiet \/ Finish \/ UNCHANGED vars
  <2>1. stack' = stack /\ sp' = sp
    BY <1>3, QuietKeeps DEF Finish, vars, state
  <2>. QED
    BY <2>1 DEF LeftsInv
<1>. QED
  BY <1>1, <1>2, <1>3 DEF Next, Done, Quiet

LEMMA SignedSame ==
  ASSUME inp' = inp, NEW M, NEW s, Signed(M, s)
  PROVE  Signed(M, s)'
BY DEF Signed

LEMMA SignedProduct ==
  ASSUME NEW s \in Int, s # 0, NEW d \in Nat, d > 0, NEW e \in {1, -1}
  PROVE  /\ s * (d * e) \in Int /\ s * (d * e) # 0
         /\ s * (d * e) > 0 <=> (s > 0 <=> e = 1)
<1>1. CASE s > 0
  <2>1. s * d > 0 /\ s * d \in Int
    BY <1>1
  <2>2. s * (d * e) = (s * d) * e
    OBVIOUS
  <2>. QED
    BY <1>1, <2>1, <2>2
<1>2. CASE s < 0
  <2>1. s * d < 0 /\ s * d \in Int
    BY <1>2
  <2>2. s * (d * e) = (s * d) * e
    OBVIOUS
  <2>. QED
    BY <1>2, <2>1, <2>2
<1>. QED
  BY <1>1, <1>2

LEMMA SignedContract ==
  ASSUME Inv, NestingInv, LeftsInv, SignInv, Contract
  PROVE  Signed(sp'.pairs, sp'.scalar)
<1>. DEFINE d == TopologicalDegeneracy(right)
            F == {y \in live : left < y /\ y < right}
            e == Signum(Cardinality(F))
            M == sp.pairs
            N == sp'.pairs
<1>1. /\ left \in live /\ right \in live /\ left < right /\ IsContraction(N)
      /\ N = M \cup {<<left, right>>}
      /\ left \notin OpsIn(M) /\ right \notin OpsIn(M)
  BY ContractStep
<1>2. /\ IsInput(inp) /\ live = AllOps(inp) \ OpsIn(M) /\ IsContraction(M)
      /\ M \in SUBSET Pairs /\ sp.scalar \in Int
  BY DEF Inv, TypeOK, StringMatchesPrefactor, Product
<1>3. \A p \in M : p[1] < left
  BY DEF LeftsInv, NestingInv, Contract, Scanning
<1>4. d \in Nat /\ d > 0
  <2>1. d > 0 /\ right \in AllOps(inp)
    BY <1>1, <1>2 DEF Contract, Contractible
  <2>. QED
    BY <2>1, DegeneracyType DEF Inv
<1>5. sp'.scalar = sp.scalar * (d * e)
  BY DEF Contract, Phase, Signum
<1>6. e \in {1, -1}
  BY DEF Signum
<1>7. Sign(inp, N) = Sign(inp, M) * e
  <2>. HIDE DEF N, M
  <2>. QED
    BY <1>1, <1>2, <1>3, SignAfter
<1>8. Sign(inp, M) \in {1, -1} /\ sp.scalar # 0 /\ (sp.scalar > 0 <=> Sign(inp, M) = 1)
  BY DEF SignInv, Signed, Sign
<1>. HIDE DEF d, e, N, M
<1>9. /\ sp.scalar * (d * e) \in Int /\ sp.scalar * (d * e) # 0
      /\ sp.scalar * (d * e) > 0 <=> (sp.scalar > 0 <=> e = 1)
  BY <1>2, <1>4, <1>6, <1>8, SignedProduct
<1>10. Sign(inp, N) = 1 <=> (Sign(inp, M) = 1 <=> e = 1)
  BY <1>6, <1>7, <1>8
<1>11. Signed(N, sp'.scalar)
  BY <1>5, <1>8, <1>9, <1>10 DEF Signed
<1>. QED
  BY <1>11 DEF N

LEMMA SignStep == Inv /\ NestingInv /\ LeftsInv /\ SignInv /\ [Next]_vars => SignInv'
<1>. SUFFICES ASSUME Inv, NestingInv, LeftsInv, SignInv, [Next]_vars
              PROVE  SignInv'
  OBVIOUS
<1>0. Len(stack) \in Nat
  BY StackType
<1>1. CASE Contract
  <2>1. /\ \A k \in 1..Len(stack') : k \in 1..Len(stack) \/ k = Len(stack')
        /\ \A k \in 1..Len(stack) : stack'[k] = stack[k]
        /\ stack'[Len(stack')].sp = sp
    BY <1>0, <1>1, Push
  <2>2. inp' = inp /\ Signed(sp'.pairs, sp'.scalar)
    BY <1>1, SignedContract DEF Contract
  <2>3. \A k \in 1..Len(stack') : Signed(stack'[k].sp.pairs, stack'[k].sp.scalar)
    BY <2>1 DEF SignInv
  <2>. QED
    BY <2>2, <2>3 DEF SignInv, Signed
<1>2. CASE Restore
  <2>1. /\ Len(stack) \in 1..Len(stack) /\ sp' = stack[Len(stack)].sp /\ inp' = inp
        /\ \A k \in 1..Len(stack') : k \in 1..Len(stack) /\ stack'[k] = stack[k]
    BY <1>0, <1>2, Pop
  <2>. QED
    BY <2>1 DEF SignInv, Signed
<1>3. CASE Quiet \/ Finish \/ UNCHANGED vars
  <2>1. stack' = stack /\ sp' = sp /\ inp' = inp
    BY <1>3, QuietKeeps DEF Finish, vars, state
  <2>. QED
    BY <2>1 DEF SignInv, Signed
<1>. QED
  BY <1>1, <1>2, <1>3 DEF Next, Done, Quiet

IsWickTerm(t) ==
  /\ t.pairs \in Contractions(inp)
  /\ t.rest = AllOps(inp) \ OpsIn(t.pairs)
  /\ Signed(t.pairs, t.scalar)

LEMMA WickTermsAppend ==
  ASSUME TypeOK, TermsInv, NEW t, IsWickTerm(t), inp' = inp, result' = Append(result, t)
  PROVE  TermsInv'
<1>1. /\ DOMAIN result' = 1..(Len(result) + 1) /\ DOMAIN result = 1..Len(result)
      /\ \A i \in 1..Len(result) : result'[i] = result[i]
      /\ result'[Len(result) + 1] = t
      /\ Len(result) \in Nat
  BY DEF TypeOK
<1>2. \A i \in DOMAIN result' : i \in 1..Len(result) \/ i = Len(result) + 1
  BY <1>1
<1>3. \A i \in DOMAIN result' : IsWickTerm(result'[i])
  BY <1>1, <1>2 DEF TermsInv, IsWickTerm
<1>. QED
  BY <1>3 DEF TermsInv, IsWickTerm, Signed, OpsIn

LEMMA WickTermsStep ==
  Inv /\ Books /\ ReachInv /\ NestingInv /\ LeftsInv /\ SignInv /\ TermsInv /\ [Next]_vars
    => TermsInv'
<1>. SUFFICES ASSUME Inv, Books, ReachInv, NestingInv, LeftsInv, SignInv, TermsInv, [Next]_vars
              PROVE  TermsInv'
  OBVIOUS
<1>0. IsInput(inp) /\ TypeOK
  BY DEF Inv, TypeOK
<1>1. CASE inp' = inp /\ result' = result
  BY <1>1 DEF TermsInv, Signed, OpsIn
<1>2. CASE Contract /\ result' # result
  <2>. DEFINE M == sp'.pairs
              t == Term(sp', live')
  <2>1. /\ inp' = inp /\ result' = Append(result, t) /\ (inp.full => live' = {})
    BY <1>2 DEF Contract
  <2>2. /\ IsContraction(M) /\ live' = AllOps(inp) \ OpsIn(M)
        /\ Reachable(M) /\ Signed(M, sp'.scalar)
    BY <1>2, ContractStep, ReachContract, SignedContract DEF ReachInv
  <2>3. M \in SUBSET Pairs
    BY <1>0, <2>1, TypeStep DEF TypeOK, Product, Pairs
  <2>4. /\ t.pairs = M /\ t.rest = live' /\ t.scalar = sp'.scalar
    BY DEF Term
  <2>. HIDE DEF M, t
  <2>5. M \in Contractions(inp)
    BY <1>0, <2>1, <2>2, <2>3, IsWickContraction
  <2>6. IsWickTerm(t)
    BY <2>2, <2>4, <2>5 DEF IsWickTerm
  <2>. QED
    BY <1>0, <2>1, <2>6, WickTermsAppend
<1>3. CASE Finish /\ result' # result
  <2>. DEFINE t == Term([scalar |-> 1, pairs |-> {}], AllOps(inp))
  <2>1. /\ inp' = inp /\ result' = Append(result, t) /\ ~inp.full /\ stack = <<>>
    BY <1>3 DEF Finish
  <2>2. IsContraction({}) /\ OpsIn({}) = {} /\ {} \in SUBSET Pairs /\ Reachable({})
    BY <2>1, OpsInEmpty DEF IsContraction, NestingInv, ReachInv
  <2>3. Signed({}, 1)
    BY <1>0, SignOfNone DEF Signed
  <2>4. {} \in Contractions(inp)
    BY <1>0, <2>1, <2>2, IsWickContraction
  <2>5. t.pairs = {} /\ t.rest = AllOps(inp) /\ t.scalar = 1
    BY DEF Term
  <2>. HIDE DEF t
  <2>6. IsWickTerm(t)
    BY <2>2, <2>3, <2>4, <2>5 DEF IsWickTerm
  <2>. QED
    BY <1>0, <2>1, <2>6, WickTermsAppend
<1>4. CASE Contract \/ Finish
  BY <1>1, <1>2, <1>3, <1>4 DEF Contract, Finish
<1>. QED
  BY <1>1, <1>4
  DEF Next, vars, output, ReturnEarly, NoLeftOp, Enter, Skip, Refuse, AdvanceLeft,
      Return, Restore, Done

LEMMA SoundInit == Init => SoundInv
<1>. SUFFICES ASSUME Init
              PROVE  SoundInv
  OBVIOUS
<1>1. Len(stack) = 0 /\ DOMAIN result = {} /\ sp.pairs = {} /\ sp.scalar = 1
  BY EmptySeq DEF Init
<1>2. IsInput(inp)
  BY InputsAssumption DEF Init
<1>. QED
  BY <1>1, <1>2, SignOfNone DEF SoundInv, LeftsInv, SignInv, TermsInv, Signed

LEMMA SoundCorrect == Spec => []SoundInv
<1>1. Inv /\ Books /\ ReachInv /\ OrderInv /\ SoundInv /\ [Next]_vars => SoundInv'
  BY LeftsStep, SignStep, WickTermsStep DEF SoundInv, OrderInv
<1>. QED
  BY <1>1, SoundInit, OrderCorrect, ReachCorrect, PTL DEF Spec

\* the reference that WickTerms sees is the reference
LEMMA SameReference ==
  /\ \A in : Terms!AllOps(in) = AllOps(in)
  /\ \A M : Terms!Ends(M) = Ends(M)
  /\ Terms!Contractions(inp) = Contractions(inp)
  /\ \A M : Terms!Sign(inp, M) = Sign(inp, M)
<1>1. \A S : Terms!Cardinality(S) = Cardinality(S)
  BY DEF Terms!Cardinality, Cardinality
<1>2. /\ \A in : Terms!AllOps(in) = AllOps(in) /\ Terms!Nops(in) = Nops(in) /\ Terms!End(in) = End(in)
      /\ \A M : Terms!Ends(M) = Ends(M)
  BY DEF Terms!AllOps, AllOps, Terms!Nops, Nops, Terms!End, End, Terms!Ends, Ends
<1>3. \A in, a : Terms!OpsOf(in, a) = OpsOf(in, a)
  BY <1>2 DEF Terms!OpsOf, OpsOf
<1>4. \A in, M, a, b : Terms!Joining(in, M, a, b) = Joining(in, M, a, b)
  BY DEF Terms!Joining, Joining
<1>5. Terms!Matchings(inp) = Matchings(inp)
  BY DEF Terms!Matchings, Matchings, Terms!Ends, Ends, Terms!CanContract, CanContract,
         Terms!IsQpAnnihilator, IsQpAnnihilator, Terms!IsQpCreator, IsQpCreator,
         Terms!OccupancyClass, OccupancyClass, Terms!QpCreatorSpace, QpCreatorSpace,
         Terms!QpAnnihilatorSpace, QpAnnihilatorSpace, Terms!NullSpace, NullSpace,
         Terms!Occupied, Occupied, Terms!CompleteUnoccupied, CompleteUnoccupied
<1>6. \A M : Terms!IsComplete(inp, M) = IsComplete(inp, M)
  BY <1>2 DEF Terms!IsComplete, IsComplete
<1>7. \A M : Terms!IsConnected(inp, M) <=> IsConnected(inp, M)
  BY <1>4 DEF Terms!IsConnected, IsConnected
<1>8. \A M : Terms!MayConnect(inp, M) <=> MayConnect(inp, M)
  BY <1>1, <1>2, <1>3, <1>4 DEF Terms!MayConnect, MayConnect
<1>9. Terms!Contractions(inp) = Contractions(inp)
  BY <1>5, <1>6, <1>7, <1>8 DEF Terms!Contractions, Contractions
<1>10. \A M, o : Terms!Place(inp, M, o) = Place(inp, M, o)
  BY <1>2 DEF Terms!Place, Place
<1>11. \A M : Terms!Inversions(inp, M) = Inversions(inp, M)
  BY <1>2, <1>10 DEF Terms!Inversions, Inversions
<1>12. \A M : Terms!Sign(inp, M) = Sign(inp, M)
  BY <1>1, <1>11 DEF Terms!Sign, Sign
<1>. QED
  BY <1>2, <1>9, <1>12

\* Every term the engine delivers is one of Wick's theorem, for every set of
\* inputs: a set of disjoint contractions of the string with the connections
\* set_op_connections asked for, the ops left over as its normal operator, and
\* the sign of the permutation that takes the ops into that order, though the
\* code only ever counts the ops between the two that it contracts.
THEOREM TermsAreWicksCorrect == Spec => []TermsAreWicks
<1>1. Inv /\ SoundInv => TermsAreWicks
  <2>. SUFFICES ASSUME Inv, SoundInv, NEW t \in Delivered
                PROVE  Terms!IsTerm(t)
    BY DEF TermsAreWicks
  <2>1. PICK i \in DOMAIN result : t = result[i]
    BY DEF Delivered
  <2>2. /\ t.pairs \in Contractions(inp) /\ t.rest = AllOps(inp) \ OpsIn(t.pairs)
        /\ t.scalar \in Int /\ t.scalar # 0 /\ (t.scalar > 0 <=> Sign(inp, t.pairs) = 1)
    BY <2>1 DEF SoundInv, TermsInv, Signed
  <2>3. Sign(inp, t.pairs) \in {1, -1}
    BY DEF Sign
  <2>4. t.scalar = Sign(inp, t.pairs) * Terms!Abs(t.scalar)
    BY <2>2, <2>3 DEF Terms!Abs
  <2>. QED
    BY <2>2, <2>4, SameReference, EndsAreOps DEF Terms!IsTerm
<1>. QED
  BY <1>1, InvCorrect, SoundCorrect, PTL

-----------------------------------------------------------------------------
(***************************************************************************)
(* The sets of contractions that the search is to find are those of Wick's *)
(* theorem.                                                                *)
(***************************************************************************)
LEMMA WickIsReachable ==
  ASSUME IsInput(inp), NEW M \in Contractions(inp)
  PROVE  /\ M \in SUBSET Pairs /\ IsContraction(M) /\ Reachable(M)
         /\ inp.full => OpsIn(M) = AllOps(inp)
<1>1. /\ M \in SUBSET Pairs /\ IsContraction(M)
      /\ inp.full => IsComplete(inp, M) /\ IsConnected(inp, M)
      /\ ~inp.full => MayConnect(inp, M)
  BY MatchingsAreContractions DEF Contractions
<1>2. \A a, b : Joining(inp, M, a, b) = Between(M, a, b)
  BY DEF Joining, Between
<1>3. ASSUME NEW c \in Nops(inp), Cardinality(Free(M, c)) # Cardinality(OpsOf(inp, c))
      PROVE  Cardinality(Missing(M, c)) <= Cardinality(Free(M, c))
  <2>1. Free(M, c) \in SUBSET OpsOf(inp, c) /\ OpsOf(inp, c) \in SUBSET AllOps(inp)
    BY DEF Free, OpsOf
  <2>2. Cardinality(Free(M, c)) \in Nat
    BY <2>1, InputFacts, FS_Subset, FS_CardinalityType
  <2>3. CASE inp.full
    <3>1. ASSUME NEW d \in Missing(M, c)
          PROVE  FALSE
      <4>1. {c, d} \in inp.target /\ Joining(inp, M, c, d) = {}
        BY <1>2, <3>1 DEF Missing
      <4>2. \E x, y \in Nops(inp) : x # y /\ {c, d} = {x, y}
        BY <4>1 DEF IsInput, Nops
      <4>3. c # d
        BY <4>2
      <4>. QED
        BY <1>1, <2>3, <4>1, <4>3 DEF IsConnected
    <3>2. Missing(M, c) = {}
      BY <3>1
    <3>. QED
      BY <2>2, <3>2, FS_EmptySet
  <2>4. CASE ~inp.full
    <3>1. PICK o \in OpsOf(inp, c) : o \in OpsIn(M)
      BY <1>3, <2>1 DEF Free
    <3>2. o \in Ends(M) /\ inp.nop[o] = c
      BY <3>1, EndsAreOps DEF OpsOf
    <3>3. Cardinality({b \in Nops(inp) : {c, b} \in inp.target /\ Joining(inp, M, c, b) = {}})
            <= Cardinality(OpsOf(inp, c) \ Ends(M))
      BY <1>1, <2>4, <3>2 DEF MayConnect
    <3>4. {b \in Nops(inp) : {c, b} \in inp.target /\ Joining(inp, M, c, b) = {}} = Missing(M, c)
      BY <1>2 DEF Missing
    <3>5. OpsOf(inp, c) \ Ends(M) = Free(M, c)
      BY EndsAreOps DEF Free, OpsOf
    <3>. QED
      BY <3>3, <3>4, <3>5
  <2>. QED
    BY <2>3, <2>4
<1>. QED
  BY <1>1, <1>3, EndsAreOps DEF Reachable, IsComplete

LEMMA WantedAreWicks ==
  ASSUME IsInput(inp)
  PROVE  Contractions(inp) = Wanted \cup (IF inp.full THEN {} ELSE {{}})
<1>1. ASSUME NEW M \in Contractions(inp)
      PROVE  M \in Wanted \/ (M = {} /\ ~inp.full)
  <2>1. inp.full => M # {}
    <3>1. 1 \in AllOps(inp)
      BY DEF IsInput, AllOps
    <3>. QED
      BY <3>1, WickIsReachable, OpsInEmpty
  <2>. QED
    BY <2>1, WickIsReachable DEF Wanted, IsWanted
<1>2. ASSUME NEW M \in Wanted
      PROVE  M \in Contractions(inp)
  BY <1>2, IsWickContraction DEF Wanted, IsWanted
<1>3. ASSUME ~inp.full
      PROVE  {} \in Contractions(inp)
  <2>1. \A c : Free({}, c) = OpsOf(inp, c)
    BY OpsInEmpty DEF Free, OpsOf
  <2>2. IsContraction({}) /\ Reachable({}) /\ {} \in SUBSET Pairs
    BY <2>1 DEF IsContraction, Reachable
  <2>. QED
    BY <1>3, <2>2, IsWickContraction
<1>. QED
  BY <1>1, <1>2, <1>3

-----------------------------------------------------------------------------
(***************************************************************************)
(* Without topological degeneracies each term stands for one set of        *)
(* contractions, and WickTerms may stop.                                   *)
(***************************************************************************)
UnitInv ==
  Plain => /\ sp.scalar \in {1, -1}
           /\ \A k \in 1..Len(stack) : stack[k].sp.scalar \in {1, -1}
           /\ \A i \in DOMAIN result : result[i].scalar \in {1, -1}

LEMMA UnitStep == Inv /\ UnitInv /\ [Next]_vars => UnitInv'
<1>. SUFFICES ASSUME Inv, Plain, UnitInv, [Next]_vars
              PROVE  /\ sp'.scalar \in {1, -1}
                     /\ \A k \in 1..Len(stack') : stack'[k].sp.scalar \in {1, -1}
                     /\ \A i \in DOMAIN result' : result'[i].scalar \in {1, -1}
  BY WantedSame DEF UnitInv, Next, ReturnEarly, NoLeftOp, Enter, Skip, Refuse, Contract,
     AdvanceLeft, Return, Restore, Finish, Done, vars
<1>0. TypeOK /\ Len(stack) \in Nat
  BY StackType DEF Inv
<1>1. ASSUME NEW t, t.scalar \in {1, -1}, result' = Append(result, t)
      PROVE  \A i \in DOMAIN result' : result'[i].scalar \in {1, -1}
  <2>1. /\ DOMAIN result' = 1..(Len(result) + 1) /\ DOMAIN result = 1..Len(result)
        /\ \A i \in 1..Len(result) : result'[i] = result[i]
        /\ result'[Len(result) + 1] = t
        /\ Len(result) \in Nat
    BY <1>0, <1>1 DEF TypeOK
  <2>2. \A i : i \in 1..(Len(result) + 1) <=> i \in 1..Len(result) \/ i = Len(result) + 1
    BY <2>1
  <2>. QED
    BY <1>1, <2>1, <2>2 DEF UnitInv
<1>2. CASE Contract
  <2>1. sp'.scalar \in {1, -1}
    <3>1. right \in AllOps(inp)
      BY <1>2, ContractStep DEF Inv, StringMatchesPrefactor
    <3>2. TopologicalDegeneracy(right) = 1
      BY <3>1, PlainDegeneracy
    <3>3. Phase(left, right) \in {1, -1} /\ sp.scalar \in {1, -1}
      BY DEF Phase, UnitInv
    <3>4. sp'.scalar = sp.scalar * (TopologicalDegeneracy(right) * Phase(left, right))
      BY <1>2 DEF Contract
    <3>. QED
      BY <3>2, <3>3, <3>4
  <2>2. \A k \in 1..Len(stack') : stack'[k].sp.scalar \in {1, -1}
    <3>1. /\ \A k \in 1..Len(stack') : k \in 1..Len(stack) \/ k = Len(stack')
          /\ \A k \in 1..Len(stack) : stack'[k] = stack[k]
          /\ stack'[Len(stack')].sp = sp
      BY <1>2, Push, StackType
    <3>. QED
      BY <3>1 DEF UnitInv
  <2>3. CASE result' = result
    BY <2>1, <2>2, <2>3 DEF UnitInv
  <2>4. CASE result' # result
    <3>. DEFINE t == Term(sp', live')
    <3>1. result' = Append(result, t) /\ t.scalar = sp'.scalar
      BY <1>2, <2>4 DEF Contract, Term
    <3>. HIDE DEF t
    <3>. QED
      BY <1>1, <2>1, <2>2, <3>1
  <2>. QED
    BY <2>3, <2>4
<1>3. CASE Restore
  <2>1. /\ Len(stack) \in 1..Len(stack) /\ sp' = stack[Len(stack)].sp
        /\ \A k \in 1..Len(stack') : k \in 1..Len(stack) /\ stack'[k] = stack[k]
        /\ result' = result
    BY <1>3, Pop, StackType DEF Restore
  <2>. QED
    BY <2>1 DEF UnitInv
<1>4. CASE Finish
  <2>1. sp' = sp /\ stack' = stack
    BY <1>4 DEF Finish, state
  <2>2. CASE result' = result
    BY <2>1, <2>2 DEF UnitInv
  <2>3. CASE result' # result
    <3>. DEFINE t == Term([scalar |-> 1, pairs |-> {}], AllOps(inp))
    <3>1. result' = Append(result, t) /\ t.scalar = 1
      BY <1>4, <2>3 DEF Finish, Term
    <3>. HIDE DEF t
    <3>. QED
      BY <1>1, <2>1, <3>1 DEF UnitInv
  <2>. QED
    BY <2>2, <2>3
<1>5. CASE Quiet \/ UNCHANGED vars
  <2>1. sp' = sp /\ stack' = stack /\ result' = result
    BY <1>5, QuietKeeps DEF vars, state, output
  <2>. QED
    BY <2>1 DEF UnitInv
<1>. QED
  BY <1>2, <1>3, <1>4, <1>5 DEF Next, Done, Quiet

LEMMA UnitCorrect == Spec => []UnitInv
<1>1. Init => UnitInv
  BY EmptySeq DEF Init, UnitInv
<1>2. Inv /\ UnitInv /\ [Next]_vars => UnitInv'
  BY UnitStep
<1>. QED
  BY <1>1, <1>2, InvCorrect, PTL DEF Spec

\* what MapThenSumSet makes of terms that stand for one set of contractions each
LEMMA SumOfUnits ==
  ASSUME NEW G, IsFiniteSet(G), \A g \in G : Terms!Abs(g[1].scalar) = 1
  PROVE  Terms!MapThenSumSet(LAMBDA g : Terms!Abs(g[1].scalar), G) = Cardinality(G)
<1>. DEFINE iter[s \in SUBSET G] ==
              IF s = {} THEN 0
              ELSE LET x == CHOOSE y \in s : TRUE
                   IN  Terms!Abs(x[1].scalar) + iter[s \ {x}]
            f == [g \in G |-> Terms!Abs(g[1].scalar)]
<1>1. Terms!MapThenSumSet(LAMBDA g : Terms!Abs(g[1].scalar), G) = iter[G]
  BY Zenon DEF Terms!MapThenSumSet, Terms!MapThenFoldSet
<1>2. \A s \in SUBSET G : s # {} =>
        f[CHOOSE y \in s : TRUE] = Terms!Abs((CHOOSE y \in s : TRUE)[1].scalar)
  OBVIOUS
<1>3. IsSum(iter, G, f)
  <2>. DEFINE IsIter(u) == u = [s \in SUBSET G |->
                IF s = {} THEN 0
                ELSE Terms!Abs((CHOOSE y \in s : TRUE)[1].scalar)
                       + u[s \ {CHOOSE y \in s : TRUE}]]
  <2>1. \A u : IsSum(u, G, f) <=> IsIter(u)
    BY <1>2 DEF IsSum
  <2>2. \E u : IsIter(u)
    BY <2>1, SumExists
  <2>. QED
    BY <2>1, <2>2
<1>4. \A x \in G : f[x] = 1
  OBVIOUS
<1>. HIDE DEF iter, f
<1>. QED
  BY <1>1, <1>3, <1>4, SumOfOnes

LEMMA ContractionsFinite ==
  ASSUME IsInput(inp)
  PROVE  IsFiniteSet(Contractions(inp)) /\ Cardinality(Contractions(inp)) \in Nat
<1>1. IsFiniteSet(Wanted \cup {{}}) /\ IsFiniteSet(Wanted \cup {})
  BY WantedFinite, FS_AddElement
<1>. QED
  BY <1>1, WantedAreWicks, FS_CardinalityType

\* terms that stand for one set of contractions each, one for each set
LEMMA UnitsCover ==
  ASSUME IsInput(inp), NEW T,
         \A t \in T : t.pairs \in Contractions(inp) /\ Terms!Abs(t.scalar) = 1,
         \A t, u \in T : t.pairs = u.pairs => t = u,
         \A M \in Contractions(inp) : \E t \in T : t.pairs = M
  PROVE  Terms!Covers(T)
<1>. DEFINE C == Contractions(inp)
            O(M) == Terms!Orbit(inp, M)
            all == {<<M, O(M)>> : M \in C}
            given == {<<t, O(t.pairs)>> : t \in T}
<1>1. Terms!Contractions(inp) = C
  BY SameReference
<1>. SUFFICES ASSUME NEW orbit
              PROVE  Terms!MapThenSumSet(LAMBDA g : Terms!Abs(g[1].scalar),
                                         {g \in given : g[2] = orbit})
                       = Terms!Cardinality({c \in all : c[2] = orbit})
  BY <1>1 DEF Terms!Covers
<1>. DEFINE A == {c \in all : c[2] = orbit}
            G == {g \in given : g[2] = orbit}
            f == [c \in A |-> CHOOSE g \in G : g[1].pairs = c[1]]
<1>2. IsFiniteSet(C)
  BY ContractionsFinite
<1>. HIDE DEF C, O
<1>3. IsFiniteSet(A)
  <2>. DEFINE h == [M \in C |-> <<M, O(M)>>]
  <2>1. h \in Surjection(C, all)
    BY DEF Surjection
  <2>. HIDE DEF h
  <2>2. IsFiniteSet(all)
    BY <1>2, <2>1, FS_Surjection
  <2>. HIDE DEF all
  <2>. QED
    BY <2>2, FS_Subset
<1>4. \A g \in G : /\ g[1] \in T /\ g = <<g[1], O(g[1].pairs)>> /\ g[2] = orbit
                   /\ <<g[1].pairs, orbit>> \in A
  BY DEF C
<1>5. ASSUME NEW c \in A
      PROVE  c[1] \in C /\ c = <<c[1], orbit>> /\ \E g \in G : g[1].pairs = c[1]
  <2>1. PICK M \in C : c = <<M, O(M)>> /\ O(M) = orbit
    OBVIOUS
  <2>2. PICK t \in T : t.pairs = M
    BY <2>1 DEF C
  <2>3. <<t, O(t.pairs)>> \in G
    BY <2>1, <2>2
  <2>4. c[1] = M /\ <<t, O(t.pairs)>>[1] = t
    BY <2>1
  <2>. QED
    BY <2>1, <2>2, <2>3, <2>4
<1>6. \A g, h \in G : g[1].pairs = h[1].pairs => g = h
  BY <1>4
<1>. HIDE DEF A, G
<1>7. \A c \in A : f[c] \in G /\ f[c][1].pairs = c[1]
  BY <1>5
<1>8. f \in Bijection(A, G)
  <2>1. f \in [A -> G]
    BY <1>7
  <2>. HIDE DEF f
  <2>2. \A c, d \in A : f[c] = f[d] => c = d
    BY <1>5, <1>7
  <2>3. ASSUME NEW g \in G
        PROVE  \E c \in A : f[c] = g
    <3>. DEFINE c == <<g[1].pairs, orbit>>
    <3>1. c \in A /\ c[1] = g[1].pairs
      BY <1>4
    <3>. HIDE DEF c
    <3>. QED
      BY <1>6, <1>7, <3>1
  <2>. QED
    BY <2>1, <2>2, <2>3 DEF Bijection, Injection, Surjection, IsInjective
<1>9. IsFiniteSet(G) /\ Cardinality(G) = Cardinality(A)
  <2>1. ExistsBijection(A, G)
    BY <1>8 DEF ExistsBijection
  <2>. QED
    BY <1>3, <2>1, FS_Bijection
<1>10. Terms!MapThenSumSet(LAMBDA g : Terms!Abs(g[1].scalar), G) = Cardinality(G)
  BY <1>4, <1>9, SumOfUnits
<1>11. Terms!Cardinality(A) = Cardinality(A)
  BY DEF Terms!Cardinality, Cardinality
<1>. QED
  BY <1>9, <1>10, <1>11 DEF A, G

\* no more terms are announced than there are
NumberInv == inp.countOnly => count <= Cardinality(Contractions(inp))

LEMMA NumberIsRight ==
  ASSUME Inv, CountInv
  PROVE  NumberInv
<1>1. IsInput(inp) /\ count \in Nat
  BY DEF Inv, TypeOK
<1>2. Accounted \in SUBSET Contractions(inp)
  BY <1>1, WantedAreWicks DEF Accounted, Gone
<1>3. Cardinality(Accounted) <= Cardinality(Contractions(inp))
      /\ Cardinality(Accounted) \in Nat /\ Cardinality(Contractions(inp)) \in Nat
  BY <1>1, <1>2, ContractionsFinite, FS_Subset, FS_CardinalityType
<1>. QED
  BY <1>1, <1>3 DEF CountInv, NumberInv

LEMMA OrbitsAreFewer ==
  ASSUME IsInput(inp)
  PROVE  /\ Terms!Cardinality(Terms!Orbits) \in Nat
         /\ Terms!Cardinality(Terms!Orbits) <= Cardinality(Contractions(inp))
<1>. DEFINE C == Contractions(inp)
            O == {Terms!Orbit(inp, M) : M \in C}
            h == [M \in C |-> Terms!Orbit(inp, M)]
<1>1. Terms!Orbits = O /\ Terms!Cardinality(O) = Cardinality(O)
  BY SameReference DEF Terms!Orbits, Terms!Cardinality, Cardinality
<1>2. h \in Surjection(C, O)
  BY DEF Surjection
<1>3. IsFiniteSet(C)
  BY ContractionsFinite
<1>. HIDE DEF C, O, h
<1>4. IsFiniteSet(O) /\ Cardinality(O) <= Cardinality(C) /\ Cardinality(O) \in Nat
  BY <1>2, <1>3, FS_Surjection, FS_CardinalityType
<1>. QED
  BY <1>1, <1>4 DEF C

-----------------------------------------------------------------------------
(***************************************************************************)
(* Each step of the engine is one of WickTerms, or none.                   *)
(***************************************************************************)
LEMMA TermsAppended ==
  ASSUME TypeOK, NEW t, result' = Append(result, t)
  PROVE  Delivered' = Delivered \cup {t}
<1>1. /\ DOMAIN result' = 1..(Len(result) + 1) /\ DOMAIN result = 1..Len(result)
      /\ \A i \in 1..Len(result) : result'[i] = result[i]
      /\ result'[Len(result) + 1] = t
      /\ Len(result) \in Nat
  BY DEF TypeOK
<1>2. \A i : i \in 1..(Len(result) + 1) <=> i \in 1..Len(result) \/ i = Len(result) + 1
  BY <1>1
<1>. QED
  BY <1>1, <1>2 DEF Delivered

LEMMA DeliveredAppend ==
  ASSUME TypeOK, NEW t, result' = Append(result, t), TermsAreDistinct'
  PROVE  /\ Delivered' = Delivered \cup {t}
         /\ t \notin Delivered
         /\ \A u \in Delivered : u.pairs # t.pairs
<1>1. /\ DOMAIN result' = 1..(Len(result) + 1) /\ DOMAIN result = 1..Len(result)
      /\ \A i \in 1..Len(result) : result'[i] = result[i]
      /\ result'[Len(result) + 1] = t
      /\ Len(result) \in Nat
  BY DEF TypeOK
<1>3. Delivered' = Delivered \cup {t}
  BY TermsAppended
<1>4. \A i \in 1..Len(result) : i # Len(result) + 1 /\ i \in DOMAIN result'
                                /\ Len(result) + 1 \in DOMAIN result'
  BY <1>1
<1>5. \A u \in Delivered : u.pairs # t.pairs
  BY <1>1, <1>4 DEF Delivered, TermsAreDistinct
<1>. QED
  BY <1>3, <1>5

LEMMA DeliverStep ==
  Inv /\ NumberInv' /\ TermsAreDistinct' /\ TermsAreWicks' /\ [Next]_vars /\ pc' # "done"
    => Terms!Deliver \/ Terms!CountOne \/ UNCHANGED Terms!vars
<1>. SUFFICES ASSUME Inv, NumberInv', TermsAreDistinct', TermsAreWicks', [Next]_vars,
                     pc' # "done"
              PROVE  Terms!Deliver \/ Terms!CountOne \/ UNCHANGED Terms!vars
  OBVIOUS
<1>0. TypeOK /\ IsInput(inp)
  BY DEF Inv, TypeOK
<1>1. CASE result' = result /\ count' = count /\ inp' = inp /\ pc # "done"
  BY <1>1 DEF Terms!vars, Delivered
<1>2. CASE Contract /\ ~inp.countOnly /\ result' # result
  <2>. DEFINE t == Term(sp', live')
  <2>1. /\ result' = Append(result, t) /\ count' = count /\ inp' = inp /\ pc # "done"
    BY <1>2 DEF Contract, Scanning
  <2>. HIDE DEF t
  <2>2. /\ Delivered' = Delivered \cup {t} /\ t \notin Delivered
        /\ \A u \in Delivered : u.pairs # t.pairs
    BY <1>0, <2>1, DeliveredAppend
  <2>3. Terms!IsTerm(t)
    BY <2>1, <2>2 DEF TermsAreWicks, Terms!IsTerm
  <2>. QED
    BY <1>2, <2>1, <2>2, <2>3 DEF Terms!Deliver
<1>3. CASE Contract /\ inp.countOnly /\ count' # count
  <2>1. count' = count + 1 /\ result' = result /\ inp' = inp /\ pc # "done"
    BY <1>3 DEF Contract, Scanning
  <2>2. count' <= Cardinality(Contractions(inp))
    BY <1>3, <2>1 DEF NumberInv
  <2>3. Terms!Cardinality(Terms!Contractions(inp)) = Cardinality(Contractions(inp))
    BY SameReference DEF Terms!Cardinality, Cardinality
  <2>4. Delivered' = Delivered
    BY <2>1 DEF Delivered
  <2>. QED
    BY <1>3, <2>1, <2>2, <2>3, <2>4 DEF Terms!CountOne
<1>4. \/ result' = result /\ count' = count /\ inp' = inp /\ pc # "done"
      \/ Contract /\ (IF inp.countOnly THEN count' # count /\ result' = result
                                        ELSE result' # result /\ count' = count)
  BY DEF Next, vars, output, ReturnEarly, NoLeftOp, Enter, Skip, Refuse, Scanning, Contract,
         AdvanceLeft, Return, Restore, Finish, Done
<1>. QED
  BY <1>1, <1>2, <1>3, <1>4

\* the step in which compute() returns
LEMMA StopStep ==
  Inv /\ Plain /\ CompleteInv' /\ UnitInv' /\ SoundInv' /\ NumberInv' /\ TermsAreDistinct' /\ Finish
    => Terms!Stop
<1>. SUFFICES ASSUME Inv, Plain, CompleteInv', UnitInv', SoundInv', NumberInv',
                     TermsAreDistinct', Finish
              PROVE  Terms!Stop
  OBVIOUS
<1>0. TypeOK /\ IsInput(inp) /\ inp' = inp /\ pc # "done" /\ pc' = "done" /\ Plain'
  BY WantedSame DEF Inv, TypeOK, Finish
<1>1. Accounted' = Contractions(inp)
  BY <1>0, WantedAreWicks, WantedSame DEF Accounted
<1>2. CASE inp.countOnly
  <2>1. /\ result' = result /\ Delivered' = Delivered
        /\ count' = IF inp.full THEN count ELSE count + 1
    BY <1>2 DEF Finish, Delivered
  <2>2. count' = Cardinality(Contractions(inp))
    BY <1>0, <1>1, <1>2 DEF CompleteInv
  <2>3. /\ Cardinality(Contractions(inp)) \in Nat
        /\ Terms!Cardinality(Terms!Orbits) \in Nat
        /\ Terms!Cardinality(Terms!Orbits) <= Cardinality(Contractions(inp))
    BY <1>0, ContractionsFinite, OrbitsAreFewer
  <2>4. Terms!Cardinality(Terms!Contractions(inp)) = Cardinality(Contractions(inp))
    BY SameReference DEF Terms!Cardinality, Cardinality
  <2>5. count' \in Terms!Cardinality(Terms!Orbits)..Terms!Cardinality(Terms!Contractions(inp))
    BY <2>2, <2>3, <2>4
  <2>. QED
    BY <1>0, <1>2, <2>1, <2>5 DEF Terms!Stop
<1>3. CASE ~inp.countOnly
  <2>1. /\ count' = count
        /\ Delivered' = IF inp.full THEN Delivered
                        ELSE Delivered \cup {[scalar |-> 1, pairs |-> {}, rest |-> AllOps(inp)]}
    <3>1. CASE inp.full
      BY <1>3, <3>1 DEF Finish, Delivered
    <3>2. CASE ~inp.full
      <4>. DEFINE t == Term([scalar |-> 1, pairs |-> {}], AllOps(inp))
      <4>1. /\ result' = Append(result, t) /\ count' = count
            /\ t = [scalar |-> 1, pairs |-> {}, rest |-> AllOps(inp)]
        BY <1>3, <3>2 DEF Finish, Term
      <4>. HIDE DEF t
      <4>2. Delivered' = Delivered \cup {t}
        BY <1>0, <4>1, DeliveredAppend
      <4>. QED
        BY <3>2, <4>1, <4>2
    <3>. QED
      BY <3>1, <3>2
  <2>2. Terms!Covers(Delivered')
    <3>. DEFINE T == Delivered'
    <3>1. ASSUME NEW t \in T
          PROVE  t.pairs \in Contractions(inp) /\ Terms!Abs(t.scalar) = 1
      <4>1. PICK i \in DOMAIN result' : t = result'[i]
        BY <3>1 DEF Delivered
      <4>2. t.pairs \in Contractions(inp)
        BY <1>0, <4>1 DEF SoundInv, TermsInv
      <4>3. t.scalar \in {1, -1}
        BY <1>0, <4>1 DEF UnitInv
      <4>. QED
        BY <4>2, <4>3 DEF Terms!Abs
    <3>2. ASSUME NEW t \in T, NEW u \in T, t.pairs = u.pairs
          PROVE  t = u
      BY <3>2 DEF Delivered, TermsAreDistinct
    <3>3. ASSUME NEW M \in Contractions(inp)
          PROVE  \E t \in T : t.pairs = M
      <4>1. Found' = Contractions(inp)
        BY <1>0, <1>1, <1>3 DEF CompleteInv
      <4>2. PICK i \in DOMAIN result' : M = result'[i].pairs
        BY <3>3, <4>1 DEF Found
      <4>. QED
        BY <4>2 DEF Delivered
    <3>. HIDE DEF T
    <3>4. Terms!Covers(T)
      BY <1>0, <3>1, <3>2, <3>3, UnitsCover
    <3>. QED
      BY <3>4 DEF T
  <2>3. Terms!AllOps(inp) = AllOps(inp)
    BY SameReference
  <2>. QED
    BY <1>0, <1>3, <2>1, <2>2, <2>3 DEF Terms!Stop
<1>. QED
  BY <1>2, <1>3

\* the steps of the engine before compute() returns deliver or announce terms
\* of Wick's theorem, or do nothing WickTerms knows of
StepsAreWicks ==
  [][pc' # "done" => Terms!Deliver \/ Terms!CountOne \/ UNCHANGED Terms!vars]_vars

\* The steps of the engine before compute() returns, for every set of inputs:
\* each appends one term of Wick's theorem that was not delivered before, or
\* counts one while there are still terms that were not counted, or changes
\* nothing a caller of the engine can see.
THEOREM StepsAreWicksCorrect == Spec => StepsAreWicks
<1>1. Inv /\ CountInv => NumberInv
  BY NumberIsRight
<1>. QED
  BY <1>1, DeliverStep, InvCorrect, CountCorrect, TermsAreDistinctCorrect, TermsAreWicksCorrect,
     PTL DEF Spec, StepsAreWicks

\* What is found when compute() returns without topological degeneracies: the
\* terms delivered are all of Wick's theorem, or as many as it has are counted.
AllIsFound ==
  Plain /\ pc = "done" =>
    IF inp.countOnly THEN count = Cardinality(Contractions(inp))
                     ELSE {t.pairs : t \in Delivered} = Contractions(inp)

\* For every input without topological degeneracies the search comes to every set
\* of contractions, though its nested calls start at the place of the last left
\* op and those for a full contraction try no other left op than the first.
THEOREM AllIsFoundCorrect == Spec => []AllIsFound
<1>1. Inv /\ CompleteInv => AllIsFound
  <2>. SUFFICES ASSUME Inv, CompleteInv, Plain, pc = "done"
                PROVE  IF inp.countOnly THEN count = Cardinality(Contractions(inp))
                       ELSE {t.pairs : t \in Delivered} = Contractions(inp)
    BY DEF AllIsFound
  <2>1. Accounted = Contractions(inp)
    BY WantedAreWicks DEF Accounted, Inv, TypeOK
  <2>2. {t.pairs : t \in Delivered} = Found
    BY DEF Delivered, Found
  <2>. QED
    BY <2>1, <2>2 DEF CompleteInv
<1>. QED
  BY <1>1, InvCorrect, CompleteCorrect, PTL

\* The engine implements WickTerms on every input without topological
\* degeneracies: whatever the operators, their number and the connections asked
\* for, recursive_nontensor_wick delivers Wick's theorem, every set of
\* contractions once, with its sign, and returns only then.
THEOREM ImplementsTermsCorrect == Spec /\ Plain => ImplementsTerms
<1>1. Init => Terms!Init
  <2>. SUFFICES ASSUME Init
                PROVE  Terms!Init
    OBVIOUS
  <2>1. IsInput(inp) /\ DOMAIN result = {} /\ count = 0 /\ pc # "done"
    BY EmptySeq, InputsAssumption DEF Init
  <2>2. Terms!IsInput(inp)
    BY <2>1 DEF Terms!IsInput, IsInput, Terms!Op, Op, Terms!IndexSpaces, IndexSpaces
  <2>. QED
    BY <2>1, <2>2 DEF Terms!Init, Delivered
<1>2. [Next]_vars /\ Plain => Plain'
  BY WantedSame DEF Next, ReturnEarly, NoLeftOp, Enter, Skip, Refuse, Contract,
     AdvanceLeft, Return, Restore, Finish, Done, vars
<1>3. /\ Inv /\ Plain /\ (CompleteInv /\ UnitInv /\ SoundInv /\ NumberInv
                            /\ TermsAreDistinct /\ TermsAreWicks)'
      /\ [Next]_vars
      => [Terms!Next]_Terms!vars
  <2>. SUFFICES ASSUME Inv, Plain, [Next]_vars, CompleteInv', UnitInv', SoundInv',
                       NumberInv', TermsAreDistinct', TermsAreWicks'
                PROVE  [Terms!Next]_Terms!vars
    OBVIOUS
  <2>1. CASE pc' # "done"
    BY <2>1, DeliverStep DEF Terms!Next
  <2>2. CASE Finish
    BY <2>2, StopStep DEF Terms!Next
  <2>3. CASE UNCHANGED vars
    BY <2>3 DEF vars, output, Terms!vars, Delivered
  <2>4. pc' # "done" \/ Finish \/ UNCHANGED vars
    BY QuietKeeps DEF Next, Quiet, Contract, Restore, Done
  <2>. QED
    BY <2>1, <2>2, <2>3, <2>4
<1>4. Inv /\ CountInv => NumberInv
  BY NumberIsRight
<1>. QED
  BY <1>1, <1>2, <1>3, <1>4, InvCorrect, CountCorrect, CompleteCorrect, UnitCorrect, SoundCorrect,
     TermsAreDistinctCorrect, TermsAreWicksCorrect, PTL DEF Spec, ImplementsTerms, Terms!Spec

-----------------------------------------------------------------------------
(***************************************************************************)
(* num_useful_contractions.  A contraction is counted when the search has  *)
(* ended with what it leads to, so those of the frames are still to be     *)
(* counted, but for one that has completed a term: it was counted at once. *)
(***************************************************************************)
\* the contractions made when frame k was pushed
Made(k) == stack[k].sp.pairs \cup {<<stack[k].left, stack[k].right>>}

\* the beginnings of the terms found
Begun == UNION {Beginnings(t.pairs) : t \in Delivered}

Open == {Made(k) : k \in 1..Len(stack)} \ (IF live = {} THEN {sp.pairs} ELSE {})

UsefulInv ==
  inp.full /\ ~inp.countOnly =>
    /\ useful = Cardinality(Begun \ Open)
    /\ \A j, k \in 1..Len(stack) : j < k => stack[j].useful <= stack[k].useful
    /\ \A k \in 1..Len(stack) :
         /\ stack[k].useful <= useful
         /\ Made(k) \in Open => (stack[k].useful < useful <=> Made(k) \in Begun)
         /\ Made(k) \notin Open => stack[k].useful = useful

\* compute() returns when no call is left
DoneInv == pc = "done" => stack = <<>>

LEMMA MadeFacts ==
  ASSUME Inv, NestingInv
  PROVE  /\ \A k \in 1..Len(stack) :
              /\ <<stack[k].left, stack[k].right>> \notin stack[k].sp.pairs
              /\ Made(k) \subseteq sp.pairs
              /\ k = Len(stack) => Made(k) = sp.pairs
         /\ \A j, k \in 1..Len(stack) : j < k => Made(j) \subseteq stack[k].sp.pairs
<1>0. Len(stack) \in Nat
  BY StackType
<1>1. ASSUME NEW k \in 1..Len(stack)
      PROVE  /\ <<stack[k].left, stack[k].right>> \notin stack[k].sp.pairs
             /\ PairsAbove(k) = Made(k)
  <2>. DEFINE t == <<stack[k].left, stack[k].right>>
  <2>1. FrameInv(k) /\ t[1] = stack[k].left
    BY DEF Inv, FramesInv
  <2>. QED
    BY <2>1 DEF FrameInv, Made, OpsIn
<1>2. ASSUME NEW k \in 1..Len(stack)
      PROVE  /\ k = Len(stack) => Made(k) = sp.pairs
             /\ k # Len(stack) => k + 1 \in 1..Len(stack) /\ Made(k) = stack[k + 1].sp.pairs
  <2>1. PairsAbove(k) = Made(k)
    BY <1>1
  <2>2. k # Len(stack) => k + 1 \in 1..Len(stack)
    BY <1>0
  <2>. QED
    BY <2>1, <2>2 DEF PairsAbove
<1>3. ASSUME NEW j \in 1..Len(stack), NEW k \in 1..Len(stack), j < k
      PROVE  Made(j) \subseteq stack[k].sp.pairs
  <2>1. j + 1 \in 1..Len(stack) /\ Made(j) = stack[j + 1].sp.pairs
    BY <1>0, <1>2, <1>3
  <2>2. j + 1 = k \/ j + 1 < k
    BY <1>3
  <2>. QED
    BY <2>1, <2>2 DEF NestingInv
<1>4. \A k \in 1..Len(stack) : Made(k) \subseteq sp.pairs
  BY <1>2 DEF NestingInv
<1>. QED
  BY <1>1, <1>2, <1>3, <1>4

\* what is contracted next begins none of the terms found
LEMMA BeginsNone ==
  ASSUME Inv, NestingInv, AheadInv, Contract, NEW M \in SUBSET Pairs, Visited(M)
  PROVE  sp'.pairs \notin Beginnings(M)
<1>. SUFFICES ASSUME NEW q \in M, sp'.pairs = {p \in M : p[1] <= q[1]}
              PROVE  FALSE
  BY DEF Beginnings
<1>. DEFINE t == <<left, right>>
            N == sp'.pairs
<1>1. /\ N = sp.pairs \cup {t} /\ t \notin sp.pairs /\ t[1] = left /\ pc = "scan"
      /\ ~Precedes(t, left, right)
  <2>1. t \notin sp.pairs
    BY ContractStep DEF OpsIn
  <2>2. ~Precedes(t, left, right)
    BY ContractStep, InputFacts DEF Precedes, Inv, TypeOK
  <2>. QED
    BY <2>1, <2>2, ContractStep DEF Contract, Scanning
<1>2. AllOps(inp) \subseteq Nat /\ left \in Nat
  BY InputFacts DEF Inv, TypeOK
<1>3. \A p \in M : p[1] \in Nat
  BY <1>2 DEF Pairs
<1>4. N \subseteq M /\ t \in M /\ left <= q[1]
  BY <1>1
<1>5. \A p \in M : p[1] <= left => p \in N
  BY <1>2, <1>3, <1>4
<1>. HIDE DEF t, N
<1>6. ~(M = sp.pairs)
  BY <1>1, <1>4
<1>7. ~Passed(M, sp.pairs, left, right)
  <2>. SUFFICES ASSUME NEW p \in M \ sp.pairs, Precedes(p, left, right)
                PROVE  FALSE
    BY DEF Passed
  <2>1. p[1] <= left
    BY <1>2, <1>3 DEF Precedes
  <2>. QED
    BY <1>1, <1>5, <2>1
<1>8. ASSUME NEW k \in 1..Len(stack)
      PROVE  ~(M = stack[k].sp.pairs) /\ ~PassedFrame(M, k)
  <2>1. ~(M = stack[k].sp.pairs)
    BY <1>1, <1>4 DEF NestingInv
  <2>2. ASSUME NEW p \in M \ stack[k].sp.pairs, Precedes(p, stack[k].left, stack[k].right)
        PROVE  FALSE
    <3>1. stack[k].left < left /\ stack[k].left \in Nat
      BY <1>1, StackType DEF NestingInv
    <3>2. p[1] <= left
      BY <1>2, <1>3, <2>2, <3>1 DEF Precedes
    <3>3. p \in N
      BY <1>5, <3>2
    <3>4. k \in 1..Len(stack') /\ stack'[k] = stack[k]
      BY Push, StackType
    <3>5. AheadInv'
      BY AheadStep DEF Next
    <3>. QED
      BY <2>2, <3>3, <3>4, <3>5 DEF AheadInv, N
  <2>. QED
    BY <2>1, <2>2 DEF PassedFrame, Passed
<1>. QED
  BY <1>1, <1>6, <1>7, <1>8 DEF Visited

\* the beginnings of the contractions just made
LEMMA BeginningsMade ==
  ASSUME Inv, NestingInv, LeftsInv, Contract
  PROVE  Beginnings(sp'.pairs) = {Made(k) : k \in 1..Len(stack)} \cup {sp'.pairs}
<1>. DEFINE t == <<left, right>>
            N == sp'.pairs
            w(k) == <<stack[k].left, stack[k].right>>
            Upto(q) == {p \in N : p[1] <= q[1]}
<1>1. /\ N = sp.pairs \cup {t} /\ t[1] = left /\ pc = "scan" /\ left \in Nat
  BY ContractStep, InputFacts DEF Contract, Scanning, Inv, TypeOK
<1>2. \A k \in 1..Len(stack) :
        /\ w(k)[1] = stack[k].left /\ stack[k].left \in Nat /\ stack[k].left < left
        /\ w(k) \in Made(k) /\ w(k) \notin stack[k].sp.pairs /\ Made(k) \subseteq sp.pairs
        /\ Made(k) = stack[k].sp.pairs \cup {w(k)}
  BY <1>1, MadeFacts, StackType DEF Made, NestingInv
<1>3. \A p \in sp.pairs : \E k \in 1..Len(stack) : p = w(k)
  BY DEF LeftsInv
<1>4. \A j, k \in 1..Len(stack) : j < k =>
        /\ stack[j].left < stack[k].left
        /\ Made(j) \subseteq stack[k].sp.pairs
  BY MadeFacts DEF NestingInv
<1>5. Len(stack) \in Nat
  BY StackType
<1>. HIDE DEF t, N, w
<1>6. ASSUME NEW k \in 1..Len(stack)
      PROVE  Upto(w(k)) = Made(k)
  <2>1. ASSUME NEW p \in Made(k)
        PROVE  p \in N /\ p[1] <= w(k)[1]
    <3>1. PICK j \in 1..Len(stack) : p = w(j)
      BY <1>2, <1>3, <2>1
    <3>2. j = k \/ j < k
      <4>1. ASSUME k < j
            PROVE  FALSE
        BY <1>2, <1>4, <2>1, <3>1, <4>1
      <4>. QED
        BY <1>5, <4>1
    <3>. QED
      BY <1>1, <1>2, <1>4, <2>1, <3>1, <3>2
  <2>2. ASSUME NEW p \in N, p[1] <= w(k)[1]
        PROVE  p \in Made(k)
    <3>1. p # t
      BY <1>1, <1>2, <2>2
    <3>2. PICK j \in 1..Len(stack) : p = w(j)
      BY <1>1, <1>3, <3>1
    <3>3. j = k \/ j < k
      <4>1. ASSUME k < j
            PROVE  FALSE
        BY <1>2, <1>4, <2>2, <3>2, <4>1
      <4>. QED
        BY <1>5, <4>1
    <3>. QED
      BY <1>2, <1>4, <3>2, <3>3
  <2>. QED
    BY <2>1, <2>2
<1>7. Upto(t) = N
  <2>1. \A p \in N : p[1] <= left
    BY <1>1, <1>2, <1>3
  <2>. QED
    BY <1>1, <2>1
<1>8. Beginnings(N) = {Upto(q) : q \in N}
  BY DEF Beginnings
<1>. HIDE DEF Upto
<1>9. {Upto(q) : q \in N} = {Made(k) : k \in 1..Len(stack)} \cup {N}
  <2>1. \A q \in N : Upto(q) = N \/ \E k \in 1..Len(stack) : Upto(q) = Made(k)
    BY <1>1, <1>3, <1>6, <1>7
  <2>2. \A k \in 1..Len(stack) : \E q \in N : Upto(q) = Made(k)
    BY <1>1, <1>2, <1>6
  <2>3. \E q \in N : Upto(q) = N
    BY <1>1, <1>7
  <2>. QED
    BY <2>1, <2>2, <2>3
<1>. QED
  BY <1>8, <1>9 DEF N

LEMMA BegunFinite ==
  ASSUME Inv
  PROVE  IsFiniteSet(Begun)
<1>1. IsFiniteSet(Pairs)
  BY InputFacts, FS_Product DEF Pairs, Inv, TypeOK
<1>2. Begun \subseteq SUBSET Pairs
  BY TermPairs DEF Begun, Beginnings, Delivered, Inv
<1>. QED
  BY <1>1, <1>2, FS_SUBSET, FS_Subset

LEMMA UsefulType ==
  ASSUME Inv, NEW k \in 1..Len(stack)
  PROVE  stack[k].useful \in Nat
<1>1. stack[k] \in Frame
  BY StackType, ElementOfSeq
<1>. QED
  BY <1>1 DEF Frame

LEMMA UsefulContract ==
  ASSUME Inv, OrderInv, LeftsInv, UsefulInv, Contract, inp.full, ~inp.countOnly
  PROVE  UsefulInv'
<1>. DEFINE n == Len(stack')
            N == sp'.pairs
            F == {Made(k) : k \in 1..Len(stack)}
<1>0. /\ TypeOK /\ IsInput(inp) /\ inp' = inp /\ useful \in Nat /\ Len(stack) \in Nat
      /\ IsFiniteSet(Begun)
  BY StackType, BegunFinite DEF Inv, TypeOK, Contract
<1>1. /\ n = Len(stack) + 1
      /\ \A k \in 1..Len(stack) : k \in 1..n /\ stack'[k] = stack[k] /\ Made(k)' = Made(k)
      /\ \A k \in 1..n : k \in 1..Len(stack) \/ k = n
      /\ \A k \in 1..Len(stack) : k < n
      /\ n \in 1..n /\ stack'[n].useful = useful'
      /\ \A k : k = n => Made(k)' = N
  <2>1. /\ n = Len(stack) + 1 /\ stack'[n].useful = useful'
        /\ \A k \in 1..Len(stack) : stack'[k] = stack[k]
        /\ stack'[n].left = left /\ stack'[n].right = right /\ stack'[n].sp = sp
    BY Push
  <2>2. N = sp.pairs \cup {<<left, right>>}
    BY ContractStep
  <2>3. \A k : k = n => Made(k)' = N
    BY <2>1, <2>2 DEF Made
  <2>4. \A k \in 1..Len(stack) : Made(k)' = Made(k)
    BY <2>1 DEF Made
  <2>. HIDE DEF n
  <2>. QED
    BY <1>0, <2>1, <2>3, <2>4
<1>2. N \notin Begun
  <2>1. ASSUME NEW i \in DOMAIN result
        PROVE  N \notin Beginnings(result[i].pairs)
    <3>1. result[i].pairs \in SUBSET Pairs /\ Visited(result[i].pairs)
      BY <1>0, TermPairs DEF OrderInv, VisitedInv, Contract, Scanning
    <3>. QED
      BY <3>1, BeginsNone DEF OrderInv
  <2>. QED
    BY <2>1 DEF Begun, Delivered
<1>3. N \notin F /\ Open = F
  <2>1. <<left, right>> \in N /\ <<left, right>> \notin sp.pairs /\ left \in live
    BY ContractStep DEF OpsIn
  <2>. QED
    BY <2>1, MadeFacts DEF Open, OrderInv
<1>4. {Made(k)' : k \in 1..n} = F \cup {N}
  BY <1>1
<1>5. Open' = (F \cup {N}) \ (IF live' = {} THEN {N} ELSE {})
  BY <1>4 DEF Open
<1>. HIDE DEF n, N, F
<1>6. \A k \in 1..Len(stack) :
        /\ stack[k].useful \in Nat /\ stack[k].useful <= useful /\ Made(k) \in F
        /\ stack[k].useful < useful <=> Made(k) \in Begun
  BY <1>3, UsefulType DEF UsefulInv, F
<1>7. CASE live' # {}
  <2>1. useful' = useful /\ Delivered' = Delivered
    BY <1>7 DEF Contract, Delivered
  <2>2. Begun' = Begun /\ Open' = Open \cup {N}
    BY <1>3, <1>5, <1>7, <2>1 DEF Begun, Beginnings
  <2>3. useful' = Cardinality(Begun' \ Open')
    <3>1. Begun \ (Open \cup {N}) = Begun \ Open
      BY <1>2
    <3>. QED
      BY <2>1, <2>2, <3>1 DEF UsefulInv
  <2>4. \A j, k \in 1..n : j < k => stack'[j].useful <= stack'[k].useful
    BY <1>0, <1>1, <1>6, <2>1 DEF UsefulInv
  <2>5. ASSUME NEW k \in 1..n
        PROVE  /\ stack'[k].useful <= useful'
               /\ Made(k)' \in Open' /\ (stack'[k].useful < useful' <=> Made(k)' \in Begun')
    <3>1. CASE k = n
      BY <1>0, <1>1, <1>2, <2>1, <2>2, <3>1
    <3>2. CASE k \in 1..Len(stack)
      BY <1>1, <1>3, <1>6, <2>1, <2>2, <3>2
    <3>. QED
      BY <1>1, <3>1, <3>2
  <2>. QED
    BY <2>3, <2>4, <2>5 DEF UsefulInv, n
<1>8. CASE live' = {}
  <2>. DEFINE t == Term(sp', live')
  <2>1. useful' = useful + 1 /\ result' = Append(result, t) /\ t.pairs = N
    BY <1>8 DEF Contract, Term, N
  <2>. HIDE DEF t
  <2>2. Begun' = Begun \cup (Open \cup {N}) /\ Open' = Open
    <3>1. Delivered' = Delivered \cup {t}
      BY <1>0, <2>1, TermsAppended
    <3>2. Beginnings(N) = F \cup {N}
      BY BeginningsMade DEF OrderInv, N, F
    <3>. QED
      BY <1>3, <1>5, <1>8, <2>1, <3>1, <3>2 DEF Begun, Beginnings
  <2>3. useful' = Cardinality(Begun' \ Open')
    <3>1. Begun' \ Open' = (Begun \ Open) \cup {N} /\ N \notin Begun \ Open
      BY <1>2, <1>3, <2>2
    <3>2. IsFiniteSet(Begun \ Open)
      BY <1>0, FS_Subset
    <3>3. Cardinality((Begun \ Open) \cup {N}) = Cardinality(Begun \ Open) + 1
      BY <3>1, <3>2, FS_AddElement
    <3>. QED
      BY <2>1, <3>1, <3>3 DEF UsefulInv
  <2>4. \A j, k \in 1..n : j < k => stack'[j].useful <= stack'[k].useful
    BY <1>0, <1>1, <1>6, <2>1 DEF UsefulInv
  <2>5. ASSUME NEW k \in 1..n
        PROVE  /\ stack'[k].useful <= useful'
               /\ Made(k)' \in Open' => (stack'[k].useful < useful' <=> Made(k)' \in Begun')
               /\ Made(k)' \notin Open' => stack'[k].useful = useful'
    <3>1. CASE k = n
      BY <1>0, <1>1, <1>3, <2>1, <2>2, <3>1
    <3>2. CASE k \in 1..Len(stack)
      BY <1>0, <1>1, <1>3, <1>6, <2>1, <2>2, <3>2
    <3>. QED
      BY <1>1, <3>1, <3>2
  <2>. QED
    BY <2>3, <2>4, <2>5 DEF UsefulInv, n
<1>. QED
  BY <1>7, <1>8

LEMMA UsefulRestore ==
  ASSUME Inv, OrderInv, UsefulInv, Restore, inp.full, ~inp.countOnly
  PROVE  UsefulInv'
<1>. DEFINE n == Len(stack)
            F == {Made(k) : k \in 1..Len(stack')}
<1>0. /\ inp' = inp /\ useful \in Nat /\ n \in Nat /\ IsFiniteSet(Begun)
  BY StackType, BegunFinite DEF Inv, TypeOK, Restore
<1>1. /\ n \in 1..n /\ Len(stack') = n - 1
      /\ \A k \in 1..Len(stack') : k \in 1..n /\ stack'[k] = stack[k] /\ k < n
      /\ \A k \in 1..n : k = n \/ k \in 1..Len(stack')
  <2>1. n >= 1 /\ Len(stack') = n - 1 /\ \A k \in 1..Len(stack') : k \in 1..n /\ stack'[k] = stack[k]
    BY Pop
  <2>. QED
    BY <1>0, <2>1
<1>2. \A k \in 1..Len(stack') : Made(k)' = Made(k)
  BY <1>1 DEF Made
<1>3. /\ Made(n) = sp.pairs /\ sp.pairs \notin F
      /\ {Made(k) : k \in 1..n} = F \cup {sp.pairs}
  <2>1. /\ Made(n) = sp.pairs /\ <<stack[n].left, stack[n].right>> \in Made(n)
        /\ <<stack[n].left, stack[n].right>> \notin stack[n].sp.pairs
    BY <1>1, MadeFacts DEF OrderInv, Made
  <2>2. \A k \in 1..Len(stack') : Made(k) \subseteq stack[n].sp.pairs
    BY <1>1, MadeFacts DEF OrderInv
  <2>. QED
    BY <1>1, <2>1, <2>2
<1>4. /\ useful' = (IF useful # stack[n].useful THEN useful + 1 ELSE useful)
      /\ Delivered' = Delivered /\ live' # {}
  <2>1. stack[n].left \in live'
    BY DEF Restore
  <2>. QED
    BY <2>1 DEF Restore, UsefulAfter, Delivered
<1>5. Open' = F /\ Begun' = Begun
  <2>1. {Made(k)' : k \in 1..Len(stack')} = F
    BY <1>2
  <2>. QED
    BY <1>4, <2>1 DEF Open, Begun, Beginnings
<1>6. /\ live = {} => Open = F
      /\ live # {} => Open = F \cup {sp.pairs}
  BY <1>3 DEF Open
<1>7. \A k \in 1..Len(stack') : Made(k) \in F
  OBVIOUS
<1>. HIDE DEF n, F
<1>8. \A k \in 1..n : stack[k].useful \in Nat /\ stack[k].useful <= useful
  BY UsefulType DEF UsefulInv, n
<1>9. \A k \in 1..Len(stack') :
        /\ stack'[k].useful = stack[k].useful
        /\ stack[k].useful <= stack[n].useful
        /\ stack[k].useful < useful <=> Made(k) \in Begun
  BY <1>1, <1>6, <1>7 DEF UsefulInv, n
<1>10. /\ useful' = Cardinality(Begun \ F)
       /\ useful' = useful \/ (useful' = useful + 1 /\ stack[n].useful < useful)
  <2>1. CASE live = {}
    <3>1. stack[n].useful = useful
      BY <1>1, <1>3, <1>6, <2>1 DEF UsefulInv, n
    <3>. QED
      BY <1>4, <1>6, <2>1, <3>1 DEF UsefulInv
  <2>2. CASE live # {}
    <3>1. stack[n].useful < useful <=> sp.pairs \in Begun
      BY <1>1, <1>3, <1>6, <2>2 DEF UsefulInv, n
    <3>2. CASE sp.pairs \in Begun
      <4>1. Begun \ F = (Begun \ Open) \cup {sp.pairs} /\ sp.pairs \notin Begun \ Open
        BY <1>3, <1>6, <2>2, <3>2
      <4>2. IsFiniteSet(Begun \ Open)
        BY <1>0, FS_Subset
      <4>3. Cardinality((Begun \ Open) \cup {sp.pairs}) = Cardinality(Begun \ Open) + 1
        BY <4>1, <4>2, FS_AddElement
      <4>4. useful' = useful + 1
        BY <1>0, <1>1, <1>4, <1>8, <3>1, <3>2
      <4>. QED
        BY <3>1, <3>2, <4>1, <4>3, <4>4 DEF UsefulInv
    <3>3. CASE sp.pairs \notin Begun
      <4>1. Begun \ F = Begun \ Open
        BY <1>6, <2>2, <3>3
      <4>2. useful' = useful
        BY <1>0, <1>1, <1>4, <1>8, <3>1, <3>3
      <4>. QED
        BY <4>1, <4>2 DEF UsefulInv
    <3>. QED
      BY <3>2, <3>3
  <2>. QED
    BY <2>1, <2>2
<1>11. \A j, k \in 1..Len(stack') : j < k => stack'[j].useful <= stack'[k].useful
  BY <1>1, <1>9 DEF UsefulInv, n
<1>12. ASSUME NEW k \in 1..Len(stack')
       PROVE  /\ stack'[k].useful <= useful'
              /\ Made(k)' \in Open' /\ (stack'[k].useful < useful' <=> Made(k)' \in Begun')
  <2>1. Made(k)' \in Open'
    BY <1>2, <1>5, <1>7
  <2>2. stack[k].useful \in Nat /\ stack[n].useful \in Nat /\ stack[k].useful <= useful
    BY <1>1, <1>8
  <2>. QED
    BY <1>0, <1>2, <1>5, <1>9, <1>10, <2>1, <2>2
<1>. QED
  BY <1>5, <1>10, <1>11, <1>12 DEF UsefulInv

LEMMA UsefulStep ==
  Inv /\ OrderInv /\ LeftsInv /\ UsefulInv /\ DoneInv /\ [Next]_vars => UsefulInv' /\ DoneInv'
<1>. SUFFICES ASSUME Inv, OrderInv, LeftsInv, UsefulInv, DoneInv, [Next]_vars
              PROVE  UsefulInv' /\ DoneInv'
  OBVIOUS
<1>1. inp' = inp
  BY DEF Next, ReturnEarly, NoLeftOp, Enter, Skip, Refuse, Contract,
     AdvanceLeft, Return, Restore, Finish, Done, vars
<1>2. CASE Contract \/ Restore
  <2>1. pc' # "done"
    BY <1>2 DEF Contract, Restore
  <2>2. CASE inp.full /\ ~inp.countOnly
    BY <1>2, <2>1, <2>2, UsefulContract, UsefulRestore DEF DoneInv
  <2>3. CASE ~(inp.full /\ ~inp.countOnly)
    BY <1>1, <2>1, <2>3 DEF DoneInv, UsefulInv
  <2>. QED
    BY <2>2, <2>3
<1>3. CASE Quiet \/ Finish \/ UNCHANGED vars
  <2>1. /\ sp' = sp /\ stack' = stack /\ useful' = useful /\ live' = live
        /\ inp.full => Delivered' = Delivered
    BY <1>3 DEF Quiet, vars, state, output, ReturnEarly, NoLeftOp, Enter, Skip, Refuse,
       AdvanceLeft, Return, Finish, Delivered
  <2>2. DoneInv'
    BY <1>3, <2>1, QuietKeeps DEF DoneInv, Finish, vars
  <2>3. \A k : Made(k)' = Made(k)
    BY <2>1 DEF Made
  <2>4. inp.full => Begun' = Begun /\ Open' = Open
    BY <2>1, <2>3 DEF Begun, Beginnings, Open
  <2>. QED
    BY <1>1, <2>1, <2>2, <2>3, <2>4 DEF UsefulInv
<1>. QED
  BY <1>2, <1>3 DEF Next, Done, Quiet

LEMMA UsefulInit == Init => UsefulInv /\ DoneInv
<1>. SUFFICES ASSUME Init
              PROVE  UsefulInv /\ DoneInv
  OBVIOUS
<1>1. Len(stack) = 0 /\ DOMAIN result = {} /\ useful = 0 /\ pc # "done"
  BY EmptySeq DEF Init
<1>2. Cardinality(Begun \ Open) = 0
  <2>1. Begun \ Open = {}
    BY <1>1 DEF Begun, Delivered
  <2>. QED
    BY <2>1, FS_EmptySet
<1>3. 1..Len(stack) = {}
  BY <1>1
<1>. QED
  BY <1>1, <1>2, <1>3 DEF UsefulInv, DoneInv

\* num_useful_contractions, when a full contraction has been computed, is the
\* number of beginnings of the terms found, for every set of inputs: a
\* contraction is counted once however many terms it leads to, and none that
\* leads to a dead end is, though the code only compares the counter before and
\* after a nested call.
THEOREM UsefulAreBeginningsCorrect == Spec => []UsefulAreBeginnings
<1>1. Inv /\ UsefulInv /\ DoneInv => UsefulAreBeginnings
  <2>. SUFFICES ASSUME Inv, UsefulInv, DoneInv, pc = "done", inp.full, ~inp.countOnly
                PROVE  useful = Cardinality(Begun)
    BY DEF UsefulAreBeginnings, Begun
  <2>1. Len(stack) = 0
    BY StackType DEF DoneInv
  <2>2. Begun \ Open = Begun
    BY <2>1 DEF Open
  <2>. QED
    BY <2>2 DEF UsefulInv
<1>2. Inv /\ OrderInv /\ SoundInv /\ UsefulInv /\ DoneInv /\ [Next]_vars => UsefulInv' /\ DoneInv'
  BY UsefulStep DEF SoundInv
<1>. QED
  BY <1>1, <1>2, UsefulInit, InvCorrect, OrderCorrect, SoundCorrect, PTL DEF Spec
=============================================================================
