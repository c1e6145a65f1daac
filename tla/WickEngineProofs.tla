-------------------------- MODULE WickEngineProofs --------------------------
(***************************************************************************)
(* Proofs about the engine of WickTheorem, for every set of inputs: the    *)
(* types and the terms; the counters and bit sets of the search; the       *)
(* connections of the terms it finds.                                      *)
(***************************************************************************)
EXTENDS WickEngine, FiniteSetTheorems, SequenceTheorems, TLAPS

-----------------------------------------------------------------------------
(***************************************************************************)
(* Facts about inputs and finite sets of ops.                              *)
(***************************************************************************)
LEMMA InputFacts ==
  ASSUME IsInput(inp)
  PROVE  /\ Len(inp.ops) \in Nat \ {0}
         /\ AllOps(inp) = 1..Len(inp.ops)
         /\ AllOps(inp) \subseteq Nat
         /\ End(inp) \in Nat
         /\ End(inp) \notin AllOps(inp)
         /\ \A o \in AllOps(inp) : inp.nop[o] \in Nops(inp)
         /\ IsFiniteSet(AllOps(inp))
<1>1. inp.ops \in Seq(Op) /\ Len(inp.ops) >= 1
  BY DEF IsInput
<1>2. Len(inp.ops) \in Nat \ {0}
  BY <1>1, LenProperties, SMT
<1>3. inp.nop \in [1..Len(inp.ops) -> 1..inp.nops]
  BY DEF IsInput
<1>4. IsFiniteSet(1..Len(inp.ops))
  BY <1>2, FS_Interval
<1>. QED
  BY <1>2, <1>3, <1>4, SMT DEF AllOps, End, Nops

\* sets of live ops are finite: their cardinalities are numbers
LEMMA LiveCardinality ==
  ASSUME TypeOK, NEW S \in SUBSET live
  PROVE  IsFiniteSet(S) /\ Cardinality(S) \in Nat
<1>1. IsFiniteSet(AllOps(inp))
  BY InputFacts DEF TypeOK
<1>2. S \in SUBSET AllOps(inp)
  BY DEF TypeOK
<1>3. IsFiniteSet(S)
  BY <1>1, <1>2, FS_Subset
<1>. QED
  BY <1>3, FS_CardinalityType

-----------------------------------------------------------------------------
(***************************************************************************)
(* Type correctness.                                                       *)
(***************************************************************************)
LEMMA DegeneracyType ==
  ASSUME TypeOK, NEW r \in AllOps(inp)
  PROVE  TopologicalDegeneracy(r) \in Nat
<1>1. HugGroup(r) \in SUBSET live
  BY DEF HugGroup
<1>2. OpDegeneracy(r) \in Nat
  BY <1>1, LiveCardinality DEF OpDegeneracy
<1>3. inp.nop[r] \in Nops(inp)
  BY InputFacts DEF TypeOK
<1>4. NopDegeneracy(inp.nop[r]) \in Nat
  <2>. DEFINE a == inp.nop[r]
              p == inp.partition[a]
  <2>1. p \in 0..inp.nops /\ inp.nops \in Nat
    BY <1>3 DEF TypeOK, IsInput, Nops
  <2>2. CASE p = 0 \/ a \notin parts[p]
    BY <2>2 DEF NopDegeneracy
  <2>3. CASE p # 0 /\ a \in parts[p]
    <3>1. p \in PartitionIds(inp)
      BY <1>3, <2>1, <2>3 DEF PartitionIds
    <3>2. parts[p] \in SUBSET (1..inp.nops)
      BY <3>1 DEF TypeOK, Nops
    <3>3. IsFiniteSet(1..inp.nops)
      BY <2>1, FS_Interval
    <3>4. Cardinality(parts[p]) \in Nat
      BY <3>2, <3>3, FS_Subset, FS_CardinalityType
    <3>. QED
      BY <3>4 DEF NopDegeneracy
  <2>. QED
    BY <2>2, <2>3
<1>. QED
  BY <1>2, <1>4 DEF TopologicalDegeneracy

LEMMA TypeInit == Init => TypeOK
<1>. SUFFICES ASSUME Init PROVE TypeOK
  OBVIOUS
<1>1. IsInput(inp)
  BY InputsAssumption DEF Init
<1>2. 1 \in AllOps(inp)
  BY <1>1, InputFacts, SMT
<1>3. inp.partition \in [Nops(inp) -> 0..inp.nops]
  BY <1>1 DEF IsInput, Nops
<1>4. result \in Seq(TermRecord)
  BY EmptySeq DEF Init
<1>5. stack \in Seq(Frame)
  BY EmptySeq DEF Init
<1>. QED
  BY <1>1, <1>2, <1>3, <1>4, <1>5 DEF Init, TypeOK, Product

LEMMA BumpType ==
  ASSUME NEW D, NEW f \in [D -> Int], NEW t
  PROVE  /\ [f EXCEPT ![t] = @ + 1] \in [D -> Int]
         /\ [f EXCEPT ![t] = @ - 1] \in [D -> Int]
<1>1. CASE t \in D
  BY <1>1
<1>2. CASE t \notin D
  <2>1. [f EXCEPT ![t] = @ + 1] = f /\ [f EXCEPT ![t] = @ - 1] = f
    BY <1>2
  <2>. QED
    BY <2>1
<1>. QED
  BY <1>1, <1>2

LEMMA ConnectType ==
  ASSUME TypeOK, NEW a \in Nops(inp), NEW b \in Nops(inp),
         Connect(a, b) \/ Disconnect(a, b)
  PROVE  /\ conn' \in [Nops(inp) -> SUBSET Nops(inp)]
         /\ adj' \in [NopPairs(inp) -> Int]
         /\ nconn' \in [Nops(inp) -> Int]
         /\ parts' \in [PartitionIds(inp) -> SUBSET Nops(inp)]
<1>1. /\ [adj EXCEPT ![{a, b}] = @ + 1] \in [NopPairs(inp) -> Int]
      /\ [adj EXCEPT ![{a, b}] = @ - 1] \in [NopPairs(inp) -> Int]
  BY BumpType DEF TypeOK
<1>2. /\ conn \in [Nops(inp) -> SUBSET Nops(inp)]
      /\ adj \in [NopPairs(inp) -> Int]
      /\ nconn \in [Nops(inp) -> Int]
      /\ parts \in [PartitionIds(inp) -> SUBSET Nops(inp)]
  BY DEF TypeOK
<1>3. CASE Connect(a, b)
  <2>1. conn' \in [Nops(inp) -> SUBSET Nops(inp)]
    BY <1>2, <1>3 DEF Connect, Joined
  <2>2. adj' \in [NopPairs(inp) -> Int]
    BY <1>1, <1>2, <1>3 DEF Connect
  <2>3. nconn' \in [Nops(inp) -> Int]
    BY <1>2, <1>3 DEF Connect
  <2>4. parts' \in [PartitionIds(inp) -> SUBSET Nops(inp)]
    BY <1>2, <1>3 DEF Connect
  <2>. QED
    BY <2>1, <2>2, <2>3, <2>4
<1>4. CASE Disconnect(a, b)
  <2>1. conn' \in [Nops(inp) -> SUBSET Nops(inp)]
    BY <1>2, <1>4 DEF Disconnect
  <2>2. adj' \in [NopPairs(inp) -> Int]
    BY <1>1, <1>2, <1>4 DEF Disconnect
  <2>3. nconn' \in [Nops(inp) -> Int]
    BY <1>2, <1>4 DEF Disconnect
  <2>4. parts' \in [PartitionIds(inp) -> SUBSET Nops(inp)]
    BY <1>2, <1>4 DEF Disconnect
  <2>. QED
    BY <2>1, <2>2, <2>3, <2>4
<1>. QED
  BY <1>3, <1>4

LEMMA TypeStep == TypeOK /\ [Next]_vars => TypeOK'
<1>. SUFFICES ASSUME TypeOK, [Next]_vars
              PROVE  TypeOK'
  OBVIOUS
<1>. USE DEF state, output, cursor
<1>1. CASE ReturnEarly
  BY <1>1 DEF ReturnEarly, TypeOK, Pairs, Product, Frame, TermRecord
<1>2. CASE NoLeftOp
  BY <1>2 DEF NoLeftOp, TypeOK, Pairs, Product, Frame, TermRecord
<1>3. CASE Enter
  BY <1>3 DEF Enter, TypeOK, Pairs, Product, Frame, TermRecord
<1>4. CASE Skip
  BY <1>4 DEF Skip, AdvanceRight, TypeOK, Pairs, Product, Frame, TermRecord
<1>5. CASE Refuse
  BY <1>5 DEF Refuse, AdvanceRight, TypeOK, Pairs, Product, Frame, TermRecord
<1>6. CASE Contract
  <2>1. right \in AllOps(inp) /\ left \in AllOps(inp)
    BY <1>6 DEF Contract, Scanning, TypeOK
  <2>2. inp.nop[right] \in Nops(inp) /\ inp.nop[left] \in Nops(inp)
    BY <2>1, InputFacts DEF TypeOK
  <2>3. /\ conn' \in [Nops(inp) -> SUBSET Nops(inp)]
        /\ adj' \in [NopPairs(inp) -> Int]
        /\ nconn' \in [Nops(inp) -> Int]
        /\ parts' \in [PartitionIds(inp) -> SUBSET Nops(inp)]
    BY <1>6, <2>2, ConnectType DEF Contract, Contractible
  <2>4. TopologicalDegeneracy(right) \in Int
    BY <1>6, <2>1, DegeneracyType DEF Contract
  <2>5. sp' \in Product
    <3>1. sp.scalar \in Int /\ sp.pairs \in SUBSET Pairs
      BY DEF TypeOK, Product
    <3>2. <<left, right>> \in Pairs
      BY <2>1 DEF Pairs
    <3>3. sp.pairs \cup {<<left, right>>} \in SUBSET Pairs
      BY <3>1, <3>2
    <3>4. Phase(left, right) \in Int
      BY DEF Phase
    <3>5. sp.scalar * (TopologicalDegeneracy(right) * Phase(left, right)) \in Int
      BY <2>4, <3>1, <3>4
    <3>. QED
      BY <1>6, <3>3, <3>5 DEF Contract, Product
  <2>6. live' \in SUBSET AllOps(inp)
    BY <1>6 DEF Contract, TypeOK
  <2>7. result' \in Seq(TermRecord)
    <3>1. Term(sp', live') \in TermRecord
      BY <2>5, <2>6 DEF Term, Product, TermRecord
    <3>2. result' = result \/ result' = Append(result, Term(sp', live'))
      BY <1>6 DEF Contract
    <3>3. result \in Seq(TermRecord)
      BY DEF TypeOK
    <3>4. \A t \in TermRecord : Append(result, t) \in Seq(TermRecord)
      BY <3>3, AppendProperties
    <3>. QED
      BY <3>1, <3>2, <3>3, <3>4
  <2>8. count' \in Nat /\ attempted' \in Nat /\ useful' \in Nat /\ offset' \in Nat
    BY <1>6 DEF Contract, TypeOK, NestedOffset
  <2>9. stack' \in Seq(Frame)
    <3>1. [left |-> left, leftOffset |-> leftOffset,
           right |-> right, sp |-> sp, useful |-> useful'] \in Frame
      BY <2>1, <2>8 DEF Frame, TypeOK
    <3>. QED
      BY <1>6, <3>1, AppendProperties DEF Contract, TypeOK
  <2>10. inp' = inp /\ UNCHANGED cursor /\ pc' \in {"return", "enter"}
    BY <1>6 DEF Contract
  <2>. QED
    BY <2>3, <2>5, <2>6, <2>7, <2>8, <2>9, <2>10 DEF TypeOK, Pairs, Product, Frame, TermRecord
<1>7. CASE AdvanceLeft
  BY <1>7 DEF AdvanceLeft, TypeOK, Pairs, Product, Frame, TermRecord
<1>8. CASE Return
  BY <1>8 DEF Return, TypeOK, Pairs, Product, Frame, TermRecord
<1>9. CASE Restore
  <2>. DEFINE f == stack[Len(stack)]
  <2>1. f \in Frame /\ Len(stack) \in 1..Len(stack)
    <3>1. stack \in Seq(Frame) /\ stack # <<>>
      BY <1>9 DEF Restore, TypeOK
    <3>2. Len(stack) \in 1..Len(stack)
      BY <3>1, EmptySeq, SMT
    <3>. QED
      BY <3>1, <3>2, ElementOfSeq
  <2>2. /\ f.left \in AllOps(inp) /\ f.right \in AllOps(inp)
        /\ f.leftOffset \in Nat /\ f.sp \in Product
    BY <2>1 DEF Frame
  <2>3. inp.nop[f.right] \in Nops(inp) /\ inp.nop[f.left] \in Nops(inp)
    BY <2>2, InputFacts DEF TypeOK
  <2>4. /\ conn' \in [Nops(inp) -> SUBSET Nops(inp)]
        /\ adj' \in [NopPairs(inp) -> Int]
        /\ nconn' \in [Nops(inp) -> Int]
        /\ parts' \in [PartitionIds(inp) -> SUBSET Nops(inp)]
    BY <1>9, <2>3, ConnectType DEF Restore
  <2>5. stack' \in Seq(Frame)
    <3>1. \A i \in 1..(Len(stack) - 1) : stack[i] \in Frame
      BY <2>1, ElementOfSeq DEF TypeOK
    <3>. QED
      BY <1>9, <2>1, <3>1, SubSeqProperties DEF Restore
  <2>6. live' \in SUBSET AllOps(inp)
    BY <1>9, <2>2 DEF Restore, TypeOK
  <2>7. useful' \in Nat
    BY <1>9 DEF Restore, UsefulAfter, TypeOK
  <2>8. right' \in AllOps(inp) \cup {End(inp)}
    BY <1>9, <2>6 DEF Restore
  <2>9. /\ UNCHANGED <<inp, offset, result, count, attempted>>
        /\ sp' = f.sp /\ left' = f.left /\ leftOffset' = f.leftOffset /\ pc' = "scan"
    BY <1>9 DEF Restore
  <2>. QED
    BY <2>2, <2>4, <2>5, <2>6, <2>7, <2>8, <2>9
    DEF TypeOK, Pairs, Product, Frame, TermRecord
<1>10. CASE Finish
  <2>1. result' \in Seq(TermRecord)
    <3>1. Term([scalar |-> 1, pairs |-> {}], AllOps(inp))
            \in TermRecord
      BY DEF Term, TermRecord
    <3>2. \/ result' = result
          \/ result' = Append(result, Term([scalar |-> 1, pairs |-> {}], AllOps(inp)))
      BY <1>10 DEF Finish
    <3>3. result \in Seq(TermRecord)
      BY DEF TypeOK
    <3>4. \A t \in TermRecord : Append(result, t) \in Seq(TermRecord)
      BY <3>3, AppendProperties
    <3>. QED
      BY <3>1, <3>2, <3>3, <3>4
  <2>. QED
    BY <1>10, <2>1 DEF Finish, TypeOK, Pairs, Product, Frame, TermRecord
<1>11. CASE UNCHANGED vars
  BY <1>11 DEF vars, TypeOK, Pairs, Product, Frame, TermRecord
<1>. QED
  BY <1>1, <1>2, <1>3, <1>4, <1>5, <1>6, <1>7, <1>8, <1>9, <1>10, <1>11
  DEF Next, Done

\* Every variable keeps its type, for every set of inputs.
THEOREM TypeCorrect == Spec => []TypeOK
BY TypeInit, TypeStep, PTL DEF Spec

-----------------------------------------------------------------------------
(***************************************************************************)
(* The string, the prefactor and the call stack.  A frame remembers the    *)
(* prefactor of the call it suspends; the prefactor above it has exactly   *)
(* one contraction more, the one the frame took.                           *)
(***************************************************************************)
CursorInv ==
  pc = "scan" => left \in live /\ right > left /\ right \in live \cup {End(inp)}

PairsAbove(k) == IF k = Len(stack) THEN sp.pairs ELSE stack[k + 1].sp.pairs

FrameInv(k) ==
  LET f == stack[k]
  IN  /\ f.left < f.right
      /\ f.left \notin OpsIn(f.sp.pairs)
      /\ f.right \notin OpsIn(f.sp.pairs)
      /\ PairsAbove(k) = f.sp.pairs \cup {<<f.left, f.right>>}

FramesInv == \A k \in 1..Len(stack) : FrameInv(k)

Inv == TypeOK /\ CursorInv /\ FramesInv /\ StringMatchesPrefactor /\ TermsAreContractions

\* what one more pair t does to the ops contracted
LEMMA OpsInAdd ==
  ASSUME NEW P, NEW Q, NEW t, Q = P \cup {t}
  PROVE  OpsIn(Q) = OpsIn(P) \cup {t[1], t[2]}
BY DEF OpsIn

LEMMA OpsInEmpty == OpsIn({}) = {}
BY DEF OpsIn

\* a contraction of two free ops extends a set of contractions
LEMMA ContractionAdd ==
  ASSUME NEW P, IsContraction(P), NEW l, NEW r,
         l < r, inp.nop[l] # inp.nop[r], CanContract(inp, l, r),
         l \notin OpsIn(P), r \notin OpsIn(P)
  PROVE  IsContraction(P \cup {<<l, r>>})
<1>. DEFINE Q == P \cup {<<l, r>>}
<1>1. \A p \in Q : p[1] < p[2] /\ inp.nop[p[1]] # inp.nop[p[2]] /\ CanContract(inp, p[1], p[2])
  BY DEF IsContraction
<1>2. \A p \in P : {p[1], p[2]} \cap {l, r} = {}
  BY DEF OpsIn
<1>3. \A p, q \in Q : p # q => {p[1], p[2]} \cap {q[1], q[2]} = {}
  BY <1>2 DEF IsContraction
<1>. QED
  BY <1>1, <1>3 DEF IsContraction

\* taking contractions away leaves a set of contractions
LEMMA ContractionSubset ==
  ASSUME NEW P, IsContraction(P), NEW Q \in SUBSET P
  PROVE  IsContraction(Q)
BY DEF IsContraction

\* the step into a nested call
LEMMA ContractStep ==
  ASSUME Inv, Contract
  PROVE  /\ left \in live /\ right \in live /\ left < right
         /\ sp'.pairs = sp.pairs \cup {<<left, right>>}
         /\ left \notin OpsIn(sp.pairs) /\ right \notin OpsIn(sp.pairs)
         /\ IsContraction(sp'.pairs)
         /\ live' = live \ {left, right}
         /\ live' = AllOps(inp) \ OpsIn(sp'.pairs)
         /\ inp.nop[left] \in Nops(inp) /\ inp.nop[right] \in Nops(inp)
         /\ inp.nop[left] # inp.nop[right]
<1>1. left \in live /\ right \in live /\ left < right
  BY InputFacts DEF Inv, Contract, Scanning, CursorInv, TypeOK
<1>2. sp'.pairs = sp.pairs \cup {<<left, right>>} /\ live' = live \ {left, right}
  BY DEF Contract
<1>3. left \notin OpsIn(sp.pairs) /\ right \notin OpsIn(sp.pairs)
  BY <1>1 DEF Inv, StringMatchesPrefactor
<1>4. inp.nop[left] # inp.nop[right] /\ CanContract(inp, left, right)
  BY DEF Contract, Contractible
<1>5. IsContraction(sp'.pairs)
  BY <1>1, <1>2, <1>3, <1>4, ContractionAdd DEF Inv, StringMatchesPrefactor
<1>6. OpsIn(sp'.pairs) = OpsIn(sp.pairs) \cup {left, right}
  <2>. DEFINE t == <<left, right>>
              Q == sp'.pairs
  <2>1. t[1] = left /\ t[2] = right /\ Q = sp.pairs \cup {t}
    BY <1>2
  <2>. HIDE DEF t, Q
  <2>2. OpsIn(Q) = OpsIn(sp.pairs) \cup {t[1], t[2]}
    BY <2>1, OpsInAdd
  <2>. QED
    BY <2>1, <2>2 DEF Q
<1>7. live' = AllOps(inp) \ OpsIn(sp'.pairs)
  BY <1>2, <1>6 DEF Inv, StringMatchesPrefactor
<1>8. inp.nop[left] \in Nops(inp) /\ inp.nop[right] \in Nops(inp)
  BY <1>1, InputFacts DEF Inv, TypeOK
<1>. QED
  BY <1>1, <1>2, <1>3, <1>4, <1>5, <1>7, <1>8

\* the step back from a nested call
LEMMA RestoreStep ==
  ASSUME Inv, Restore, NEW f, f = stack[Len(stack)]
  PROVE  /\ Len(stack) \in 1..Len(stack)
         /\ f \in Frame /\ f.left < f.right
         /\ f.left \in AllOps(inp) /\ f.right \in AllOps(inp)
         /\ f.left \notin live /\ f.right \notin live
         /\ sp' = f.sp
         /\ sp.pairs = sp'.pairs \cup {<<f.left, f.right>>}
         /\ <<f.left, f.right>> \notin sp'.pairs
         /\ IsContraction(sp'.pairs)
         /\ live' = live \cup {f.left, f.right}
         /\ live' = AllOps(inp) \ OpsIn(sp'.pairs)
         /\ inp.nop[f.left] \in Nops(inp) /\ inp.nop[f.right] \in Nops(inp)
         /\ inp.nop[f.left] # inp.nop[f.right]
<1>1. Len(stack) \in 1..Len(stack) /\ stack \in Seq(Frame)
  <2>1. stack \in Seq(Frame) /\ stack # <<>>
    BY DEF Restore, Inv, TypeOK
  <2>. QED
    BY <2>1, EmptySeq, SMT
<1>2. f \in Frame
  BY <1>1, ElementOfSeq
<1>3. f.left \in AllOps(inp) /\ f.right \in AllOps(inp)
  BY <1>2 DEF Frame
<1>4. /\ f.left < f.right
      /\ f.left \notin OpsIn(f.sp.pairs) /\ f.right \notin OpsIn(f.sp.pairs)
      /\ sp.pairs = f.sp.pairs \cup {<<f.left, f.right>>}
  BY <1>1 DEF Inv, FramesInv, FrameInv, PairsAbove
<1>5. sp' = f.sp /\ live' = live \cup {f.left, f.right}
  BY DEF Restore
<1>6. OpsIn(sp.pairs) = OpsIn(f.sp.pairs) \cup {f.left, f.right}
  <2>. DEFINE t == <<f.left, f.right>>
  <2>1. t[1] = f.left /\ t[2] = f.right /\ sp.pairs = f.sp.pairs \cup {t}
    BY <1>4
  <2>. HIDE DEF t
  <2>2. OpsIn(sp.pairs) = OpsIn(f.sp.pairs) \cup {t[1], t[2]}
    BY <2>1, OpsInAdd
  <2>. QED
    BY <2>1, <2>2
<1>7. live = AllOps(inp) \ OpsIn(sp.pairs) /\ IsContraction(sp.pairs)
  BY DEF Inv, StringMatchesPrefactor
<1>8. IsContraction(f.sp.pairs)
  BY <1>4, <1>7, ContractionSubset
<1>9. /\ f.left \notin live /\ f.right \notin live
      /\ live' = AllOps(inp) \ OpsIn(f.sp.pairs)
  BY <1>3, <1>4, <1>5, <1>6, <1>7
<1>10. <<f.left, f.right>> \in sp.pairs
  BY <1>4
<1>11. inp.nop[f.left] # inp.nop[f.right]
  BY <1>7, <1>10 DEF IsContraction
<1>12. <<f.left, f.right>> \notin f.sp.pairs
  BY <1>4 DEF OpsIn
<1>13. inp.nop[f.left] \in Nops(inp) /\ inp.nop[f.right] \in Nops(inp)
  BY <1>3, InputFacts DEF Inv, TypeOK
<1>. QED
  BY <1>1, <1>2, <1>3, <1>4, <1>5, <1>8, <1>9, <1>11, <1>12, <1>13

LEMMA InvInit == Init => Inv
<1>. SUFFICES ASSUME Init PROVE Inv
  OBVIOUS
<1>1. TypeOK
  BY TypeInit
<1>2. CursorInv
  BY DEF Init, CursorInv
<1>3. Len(stack) = 0 /\ result = <<>>
  BY EmptySeq DEF Init
<1>4. FramesInv
  BY <1>3 DEF FramesInv
<1>5. StringMatchesPrefactor
  BY OpsInEmpty DEF Init, StringMatchesPrefactor, IsContraction
<1>6. TermsAreContractions
  BY <1>3, EmptySeq DEF TermsAreContractions
<1>. QED
  BY <1>1, <1>2, <1>4, <1>5, <1>6 DEF Inv

LEMMA CursorStep == Inv /\ [Next]_vars => CursorInv'
<1>. SUFFICES ASSUME Inv, [Next]_vars
              PROVE  CursorInv'
  OBVIOUS
<1>. USE DEF state, output, cursor
<1>0. AllOps(inp) \subseteq Nat /\ End(inp) \in Nat /\ live \subseteq AllOps(inp)
  BY InputFacts DEF Inv, TypeOK
<1>1. CASE Enter
  BY <1>0, <1>1 DEF Enter, IsNextLive, CursorInv
<1>2. CASE Skip \/ Refuse
  BY <1>0, <1>2 DEF Skip, Refuse, Scanning, AdvanceRight, IsNextLive, Inv, CursorInv
<1>3. CASE AdvanceLeft
  BY <1>0, <1>3 DEF AdvanceLeft, IsNextLive, CursorInv
<1>4. CASE Restore
  <2>. DEFINE f == stack[Len(stack)]
  <2>1. /\ f.left < f.right /\ live' = live \cup {f.left, f.right}
        /\ f.left \in AllOps(inp) /\ f.right \in AllOps(inp)
    BY <1>4, RestoreStep
  <2>2. left' = f.left /\ inp' = inp
    BY <1>4 DEF Restore
  <2>3. \E y \in live' \cup {End(inp)} : IsResumePlace(live', f.right, y) /\ right' = y
    BY <1>4 DEF Restore
  <2>4. right' \in live' \cup {End(inp)} /\ right' > f.right
    BY <2>3 DEF IsResumePlace, IsNextLive
  <2>. QED
    BY <1>0, <2>1, <2>2, <2>4 DEF CursorInv
<1>5. CASE Contract
  BY <1>5 DEF Contract, CursorInv
<1>6. CASE ReturnEarly \/ NoLeftOp \/ Return \/ Finish
  BY <1>6 DEF ReturnEarly, NoLeftOp, Return, Finish, CursorInv
<1>7. CASE UNCHANGED vars
  BY <1>7 DEF vars, Inv, CursorInv
<1>. QED
  BY <1>1, <1>2, <1>3, <1>4, <1>5, <1>6, <1>7 DEF Next, Done

\* taking the last element away
LEMMA PopProperties ==
  ASSUME NEW S, NEW s \in Seq(S), NEW n \in Nat, n = Len(s), n >= 1,
         NEW t, t = SubSeq(s, 1, Len(s) - 1)
  PROVE  /\ Len(t) = n - 1
         /\ \A k \in 1..(n - 1) : t[k] = s[k]
<1>1. t = SubSeq(s, 1, n - 1) /\ \A i \in 1..(n - 1) : s[i] \in S
  BY ElementOfSeq
<1>2. /\ Len(t) = IF 1 <= n - 1 THEN (n - 1) - 1 + 1 ELSE 0
      /\ \A i \in 1..((n - 1) - 1 + 1) : t[i] = s[1 + i - 1]
  BY <1>1, SubSeqProperties
<1>3. Len(t) = n - 1
  BY <1>2
<1>4. ASSUME NEW k \in 1..(n - 1)
      PROVE  t[k] = s[k]
  <2>1. k \in 1..((n - 1) - 1 + 1) /\ 1 + k - 1 = k
    OBVIOUS
  <2>. QED
    BY <1>2, <2>1
<1>. QED
  BY <1>3, <1>4

LEMMA FramesStep == Inv /\ [Next]_vars => FramesInv'
<1>. SUFFICES ASSUME Inv, [Next]_vars
              PROVE  FramesInv'
  OBVIOUS
<1>. USE DEF state, output, cursor
<1>0. stack \in Seq(Frame) /\ Len(stack) \in Nat
  BY LenProperties DEF Inv, TypeOK
<1>1. CASE Contract
  <2>. DEFINE g == [left |-> left, leftOffset |-> leftOffset,
                    right |-> right, sp |-> sp, useful |-> useful']
  <2>1. stack' = Append(stack, g)
    BY <1>1 DEF Contract
  <2>2. g \in Frame
    BY <1>1, TypeStep, ContractStep DEF Inv, TypeOK, Frame
  <2>3. /\ Len(stack') = Len(stack) + 1
        /\ \A k \in 1..Len(stack) : stack'[k] = stack[k]
        /\ stack'[Len(stack) + 1] = g
    BY <1>0, <2>1, <2>2, AppendProperties
  <2>4. ASSUME NEW k \in 1..Len(stack')
        PROVE  FrameInv(k)'
    <3>1. CASE k = Len(stack')
      <4>1. /\ left < right
            /\ left \notin OpsIn(sp.pairs) /\ right \notin OpsIn(sp.pairs)
            /\ sp'.pairs = sp.pairs \cup {<<left, right>>}
        BY <1>1, ContractStep
      <4>2. stack'[k] = g /\ PairsAbove(k)' = sp'.pairs
        BY <2>3, <3>1 DEF PairsAbove
      <4>. QED
        BY <4>1, <4>2 DEF FrameInv
    <3>2. CASE k # Len(stack')
      <4>1. k \in 1..Len(stack) /\ stack'[k] = stack[k]
        BY <1>0, <2>3, <3>2
      <4>2. PairsAbove(k)' = PairsAbove(k)
        BY <1>0, <2>3, <3>2, <4>1 DEF PairsAbove
      <4>. QED
        BY <4>1, <4>2 DEF Inv, FramesInv, FrameInv
    <3>. QED
      BY <3>1, <3>2
  <2>. QED
    BY <2>4 DEF FramesInv
<1>2. CASE Restore
  <2>1. Len(stack) \in 1..Len(stack) /\ sp' = stack[Len(stack)].sp
    BY <1>2, RestoreStep
  <2>2. stack' = SubSeq(stack, 1, Len(stack) - 1)
    BY <1>2 DEF Restore
  <2>3. /\ Len(stack') = Len(stack) - 1
        /\ \A k \in 1..(Len(stack) - 1) : stack'[k] = stack[k]
    <3>1. Len(stack) >= 1
      BY <1>0, <2>1
    <3>. QED
      BY <1>0, <2>2, <3>1, PopProperties, Zenon
  <2>4. ASSUME NEW k \in 1..Len(stack')
        PROVE  FrameInv(k)'
    <3>1. k \in 1..Len(stack) /\ stack'[k] = stack[k] /\ k # Len(stack)
      BY <1>0, <2>3
    <3>2. PairsAbove(k)' = PairsAbove(k)
      <4>1. PairsAbove(k) = stack[k + 1].sp.pairs
        BY <3>1 DEF PairsAbove
      <4>2. CASE k = Len(stack')
        BY <2>1, <2>3, <4>1, <4>2 DEF PairsAbove
      <4>3. CASE k # Len(stack')
        <5>1. k + 1 \in 1..(Len(stack) - 1)
          BY <1>0, <2>3, <4>3
        <5>. QED
          BY <2>3, <4>1, <4>3, <5>1 DEF PairsAbove
      <4>. QED
        BY <4>2, <4>3
    <3>. QED
      BY <3>1, <3>2 DEF Inv, FramesInv, FrameInv
  <2>. QED
    BY <2>4 DEF FramesInv
<1>3. CASE UNCHANGED <<stack, sp>>
  BY <1>3 DEF Inv, FramesInv, FrameInv, PairsAbove
<1>. QED
  BY <1>1, <1>2, <1>3
  DEF Next, vars, ReturnEarly, NoLeftOp, Enter, Skip, Refuse, AdvanceLeft,
      Return, Finish, Done

LEMMA StringStep == Inv /\ [Next]_vars => StringMatchesPrefactor'
<1>. SUFFICES ASSUME Inv, [Next]_vars
              PROVE  StringMatchesPrefactor'
  OBVIOUS
<1>. USE DEF state, output, cursor
<1>1. CASE Contract
  <2>1. IsContraction(sp'.pairs) /\ live' = AllOps(inp) \ OpsIn(sp'.pairs)
    BY <1>1, ContractStep
  <2>2. inp' = inp
    BY <1>1 DEF Contract
  <2>. QED
    BY <2>1, <2>2 DEF StringMatchesPrefactor, IsContraction
<1>2. CASE Restore
  <2>1. IsContraction(sp'.pairs) /\ live' = AllOps(inp) \ OpsIn(sp'.pairs)
    BY <1>2, RestoreStep
  <2>2. inp' = inp
    BY <1>2 DEF Restore
  <2>. QED
    BY <2>1, <2>2 DEF StringMatchesPrefactor, IsContraction
<1>3. CASE UNCHANGED <<inp, sp, live>>
  BY <1>3 DEF Inv, StringMatchesPrefactor, IsContraction
<1>. QED
  BY <1>1, <1>2, <1>3
  DEF Next, vars, ReturnEarly, NoLeftOp, Enter, Skip, Refuse, AdvanceLeft,
      Return, Finish, Done

\* the terms: each step adds at most one, made of the prefactor or of no pair
TermInv(t) ==
  /\ IsContraction(t.pairs)
  /\ t.rest = AllOps(inp) \ OpsIn(t.pairs)
  /\ inp.full => t.rest = {}

LEMMA TermsAppend ==
  ASSUME TypeOK, TermsAreContractions, NEW t, TermInv(t), inp' = inp,
         result' = Append(result, t)
  PROVE  TermsAreContractions'
<1>1. /\ Len(result') = Len(result) + 1 /\ Len(result) \in Nat
      /\ DOMAIN result' = 1..(Len(result) + 1) /\ DOMAIN result = 1..Len(result)
      /\ \A i \in 1..Len(result) : result'[i] = result[i]
      /\ result'[Len(result) + 1] = t
  BY DEF TypeOK
<1>2. \A i \in DOMAIN result' : TermInv(result'[i])
  BY <1>1 DEF TermsAreContractions, TermInv
<1>. QED
  BY <1>2 DEF TermsAreContractions, TermInv, IsContraction

LEMMA TermsStep == Inv /\ [Next]_vars => TermsAreContractions'
<1>. SUFFICES ASSUME Inv, [Next]_vars
              PROVE  TermsAreContractions'
  OBVIOUS
<1>. USE DEF state, output, cursor
<1>1. CASE Contract
  <2>1. /\ IsContraction(sp'.pairs) /\ live' = AllOps(inp) \ OpsIn(sp'.pairs)
        /\ inp' = inp
    BY <1>1, ContractStep DEF Contract
  <2>2. CASE result' = result
    BY <2>1, <2>2 DEF Inv, TermsAreContractions, IsContraction
  <2>3. CASE result' # result
    <3>1. (inp.full => live' = {}) /\ result' = Append(result, Term(sp', live'))
      BY <1>1, <2>3 DEF Contract
    <3>2. TermInv(Term(sp', live'))
      BY <2>1, <3>1 DEF TermInv, Term
    <3>. QED
      BY <2>1, <3>1, <3>2, TermsAppend DEF Inv
  <2>. QED
    BY <2>2, <2>3
<1>2. CASE Finish
  <2>. DEFINE t == Term([scalar |-> 1, pairs |-> {}], AllOps(inp))
  <2>1. inp' = inp
    BY <1>2 DEF Finish
  <2>2. CASE result' = result
    BY <2>1, <2>2 DEF Inv, TermsAreContractions, IsContraction
  <2>3. CASE result' # result
    <3>1. ~inp.full /\ result' = Append(result, t)
      BY <1>2, <2>3 DEF Finish
    <3>2. TermInv(t)
      BY <3>1, OpsInEmpty DEF TermInv, Term, IsContraction
    <3>. QED
      BY <2>1, <3>1, <3>2, TermsAppend DEF Inv
  <2>. QED
    BY <2>2, <2>3
<1>3. CASE UNCHANGED <<inp, result>>
  BY <1>3 DEF Inv, TermsAreContractions, IsContraction
<1>. QED
  BY <1>1, <1>2, <1>3
  DEF Next, vars, ReturnEarly, NoLeftOp, Enter, Skip, Refuse, AdvanceLeft,
      Return, Restore, Done

LEMMA InvStep == Inv /\ [Next]_vars => Inv'
BY TypeStep, CursorStep, FramesStep, StringStep, TermsStep DEF Inv

LEMMA InvCorrect == Spec => []Inv
BY InvInit, InvStep, PTL DEF Spec

\* Every term found is a set of contractions of the input with the ops left
\* over as its normal operator, for every set of inputs and however deep the
\* search has gone and come back.
THEOREM TermsAreContractionsCorrect == Spec => []TermsAreContractions
<1>1. Inv => TermsAreContractions
  BY DEF Inv
<1>. QED
  BY <1>1, InvCorrect, PTL

-----------------------------------------------------------------------------
(***************************************************************************)
(* What two ops l and r, of different nops, contribute to the counts that  *)
(* connect() and disconnect() keep.                                        *)
(***************************************************************************)
LEMMA OneMore ==
  ASSUME NEW S, IsFiniteSet(S), NEW x, x \notin S, NEW T, T = S \cup {x}
  PROVE  IsFiniteSet(T) /\ Cardinality(T) = Cardinality(S) + 1
BY FS_AddElement

LEMMA OneLess ==
  ASSUME NEW S, IsFiniteSet(S), NEW x \in S, NEW T, T = S \ {x}
  PROVE  IsFiniteSet(T) /\ Cardinality(T) = Cardinality(S) - 1
BY FS_RemoveElement

\* by how much a contraction of l and r changes the counts of nop c
Bump(c, l, r) == IF c \in {inp.nop[l], inp.nop[r]} THEN 1 ELSE 0

LEMMA CountOps ==
  ASSUME IsInput(inp), NEW L \in SUBSET AllOps(inp),
         NEW l \in L, NEW r \in L, inp.nop[l] # inp.nop[r],
         NEW c \in Nops(inp)
  PROVE  /\ Cardinality(L \cap OpsOf(inp, c)) \in Nat
         /\ Cardinality((L \ {l, r}) \cap OpsOf(inp, c)) \in Nat
         /\ Cardinality((L \ {l, r}) \cap OpsOf(inp, c))
              = Cardinality(L \cap OpsOf(inp, c)) - Bump(c, l, r)
<1>. DEFINE S == L \cap OpsOf(inp, c)
            T == (L \ {l, r}) \cap OpsOf(inp, c)
<1>1. IsFiniteSet(S) /\ IsFiniteSet(T)
  BY InputFacts, FS_Subset
<1>2. Cardinality(S) \in Nat /\ Cardinality(T) \in Nat
  BY <1>1, FS_CardinalityType
<1>3. CASE c = inp.nop[l]
  <2>1. T = S \ {l} /\ l \in S
    BY <1>3 DEF OpsOf
  <2>. HIDE DEF S, T
  <2>2. Cardinality(T) = Cardinality(S) - 1
    BY <1>1, <2>1, OneLess
  <2>. QED
    BY <1>2, <1>3, <2>2 DEF Bump, S, T
<1>4. CASE c = inp.nop[r]
  <2>1. T = S \ {r} /\ r \in S
    BY <1>4 DEF OpsOf
  <2>. HIDE DEF S, T
  <2>2. Cardinality(T) = Cardinality(S) - 1
    BY <1>1, <2>1, OneLess
  <2>. QED
    BY <1>2, <1>4, <2>2 DEF Bump, S, T
<1>5. CASE c # inp.nop[l] /\ c # inp.nop[r]
  <2>1. T = S
    BY <1>5 DEF OpsOf
  <2>. QED
    BY <1>2, <1>5, <2>1 DEF Bump
<1>. QED
  BY <1>3, <1>4, <1>5

LEMMA PairsFinite ==
  ASSUME IsInput(inp), NEW P \in SUBSET Pairs
  PROVE  IsFiniteSet(P)
<1>1. IsFiniteSet(Pairs)
  BY InputFacts, FS_Product DEF Pairs
<1>. QED
  BY <1>1, FS_Subset

LEMMA BetweenFinite ==
  ASSUME IsInput(inp), NEW P \in SUBSET Pairs, NEW x, NEW y
  PROVE  /\ IsFiniteSet(Between(P, x, y))
         /\ Cardinality(Between(P, x, y)) \in Nat
         /\ Cardinality(Between(P, x, y)) = 0 <=> Between(P, x, y) = {}
<1>1. IsFiniteSet(Between(P, x, y))
  BY PairsFinite, FS_Subset DEF Between
<1>. QED
  BY <1>1, FS_CardinalityType, FS_EmptySet

\* contraction p is one between nops x and y
Joins(p, x, y) == {inp.nop[p[1]], inp.nop[p[2]]} = {x, y}

LEMMA BetweenAdd ==
  ASSUME IsInput(inp), NEW P \in SUBSET Pairs, NEW t, t \notin P,
         NEW Q, Q = P \cup {t}, NEW x, NEW y
  PROVE  /\ Joins(t, x, y) =>
              /\ Cardinality(Between(Q, x, y)) = Cardinality(Between(P, x, y)) + 1
              /\ Between(Q, x, y) # {}
         /\ ~Joins(t, x, y) => Between(Q, x, y) = Between(P, x, y)
<1>. DEFINE B == Between(P, x, y)
            C == Between(Q, x, y)
<1>1. t \notin B
  BY DEF Between
<1>2. IsFiniteSet(B)
  BY BetweenFinite
<1>3. ASSUME Joins(t, x, y)
      PROVE  Cardinality(C) = Cardinality(B) + 1 /\ C # {}
  <2>1. C = B \cup {t}
    BY <1>3 DEF Between, Joins
  <2>. HIDE DEF B, C
  <2>. QED
    BY <1>1, <1>2, <2>1, OneMore
<1>4. ASSUME ~Joins(t, x, y)
      PROVE  C = B
  BY <1>4 DEF Between, Joins
<1>. QED
  BY <1>3, <1>4

-----------------------------------------------------------------------------
(***************************************************************************)
(* Bookkeeping, part by part.  Each part is inductive once the string and  *)
(* the prefactor are known to belong together.                             *)
(***************************************************************************)
CountsMatch ==
  \A a \in Nops(inp) :
    nconn[a] = Cardinality(OpsOf(inp, a)) - Cardinality(live \cap OpsOf(inp, a))

PartitionsMatch ==
  \A p \in DOMAIN parts :
    parts[p] = {a \in Nops(inp) : inp.partition[a] = p /\ nconn[a] = 0}

ConnectionsMatch ==
  Constrained =>
    \A a, b \in Nops(inp) : a # b =>
      /\ adj[{a, b}] = Cardinality(Between(sp.pairs, a, b))
      /\ b \in conn[a] <=> Between(sp.pairs, a, b) # {}

Books == CountsMatch /\ PartitionsMatch /\ ConnectionsMatch

\* the counters are never negative: size_t does not wrap
LEMMA CountsAreNat ==
  ASSUME TypeOK, CountsMatch, NEW c \in Nops(inp)
  PROVE  /\ nconn[c] \in Nat
         /\ Cardinality(live \cap OpsOf(inp, c)) \in Nat
         /\ Cardinality(OpsOf(inp, c)) \in Nat
<1>. DEFINE S == OpsOf(inp, c)
            T == live \cap OpsOf(inp, c)
<1>1. IsFiniteSet(S) /\ T \in SUBSET S
  BY InputFacts, FS_Subset DEF TypeOK, OpsOf
<1>2. IsFiniteSet(T) /\ Cardinality(T) <= Cardinality(S)
  <2>. HIDE DEF S, T
  <2>. QED
    BY <1>1, FS_Subset
<1>3. Cardinality(S) \in Nat /\ Cardinality(T) \in Nat
  BY <1>1, <1>2, FS_CardinalityType
<1>4. nconn[c] = Cardinality(S) - Cardinality(T)
  BY DEF CountsMatch
<1>. QED
  BY <1>2, <1>3, <1>4

LEMMA ContractCounts ==
  ASSUME Inv, Contract, NEW c \in Nops(inp)
  PROVE  /\ nconn'[c] = nconn[c] + Bump(c, left, right)
         /\ Cardinality(live' \cap OpsOf(inp, c)) \in Nat
         /\ Cardinality(live \cap OpsOf(inp, c)) \in Nat
         /\ Cardinality(live' \cap OpsOf(inp, c))
              = Cardinality(live \cap OpsOf(inp, c)) - Bump(c, left, right)
<1>1. /\ left \in live /\ right \in live /\ live' = live \ {left, right}
      /\ inp.nop[left] \in Nops(inp) /\ inp.nop[right] \in Nops(inp)
      /\ inp.nop[left] # inp.nop[right]
  BY ContractStep
<1>2. live \in SUBSET AllOps(inp) /\ IsInput(inp) /\ nconn \in [Nops(inp) -> Int]
  BY DEF Inv, TypeOK
<1>3. nconn' = [nconn EXCEPT ![inp.nop[right]] = @ + 1, ![inp.nop[left]] = @ + 1]
  BY DEF Contract, Connect
<1>4. nconn'[c] = nconn[c] + Bump(c, left, right)
  BY <1>1, <1>2, <1>3 DEF Bump
<1>. QED
  BY <1>1, <1>2, <1>4, CountOps

LEMMA RestoreCounts ==
  ASSUME Inv, Restore, NEW f, f = stack[Len(stack)], NEW c \in Nops(inp)
  PROVE  /\ nconn'[c] = nconn[c] - Bump(c, f.left, f.right)
         /\ Cardinality(live' \cap OpsOf(inp, c)) \in Nat
         /\ Cardinality(live \cap OpsOf(inp, c)) \in Nat
         /\ Cardinality(live \cap OpsOf(inp, c))
              = Cardinality(live' \cap OpsOf(inp, c)) - Bump(c, f.left, f.right)
<1>1. /\ f.left \in AllOps(inp) /\ f.right \in AllOps(inp)
      /\ f.left \notin live /\ f.right \notin live
      /\ live' = live \cup {f.left, f.right}
      /\ inp.nop[f.left] \in Nops(inp) /\ inp.nop[f.right] \in Nops(inp)
      /\ inp.nop[f.left] # inp.nop[f.right]
  BY RestoreStep
<1>2. live \in SUBSET AllOps(inp) /\ IsInput(inp) /\ nconn \in [Nops(inp) -> Int]
  BY DEF Inv, TypeOK
<1>3. nconn' = [nconn EXCEPT ![inp.nop[f.right]] = @ - 1, ![inp.nop[f.left]] = @ - 1]
  BY DEF Restore, Disconnect
<1>4. nconn'[c] = nconn[c] - Bump(c, f.left, f.right)
  BY <1>1, <1>2, <1>3 DEF Bump
<1>. DEFINE l == f.left
            r == f.right
            L == live'
<1>5. /\ L \in SUBSET AllOps(inp) /\ l \in L /\ r \in L
      /\ L \ {l, r} = live
      /\ inp.nop[l] # inp.nop[r]
  BY <1>1, <1>2
<1>6. nconn'[c] = nconn[c] - Bump(c, l, r)
  BY <1>4
<1>. HIDE DEF l, r, L
<1>7. /\ Cardinality(L \cap OpsOf(inp, c)) \in Nat
      /\ Cardinality((L \ {l, r}) \cap OpsOf(inp, c)) \in Nat
      /\ Cardinality((L \ {l, r}) \cap OpsOf(inp, c))
           = Cardinality(L \cap OpsOf(inp, c)) - Bump(c, l, r)
  BY <1>2, <1>5, CountOps
<1>. QED
  BY <1>5, <1>6, <1>7 DEF l, r, L

LEMMA CountsContract ==
  ASSUME Inv, CountsMatch, Contract
  PROVE  CountsMatch'
<1>1. inp' = inp
  BY DEF Contract
<1>2. ASSUME NEW c \in Nops(inp)
      PROVE  nconn'[c] = Cardinality(OpsOf(inp, c)) - Cardinality(live' \cap OpsOf(inp, c))
  <2>1. nconn[c] = Cardinality(OpsOf(inp, c)) - Cardinality(live \cap OpsOf(inp, c))
    BY DEF CountsMatch
  <2>2. Cardinality(OpsOf(inp, c)) \in Nat
    BY CountsAreNat DEF Inv
  <2>3. Bump(c, left, right) \in Int
    BY DEF Bump
  <2>4. /\ nconn'[c] = nconn[c] + Bump(c, left, right)
        /\ Cardinality(live \cap OpsOf(inp, c)) \in Nat
        /\ Cardinality(live' \cap OpsOf(inp, c))
             = Cardinality(live \cap OpsOf(inp, c)) - Bump(c, left, right)
    BY ContractCounts
  <2>. QED
    BY <2>1, <2>2, <2>3, <2>4
<1>. QED
  BY <1>1, <1>2 DEF CountsMatch

LEMMA CountsRestore ==
  ASSUME Inv, CountsMatch, Restore
  PROVE  CountsMatch'
<1>. DEFINE f == stack[Len(stack)]
<1>1. inp' = inp
  BY DEF Restore
<1>2. ASSUME NEW c \in Nops(inp)
      PROVE  nconn'[c] = Cardinality(OpsOf(inp, c)) - Cardinality(live' \cap OpsOf(inp, c))
  <2>1. nconn[c] = Cardinality(OpsOf(inp, c)) - Cardinality(live \cap OpsOf(inp, c))
    BY DEF CountsMatch
  <2>2. Cardinality(OpsOf(inp, c)) \in Nat
    BY CountsAreNat DEF Inv
  <2>3. Bump(c, f.left, f.right) \in Int
    BY DEF Bump
  <2>. HIDE DEF f
  <2>4. /\ nconn'[c] = nconn[c] - Bump(c, f.left, f.right)
        /\ Cardinality(live' \cap OpsOf(inp, c)) \in Nat
        /\ Cardinality(live \cap OpsOf(inp, c))
              = Cardinality(live' \cap OpsOf(inp, c)) - Bump(c, f.left, f.right)
    BY RestoreCounts DEF f
  <2>. QED
    BY <2>1, <2>2, <2>3, <2>4
<1>. QED
  BY <1>1, <1>2 DEF CountsMatch

LEMMA PartitionsContract ==
  ASSUME Inv, CountsMatch, PartitionsMatch, Contract
  PROVE  PartitionsMatch'
<1>. DEFINE a == inp.nop[right]
            b == inp.nop[left]
<1>1. inp' = inp
  BY DEF Contract
<1>2. parts' = [p \in DOMAIN parts |->
                  parts[p] \ {c \in {a, b} : inp.partition[c] = p /\ nconn[c] = 0}]
  BY DEF Contract, Connect
<1>3. \A c \in Nops(inp) : /\ nconn'[c] = nconn[c] + Bump(c, left, right)
                           /\ nconn[c] \in Nat
  BY ContractCounts, CountsAreNat DEF Inv
<1>4. \A c \in Nops(inp) : nconn'[c] = 0 <=> nconn[c] = 0 /\ c \notin {a, b}
  BY <1>3 DEF Bump
<1>5. ASSUME NEW p \in DOMAIN parts
      PROVE  parts'[p] = {c \in Nops(inp) : inp.partition[c] = p /\ nconn'[c] = 0}
  <2>1. parts[p] = {c \in Nops(inp) : inp.partition[c] = p /\ nconn[c] = 0}
    BY DEF PartitionsMatch
  <2>2. parts'[p] = parts[p] \ {c \in {a, b} : inp.partition[c] = p /\ nconn[c] = 0}
    BY <1>2
  <2>. HIDE DEF a, b
  <2>. QED
    BY <1>4, <2>1, <2>2
<1>. QED
  BY <1>1, <1>2, <1>5 DEF PartitionsMatch

LEMMA PartitionsRestore ==
  ASSUME Inv, CountsMatch, PartitionsMatch, Restore
  PROVE  PartitionsMatch'
<1>. DEFINE f == stack[Len(stack)]
            a == inp.nop[f.right]
            b == inp.nop[f.left]
<1>1. inp' = inp
  BY DEF Restore
<1>2. parts' = [p \in DOMAIN parts |->
                  parts[p] \cup {c \in {a, b} : inp.partition[c] = p /\ nconn[c] - 1 = 0}]
  BY DEF Restore, Disconnect
<1>3. a \in Nops(inp) /\ b \in Nops(inp)
  BY RestoreStep
<1>4. ASSUME NEW c \in Nops(inp)
      PROVE  nconn'[c] = 0 <=> nconn[c] = 0 \/ (c \in {a, b} /\ nconn[c] - 1 = 0)
  <2>1. nconn'[c] = nconn[c] - Bump(c, f.left, f.right)
    <3>. HIDE DEF f
    <3>. QED
      BY RestoreCounts DEF f
  <2>2. nconn[c] \in Nat /\ nconn'[c] \in Nat
    <3>1. TypeOK' /\ CountsMatch'
      BY TypeStep, CountsRestore DEF Inv, Next
    <3>2. /\ nconn'[c] = Cardinality(OpsOf(inp, c)) - Cardinality(live' \cap OpsOf(inp, c))
          /\ IsInput(inp) /\ live' \in SUBSET AllOps(inp)
      BY <1>1, <3>1 DEF CountsMatch, TypeOK
    <3>3. /\ IsFiniteSet(OpsOf(inp, c))
          /\ live' \cap OpsOf(inp, c) \in SUBSET OpsOf(inp, c)
      BY <3>2, InputFacts, FS_Subset DEF OpsOf
    <3>4. /\ Cardinality(OpsOf(inp, c)) \in Nat
          /\ Cardinality(live' \cap OpsOf(inp, c)) \in Nat
          /\ Cardinality(live' \cap OpsOf(inp, c)) <= Cardinality(OpsOf(inp, c))
      BY <3>3, FS_Subset, FS_CardinalityType
    <3>5. nconn'[c] \in Nat
      BY <3>2, <3>4
    <3>6. nconn[c] \in Nat
      BY CountsAreNat DEF Inv
    <3>. QED
      BY <3>5, <3>6
  <2>. QED
    BY <2>1, <2>2 DEF Bump
<1>5. ASSUME NEW p \in DOMAIN parts
      PROVE  parts'[p] = {c \in Nops(inp) : inp.partition[c] = p /\ nconn'[c] = 0}
  <2>1. parts[p] = {c \in Nops(inp) : inp.partition[c] = p /\ nconn[c] = 0}
    BY DEF PartitionsMatch
  <2>2. parts'[p] = parts[p] \cup {c \in {a, b} : inp.partition[c] = p /\ nconn[c] - 1 = 0}
    BY <1>2
  <2>. HIDE DEF a, b
  <2>. QED
    BY <1>3, <1>4, <2>1, <2>2
<1>. QED
  BY <1>1, <1>2, <1>5 DEF PartitionsMatch

LEMMA ConnectionsContract ==
  ASSUME Inv, ConnectionsMatch, Contract
  PROVE  ConnectionsMatch'
<1>. DEFINE a == inp.nop[right]
            b == inp.nop[left]
<1>1. inp' = inp
  BY DEF Contract
<1>2. /\ left \in AllOps(inp) /\ right \in AllOps(inp)
      /\ <<left, right>> \notin sp.pairs
      /\ sp'.pairs = sp.pairs \cup {<<left, right>>}
      /\ a \in Nops(inp) /\ b \in Nops(inp) /\ a # b
      /\ IsInput(inp) /\ sp.pairs \in SUBSET Pairs
      /\ conn \in [Nops(inp) -> SUBSET Nops(inp)]
      /\ adj \in [NopPairs(inp) -> Int]
  BY ContractStep DEF Inv, TypeOK, OpsIn, Product
<1>3. ASSUME Constrained, NEW x \in Nops(inp), NEW y \in Nops(inp), x # y
      PROVE  /\ adj'[{x, y}] = Cardinality(Between(sp'.pairs, x, y))
             /\ y \in conn'[x] <=> Between(sp'.pairs, x, y) # {}
  <2>. DEFINE P == sp.pairs
              Q == sp'.pairs
              B == Between(P, x, y)
              C == Between(Q, x, y)
  <2>1. /\ {x, y} = {b, a} => Cardinality(C) = Cardinality(B) + 1 /\ C # {}
        /\ {x, y} # {b, a} => C = B
    <3>. DEFINE p == <<left, right>>
    <3>1. /\ P \in SUBSET Pairs /\ p \notin P /\ Q = P \cup {p}
          /\ IsInput(inp)
      BY <1>2
    <3>2. Joins(p, x, y) <=> {x, y} = {b, a}
      BY DEF Joins
    <3>. HIDE DEF P, Q, p, a, b
    <3>3. /\ Joins(p, x, y) => Cardinality(C) = Cardinality(B) + 1 /\ C # {}
          /\ ~Joins(p, x, y) => C = B
      BY <3>1, BetweenAdd
    <3>. QED
      BY <3>2, <3>3
  <2>2. adj[{x, y}] = Cardinality(B) /\ (y \in conn[x] <=> B # {})
    BY <1>3 DEF ConnectionsMatch
  <2>3. adj' = [adj EXCEPT ![{a, b}] = @ + 1] /\ conn' = Joined(a, b)
    BY <1>3 DEF Contract, Connect
  <2>4. {x, y} \in NopPairs(inp)
    BY <1>3 DEF NopPairs
  <2>. HIDE DEF B, C, P, Q, a, b
  <2>5. adj'[{x, y}] = IF {x, y} = {a, b} THEN adj[{x, y}] + 1 ELSE adj[{x, y}]
    BY <1>2, <2>3, <2>4
  <2>6. adj'[{x, y}] = Cardinality(C)
    BY <2>1, <2>2, <2>5
  <2>7. y \in conn'[x] <=> y \in conn[x] \/ {x, y} = {a, b}
    BY <1>2, <1>3, <2>3 DEF Joined
  <2>8. y \in conn'[x] <=> C # {}
    BY <2>1, <2>2, <2>7
  <2>. QED
    BY <2>6, <2>8 DEF C, Q
<1>. HIDE DEF a, b
<1>4. \A x, y : Between(sp.pairs, x, y)' = Between(sp'.pairs, x, y)
  BY <1>1 DEF Between
<1>5. Constrained' => Constrained
  BY <1>1 DEF Constrained
<1>. QED
  BY <1>1, <1>3, <1>4, <1>5 DEF ConnectionsMatch

LEMMA ConnectionsRestore ==
  ASSUME Inv, ConnectionsMatch, Restore
  PROVE  ConnectionsMatch'
<1>. DEFINE f == stack[Len(stack)]
            l == f.left
            r == f.right
            a == inp.nop[r]
            b == inp.nop[l]
<1>1. inp' = inp
  BY DEF Restore
<1>2. /\ l \in AllOps(inp) /\ r \in AllOps(inp)
      /\ <<l, r>> \notin sp'.pairs
      /\ sp.pairs = sp'.pairs \cup {<<l, r>>}
      /\ a \in Nops(inp) /\ b \in Nops(inp) /\ a # b
  BY RestoreStep
<1>3. /\ IsInput(inp) /\ sp.pairs \in SUBSET Pairs
      /\ sp'.pairs \in SUBSET Pairs
      /\ conn \in [Nops(inp) -> SUBSET Nops(inp)]
      /\ adj \in [NopPairs(inp) -> Int]
  BY <1>2 DEF Inv, TypeOK, Product
<1>4. ASSUME Constrained, NEW x \in Nops(inp), NEW y \in Nops(inp), x # y
      PROVE  /\ adj'[{x, y}] = Cardinality(Between(sp'.pairs, x, y))
             /\ y \in conn'[x] <=> Between(sp'.pairs, x, y) # {}
  <2>. DEFINE P == sp'.pairs
              Q == sp.pairs
              B == Between(P, x, y)
              C == Between(Q, x, y)
  <2>1. /\ adj' = [adj EXCEPT ![{a, b}] = @ - 1]
        /\ conn' = IF adj[{a, b}] - 1 = 0
                   THEN [conn EXCEPT ![a] = @ \ {b}, ![b] = @ \ {a}]
                   ELSE conn
    BY <1>4 DEF Restore, Disconnect
  <2>2. adj[{x, y}] = Cardinality(C) /\ (y \in conn[x] <=> C # {})
    BY <1>4 DEF ConnectionsMatch
  <2>3. {x, y} \in NopPairs(inp)
    BY <1>4 DEF NopPairs
  <2>. HIDE DEF P, Q, l, r
  <2>4. /\ P \in SUBSET Pairs /\ <<l, r>> \notin P /\ Q = P \cup {<<l, r>>}
        /\ IsInput(inp) /\ l \in AllOps(inp) /\ r \in AllOps(inp)
    BY <1>2, <1>3 DEF P, Q
  <2>5. /\ Cardinality(B) \in Nat /\ (Cardinality(B) = 0 <=> B = {})
        /\ {x, y} = {b, a} => Cardinality(C) = Cardinality(B) + 1 /\ C # {}
        /\ {x, y} # {b, a} => C = B
    <3>. DEFINE p == <<l, r>>
    <3>1. /\ P \in SUBSET Pairs /\ p \notin P /\ Q = P \cup {p}
          /\ IsInput(inp)
      BY <2>4
    <3>2. Joins(p, x, y) <=> {x, y} = {b, a}
      BY DEF Joins
    <3>. HIDE DEF p, a, b
    <3>3. /\ Joins(p, x, y) => Cardinality(C) = Cardinality(B) + 1 /\ C # {}
          /\ ~Joins(p, x, y) => C = B
      BY <3>1, BetweenAdd
    <3>4. Cardinality(B) \in Nat /\ (Cardinality(B) = 0 <=> B = {})
      BY <3>1, BetweenFinite
    <3>. QED
      BY <3>2, <3>3, <3>4
  <2>. DEFINE t == {x, y}
              u == {a, b}
  <2>. HIDE DEF B, C
  <2>a. u = {b, a}
    OBVIOUS
  <2>b. /\ adj[t] = Cardinality(C)
        /\ Cardinality(B) \in Nat /\ (Cardinality(B) = 0 <=> B = {})
        /\ t = u => Cardinality(C) = Cardinality(B) + 1 /\ C # {}
        /\ t # u => C = B
    BY <2>2, <2>5, <2>a
  <2>. HIDE DEF a, b
  <2>6. adj'[{x, y}] = IF {x, y} = {a, b} THEN adj[{x, y}] - 1 ELSE adj[{x, y}]
    BY <1>3, <2>1, <2>3
  <2>7. adj'[{x, y}] = Cardinality(B)
    <3>1. adj'[t] = IF t = u THEN adj[t] - 1 ELSE adj[t]
      BY <2>6
    <3>. HIDE DEF t, u
    <3>2. adj'[t] = Cardinality(B)
      BY <2>b, <3>1
    <3>. QED
      BY <3>2 DEF t
  <2>8. y \in conn'[x] <=> B # {}
    <3>1. CASE t = u /\ B = {}
      <4>1. adj[u] - 1 = 0
        <5>. HIDE DEF t, u
        <5>. QED
          BY <2>b, <3>1
      <4>2. conn' = [conn EXCEPT ![a] = @ \ {b}, ![b] = @ \ {a}]
        BY <2>1, <4>1
      <4>3. y \notin conn'[x]
        BY <1>2, <1>3, <1>4, <3>1, <4>2
      <4>. QED
        BY <3>1, <4>3
    <3>2. CASE t = u /\ B # {}
      <4>1. adj[u] - 1 # 0
        <5>. HIDE DEF t, u
        <5>. QED
          BY <2>b, <3>2
      <4>2. conn' = conn
        BY <2>1, <4>1
      <4>. QED
        BY <2>2, <2>b, <3>2, <4>2
    <3>3. CASE t # u
      <4>1. y \in conn'[x] <=> y \in conn[x]
        BY <1>2, <1>3, <1>4, <2>1, <3>3
      <4>. QED
        BY <2>2, <2>b, <3>3, <4>1
    <3>. QED
      BY <3>1, <3>2, <3>3
  <2>. QED
    BY <2>7, <2>8 DEF B, P
<1>5. Constrained' => Constrained
  BY <1>1 DEF Constrained
<1>. HIDE DEF f, l, r, a, b
<1>6. \A x, y : Between(sp.pairs, x, y)' = Between(sp'.pairs, x, y)
  BY <1>1 DEF Between
<1>. QED
  BY <1>1, <1>4, <1>5, <1>6 DEF ConnectionsMatch

LEMMA BooksInit == Init => Books
<1>. SUFFICES ASSUME Init PROVE Books
  OBVIOUS
<1>1. IsInput(inp)
  BY TypeInit DEF TypeOK
<1>2. CountsMatch
  <2>. SUFFICES ASSUME NEW c \in Nops(inp)
                PROVE  nconn[c] = Cardinality(OpsOf(inp, c)) - Cardinality(live \cap OpsOf(inp, c))
    BY DEF CountsMatch
  <2>1. nconn[c] = 0 /\ live \cap OpsOf(inp, c) = OpsOf(inp, c)
    BY DEF Init, OpsOf
  <2>2. Cardinality(OpsOf(inp, c)) \in Nat
    BY <1>1, InputFacts, FS_Subset, FS_CardinalityType DEF OpsOf
  <2>3. Cardinality(live \cap OpsOf(inp, c)) = Cardinality(OpsOf(inp, c))
    BY <2>1
  <2>. QED
    BY <2>1, <2>2, <2>3
<1>3. PartitionsMatch
  BY DEF Init, PartitionsMatch
<1>4. ConnectionsMatch
  <2>. SUFFICES ASSUME NEW x \in Nops(inp), NEW y \in Nops(inp), x # y
                PROVE  /\ adj[{x, y}] = Cardinality(Between(sp.pairs, x, y))
                       /\ y \in conn[x] <=> Between(sp.pairs, x, y) # {}
    BY DEF ConnectionsMatch
  <2>1. Between(sp.pairs, x, y) = {}
    BY DEF Init, Between
  <2>2. {x, y} \in NopPairs(inp)
    BY DEF NopPairs
  <2>3. adj[{x, y}] = 0 /\ conn[x] = {}
    BY <2>2 DEF Init
  <2>. QED
    BY <2>1, <2>3, FS_EmptySet
<1>. QED
  BY <1>2, <1>3, <1>4 DEF Books

LEMMA BooksStep == Inv /\ Books /\ [Next]_vars => Books'
<1>. SUFFICES ASSUME Inv, Books, [Next]_vars
              PROVE  Books'
  OBVIOUS
<1>. USE DEF state, output, cursor
<1>1. CASE Contract
  BY <1>1, CountsContract, PartitionsContract, ConnectionsContract DEF Books
<1>2. CASE Restore
  BY <1>2, CountsRestore, PartitionsRestore, ConnectionsRestore DEF Books
<1>3. CASE UNCHANGED <<inp, state>>
  <2>1. UNCHANGED <<inp, live, sp, conn, adj, nconn, parts>>
    BY <1>3
  <2>2. CountsMatch'
    BY <2>1 DEF Books, CountsMatch
  <2>3. PartitionsMatch'
    BY <2>1 DEF Books, PartitionsMatch
  <2>4. ConnectionsMatch'
    <3>1. \A x, y : Between(sp.pairs, x, y)' = Between(sp.pairs, x, y)
      BY <2>1 DEF Between
    <3>2. Constrained' => Constrained
      BY <2>1 DEF Constrained
    <3>. QED
      BY <2>1, <3>1, <3>2 DEF Books, ConnectionsMatch
  <2>. QED
    BY <2>2, <2>3, <2>4 DEF Books
<1>. QED
  BY <1>1, <1>2, <1>3
  DEF Next, vars, ReturnEarly, NoLeftOp, Enter, Skip, Refuse, AdvanceLeft,
      Return, Finish, Done

LEMMA BooksCorrect == Spec => [](Inv /\ Books)
<1>1. Inv /\ Books /\ [Next]_vars => (Inv /\ Books)'
  BY InvStep, BooksStep
<1>. QED
  BY <1>1, InvInit, BooksInit, PTL DEF Spec

\* The counters and bit sets that connect() and disconnect() update are at all
\* times those of the contractions in the prefactor, for every set of inputs:
\* no assertion of update_topology fails and no counter of type size_t wraps.
THEOREM BookkeepingCorrect == Spec => []Bookkeeping
<1>1. Inv /\ Books => Bookkeeping
  BY DEF Inv, Books, Bookkeeping, CountsMatch, PartitionsMatch, ConnectionsMatch
<1>. QED
  BY <1>1, BooksCorrect, PTL

-----------------------------------------------------------------------------
(***************************************************************************)
(* Connectability, as a property of a set of contractions: it then also    *)
(* holds of the prefactors the suspended calls will come back to.          *)
(***************************************************************************)
\* the free ops of nop c, given the contractions P
Free(P, c) == (AllOps(inp) \ OpsIn(P)) \cap OpsOf(inp, c)

\* the nops that nop c must still be connected to, given the contractions P
Missing(P, c) == {d \in Nops(inp) : {c, d} \in inp.target /\ Between(P, c, d) = {}}

Reachable(P) ==
  Constrained =>
    \A c \in Nops(inp) :
      Cardinality(Free(P, c)) # Cardinality(OpsOf(inp, c)) =>
        Cardinality(Missing(P, c)) <= Cardinality(Free(P, c))

ReachInv ==
  /\ Reachable(sp.pairs)
  /\ \A k \in 1..Len(stack) : Reachable(stack[k].sp.pairs)

\* the bits of connected nops say what is missing
LEMMA MissingIsNeeds ==
  ASSUME IsInput(inp), NEW P, NEW K, NEW c \in Nops(inp),
         \A y \in Nops(inp) : c # y => (y \in K[c] <=> Between(P, c, y) # {})
  PROVE  Missing(P, c) = Needs(c, K)
<1>1. \A t \in inp.target : \E a, b \in 1..inp.nops : a # b /\ t = {a, b}
  BY DEF IsInput
<1>2. \A d \in Nops(inp) : {c, d} \in inp.target => c # d
  BY <1>1
<1>. QED
  BY <1>2 DEF Missing, Needs

LEMMA ReachableSame ==
  ASSUME inp' = inp, NEW P, Reachable(P)
  PROVE  Reachable(P)'
<1>1. \A x, y : Between(P, x, y)' = Between(P, x, y)
  BY DEF Between
<1>2. \A c : Missing(P, c)' = Missing(P, c)
  BY <1>1 DEF Missing
<1>3. \A c : Free(P, c)' = Free(P, c)
  BY DEF Free, OpsIn
<1>4. Constrained' = Constrained
  BY DEF Constrained
<1>. QED
  BY <1>2, <1>3, <1>4 DEF Reachable

LEMMA ReachContract ==
  ASSUME Inv, Books, Reachable(sp.pairs), Contract
  PROVE  Reachable(sp'.pairs)
<1>. DEFINE P == sp.pairs
            Q == sp'.pairs
            a == inp.nop[right]
            b == inp.nop[left]
<1>1. inp' = inp
  BY DEF Contract
<1>2. /\ IsInput(inp)
      /\ live = AllOps(inp) \ OpsIn(P)
      /\ live' = AllOps(inp) \ OpsIn(Q)
      /\ a \in Nops(inp) /\ b \in Nops(inp)
      /\ conn \in [Nops(inp) -> SUBSET Nops(inp)]
  BY ContractStep DEF Inv, TypeOK, StringMatchesPrefactor
<1>3. \A x, y : Between(sp.pairs, x, y)' = Between(Q, x, y)
  BY <1>1 DEF Between
<1>4. ASSUME Constrained, NEW c \in Nops(inp)
      PROVE  /\ Missing(P, c) = Needs(c, conn)
             /\ Missing(Q, c) = Needs(c, conn')
  <2>1. ConnectionsMatch /\ ConnectionsMatch'
    BY ConnectionsContract DEF Books
  <2>2. Constrained'
    BY <1>1, <1>4 DEF Constrained
  <2>3. \A y \in Nops(inp) : c # y => (y \in conn[c] <=> Between(P, c, y) # {})
    BY <1>4, <2>1 DEF ConnectionsMatch
  <2>4. \A y \in Nops(inp) : c # y => (y \in conn'[c] <=> Between(Q, c, y) # {})
    <3>. SUFFICES ASSUME NEW y \in Nops(inp), c # y
                  PROVE  y \in conn'[c] <=> Between(Q, c, y) # {}
      OBVIOUS
    <3>. HIDE DEF a, b, P, Q
    <3>1. y \in conn'[c] <=> Between(sp.pairs, c, y)' # {}
      BY <1>1, <1>4, <2>1, <2>2 DEF ConnectionsMatch
    <3>2. Between(sp.pairs, c, y)' = Between(Q, c, y)
      BY <1>3
    <3>. QED
      BY <3>1, <3>2
  <2>5. Missing(P, c) = Needs(c, conn)
    BY <1>2, <2>3, MissingIsNeeds
  <2>. DEFINE K == conn'
  <2>. HIDE DEF Q, K
  <2>6. Missing(Q, c) = Needs(c, K)
    <3>1. \A y \in Nops(inp) : c # y => (y \in K[c] <=> Between(Q, c, y) # {})
      BY <2>4 DEF K
    <3>. QED
      BY <1>2, <3>1, MissingIsNeeds
  <2>. QED
    BY <2>5, <2>6 DEF K
<1>5. ASSUME Constrained, NEW c \in Nops(inp),
             Cardinality(Free(Q, c)) # Cardinality(OpsOf(inp, c))
      PROVE  Cardinality(Missing(Q, c)) <= Cardinality(Free(Q, c))
  <2>. DEFINE m == Cardinality(live \cap OpsOf(inp, c))
              n == Cardinality(live' \cap OpsOf(inp, c))
  <2>1. Free(P, c) = live \cap OpsOf(inp, c) /\ Free(Q, c) = live' \cap OpsOf(inp, c)
    BY <1>2 DEF Free
  <2>2. m \in Nat /\ n = m - Bump(c, left, right)
    BY ContractCounts
  <2>3. conn' = Joined(a, b) /\ Connectable(a, b)
    BY <1>5 DEF Contract, Connect
  <2>4. CASE c \in {a, b}
    <3>1. Cardinality(Needs(c, conn')) <= m - 1
      BY <1>5, <2>3, <2>4 DEF Connectable, Remain
    <3>2. n = m - 1
      BY <2>2, <2>4 DEF Bump
    <3>. QED
      BY <1>4, <1>5, <2>1, <3>1, <3>2
  <2>5. CASE c \notin {a, b}
    <3>1. n = m
      BY <2>2, <2>5 DEF Bump
    <3>2. conn'[c] = conn[c]
      BY <1>2, <2>3, <2>5 DEF Joined
    <3>3. Needs(c, conn') = Needs(c, conn)
      BY <3>2 DEF Needs
    <3>4. Missing(Q, c) = Missing(P, c)
      BY <1>4, <1>5, <3>3
    <3>5. Cardinality(Free(P, c)) = Cardinality(Free(Q, c))
      BY <2>1, <3>1
    <3>6. Cardinality(Missing(P, c)) <= Cardinality(Free(P, c))
      BY <1>5, <3>5 DEF Reachable
    <3>. QED
      BY <3>4, <3>5, <3>6
  <2>. QED
    BY <2>4, <2>5
<1>. QED
  BY <1>5 DEF Reachable

LEMMA ReachInit == Init => ReachInv
<1>. SUFFICES ASSUME Init PROVE ReachInv
  OBVIOUS
<1>1. sp.pairs = {} /\ Len(stack) = 0
  BY EmptySeq DEF Init
<1>2. \A c \in Nops(inp) : Free({}, c) = OpsOf(inp, c)
  BY OpsInEmpty DEF Free, OpsOf
<1>. QED
  BY <1>1, <1>2 DEF ReachInv, Reachable

LEMMA ReachStep == Inv /\ Books /\ ReachInv /\ [Next]_vars => ReachInv'
<1>. SUFFICES ASSUME Inv, Books, ReachInv, [Next]_vars
              PROVE  ReachInv'
  OBVIOUS
<1>. USE DEF state, output, cursor
<1>0. stack \in Seq(Frame) /\ Len(stack) \in Nat
  BY LenProperties DEF Inv, TypeOK
<1>1. CASE Contract
  <2>. DEFINE g == [left |-> left, leftOffset |-> leftOffset,
                    right |-> right, sp |-> sp, useful |-> useful']
  <2>1. stack' = Append(stack, g) /\ inp' = inp
    BY <1>1 DEF Contract
  <2>2. g \in Frame
    BY <1>1, TypeStep, ContractStep DEF Inv, TypeOK, Frame
  <2>3. /\ Len(stack') = Len(stack) + 1
        /\ \A k \in 1..Len(stack) : stack'[k] = stack[k]
        /\ stack'[Len(stack) + 1] = g
    BY <1>0, <2>1, <2>2, AppendProperties
  <2>4. Reachable(sp'.pairs)
    BY <1>1, ReachContract DEF ReachInv
  <2>5. ASSUME NEW k \in 1..Len(stack')
        PROVE  Reachable(stack'[k].sp.pairs)
    <3>1. CASE k = Len(stack) + 1
      BY <2>3, <3>1 DEF ReachInv
    <3>2. CASE k # Len(stack) + 1
      <4>1. k \in 1..Len(stack) /\ stack'[k] = stack[k]
        BY <1>0, <2>3, <3>2
      <4>. QED
        BY <4>1 DEF ReachInv
    <3>. QED
      BY <3>1, <3>2
  <2>. QED
    BY <2>1, <2>4, <2>5, ReachableSame DEF ReachInv
<1>2. CASE Restore
  <2>1. Len(stack) \in 1..Len(stack) /\ sp' = stack[Len(stack)].sp /\ inp' = inp
    BY <1>2, RestoreStep DEF Restore
  <2>2. stack' = SubSeq(stack, 1, Len(stack) - 1)
    BY <1>2 DEF Restore
  <2>3. /\ Len(stack') = Len(stack) - 1
        /\ \A k \in 1..(Len(stack) - 1) : stack'[k] = stack[k]
    <3>1. Len(stack) >= 1
      BY <1>0, <2>1
    <3>. QED
      BY <1>0, <2>2, <3>1, PopProperties, Zenon
  <2>4. Reachable(sp'.pairs)
    BY <2>1 DEF ReachInv
  <2>5. ASSUME NEW k \in 1..Len(stack')
        PROVE  Reachable(stack'[k].sp.pairs)
    <3>1. k \in 1..Len(stack) /\ stack'[k] = stack[k]
      BY <1>0, <2>3
    <3>. QED
      BY <3>1 DEF ReachInv
  <2>. QED
    BY <2>1, <2>4, <2>5, ReachableSame DEF ReachInv
<1>3. CASE UNCHANGED <<inp, sp, stack>>
  BY <1>3, ReachableSame DEF ReachInv
<1>. QED
  BY <1>1, <1>2, <1>3
  DEF Next, vars, ReturnEarly, NoLeftOp, Enter, Skip, Refuse, AdvanceLeft,
      Return, Finish, Done

LEMMA ReachCorrect == Spec => [](Inv /\ Books /\ ReachInv)
<1>1. Inv /\ Books /\ ReachInv /\ [Next]_vars => (Inv /\ Books /\ ReachInv)'
  BY InvStep, BooksStep, ReachStep
<1>. QED
  BY <1>1, InvInit, BooksInit, ReachInit, PTL DEF Spec

\* A nop that takes part in a contraction keeps enough free ops to reach every
\* nop it must still be connected to, for every set of inputs: what connect()
\* refuses is enough for the search never to enter a branch in which
\* set_op_connections cannot be honoured.
THEOREM ConnectabilityCorrect == Spec => []Connectability
<1>1. Inv /\ Books /\ ReachInv => Connectability
  <2>. SUFFICES ASSUME Inv, Books, ReachInv, NEW c \in Nops(inp), nconn[c] > 0
                PROVE  Cardinality(Needs(c, conn)) <= Cardinality(live \cap OpsOf(inp, c))
    BY DEF Connectability
  <2>1. IsInput(inp) /\ live = AllOps(inp) \ OpsIn(sp.pairs)
    BY DEF Inv, TypeOK, StringMatchesPrefactor
  <2>2. Free(sp.pairs, c) = live \cap OpsOf(inp, c)
    BY <2>1 DEF Free
  <2>3. CASE ~Constrained
    <3>1. Needs(c, conn) = {}
      BY <2>3 DEF Constrained, Needs
    <3>2. Cardinality(live \cap OpsOf(inp, c)) \in Nat
      BY CountsAreNat DEF Inv, Books
    <3>. QED
      BY <3>1, <3>2, FS_EmptySet
  <2>4. CASE Constrained
    <3>1. \A y \in Nops(inp) : c # y => (y \in conn[c] <=> Between(sp.pairs, c, y) # {})
      BY <2>4 DEF Books, ConnectionsMatch
    <3>2. Missing(sp.pairs, c) = Needs(c, conn)
      BY <2>1, <3>1, MissingIsNeeds
    <3>3. Cardinality(live \cap OpsOf(inp, c)) # Cardinality(OpsOf(inp, c))
      <4>1. nconn[c] = Cardinality(OpsOf(inp, c)) - Cardinality(live \cap OpsOf(inp, c))
        BY DEF Books, CountsMatch
      <4>2. Cardinality(OpsOf(inp, c)) \in Nat
        BY CountsAreNat DEF Inv, Books
      <4>. QED
        BY <4>1, <4>2
    <3>. QED
      BY <2>2, <2>4, <3>2, <3>3 DEF ReachInv, Reachable
  <2>. QED
    BY <2>3, <2>4
<1>. QED
  BY <1>1, ReachCorrect, PTL

-----------------------------------------------------------------------------
(***************************************************************************)
(* The terms of a full contraction.  When the last two ops are contracted  *)
(* every nop has lost an op and has none left, so nothing can be missing.  *)
(***************************************************************************)
Connected(P) ==
  \A a, b \in Nops(inp) : a # b /\ {a, b} \in inp.target => Between(P, a, b) # {}

LEMMA NothingMissing ==
  ASSUME IsInput(inp), NEW P, Reachable(P), AllOps(inp) \ OpsIn(P) = {}
  PROVE  Connected(P)
<1>. SUFFICES ASSUME NEW a \in Nops(inp), NEW b \in Nops(inp), {a, b} \in inp.target
              PROVE  Between(P, a, b) # {}
  BY DEF Connected
<1>1. Constrained
  BY DEF Constrained
<1>2. Free(P, a) = {}
  BY DEF Free
<1>3. OpsOf(inp, a) # {}
  BY DEF IsInput, Nops, OpsOf, AllOps
<1>4. IsFiniteSet(OpsOf(inp, a)) /\ IsFiniteSet(Missing(P, a))
  <2>1. IsFiniteSet(OpsOf(inp, a))
    BY InputFacts, FS_Subset DEF OpsOf
  <2>2. inp.nops \in Nat
    BY DEF IsInput
  <2>3. IsFiniteSet(Nops(inp))
    BY <2>2, FS_Interval DEF Nops
  <2>. QED
    BY <2>1, <2>3, FS_Subset DEF Missing
<1>5. /\ Cardinality(Free(P, a)) = 0
      /\ Cardinality(OpsOf(inp, a)) # 0
      /\ Cardinality(Missing(P, a)) \in Nat
      /\ Cardinality(Missing(P, a)) = 0 <=> Missing(P, a) = {}
  BY <1>2, <1>3, <1>4, FS_EmptySet, FS_CardinalityType
<1>6. Cardinality(Missing(P, a)) <= Cardinality(Free(P, a))
  BY <1>1, <1>5 DEF Reachable
<1>7. Missing(P, a) = {}
  BY <1>5, <1>6
<1>. QED
  BY <1>7 DEF Missing

ConnectedInv == inp.full => \A i \in DOMAIN result : Connected(result[i].pairs)

LEMMA ConnectedSame ==
  ASSUME inp' = inp, NEW P, Connected(P)
  PROVE  Connected(P)'
<1>1. \A x, y : Between(P, x, y)' = Between(P, x, y)
  BY DEF Between
<1>. QED
  BY <1>1 DEF Connected

LEMMA ConnectedTermsStep ==
  Inv /\ Books /\ ReachInv /\ ConnectedInv /\ [Next]_vars => ConnectedInv'
<1>. SUFFICES ASSUME Inv, Books, ReachInv, ConnectedInv, [Next]_vars
              PROVE  ConnectedInv'
  OBVIOUS
<1>. USE DEF state, output, cursor
<1>1. CASE Contract /\ inp.full /\ result' # result
  <2>1. inp' = inp /\ live' = {} /\ result' = Append(result, Term(sp', live'))
    BY <1>1 DEF Contract
  <2>2. Connected(sp'.pairs)
    <3>1. IsInput(inp) /\ Reachable(sp'.pairs) /\ AllOps(inp) \ OpsIn(sp'.pairs) = {}
      BY <1>1, <2>1, ContractStep, ReachContract DEF Inv, TypeOK, ReachInv
    <3>. DEFINE P == sp'.pairs
    <3>. HIDE DEF P
    <3>2. IsInput(inp) /\ Reachable(P) /\ AllOps(inp) \ OpsIn(P) = {}
      BY <3>1 DEF P
    <3>3. Connected(P)
      BY <3>2, NothingMissing
    <3>. QED
      BY <3>3 DEF P
  <2>3. /\ DOMAIN result' = 1..(Len(result) + 1) /\ DOMAIN result = 1..Len(result)
        /\ Len(result) \in Nat
        /\ \A i \in 1..Len(result) : result'[i] = result[i]
        /\ result'[Len(result) + 1] = Term(sp', live')
    BY <2>1 DEF Inv, TypeOK
  <2>4. ASSUME NEW i \in DOMAIN result'
        PROVE  Connected(result'[i].pairs)
    <3>1. CASE i = Len(result) + 1
      BY <2>2, <2>3, <3>1 DEF Term
    <3>2. CASE i # Len(result) + 1
      BY <1>1, <2>3, <3>2 DEF ConnectedInv
    <3>. QED
      BY <3>1, <3>2
  <2>. QED
    BY <2>1, <2>4, ConnectedSame DEF ConnectedInv
<1>2. CASE inp' = inp /\ (inp.full => result' = result)
  BY <1>2, ConnectedSame DEF ConnectedInv
<1>3. CASE Contract
  <2>1. inp' = inp
    BY <1>3 DEF Contract
  <2>. QED
    BY <1>1, <1>2, <1>3, <2>1
<1>4. CASE Finish
  BY <1>2, <1>4 DEF Finish
<1>. QED
  BY <1>2, <1>3, <1>4
  DEF Next, vars, ReturnEarly, NoLeftOp, Enter, Skip, Refuse, AdvanceLeft,
      Return, Restore, Done

\* Every term of a full contraction connects the nops that set_op_connections
\* was told to connect, for every set of inputs.
THEOREM TermsAreConnectedCorrect == Spec => []TermsAreConnected
<1>1. Init => ConnectedInv
  BY EmptySeq DEF Init, ConnectedInv
<1>2. ConnectedInv => TermsAreConnected
  BY DEF ConnectedInv, Connected, TermsAreConnected
<1>. QED
  BY <1>1, <1>2, ConnectedTermsStep, ReachCorrect, PTL DEF Spec
=============================================================================
