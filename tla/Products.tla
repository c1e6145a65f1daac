------------------------------ MODULE Products ------------------------------
(***************************************************************************)
(* A product of tensors that is reduced and canonicalized, fast or slow,   *)
(* any number of times, and written in another way in between: with its    *)
(* factors in another order, with other names of the summation indices, or *)
(* with indices of an antisymmetric tensor exchanged and the sign changed. *)
(***************************************************************************)
EXTENDS IndexReduction

CONSTANTS
  Start,    \* the products: scalar c, tensors t, external indices, and what
            \* "may" be done with it (a reduced product is canonicalized too)
  Numbers   \* the numbers of the labels that rewriting uses

ASSUME StartAssumption ==
  \A s \in Start :
    s.t \in Seq(Tensors(IndexSet)) /\ \A t \in ToSet(Overlaps(s.t)) : IsDelta(t)

ASSUME NumbersAssumption == Numbers \subseteq Nat

VARIABLES
  c, ts,     \* the scalar and the tensors
  external,  \* what set_external_indices was given
  may,
  pc,        \* "idle", or "reducing" in the loop of reduce_wick_impl
  last,      \* the last operation
  meaning,   \* what the product was at first
  form       \* the first canonical form it got

vars == <<c, ts, external, may, pc, last, meaning, form>>

-----------------------------------------------------------------------------
(***************************************************************************)
(* What a product means, whatever its overlaps and the names of its        *)
(* indices.  Overlaps make classes of indices that are equal, and range    *)
(* over the intersection of their spaces.  The value of the product is a   *)
(* sum over the classes without an external index; the others constrain    *)
(* the external indices.  Two products are equal if they can be written    *)
(* with the same terms in some naming of the classes, and a product that   *)
(* can be written with both signs is zero.                                 *)
(***************************************************************************)
Bound(class, deltas) ==
  LET bound[k \in 0..Cardinality(deltas)] ==
        IF k = 0 THEN class
        ELSE bound[k - 1] \cup UNION {d \in deltas : d \cap bound[k - 1] # {}}
  IN bound[Cardinality(deltas)]

Classes(tensors) ==
  LET deltas == {IndicesOf(t) : t \in ToSet(Overlaps(tensors))}
  IN {Bound({i}, deltas) : i \in AllIndices(tensors)}

SpaceOf(class) == {b \in {"occ", "unocc"} : \A i \in class : b \in i.space}

Letter(class, r) ==
  IF class \cap external = {} THEN <<0, SpaceRank(SpaceOf(class)), r[class]>>
  ELSE <<1>> \o Rank(CHOOSE i \in class \cap external :
                       \A j \in class \cap external : j = i \/ IndexLess(i, j))

\* a tensor written with letters, in an order that does not matter, and its sign
Inversions(w) == Cardinality({p \in (DOMAIN w) \X (DOMAIN w) :
                                p[1] < p[2] /\ LexLess(w[p[2]], w[p[1]])})

Written(t, W(_)) ==
  LET bra == [k \in DOMAIN t.bra |-> W(t.bra[k])]
      ket == [k \in DOMAIN t.ket |-> W(t.ket[k])]
  IN IF t.symm = "nonsymm"
     THEN [sign |-> 1,
           word |-> <<t.label, SortedBy([k \in DOMAIN bra |-> bra[k] \o ket[k]], LexLess)>>]
     ELSE [sign |-> IF IsInjective(bra) /\ IsInjective(ket)
                    THEN IF (Inversions(bra) + Inversions(ket)) % 2 = 0 THEN 1 ELSE -1
                    ELSE 0,
           word |-> <<t.label, SortedBy(bra, LexLess), SortedBy(ket, LexLess)>>]

Summed(classes) == {k \in classes : k \cap external = {}}

Constraints(classes) ==
  {<<k \cap external, SpaceOf(k)>> : k \in
     {m \in classes : \/ Cardinality(m \cap external) > 1
                      \/ \E i \in m \cap external : i.space # SpaceOf(m)}}

TermWith(sc, tensors, classes, r) ==
  LET W(i)    == Letter(CHOOSE k \in classes : i \in k, r)
      words   == [n \in DOMAIN tensors |-> Written(tensors[n], W)]
      Times(n) == Cardinality({m \in DOMAIN words : words[m].word = words[n].word})
  IN [sign  |-> FoldLeft(LAMBDA a, w : a * w.sign, sc, words),
      words |-> {<<words[n].word, Times(n)>> : n \in DOMAIN words}]

Meaning(sc, tensors) ==   \* no term if the product is zero
  LET classes == Classes(tensors)
      others  == SelectSeq(tensors, LAMBDA t : ~IsOverlap(t))
      terms   == {TermWith(sc, others, classes, r) :
                    r \in Rankings(Summed(classes), SpaceOf)}
      term    == CHOOSE t \in terms : TRUE
  IN IF sc = 0 \/ {} \in {SpaceOf(k) : k \in classes} \/ term.sign = 0
        \/ [term EXCEPT !.sign = -@] \in terms
     THEN {}
     ELSE {[term |-> term, where |-> Constraints(classes),
            sums |-> [s \in Spaces |-> Cardinality({k \in Summed(classes) :
                                                      SpaceOf(k) = s})]]}

-----------------------------------------------------------------------------
NoForm == [c |-> 0, t |-> <<>>]

Init ==
  /\ \E s \in Start : c = s.c /\ ts = s.t /\ external = s.external /\ may = s.may
  /\ pc = "idle" /\ last = "none" /\ form = NoForm
  /\ meaning = Meaning(c, ts)

\* the product is written in another way
Rewritten(how, sc, tensors) ==
  /\ pc = "idle" /\ how \in may
  /\ c' = sc /\ ts' = tensors /\ last' = "none"
  /\ UNCHANGED <<external, may, pc, meaning, form>>

Exchanged(seq, k) == [seq EXCEPT ![k] = seq[k + 1], ![k + 1] = seq[k]]

ReorderFactors ==
  \E k \in 1..Len(ts) - 1 : Rewritten("order", c, Exchanged(ts, k))

RenameIndices ==
  \E i \in AllIndices(ts) \ external, n \in Numbers :
    LET j == Index(i.space, n)
        rules == [k \in {i, j} |-> IF k = i THEN j ELSE i]
    IN /\ j \notin external
       /\ Rewritten("names", c, [k \in DOMAIN ts |-> TransformIndices(ts[k], rules)])

ExchangeIndices ==
  \E k \in DOMAIN ts :
    \/ /\ ts[k].symm = "antisymm" /\ Len(ts[k].bra) > 1
       /\ Rewritten("signs", -c, [ts EXCEPT ![k].bra = Exchanged(@, 1)])
    \/ /\ ts[k].symm = "antisymm" /\ Len(ts[k].ket) > 1
       /\ Rewritten("signs", -c, [ts EXCEPT ![k].ket = Exchanged(@, 1)])
    \/ /\ ts[k].symm = "nonsymm" /\ Particles(ts[k]) > 1
       /\ Rewritten("signs", c, [ts EXCEPT ![k].bra = Exchanged(@, 1),
                                           ![k].ket = Exchanged(@, 1)])

-----------------------------------------------------------------------------
(***************************************************************************)
(* The operations                                                          *)
(***************************************************************************)
Becomes(sc, tensors, operation) ==
  /\ c' = sc /\ ts' = tensors /\ last' = operation
  /\ UNCHANGED <<external, may, meaning>>

Canonicalize(forms, operation) ==
  /\ pc = "idle" /\ c # 0
  /\ "canonicalize" \in may \/ last = "reduced"
  /\ \E f \in forms : Becomes(c * f.c, f.t, operation)
  /\ UNCHANGED pc

CanonicalizeFast ==
  Canonicalize(FastForms(ts), "fast") /\ UNCHANGED form

CanonicalizeSlow ==
  /\ Canonicalize(SlowForms(ts), "slow")
  /\ form' = IF form = NoForm THEN [c |-> c', t |-> ts'] ELSE form

\* WickTheorem::reduce, which catches the exception that the product is zero
StartReduce ==
  /\ pc = "idle" /\ c # 0 /\ "reduce" \in may
  /\ pc' = "reducing"
  /\ UNCHANGED <<c, ts, external, may, last, meaning, form>>

\* a pass of its loop, and whether there is another one
Again(rules) == DOMAIN rules.map # {} /\ IsMutated(ts, rules.map, external)

Reduced(rules, after) ==
  \/ rules.zero /\ Becomes(0, <<>>, "reduced") /\ pc' = "idle"
  \/ ~rules.zero /\ ~Again(rules) /\ Becomes(c, after, "reduced") /\ pc' = "idle"
  \/ ~rules.zero /\ Again(rules) /\ Becomes(c, after, "none") /\ UNCHANGED pc

ReducePass ==
  /\ pc = "reducing"
  /\ \E rules \in {ComputeRules(ts, external)} :
       \E after \in {IF DOMAIN rules.map = {} THEN ts
                     ELSE ApplyRules(ts, rules.map, external)} :
         Reduced(rules, after)
  /\ UNCHANGED form

Rewrite == ReorderFactors \/ RenameIndices \/ ExchangeIndices

Next ==
  \/ Rewrite
  \/ CanonicalizeFast \/ CanonicalizeSlow
  \/ StartReduce \/ ReducePass

\* WF_vars(ReducePass): a pass is enabled while the loop runs, and only a pass
\* is then taken
Fairness == []<>(pc # "reducing") \/ []<><<pc = "reducing">>_vars

Spec == Init /\ [][Next]_vars /\ Fairness

-----------------------------------------------------------------------------
(***************************************************************************)
(* Properties                                                              *)
(***************************************************************************)
\* Reduction and canonicalization leave the value of the product as it is:
\* renaming captures no index, the sign of every exchange is kept, and a
\* delta is erased only if the indices it binds are replaced everywhere.
MeaningKept == Meaning(c, ts) = meaning

\* Two ways to write a product that is not zero have the same canonical form
\* in the slow approach, whatever the canonicalizations it went through.
OneForm == last = "slow" /\ meaning # {} => [c |-> c, t |-> ts] = form

\* After a reduction, whichever pass was its last, the deltas left bind an
\* external index with another index, which is no internal one of a space that
\* includes that of the external one; and the rules of another pass erase none.
IsNeededDelta(t) ==
  BraIndex(t) # KetIndex(t) /\ \E e \in IndicesOf(t) \cap external :
    \A i \in IndicesOf(t) \ external : ~(e.space \subseteq i.space)

StaysInAnotherPass(t) ==
  ~IsErased(TransformIndices(t, ComputeRules(ts, external).map), external)

NoNeedlessDelta ==
  last = "reduced" =>
    \A t \in ToSet(Overlaps(ts)) : IsNeededDelta(t) /\ StaysInAnotherPass(t)

\* A reduction ends.
ReductionEnds == pc = "reducing" ~> pc = "idle"
=============================================================================
