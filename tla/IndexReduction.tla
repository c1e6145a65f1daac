--------------------------- MODULE IndexReduction ---------------------------
(***************************************************************************)
(* Reduction of overlaps: in an orthonormal basis the overlap of two       *)
(* indices is a Kronecker delta, and a sum over one of them is done by     *)
(* replacing it.  A pass computes replacement rules from the overlaps of a *)
(* product, applies them to its tensors and erases the overlaps that are   *)
(* no longer needed.  Whether there is another pass depends on what became *)
(* of the factors, and on their order.                                     *)
(*                                                                         *)
(* The rules in the making are a record: the map of the rules, how many    *)
(* indices were made in each space, the labels in use, and whether the     *)
(* product was found to be zero.                                           *)
(***************************************************************************)
EXTENDS TensorNetwork

Overlap == "s"

IsOverlap(t)  == t.label = Overlap
BraIndex(t)   == t.bra[1]
KetIndex(t)   == t.ket[1]
Overlaps(ts)  == Kept(ts, {k \in DOMAIN ts : IsOverlap(ts[k])})

\* what is asserted of an overlap
IsDelta(t) ==
  /\ Len(t.bra) = 1 /\ Len(t.ket) = 1 /\ BraIndex(t) # KetIndex(t)
  /\ BraIndex(t).space \cap KetIndex(t).space # {}

NoRules(used) == [map  |-> <<>>, made |-> [s \in Spaces |-> 0],
                  used |-> used, zero |-> FALSE]

Include(includer, included) == included \subseteq includer

\* idxfac.make(space): the state after it, and the index
Count(st, space)  == [st EXCEPT !.made[space] = @ + 1]
NextTmp(st, space) == NthIndex(st.used, MinTmpIndex, space, st.made[space] + 1)

Put(st, src, dst) ==
  [st EXCEPT !.map = [i \in DOMAIN @ \cup {src} |-> IF i = src THEN dst ELSE @[i]]]
HasRule(st, src)  == src \in DOMAIN st.map
IsZero(st)        == [st EXCEPT !.zero = TRUE]

\* the rule for src maps to an index in the intersection of its image and dst
Narrow(st, src, dst) ==
  LET old   == st.map[src].space
      space == old \cap dst.space
  IN CASE old = dst.space -> st
       [] old # dst.space /\ space = {} -> IsZero(st)
       [] old # dst.space /\ space # {} ->
            Put(Count(st, space), src, NextTmp(st, space))

AddRule(st, src, dst) ==
  IF HasRule(st, src) THEN Narrow(st, src, dst) ELSE Put(st, src, dst)

Follow(st, src1, src2) == IF st.zero THEN st ELSE Put(st, src2, st.map[src1])

PutBoth(st, src1, src2, dst) == Put(Put(st, src1, dst), src2, dst)

\* both have rules: to the first of the images whose space is the common one
Unite(st, src1, src2, dst) ==
  LET images == {st.map[src1], st.map[src2], dst}
      space  == st.map[src1].space \cap st.map[src2].space \cap dst.space
      fit    == {i \in images : i.space = space}
      First  == CHOOSE i \in fit : \A j \in fit \ {i} : IndexLess(i, j)
  IN CASE space = {} -> IsZero(st)
       [] space # {} /\ fit # {} -> PutBoth(st, src1, src2, First)
       [] space # {} /\ fit = {} ->
            PutBoth(Count(st, space), src1, src2, NextTmp(st, space))

AddRules(st, src1, src2, dst) ==
  CASE HasRule(st, src1) /\ HasRule(st, src2)   -> Unite(st, src1, src2, dst)
    [] HasRule(st, src1) /\ ~HasRule(st, src2)  -> Follow(Narrow(st, src1, dst), src1, src2)
    [] ~HasRule(st, src1) /\ HasRule(st, src2)  -> Follow(Narrow(st, src2, dst), src2, src1)
    [] ~HasRule(st, src1) /\ ~HasRule(st, src2) -> PutBoth(st, src1, src2, dst)

\* an external index and an internal one
Bind(st, ext, int, common) ==
  IF Include(int.space, ext.space) THEN AddRule(st, int, ext)
  ELSE AddRule(Count(st, common), int, NextTmp(st, common))

AddOverlap(st, t, external) ==
  LET bra == BraIndex(t)
      ket == KetIndex(t)
      common == bra.space \cap ket.space
  IN CASE st.zero -> st
       [] ~st.zero /\ bra \notin external /\ ket \notin external ->
            AddRules(Count(st, common), bra, ket, NextTmp(st, common))
       [] ~st.zero /\ bra \in external /\ ket \notin external -> Bind(st, bra, ket, common)
       [] ~st.zero /\ bra \notin external /\ ket \in external -> Bind(st, ket, bra, common)
       [] ~st.zero /\ bra \in external /\ ket \in external -> st

ComputeRules(ts, external) ==
  LET overlaps == Overlaps(ts)
      rules[k \in 0..Len(overlaps)] ==
        IF k = 0 THEN NoRules(AllIndices(ts))
        ELSE AddOverlap(rules[k - 1], overlaps[k], external)
  IN rules[Len(overlaps)]

-----------------------------------------------------------------------------
(***************************************************************************)
(* apply_index_replacement_rules: every tensor is transformed once, and an *)
(* overlap is erased if it then binds internal indices, an external index  *)
(* with an internal one of a space that includes it, or an index with      *)
(* itself.  The flag that asks for another pass is raised by an overlap    *)
(* that is erased, and cleared by a factor without a replaced index: what  *)
(* counts are the factors after the last overlap erased.  (The loop inside *)
(* the function changes nothing the second time: its indices are tagged.)  *)
(***************************************************************************)
IsErasedUnlessExternal(t, external) ==   \* mutation: a delta of external indices is kept
  LET bra == BraIndex(t)
      ket == KetIndex(t)
  IN /\ IsOverlap(t)
     /\ \/ bra \notin external /\ ket \notin external
        \/ bra \in external /\ ket \notin external /\ Include(ket.space, bra.space)
        \/ bra \notin external /\ ket \in external /\ Include(bra.space, ket.space)

IsErased(t, external) ==
  LET bra == BraIndex(t)
      ket == KetIndex(t)
  IN /\ IsOverlap(t)
     /\ \/ bra \notin external /\ ket \notin external
        \/ bra \in external /\ ket \notin external /\ Include(ket.space, bra.space)
        \/ bra \notin external /\ ket \in external /\ Include(bra.space, ket.space)
        \/ bra \in external /\ ket \in external /\ bra = ket

ApplyRules(ts, rules, external) ==
  LET replaced == [k \in DOMAIN ts |-> TransformIndices(ts[k], rules)]
  IN Kept(replaced, {k \in DOMAIN ts : ~IsErased(replaced[k], external)})

\* whether Tensor::transform_indices finds an index to replace
IsReplaced(t, rules) == IndicesOf(t) \cap DOMAIN rules # {}

IsMutatedByNames(ts, rules, external) ==   \* mutation: pass_mutated |= transform_indices
  \E k \in DOMAIN ts :
    IsReplaced(ts[k], rules) \/ IsErased(TransformIndices(ts[k], rules), external)

IsMutated(ts, rules, external) ==
  \E k \in DOMAIN ts :
    /\ IsErased(TransformIndices(ts[k], rules), external)
    /\ \A l \in DOMAIN ts : l > k => IsReplaced(ts[l], rules)
=============================================================================
