--------------------------- MODULE ExprAlgorithms ---------------------------
(***************************************************************************)
(* expand, rapid_simplify, canonicalize and simplify, on the heap of       *)
(* ExprHeap.  The first two visit a tree from the leaves up and replace    *)
(* the pointers to its nodes; the third changes the nodes in place.        *)
(***************************************************************************)
EXTENDS ExprHeap

SetKid(x, r, i) == [x.h EXCEPT ![r].kids[i] = x.r]

-----------------------------------------------------------------------------
(***************************************************************************)
(* detail::expand_visitor.  Each step returns "done": whether it changed   *)
(* the expression.                                                         *)
(***************************************************************************)
Changed(x, done) == [h |-> x.h, r |-> x.r, done |-> done]
Same(h, r)       == [h |-> h, r |-> r, done |-> FALSE]

\* clones of all factors but the i-th, and the summand
ExpandedTermShared(h, r, i, summand) ==   \* mutation: the factors are not cloned
  MakeProduct(h, h[r].c, [h[r].kids EXCEPT ![i] = summand])

With(copies, i, summand) == [copies EXCEPT !.s = [@ EXCEPT ![i] = summand]]

ExpandedTerm(h, r, i, summand) ==
  ProductOf(With(CloneAll(h, [h[r].kids EXCEPT ![i] = Null]), i, summand), h[r].c)

\* expand_product: the first sum among the factors
AddTo(s, term) == AppendSummand(term.h, s, term.r)

Distribute(h, r, i, s) ==
  [h |-> FoldLeft(LAMBDA g, k : AddTo(s.r, ExpandedTerm(g, r, i, k)),
                  s.h, h[h[r].kids[i]].kids),
   r |-> s.r]

ExpandProduct(h, r) ==
  LET sums == {i \in DOMAIN h[r].kids : IsSum(h, h[r].kids[i])}
  IN IF sums = {} THEN Same(h, r)
     ELSE Changed(Distribute(h, r, Min(sums), New(h, Sum)), TRUE)

(***************************************************************************)
(* expand_sum: the sum is replaced by a new one once a summand was         *)
(* expanded or flattened; the expanded summand replaces the old one in the *)
(* old sum too.                                                            *)
(***************************************************************************)
AddSummand(sum, e) ==
  Changed([h |-> AppendSummand(sum.h, sum.r, e), r |-> sum.r], TRUE)

ExpandSummand(x, old, i, e) ==
  LET h == SetKid(e, old, i)
  IN CASE x.done -> AddSummand([h |-> h, r |-> x.r], e.r)
       [] ~x.done /\ e.done ->
            AddSummand(MakeSum(h, SubSeq(h[old].kids, 1, i - 1)), e.r)
       [] OTHER -> Same(h, old)

Summand(h, k) == IF IsProduct(h, k) THEN ExpandProduct(h, k)
                 ELSE [h |-> h, r |-> k, done |-> IsSum(h, k)]

\* a sum of one summand is this summand, and one of none is 0
Raised(x) ==
  CASE Len(x.h[x.r].kids) = 1 -> [h |-> x.h, r |-> x.h[x.r].kids[1], done |-> TRUE]
    [] x.h[x.r].kids = <<>>   -> Changed(New(x.h, Constant(Zero)), TRUE)
    [] OTHER                  -> x

ExpandSum(h, r) ==
  Raised(FoldLeft(LAMBDA x, i : ExpandSummand(x, r, i, Summand(x.h, x.h[r].kids[i])),
                  Same(h, r), [i \in DOMAIN h[r].kids |-> i]))

ExpandStep(h, r) ==
  CASE IsProduct(h, r) -> ExpandProduct(h, r)
    [] IsSum(h, r)     -> ExpandSum(h, r)
    [] OTHER           -> Same(h, r)

-----------------------------------------------------------------------------
(***************************************************************************)
(* detail::rapid_simplify_visitor                                          *)
(***************************************************************************)
\* a product that is only a number becomes one; a lone factor is lifted
Lifted(x) ==
  LET p == x.h[x.r]
  IN CASE p.c = Zero \/ p.kids = <<>> -> Changed(New(x.h, Constant(p.c)), TRUE)
       [] p.c = One /\ Len(p.kids) = 1 -> [h |-> x.h, r |-> p.kids[1], done |-> TRUE]
       [] OTHER -> x

SimplifyProduct(h, r) ==
  IF \E k \in ToSet(h[r].kids) : IsProduct(h, k) \/ IsConstant(h, k)
  THEN Lifted(Changed(MakeProduct(h, h[r].c, h[r].kids), TRUE))
  ELSE Lifted(Same(h, r))

SimplifySum(h, r) ==
  LET kids    == h[r].kids
      consts  == {i \in DOMAIN kids : IsConstant(h, kids[i])}
      rebuild == \/ \E k \in ToSet(kids) : IsSum(h, k)
                 \/ \E i \in consts : h[kids[i]].c = Zero
                 \/ Cardinality(consts) > 1
  IN IF Len(kids) > 1 /\ rebuild THEN Changed(MakeSum(h, kids), TRUE)
                                 ELSE Raised(Same(h, r))

SimplifyStep(h, r) ==
  CASE IsProduct(h, r) -> SimplifyProduct(h, r)
    [] IsSum(h, r)     -> SimplifySum(h, r)
    [] OTHER           -> Same(h, r)

-----------------------------------------------------------------------------
(***************************************************************************)
(* Expr::visit with either visitor, which works on a node until a step     *)
(* changes nothing.                                                        *)
(***************************************************************************)
Step(h, r, visitor) ==
  IF visitor = "expand" THEN ExpandStep(h, r) ELSE SimplifyStep(h, r)

RECURSIVE WhileChanged(_, _)
WhileChanged(x, visitor) ==
  IF x.done THEN WhileChanged(Step(x.h, x.r, visitor), visitor)
            ELSE [h |-> x.h, r |-> x.r]

RECURSIVE Visit(_, _, _)
Visit(h, r, visitor) ==
  LET Below(g, k)    == IF IsAtom(g, k) THEN g ELSE Visit(g, k, visitor)
      VisitKid(g, i) ==
        SetKid(WhileChanged([h    |-> Below(g, g[r].kids[i]),
                             r    |-> g[r].kids[i],
                             done |-> TRUE], visitor), r, i)
  IN FoldLeft(VisitKid, h, [i \in DOMAIN h[r].kids |-> i])

VisitAll(x, visitor) ==
  WhileChanged([h |-> Visit(x.h, x.r, visitor), r |-> x.r, done |-> TRUE], visitor)

Expand(x)        == VisitAll(x, "expand")
RapidSimplify(x) == VisitAll(x, "simplify")

-----------------------------------------------------------------------------
(***************************************************************************)
(* canonicalize(): returns the heap and the factor the expression has to   *)
(* be multiplied with.                                                     *)
(***************************************************************************)
(***************************************************************************)
(* bubble_sort with a comparison Swap(h, next, this).  It never ends when  *)
(* passes go on swapping; a sort takes at most as many passes as there are *)
(* elements.                                                               *)
(***************************************************************************)
SwapTensors(h, next, this) ==
  IsTensor(h, next) /\ IsTensor(h, this) /\ Less(h, next, this)

SwapFactors(h, next, this) ==
  CommutesWith(h, next, this) => Less(h, next, this)

AllTensors(h, seq) == \A k \in ToSet(seq) : IsTensor(h, k) \/ IsOperator(h, k)

Pass(h, seq) ==
  LET tensors == AllTensors(h, seq)
      Sift(s, i) ==
        IF IF tensors THEN SwapTensors(h, s[i + 1], s[i])
                      ELSE SwapFactors(h, s[i + 1], s[i])
        THEN [s EXCEPT ![i] = s[i + 1], ![i + 1] = s[i]] ELSE s
  IN FoldLeft(Sift, seq, [i \in 1..Len(seq) - 1 |-> i])

Sorted(h, seq) == FoldLeft(LAMBDA s, i : Pass(h, s), seq, seq)

SettledFactors(h, r, seq) ==
  IF Pass(h, seq) = seq THEN [h EXCEPT ![r].kids = seq] ELSE Fail(h)

SortFactors(h, r) ==
  CASE AllTensors(h, h[r].kids) -> [h EXCEPT ![r].kids = Sorted(h, @)]
    [] ~AllTensors(h, h[r].kids) /\ h[r].type = "NCProduct" -> h
    [] OTHER -> SettledFactors(h, r, Sorted(h, h[r].kids))

\* the order of summands, and the merging of those of equal hash
SummandBeforeBySize(h, a, b) ==   \* mutation: like terms need not be adjacent
  Len(h[a].kids) < Len(h[b].kids)

SummandBefore(h, a, b) ==
  \/ Len(h[a].kids) < Len(h[b].kids)
  \/ Len(h[a].kids) = Len(h[b].kids) /\ Less(h, a, b)

Insert(h, seq, r) ==
  LET after == {i \in DOMAIN seq : SummandBefore(h, r, seq[i])}
  IN IF after = {} THEN Append(seq, r) ELSE InsertAt(seq, Min(after), r)

SortSummands(h, r) ==
  [h EXCEPT ![r].kids = FoldLeft(LAMBDA s, k : Insert(h, s, k), <<>>, @)]

\* add_identical, to a product made of a lone tensor if need be
AddIdentical(h, r, k) ==
  [h |-> [h EXCEPT ![r].c = CAdd(@, h[k].c)], r |-> r]

AsProduct(h, k) == IF IsTensor(h, k) THEN MakeProduct(h, One, <<k>>)
                                     ELSE [h |-> h, r |-> k]

Merged(a, x) == [a EXCEPT !.h = x.h, !.s = [@ EXCEPT ![Len(@)] = x.r]]

\* the next summand is added to the last of those kept, if it is like it
MergeNext(a, k) ==
  LET like == a.s # <<>> /\ Key(a.old, a.orig) = Key(a.old, k)
      ok   == IsProduct(a.old, k) \/ IsTensor(a.old, k)
      Onto(x) == AddIdentical(x.h, x.r, k)
  IN CASE ~like -> [a EXCEPT !.s = Append(@, k), !.orig = k]
       [] like /\ ok  -> Merged(a, Onto(AsProduct(a.h, Last(a.s))))
       [] like /\ ~ok -> [a EXCEPT !.h = Fail(@)]

MergeSummands(h, r) ==
  LET Put(a) == [a.h EXCEPT ![r].kids = a.s]
  IN Put(FoldLeft(MergeNext, [h |-> h, old |-> h, s |-> <<>>, orig |-> Null],
                  h[r].kids))

\* the summand or factor k is now what it was, multiplied with c
TimesByproduct(x, r, i, k) ==
  IF x.by = One THEN x.h ELSE SetKid(MakeProduct(x.h, x.by, <<k>>), r, i)

RECURSIVE Canonicalize(_, _, _)
CanonicalizeProduct(h, r) ==
  LET Times(x) == Scale(x.h, r, x.by)
  IN SortFactors(FoldLeft(LAMBDA g, k : Times(Canonicalize(g, k, FALSE)),
                          h, h[r].kids), r)

CanonicalizePass(h, r, rapid) ==
  LET Kid(g, i) == TimesByproduct(Canonicalize(g, g[r].kids[i], rapid),
                                  r, i, g[r].kids[i])
  IN MergeSummands(SortSummands(FoldLeft(Kid, h, [i \in DOMAIN h[r].kids |-> i]), r), r)

CanonicalizeSum(h, r, rapid) ==
  IF rapid THEN CanonicalizePass(h, r, TRUE)
  ELSE FoldLeft(LAMBDA g, fast : CanonicalizePass(g, r, fast), h, <<TRUE, FALSE, TRUE>>)

Canonicalize(h, r, rapid) ==
  CASE Failed(h) -> [h |-> h, by |-> One]
    [] ~Failed(h) /\ IsProduct(h, r) -> [h |-> CanonicalizeProduct(h, r), by |-> One]
    [] ~Failed(h) /\ IsSum(h, r) -> [h |-> CanonicalizeSum(h, r, rapid), by |-> One]
    [] ~Failed(h) /\ IsTensor(h, r) /\ h[r].leaf.odd ->
         [h |-> [h EXCEPT ![r].leaf.odd = FALSE], by |-> MinusOne]
    [] OTHER -> [h |-> h, by |-> One]
=============================================================================
