------------------------------ MODULE Indices ------------------------------
(***************************************************************************)
(* Indices, the factory that makes new ones, and the replacement of        *)
(* indices.                                                                *)
(*                                                                         *)
(* The label of an index is the key of its space and a number.  A space is *)
(* a set of base spaces, so that the intersection and the inclusion of     *)
(* spaces are those of sets and the null space is the empty set.  Indices  *)
(* that depend on other indices are left out.                              *)
(***************************************************************************)
EXTENDS Integers, SequencesExt, TLC

Spaces == (SUBSET {"occ", "unocc"}) \ {{}}

Index(space, n) == [space |-> space, n |-> n]

IndexSet == [space : Spaces, n : Nat]

\* the order of spaces is that of their bits, the order of labels that of
\* strings: "1", "10", "100", "101", "2"
SpaceRank(space) == (IF "occ" \in space THEN 1 ELSE 0) +
                    (IF "unocc" \in space THEN 2 ELSE 0)

LabelRank(n) == CASE n < 10  -> 1000 * n + 1
                  [] n \in 10..99 -> 100 * n + 2
                  [] n > 99  -> 10 * n + 3

LexLess(s, t) ==
  \/ IsStrictPrefix(s, t)
  \/ \E k \in 1..Min({Len(s), Len(t)}) :
        s[k] < t[k] /\ \A j \in 1..k - 1 : s[j] = t[j]

Rank(i) == <<SpaceRank(i.space), LabelRank(i.n)>>

IndexLess(i, j) == LexLess(Rank(i), Rank(j))

RanksOf(seq) == FlattenSeq([k \in DOMAIN seq |-> Rank(seq[k])])

\* a sort that keeps the order of equal elements
Inserted(seq, x, less) ==
  LET after == {k \in DOMAIN seq : <<x, seq[k]>> \in less}
  IN IF after = {} THEN Append(seq, x) ELSE InsertAt(seq, Min(after), x)

SortedIn(seq, less) ==
  LET sorted[k \in 0..Len(seq)] ==
        IF k = 0 THEN <<>> ELSE Inserted(sorted[k - 1], seq[k], less)
  IN sorted[Len(seq)]

SortedBy(seq, Less(_, _)) ==
  SortedIn(seq, {p \in ToSet(seq) \X ToSet(seq) : Less(p[1], p[2])})

\* the members of a sequence in some of its places
Kept(seq, places) ==
  [n \in 1..Cardinality(places) |->
     seq[CHOOSE k \in places : Cardinality({j \in places : j <= k}) = n]]

(***************************************************************************)
(* An IndexFactory counts from a first number in each space, and passes    *)
(* over the labels its validator refuses: "made" indices after the first   *)
(* ones, the next is the first unused one that is valid.                   *)
(***************************************************************************)
MinTmpIndex == 100

NthIndex(refused, first, space, nth) ==
  Index(space,
    CHOOSE n \in first..first + nth + Cardinality(refused) :
      /\ Index(space, n) \notin refused
      /\ Cardinality({m \in first..n : Index(space, m) \notin refused}) = nth)

\* a replacement maps some indices to others; a replaced index is tagged and
\* is not replaced again in the same round
Image(rules, i) == IF i \in DOMAIN rules THEN rules[i] ELSE i

ReplacedIn(rules, seq) == [k \in DOMAIN seq |-> Image(rules, seq[k])]
=============================================================================
