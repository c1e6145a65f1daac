--------------------------- MODULE WickDriverProofs ---------------------------
(***************************************************************************)
(* What the engine is given, for any objects and any sequence of setters   *)
(* and calls of compute(): the connections the user asked for, the         *)
(* operators of the product once for each call that appended them, and the *)
(* partitions of the operators, the orbits of the graph's automorphisms.   *)
(* First come the calls of the object; then the folds and flattenings the  *)
(* model is made of, what compute_partitions does to the partitions, the   *)
(* numbers set_op_partitions gives, and the invariant of the object.       *)
(***************************************************************************)
EXTENDS WickDriver, SequenceTheorems, DataInduction, TLAPS

\* w is an object: a record of these members
Shape(w) ==
  w = [input       |-> w.input,
       full        |-> w.full,
       topology    |-> w.topology,
       spinfree    |-> w.spinfree,
       connections |-> w.connections,
       entries     |-> w.entries,
       cached      |-> w.cached,
       partition   |-> w.partition]

\* v has the operators and the connections of w
Agree(v, w) ==
  /\ Shape(v) /\ v.input = w.input
  /\ v.connections = w.connections /\ v.entries = w.entries /\ v.cached = w.cached

LEMMA Switches ==
  ASSUME NEW w, Shape(w), NEW x
  PROVE  /\ Agree([w EXCEPT !.full = x], w)
         /\ Agree([w EXCEPT !.topology = x], w)
         /\ Agree([w EXCEPT !.spinfree = x], w)
         /\ Agree([w EXCEPT !.partition = x], w)
  BY DEF Shape, Agree

LEMMA Inputs ==
  ASSUME NEW w, Shape(w), NEW x
  PROVE  LET v == [w EXCEPT !.input = x]
         IN  /\ Shape(v) /\ v.input = x
             /\ v.connections = w.connections /\ v.entries = w.entries /\ v.cached = w.cached
  BY DEF Shape

LEMMA CachedPairs ==
  ASSUME NEW w, Shape(w), NEW x
  PROVE  LET v == [w EXCEPT !.cached = x]
         IN  /\ Shape(v) /\ v.input = w.input
             /\ v.connections = w.connections /\ v.entries = w.entries /\ v.cached = x
  BY DEF Shape

LEMMA Connected ==
  ASSUME NEW w, Shape(w), NEW x
  PROVE  LET v == [w EXCEPT !.connections = x]
         IN  /\ Shape(v) /\ v.input = w.input
             /\ v.connections = x /\ v.entries = w.entries /\ v.cached = w.cached
  BY DEF Shape

LEMMA Resized ==
  ASSUME NEW w, Shape(w), NEW x
  PROVE  LET v == [w EXCEPT !.entries = x]
         IN  /\ Shape(v) /\ v.input = w.input
             /\ v.connections = w.connections /\ v.entries = x /\ v.cached = w.cached
  BY DEF Shape

LEMMA Registered ==
  ASSUME NEW w, Shape(w), NEW pairs
  PROVE  LET v == Register(w, pairs)
         IN  /\ Shape(v) /\ v.input = w.input /\ v.cached = {}
             /\ v.connections = IF pairs # {} THEN pairs ELSE w.connections
             /\ v.entries = IF pairs # {} THEN Len(w.input) ELSE w.entries
<1>. DEFINE c == IF pairs # {} THEN pairs ELSE w.connections
            n == IF pairs # {} THEN Len(w.input) ELSE w.entries
            t == [w EXCEPT !.connections = c]
            u == [t EXCEPT !.entries = n]
            none == {}
<1>1. Register(w, pairs) = [w EXCEPT !.connections = c, !.entries = n, !.cached = none]
  BY DEF Register
<1>. HIDE DEF c, n, none
<1>2. [w EXCEPT !.connections = c, !.entries = n, !.cached = none] = [u EXCEPT !.cached = none]
  BY DEF Shape
<1>3. Shape(t) /\ t.input = w.input /\ t.connections = c
  BY Connected
<1>. HIDE DEF t
<1>4. Shape(u) /\ u.input = w.input /\ u.connections = c /\ u.entries = n
  BY <1>3, Resized
<1>. HIDE DEF u
<1>5. LET v == [u EXCEPT !.cached = none]
      IN  Shape(v) /\ v.input = w.input /\ v.cached = none /\ v.connections = c /\ v.entries = n
  BY <1>4, CachedPairs
<1>. QED
  BY <1>1, <1>2, <1>5 DEF c, n, none

-----------------------------------------------------------------------------
\* the connections the next call of the engine gets
InForce(w) == IF w.cached # {} THEN w.cached ELSE w.connections

(***************************************************************************)
(* What a part of compute() makes of the object w for the product e, when  *)
(* the engine gets the operators ops.                                      *)
(***************************************************************************)
Sound(r, w, e, ops) ==
  /\ Shape(r.wt)
  /\ InForce(r.wt) = InForce(w)
  /\ r.wt.entries \in {w.entries, Len(r.wt.input)}
  /\ \A c \in r.calls : /\ c.target = InForce(w) /\ c.product = e
                        /\ c.nops = ops /\ c.entries = r.wt.entries

LEMMA NopseqSound ==
  ASSUME NEW w, Shape(w), NEW e
  PROVE  LET r == ComputeNopseq(w, e)
         IN  Sound(r, w, e, w.input) /\ r.wt.input = w.input
<1>. DEFINE r == ComputeNopseq(w, e)
<1>1. CASE w.spinfree \/ (w.cached # {} /\ OutOfRange(w, w.cached))
  <2>1. r = [wt |-> w, threw |-> TRUE, calls |-> {}]
    BY <1>1 DEF ComputeNopseq, Throws
  <2>. QED
    BY <2>1 DEF Sound
<1>2. CASE ~(w.spinfree \/ (w.cached # {} /\ OutOfRange(w, w.cached)))
  <2>. DEFINE known == IF w.cached # {} THEN Register(w, w.cached) ELSE w
              ready == [known EXCEPT !.partition = Upsized(@, Len(w.input))]
  <2>1. /\ Shape(known) /\ known.input = w.input /\ known.cached = {}
        /\ known.connections = InForce(w) /\ known.entries \in {w.entries, Len(w.input)}
    <3>1. CASE w.cached # {}
      BY <3>1, Registered DEF InForce
    <3>2. CASE w.cached = {}
      BY <3>2 DEF InForce
    <3>. QED
      BY <3>1, <3>2
  <2>2. ready = [known EXCEPT !.partition = Upsized(known.partition, Len(w.input))]
    BY <2>1 DEF Shape
  <2>. HIDE DEF known
  <2>3. Agree(ready, known)
    BY <2>1, <2>2, Switches
  <2>4. r = [wt |-> ready, threw |-> FALSE, calls |-> {EngineCall(ready, e)}]
    BY <1>2 DEF ComputeNopseq, Returns, known
  <2>. HIDE DEF ready
  <2>5. /\ EngineCall(ready, e).product = e
        /\ EngineCall(ready, e).nops = ready.input
        /\ EngineCall(ready, e).target = ready.connections
        /\ EngineCall(ready, e).entries = ready.entries
    BY DEF EngineCall
  <2>6. InForce(ready) = InForce(w)
    BY <2>1, <2>3 DEF Agree, InForce
  <2>7. /\ r.wt = ready /\ r.calls = {EngineCall(ready, e)}
    BY <2>4
  <2>. HIDE DEF r
  <2>8. Sound(r, w, e, w.input)
    BY <2>1, <2>3, <2>5, <2>6, <2>7 DEF Agree, Sound
  <2>. QED
    BY <2>1, <2>3, <2>7, <2>8 DEF Agree, r
<1>. QED
  BY <1>1, <1>2

\* a product's operators are appended, unless nothing is done
LEMMA ProductSound ==
  ASSUME NEW w, Shape(w), NEW e
  PROVE  LET r == ComputeProduct(w, e)
         IN  /\ Sound(r, w, e, w.input \o e.nops)
             /\ r.wt.input = w.input \/ r.wt.input = w.input \o e.nops
             /\ r.calls # {} => r.wt.input = w.input \o e.nops
<1>. DEFINE r == ComputeProduct(w, e)
            divided == IF w.topology /\ NopLists(e) # <<>>
                       THEN [w EXCEPT !.partition = Assigned(@, NopLists(e))] ELSE w
            appended == [divided EXCEPT !.input = @ \o e.nops]
<1>1. Agree(divided, w)
  <2>1. [w EXCEPT !.partition = Assigned(@, NopLists(e))]
          = [w EXCEPT !.partition = Assigned(w.partition, NopLists(e))]
    OBVIOUS
  <2>2. Agree([w EXCEPT !.partition = Assigned(w.partition, NopLists(e))], w)
    BY Switches
  <2>3. Agree(w, w)
    BY DEF Agree
  <2>. QED
    BY <2>1, <2>2, <2>3
<1>2. \/ e.nops = <<>> /\ r = [wt |-> w, threw |-> FALSE, calls |-> {}]
      \/ r = [wt |-> divided, threw |-> TRUE, calls |-> {}]
      \/ r = ComputeNopseq(appended, e)
  BY DEF ComputeProduct, Returns, Throws
<1>. DEFINE both == w.input \o e.nops
<1>3. appended = [divided EXCEPT !.input = both]
  BY <1>1 DEF Agree
<1>. HIDE DEF divided, both, appended
<1>4. /\ Shape(appended) /\ appended.input = both
      /\ appended.connections = w.connections /\ appended.entries = w.entries
      /\ appended.cached = w.cached
  BY <1>1, <1>3, Inputs DEF Agree
<1>5. InForce(appended) = InForce(w) /\ InForce(divided) = InForce(w)
  BY <1>1, <1>4 DEF Agree, InForce
<1>6. CASE r = [wt |-> w, threw |-> FALSE, calls |-> {}]
  <2>1. r.wt = w /\ r.calls = {}
    BY <1>6
  <2>. QED
    BY <2>1 DEF Sound
<1>7. CASE r = [wt |-> divided, threw |-> TRUE, calls |-> {}]
  <2>1. r.wt = divided /\ r.calls = {}
    BY <1>7
  <2>. QED
    BY <1>1, <1>5, <2>1 DEF Sound, Agree
<1>8. CASE r = ComputeNopseq(appended, e)
  <2>1. Sound(r, appended, e, appended.input) /\ r.wt.input = appended.input
    BY <1>4, <1>8, NopseqSound
  <2>. HIDE DEF r
  <2>2. Sound(r, w, e, both) /\ r.wt.input = both
    BY <1>4, <1>5, <2>1 DEF Sound
  <2>. QED
    BY <2>2 DEF both, r
<1>. QED
  BY <1>2, <1>6, <1>7, <1>8

-----------------------------------------------------------------------------
\* op_connections_ is empty or has an entry for every operator
Sized(w) == w.entries \in {0, Len(w.input)}

\* r is s appended n times
Accumulates(s, n, r) ==
  \E f : /\ f[0] = <<>>
         /\ \A i \in 0..(n - 1) : f[i + 1] = f[i] \o s
         /\ r = f[n]

LEMMA AccumulatesNone ==
  ASSUME NEW s, NEW r, r = <<>>
  PROVE  Accumulates(s, 0, r)
<1>. DEFINE f == [i \in {0} |-> <<>>]
<1>1. f[0] = <<>> /\ \A i \in 0..(0 - 1) : f[i + 1] = f[i] \o s
  OBVIOUS
<1>. HIDE DEF f
<1>. QED
  BY <1>1 DEF Accumulates

LEMMA NoneAccumulated ==
  ASSUME NEW s, NEW r, Accumulates(s, 0, r)
  PROVE  r = <<>>
  BY DEF Accumulates

LEMMA AccumulatesOnce ==
  ASSUME NEW s, NEW n \in Nat, NEW r, Accumulates(s, n, r)
  PROVE  Accumulates(s, n + 1, r \o s)
<1>1. PICK f : /\ f[0] = <<>>
               /\ \A i \in 0..(n - 1) : f[i + 1] = f[i] \o s
               /\ r = f[n]
  BY DEF Accumulates
<1>. DEFINE g == [i \in 0..(n + 1) |-> IF i = n + 1 THEN r \o s ELSE f[i]]
<1>2. g[0] = <<>> /\ g[n + 1] = r \o s
  BY <1>1
<1>3. ASSUME NEW i \in 0..(n + 1 - 1)  PROVE g[i + 1] = g[i] \o s
  <2>1. i \in Nat /\ i <= n /\ g[i] = f[i]
    OBVIOUS
  <2>2. CASE i = n
    BY <1>1, <1>2, <2>1, <2>2
  <2>3. CASE i # n
    <3>1. i \in 0..(n - 1) /\ g[i + 1] = f[i + 1]
      BY <2>1, <2>3
    <3>. QED
      BY <1>1, <2>1, <3>1
  <2>. QED
    BY <2>2, <2>3
<1>. HIDE DEF g
<1>4. \A i \in 0..((n + 1) - 1) : g[i + 1] = g[i] \o s
  BY <1>3
<1>5. \E h : /\ h[0] = <<>>
             /\ \A i \in 0..((n + 1) - 1) : h[i + 1] = h[i] \o s
             /\ r \o s = h[n + 1]
  <2>. WITNESS g
  <2>. QED
    BY <1>2, <1>4
<1>. QED
  BY <1>5 DEF Accumulates

(***************************************************************************)
(* What holds between the calls.  The operators of the object are those it *)
(* was constructed with until they were appended or replaced.              *)
(***************************************************************************)
Inv ==
  /\ object \in Objects
  /\ Shape(wt)
  /\ computes \in Nat
  /\ InForce(wt) \in asked
  /\ object.kind = "sequence" => wt.input = object.products[1].nops
  /\ object.kind = "sequence expression" => wt.input \in {<<>>, object.products[1].nops}
  /\ object.kind = "sum" => wt.input = <<>>
  /\ object.kind = "product" => Accumulates(object.products[1].nops, computes, wt.input)
  /\ computes <= 1 => Sized(wt)

LEMMA InitInv == Init => Inv /\ made = {}
<1>. SUFFICES ASSUME Init
              PROVE  Inv /\ made = {}
  OBVIOUS
<1>1. object.kind = "product" => Accumulates(object.products[1].nops, computes, wt.input)
  <2>1. computes = 0 /\ (object.kind = "product" => wt.input = <<>>)
    BY DEF Init
  <2>. QED
    BY <2>1, AccumulatesNone
<1>. QED
  BY <1>1 DEF Init, Inv, Shape, InForce, Kinds, Sized

\* a setter other than that of the connections
LEMMA SwitchInv ==
  ASSUME Inv, NEW w, Agree(w, wt), Set(w), UNCHANGED asked
  PROVE  Inv' /\ made' = {}
<1>1. wt' = w /\ made' = {} /\ UNCHANGED <<object, computes>>
  BY DEF Set
<1>2. Shape(w) /\ w.input = wt.input /\ InForce(w) = InForce(wt) /\ w.entries = wt.entries
  BY DEF Agree, InForce
<1>. QED
  BY <1>1, <1>2 DEF Inv, Sized

LEMMA SetOpConnectionsInv ==
  ASSUME Inv, NEW pairs, SetOpConnections(pairs)
  PROVE  Inv' /\ made' = {}
<1>. DEFINE Kept == /\ Shape(wt') /\ wt'.input = wt.input
                    /\ wt'.entries \in {wt.entries, Len(wt.input)}
                    /\ UNCHANGED <<object, computes>> /\ made' = {}
<1>1. ASSUME Kept, InForce(wt)' \in asked'
      PROVE  Inv' /\ made' = {}
  BY <1>1 DEF Inv, Sized
<1>2. CASE HasExpr /\ wt.cached = {}
  <2>1. wt' = [wt EXCEPT !.cached = pairs] /\ outcome' = "returned"
    BY <1>2 DEF SetOpConnections, Set
  <2>2. Kept /\ wt'.connections = wt.connections /\ wt'.cached = pairs
    BY <1>2, <2>1, CachedPairs DEF SetOpConnections, Set, Inv
  <2>3. asked' = IF pairs = {} THEN asked \cup {wt.connections} ELSE {pairs}
    BY <2>1 DEF SetOpConnections
  <2>4. InForce(wt)' \in asked'
    BY <2>2, <2>3 DEF InForce
  <2>. QED
    BY <1>1, <2>2, <2>4
<1>3. CASE ~(HasExpr /\ wt.cached = {}) /\ OutOfRange(wt, pairs)
  <2>1. wt' = wt /\ outcome' = "threw" /\ made' = {} /\ UNCHANGED <<object, computes>>
    BY <1>3 DEF SetOpConnections, Set
  <2>2. pairs # {}
    BY <1>3 DEF OutOfRange
  <2>3. asked' = asked
    BY <2>1, <2>2 DEF SetOpConnections
  <2>. QED
    BY <1>1, <2>1, <2>3 DEF InForce, Inv
<1>4. CASE ~(HasExpr /\ wt.cached = {}) /\ ~OutOfRange(wt, pairs)
  <2>1. /\ wt' = Register(wt, pairs) /\ outcome' = "returned"
        /\ made' = {} /\ UNCHANGED <<object, computes>>
    BY <1>4 DEF SetOpConnections, Set
  <2>2. /\ Kept /\ wt'.cached = {}
        /\ wt'.connections = IF pairs # {} THEN pairs ELSE wt.connections
    <3>1. /\ Shape(wt') /\ wt'.input = wt.input /\ wt'.cached = {}
          /\ wt'.connections = IF pairs # {} THEN pairs ELSE wt.connections
          /\ wt'.entries = IF pairs # {} THEN Len(wt.input) ELSE wt.entries
      BY <2>1, Registered DEF Inv
    <3>. QED
      BY <2>1, <3>1
  <2>3. asked' = IF pairs = {} THEN asked \cup {wt.connections} ELSE {pairs}
    BY <2>1 DEF SetOpConnections
  <2>4. InForce(wt)' \in asked'
    BY <2>2, <2>3 DEF InForce
  <2>. QED
    BY <1>1, <2>2, <2>4
<1>. QED
  BY <1>2, <1>3, <1>4

\* there is a first product, and the operators of a product are a sequence
LEMMA ProductOps ==
  ASSUME Inv
  PROVE  /\ \A k \in DOMAIN object.products :
              <<>> \o object.products[k].nops = object.products[k].nops
         /\ 1 \in DOMAIN object.products
<1>1. \A S : \A s \in Seq(S) : <<>> \o s = s
  OBVIOUS
<1>2. \A k \in DOMAIN object.products : object.products[k].nops \in Seq(Seq(Op) \ {<<>>})
  BY ObjectsAssumption DEF Inv, IsProduct
<1>3. 1 \in DOMAIN object.products
  BY ObjectsAssumption DEF Inv
<1>. QED
  BY <1>1, <1>2, <1>3

(***************************************************************************)
(* The calls of the engine get what they should: the connections in force  *)
(* before, and the operators the object has then, which for a sequence or  *)
(* a summand are its own.  op_connections_ fits them as long as no product *)
(* was appended twice.                                                     *)
(***************************************************************************)
Given(calls) ==
  \A c \in calls :
    /\ c.target = InForce(wt)
    /\ IF object.kind = "product"
       THEN c.product = object.products[1] /\ c.nops = wt'.input
       ELSE c.nops = c.product.nops
    /\ computes' <= 1 => c.entries \in {0, Len(c.nops)}

LEMMA SequenceInv ==
  ASSUME Inv, NEW e, object.kind = "sequence", e.nops = wt.input,
         Finish(ComputeNopseq(wt, e)), UNCHANGED <<object, asked, computes>>
  PROVE  Inv' /\ Given(made')
<1>. DEFINE r == ComputeNopseq(wt, e)
<1>1. Sound(r, wt, e, wt.input) /\ r.wt.input = wt.input
  BY NopseqSound DEF Inv
<1>2. wt' = r.wt /\ made' = r.calls
  BY DEF Finish
<1>. HIDE DEF r
<1>3. computes <= 1 => wt'.entries \in {0, Len(wt'.input)}
  BY <1>1, <1>2 DEF Sound, Inv, Sized
<1>4. Given(made')
  BY <1>1, <1>2, <1>3 DEF Sound, Given
<1>. QED
  BY <1>1, <1>2, <1>3, <1>4 DEF Sound, Inv, InForce, Sized

LEMMA ExpressionInv ==
  ASSUME Inv, NEW e, e = object.products[1], object.kind = "sequence expression",
         Finish(ComputeNopseq([wt EXCEPT !.input = e.nops], e)),
         UNCHANGED <<object, asked, computes>>
  PROVE  Inv' /\ Given(made')
<1>. DEFINE w == [wt EXCEPT !.input = e.nops]
            r == ComputeNopseq(w, e)
<1>1. /\ Shape(w) /\ w.input = e.nops
      /\ w.connections = wt.connections /\ w.entries = wt.entries /\ w.cached = wt.cached
  BY Inputs DEF Inv
<1>. HIDE DEF w
<1>2. Sound(r, w, e, w.input) /\ r.wt.input = w.input
  BY <1>1, NopseqSound
<1>3. wt' = r.wt /\ made' = r.calls
  BY DEF Finish, w
<1>4. InForce(w) = InForce(wt)
  BY <1>1 DEF InForce
<1>5. computes <= 1 => w.entries \in {0, Len(w.input)}
  <2>1. Len(<<>>) = 0
    OBVIOUS
  <2>. QED
    BY <1>1, <2>1 DEF Inv, Sized
<1>. HIDE DEF r
<1>6. computes <= 1 => wt'.entries \in {0, Len(wt'.input)}
  BY <1>2, <1>3, <1>5 DEF Sound
<1>7. Given(made')
  BY <1>1, <1>2, <1>3, <1>4, <1>6 DEF Sound, Given
<1>. QED
  BY <1>1, <1>2, <1>3, <1>4, <1>6, <1>7 DEF Sound, Inv, Sized, InForce

LEMMA ProductInv ==
  ASSUME Inv, object.kind = "product", computes < MaxComputes,
         Finish(ComputeProduct(wt, object.products[1])), UNCHANGED <<object, asked>>,
         computes' = IF wt'.input # wt.input THEN computes + 1 ELSE computes
  PROVE  Inv' /\ Given(made')
<1>. DEFINE e == object.products[1]
            r == ComputeProduct(wt, e)
<1>1. /\ Sound(r, wt, e, wt.input \o e.nops)
      /\ r.wt.input = wt.input \/ r.wt.input = wt.input \o e.nops
      /\ r.calls # {} => r.wt.input = wt.input \o e.nops
  BY ProductSound DEF Inv
<1>2. wt' = r.wt /\ made' = r.calls
  BY DEF Finish
<1>. HIDE DEF r
<1>3. computes \in Nat /\ Accumulates(e.nops, computes, wt.input)
  BY DEF Inv
<1>. HIDE DEF e
<1>4. computes' \in Nat /\ Accumulates(e.nops, computes', wt'.input)
  <2>1. CASE wt'.input = wt.input
    BY <1>3, <2>1
  <2>2. CASE wt'.input # wt.input
    <3>1. wt'.input = wt.input \o e.nops /\ computes' = computes + 1
      BY <1>1, <1>2, <2>2
    <3>2. Accumulates(e.nops, computes + 1, wt.input \o e.nops)
      BY <1>3, AccumulatesOnce
    <3>3. computes + 1 \in Nat
      BY <1>3
    <3>. QED
      BY <3>1, <3>2, <3>3, Zenon
  <2>. QED
    BY <2>1, <2>2
<1>5. computes' <= 1 => wt'.entries \in {0, Len(wt'.input)}
  <2>1. wt'.entries \in {wt.entries, Len(wt'.input)}
    BY <1>1, <1>2 DEF Sound
  <2>2. CASE wt'.input = wt.input
    BY <2>1, <2>2 DEF Inv, Sized
  <2>3. CASE wt'.input # wt.input
    <3>. SUFFICES ASSUME computes' <= 1
                  PROVE  wt'.entries \in {0, Len(wt'.input)}
      OBVIOUS
    <3>1. computes = 0
      BY <1>3, <2>3
    <3>2. wt.input = <<>>
      BY <1>3, <3>1, NoneAccumulated
    <3>3. wt.entries = 0
      BY <3>1, <3>2 DEF Inv, Sized
    <3>. QED
      BY <2>1, <3>3
  <2>. QED
    BY <2>2, <2>3
<1>6. Given(made')
  <2>1. ASSUME NEW c \in made'
        PROVE  /\ c.target = InForce(wt) /\ c.product = e
               /\ c.nops = wt'.input /\ c.entries = wt'.entries
    BY <1>1, <1>2 DEF Sound
  <2>. QED
    BY <1>5, <2>1 DEF Given, e
<1>7. Shape(wt') /\ InForce(wt') = InForce(wt)
  BY <1>1, <1>2 DEF Sound
<1>. QED
  BY <1>4, <1>5, <1>6, <1>7 DEF Inv, InForce, Sized, e

LEMMA SumInv ==
  ASSUME Inv, ComputeSum, UNCHANGED <<object, asked, computes>>
  PROVE  Inv' /\ Given(made')
<1>1. ASSUME NEW c \in made'
      PROVE  /\ c.target = InForce(wt) /\ c.nops = c.product.nops
             /\ computes <= 1 => c.entries \in {0, Len(c.nops)}
  <2>1. PICK k \in DOMAIN object.products :
          c \in ComputeProduct(wt, object.products[k]).calls
    BY <1>1 DEF ComputeSum
  <2>. DEFINE e == object.products[k]
              r == ComputeProduct(wt, e)
  <2>2. /\ Sound(r, wt, e, wt.input \o e.nops)
        /\ r.calls # {} => r.wt.input = wt.input \o e.nops
    BY ProductSound DEF Inv
  <2>3. wt.input = <<>> /\ <<>> \o e.nops = e.nops
    BY ProductOps DEF ComputeSum, Inv
  <2>4. computes <= 1 => wt.entries = 0
    BY <2>3 DEF Inv, Sized
  <2>. HIDE DEF e, r
  <2>. QED
    BY <2>1, <2>2, <2>3, <2>4 DEF Sound, e, r
<1>2. wt' = wt /\ object.kind = "sum"
  BY DEF ComputeSum
<1>3. Given(made')
  BY <1>1, <1>2 DEF Given
<1>. QED
  BY <1>2, <1>3 DEF Inv, InForce, Sized

LEMMA ComputeInv ==
  ASSUME Inv, Compute
  PROVE  Inv' /\ Given(made')
<1>. DEFINE e == object.products[1]
<1>. USE DEF Compute
<1>1. CASE object.kind = "sequence" /\ Finish(ComputeNopseq(wt, e))
  BY <1>1, SequenceInv DEF Inv
<1>2. CASE /\ object.kind = "sequence expression"
           /\ Finish(ComputeNopseq([wt EXCEPT !.input = e.nops], e))
  <2>1. /\ Finish(ComputeNopseq([wt EXCEPT !.input = e.nops], e))
        /\ object.kind = "sequence expression" /\ e = object.products[1]
        /\ UNCHANGED <<object, asked, computes>>
    BY <1>2
  <2>. HIDE DEF e
  <2>. QED
    BY <2>1, ExpressionInv, Zenon
<1>3. CASE object.kind = "product" /\ Finish(ComputeProduct(wt, e))
  BY <1>3, ProductInv
<1>4. CASE ComputeSum
  <2>1. object.kind = "sum"
    BY <1>4 DEF ComputeSum
  <2>. QED
    BY <1>4, <2>1, SumInv
<1>. QED
  BY <1>1, <1>2, <1>3, <1>4 DEF ComputeOne

-----------------------------------------------------------------------------
LEMMA StutterInv == Inv /\ UNCHANGED vars => Inv'
  BY DEF Inv, vars, InForce, Sized

LEMMA NextInv ==
  ASSUME Inv, Next
  PROVE  Inv' /\ (Given(made') \/ UNCHANGED vars)
<1>1. ASSUME NEW w, Agree(w, wt), Set(w), UNCHANGED asked
      PROVE  Inv' /\ Given(made')
  BY <1>1, SwitchInv DEF Given
<1>2. CASE FullContractions
  BY <1>1, <1>2, Switches DEF FullContractions, Inv
<1>3. CASE Spinfree
  BY <1>1, <1>3, Switches DEF Spinfree, Inv
<1>4. CASE UseTopology
  BY <1>1, <1>4, Switches DEF UseTopology, Inv
<1>5. ASSUME NEW pairs \in PairSets, SetOpConnections(pairs)
      PROVE  Inv' /\ Given(made')
  BY <1>5, SetOpConnectionsInv DEF Given
<1>6. ASSUME NEW lists \in PartitionLists, SetOpPartitions(lists)
      PROVE  Inv' /\ Given(made')
  <2>1. [wt EXCEPT !.partition = Assigned(@, lists)]
          = [wt EXCEPT !.partition = Assigned(wt.partition, lists)]
    OBVIOUS
  <2>2. Agree([wt EXCEPT !.partition = Assigned(wt.partition, lists)], wt)
    BY Switches DEF Inv
  <2>. QED
    BY <1>1, <1>6, <2>1, <2>2 DEF SetOpPartitions
<1>7. CASE Compute
  BY <1>7, ComputeInv
<1>8. CASE Terminated
  BY <1>8, StutterInv DEF Terminated
<1>. QED
  BY <1>2, <1>3, <1>4, <1>5, <1>6, <1>7, <1>8 DEF Next

(***************************************************************************)
(* The engine only gets connections that were asked for, whatever the      *)
(* setters were called with and whichever calls of compute() failed.       *)
(***************************************************************************)
THEOREM ConnectionsAreHonouredCorrect == Spec => []ConnectionsAreHonoured
<1>. DEFINE I == Inv /\ ConnectionsAreHonoured
<1>1. Init => I
  BY InitInv DEF ConnectionsAreHonoured
<1>2. I /\ [Next]_vars => I'
  <2>1. ASSUME I, UNCHANGED vars  PROVE I'
    BY <2>1, StutterInv DEF ConnectionsAreHonoured, vars
  <2>2. ASSUME I, Next  PROVE I'
    <3>1. Inv' /\ (Given(made') \/ UNCHANGED vars)
      BY <2>2, NextInv
    <3>2. CASE Given(made')
      <4>1. asked' = asked \/ made' = {}
        BY <2>2 DEF Next, FullContractions, Spinfree, UseTopology, Set, SetOpConnections,
                    SetOpPartitions, Compute, Terminated, vars
      <4>. QED
        BY <2>2, <3>1, <3>2, <4>1 DEF Given, Inv, ConnectionsAreHonoured
    <3>. QED
      BY <2>1, <2>2, <3>1, <3>2
  <2>. QED
    BY <2>1, <2>2
<1>. QED
  BY <1>1, <1>2, PTL DEF Spec

-----------------------------------------------------------------------------
(***************************************************************************)
(* The folds of the model as sequences of states: what a loop has made     *)
(* after each of its passes.                                               *)
(***************************************************************************)
LEMMA MaxIs ==
  ASSUME NEW S \in SUBSET Int, IsFiniteSet(S), S # {}
  PROVE  Max(S) \in S /\ \A y \in S : Max(S) >= y
<1>1. \E x \in S : \A y \in S : x >= y
  BY LargestExists
<1>. QED
  BY <1>1, Zenon DEF Max

LEMMA MaxOfInterval ==
  ASSUME NEW k \in Nat
  PROVE  Max(1..(k + 1)) = k + 1 /\ (1..(k + 1)) \ {k + 1} = 1..k
<1>. DEFINE S == 1..(k + 1)
<1>2. k + 1 \in S /\ \A y \in S : y <= k + 1
  OBVIOUS
<1>1. S \in SUBSET Int /\ IsFiniteSet(S) /\ S # {}
  <2>1. S \in SUBSET Int /\ S # {}
    BY <1>2
  <2>2. 1 \in Int /\ k + 1 \in Int
    OBVIOUS
  <2>. QED
    BY <2>1, <2>2, FS_Interval
<1>3. Max(S) \in S /\ \A y \in S : Max(S) >= y
  <2>. HIDE DEF S
  <2>. QED
    BY <1>1, MaxIs
<1>. QED
  BY <1>2, <1>3

Start == [of |-> <<>>, last |-> -1]

IsFold(u, m, excluded) ==
  u = [s \in SUBSET (DOMAIN m) |->
         IF s = {} THEN Start ELSE Taken(u[s \ {Max(s)}], m[Max(s)], excluded)]

LEMMA FoldExists ==
  ASSUME NEW n \in Nat, NEW m, DOMAIN m = 1..n, NEW excluded
  PROVE  \E u : IsFold(u, m, excluded)
<1>. DEFINE S == DOMAIN m
            c(s) == Max(s)
            Next_(u) == [s \in SUBSET S |->
                           IF s = {} THEN Start ELSE Taken(u[s \ {c(s)}], m[c(s)], excluded)]
            IsFoldTo(u, k) == \A s \in SUBSET S : Cardinality(s) <= k => u[s] = Next_(u)[s]
            R == {k \in 0..n : \E u : IsFoldTo(u, k)}
<1>0. IsFiniteSet(S) /\ Cardinality(S) = n
  BY FS_Interval
<1>1. \A s \in SUBSET S : IsFiniteSet(s) /\ Cardinality(s) \in 0..n
  <2>. HIDE DEF S
  <2>. QED
    BY <1>0, FS_Subset, FS_CardinalityType
<1>2. \A u : \A s \in SUBSET S :
        Next_(u)[s] = IF s = {} THEN Start ELSE Taken(u[s \ {c(s)}], m[c(s)], excluded)
  OBVIOUS
<1>3. \A s \in SUBSET S : s # {} =>
        /\ s \ {c(s)} \in SUBSET S
        /\ Cardinality(s \ {c(s)}) = Cardinality(s) - 1
  <2>. SUFFICES ASSUME NEW s \in SUBSET S, s # {}
                PROVE  /\ s \ {c(s)} \in SUBSET S
                       /\ Cardinality(s \ {c(s)}) = Cardinality(s) - 1
    OBVIOUS
  <2>1. c(s) \in s
    <3>1. s \in SUBSET Int
      OBVIOUS
    <3>. HIDE DEF S
    <3>. QED
      BY <1>1, <3>1, MaxIs
  <2>. HIDE DEF c, S
  <2>. QED
    BY <1>1, <2>1, FS_RemoveElement
<1>. HIDE DEF Next_, c, S
<1>4. 0 \in R
  <2>. DEFINE u == [s \in SUBSET S |-> Start]
  <2>1. \A s \in SUBSET S : Cardinality(s) <= 0 => s = {}
    BY <1>1, FS_EmptySet
  <2>2. \A s \in SUBSET S : u[s] = Start
    OBVIOUS
  <2>. HIDE DEF u
  <2>3. IsFoldTo(u, 0)
    BY <1>2, <2>1, <2>2
  <2>. QED
    BY <2>3
<1>5. ASSUME NEW k \in 0..(n - 1), k \in R
      PROVE  k + 1 \in R
  <2>1. PICK u : IsFoldTo(u, k)
    BY <1>5
  <2>2. ASSUME NEW s \in SUBSET S, Cardinality(s) <= k + 1
        PROVE  Next_(u)[s] = Next_(Next_(u))[s]
    <3>1. CASE s = {}
      BY <1>2, <3>1
    <3>2. CASE s # {}
      <4>1. s \ {c(s)} \in SUBSET S /\ Cardinality(s \ {c(s)}) <= k
        BY <1>1, <1>3, <2>2, <3>2
      <4>2. u[s \ {c(s)}] = Next_(u)[s \ {c(s)}]
        BY <2>1, <4>1
      <4>. QED
        BY <1>2, <3>2, <4>2
    <3>. QED
      BY <3>1, <3>2
  <2>3. IsFoldTo(Next_(u), k + 1)
    BY <2>2
  <2>. QED
    BY <2>3
<1>. HIDE DEF R
<1>6. n \in R
  <2>1. \A k \in 0..n : k \in R
    BY <1>4, <1>5, IntervalInduction
  <2>. QED
    BY <2>1
<1>7. PICK u : IsFoldTo(u, n)
  BY <1>6 DEF R
<1>8. Next_(u) = Next_(Next_(u))
  <2>1. \A s \in SUBSET S : s # {} => u[s \ {c(s)}] = Next_(u)[s \ {c(s)}]
    BY <1>1, <1>3, <1>7
  <2>. QED
    BY <2>1 DEF Next_
<1>9. IsFold(Next_(u), m, excluded)
  <2>. DEFINE v == Next_(u)
  <2>1. v = Next_(v)
    BY <1>8
  <2>. HIDE DEF v
  <2>2. IsFold(v, m, excluded)
    BY <2>1, Zenon DEF IsFold, Next_, c, S
  <2>. QED
    BY <2>2 DEF v
<1>. QED
  BY <1>9

\* after[k] are the partitions when the first k pairs were taken
IsRun(after, n, m, excluded) ==
  /\ after[0] = Start
  /\ \A k \in 0..(n - 1) : after[k + 1] = Taken(after[k], m[k + 1], excluded)

LEMMA PartitionsRun ==
  ASSUME NEW auts, NEW order, NEW excluded, NEW n \in Nat,
         NEW m, m = Mappings(auts, order), DOMAIN m = 1..n
  PROVE  \E after : /\ IsRun(after, n, m, excluded)
                    /\ ComputePartitions(auts, order, excluded) = after[n]
<1>1. PICK u : u = CHOOSE v : IsFold(v, m, excluded)
  OBVIOUS
<1>2. IsFold(u, m, excluded)
  BY <1>1, FoldExists
<1>3. ComputePartitions(auts, order, excluded) = u[DOMAIN m]
  <2>1. ComputePartitions(auts, order, excluded) = (CHOOSE v : IsFold(v, m, excluded))[DOMAIN m]
    BY Zenon DEF ComputePartitions, FoldLeft, MapThenFoldSet, IsFold, Start
  <2>. QED
    BY <1>1, <2>1
<1>. DEFINE after == [k \in 0..n |-> u[1..k]]
<1>4. \A s \in SUBSET (1..n) :
        u[s] = IF s = {} THEN Start ELSE Taken(u[s \ {Max(s)}], m[Max(s)], excluded)
  BY <1>2 DEF IsFold
<1>5. after[0] = Start
  <2>1. 1..0 = {} /\ {} \in SUBSET (1..n)
    OBVIOUS
  <2>2. after[0] = u[{}]
    BY <2>1
  <2>. QED
    BY <1>4, <2>1, <2>2
<1>6. ASSUME NEW k \in 0..(n - 1)
      PROVE  after[k + 1] = Taken(after[k], m[k + 1], excluded)
  <2>. DEFINE s == 1..(k + 1)
  <2>0. k \in Nat /\ k \in 0..n /\ k + 1 \in 0..n /\ k + 1 \in 1..(k + 1)
    OBVIOUS
  <2>1. s \in SUBSET (1..n) /\ s # {} /\ after[k + 1] = u[s] /\ after[k] = u[1..k]
    <3>1. s \in SUBSET (1..n) /\ s # {}
      <4>1. \A j \in 1..(k + 1) : j \in 1..n
        BY <2>0
      <4>2. s \subseteq 1..n
        BY <4>1
      <4>3. s # {}
        BY <2>0
      <4>. QED
        BY <4>2, <4>3
    <3>2. after[k + 1] = u[1..(k + 1)] /\ after[k] = u[1..k]
      BY <2>0
    <3>. QED
      BY <3>1, <3>2, Zenon
  <2>2. Max(s) = k + 1 /\ s \ {k + 1} = 1..k
    BY <2>0, MaxOfInterval
  <2>. HIDE DEF s, after
  <2>3. u[s] = Taken(u[s \ {Max(s)}], m[Max(s)], excluded)
    BY <1>4, <2>1
  <2>4. u[s \ {Max(s)}] = after[k] /\ m[Max(s)] = m[k + 1]
    BY <2>1, <2>2
  <2>. QED
    BY <2>1, <2>3, <2>4, Zenon
<1>7. after[n] = u[1..n]
  OBVIOUS
<1>. HIDE DEF after
<1>8. IsRun(after, n, m, excluded)
  BY <1>5, <1>6 DEF IsRun
<1>. QED
  BY <1>3, <1>7, <1>8

-----------------------------------------------------------------------------
(***************************************************************************)
(* The partitions of vertices.  Merging keeps together what was together   *)
(* and, if a set has both vertices or none, keeps to that set.             *)
(***************************************************************************)
IsPartition(p, V) ==
  /\ p = [of |-> p.of, last |-> p.last]
  /\ p.last \in Int /\ p.last >= -1
  /\ DOMAIN p.of \subseteq V
  /\ \A v \in DOMAIN p.of : p.of[v] \in 0..p.last

Together(p, v, w) == v \in DOMAIN p.of /\ w \in DOMAIN p.of /\ p.of[v] = p.of[w]

Respects(p, C) == \A v, w : Together(p, v, w) => (v \in C <=> w \in C)

LEMMA MinOfTwo ==
  ASSUME NEW a \in Int, NEW b \in Int
  PROVE  Min({a, b}) \in {a, b}
<1>1. \E x \in {a, b} : \A y \in {a, b} : x =< y
  <2>1. CASE a <= b
    BY <2>1
  <2>2. CASE b <= a
    BY <2>2
  <2>. QED
    BY <2>1, <2>2
<1>. DEFINE S == {a, b}
<1>. HIDE DEF S
<1>2. Min(S) \in S
  BY <1>1, Zenon DEF Min, S
<1>. QED
  BY <1>2 DEF S

LEMMA StartProperties ==
  ASSUME NEW V
  PROVE  IsPartition(Start, V) /\ \A C : Respects(Start, C)
<1>1. DOMAIN Start.of = {} /\ Start.last = -1 /\ Start = [of |-> Start.of, last |-> Start.last]
  BY DEF Start
<1>. QED
  BY <1>1 DEF IsPartition, Respects, Together

\* v2 joins the partition of v1, which had none
LEMMA JoinedProperties ==
  ASSUME NEW V, NEW p, IsPartition(p, V), NEW v1 \in DOMAIN p.of, NEW v2 \in V,
         v2 \notin DOMAIN p.of,
         NEW q, q = [p EXCEPT !.of = Emplaced(@, v2, p.of[v1])]
  PROVE  /\ IsPartition(q, V) /\ Together(q, v1, v2)
         /\ \A v, w : Together(p, v, w) => Together(q, v, w)
         /\ \A C : Respects(p, C) /\ (v1 \in C <=> v2 \in C) => Respects(q, C)
<1>1. PICK f, g, l : f = p.of /\ l = p.last /\ g = q.of
  OBVIOUS
<1>2. q = [of |-> Emplaced(f, v2, f[v1]), last |-> l]
  BY <1>1 DEF IsPartition
<1>3. g = Emplaced(f, v2, f[v1]) /\ q.last = l /\ q = [of |-> g, last |-> l]
  BY <1>1, <1>2
<1>4. /\ DOMAIN g = DOMAIN f \cup {v2}
      /\ g[v2] = f[v1] /\ \A v \in DOMAIN f : g[v] = f[v]
  BY <1>1, <1>3 DEF Emplaced
<1>5. IsPartition(q, V)
  BY <1>1, <1>3, <1>4 DEF IsPartition
<1>6. Together(q, v1, v2) /\ \A v, w : Together(p, v, w) => Together(q, v, w)
  BY <1>1, <1>4 DEF Together
<1>7. ASSUME NEW C, Respects(p, C), v1 \in C <=> v2 \in C
      PROVE  Respects(q, C)
  <2>. SUFFICES ASSUME NEW v, NEW w, Together(q, v, w)
                PROVE  v \in C <=> w \in C
    BY DEF Respects
  <2>. DEFINE home(x) == IF x = v2 THEN v1 ELSE x
  <2>1. \A x \in DOMAIN g : home(x) \in DOMAIN f /\ f[home(x)] = g[x] /\ (home(x) \in C <=> x \in C)
    BY <1>1, <1>4, <1>7
  <2>2. Together(p, home(v), home(w))
    BY <1>1, <2>1 DEF Together
  <2>. HIDE DEF home
  <2>3. home(v) \in C <=> home(w) \in C
    BY <1>7, <2>2 DEF Respects
  <2>4. v \in DOMAIN g /\ w \in DOMAIN g
    BY <1>1 DEF Together
  <2>. QED
    BY <2>1, <2>3, <2>4
<1>. QED
  BY <1>5, <1>6, <1>7

\* v1 and v2 make a new partition
LEMMA FoundedProperties ==
  ASSUME NEW V, NEW p, IsPartition(p, V), NEW v1 \in V, NEW v2 \in V,
         v1 \notin DOMAIN p.of, v2 \notin DOMAIN p.of,
         NEW q, q = [of   |-> Emplaced(Emplaced(p.of, v1, p.last + 1), v2, p.last + 1),
                     last |-> p.last + 1]
  PROVE  /\ IsPartition(q, V) /\ Together(q, v1, v2)
         /\ \A v, w : Together(p, v, w) => Together(q, v, w)
         /\ \A C : Respects(p, C) /\ (v1 \in C <=> v2 \in C) => Respects(q, C)
<1>1. PICK f, g, l : f = p.of /\ l = p.last /\ g = q.of
  OBVIOUS
<1>2. /\ g = Emplaced(Emplaced(f, v1, l + 1), v2, l + 1)
      /\ q.last = l + 1 /\ q = [of |-> g, last |-> l + 1]
  BY <1>1
<1>3. /\ DOMAIN g = DOMAIN f \cup {v1, v2}
      /\ g[v1] = l + 1 /\ g[v2] = l + 1 /\ \A v \in DOMAIN f : g[v] = f[v]
  <2>1. PICK h : h = Emplaced(f, v1, l + 1)
    OBVIOUS
  <2>2. /\ DOMAIN h = DOMAIN f \cup {v1}
        /\ h[v1] = l + 1 /\ \A v \in DOMAIN f : h[v] = f[v]
    BY <1>1, <2>1 DEF Emplaced
  <2>3. /\ DOMAIN g = DOMAIN h \cup {v2}
        /\ (v2 \notin DOMAIN h => g[v2] = l + 1) /\ \A v \in DOMAIN h : g[v] = h[v]
    BY <1>2, <2>1 DEF Emplaced
  <2>. QED
    BY <1>1, <2>2, <2>3
<1>4. l \in Int /\ l >= -1 /\ \A v \in DOMAIN f : f[v] \in 0..l /\ v \in V
  BY <1>1 DEF IsPartition
<1>5. IsPartition(q, V)
  <2>1. \A v \in DOMAIN g : g[v] \in 0..(l + 1) /\ v \in V
    <3>1. \A i \in 0..l : i \in 0..(l + 1)
      BY <1>4
    <3>2. l + 1 \in 0..(l + 1)
      BY <1>4
    <3>. QED
      BY <1>3, <1>4, <3>1, <3>2
  <2>2. l + 1 \in Int /\ l + 1 >= -1
    BY <1>4
  <2>. QED
    BY <1>1, <1>2, <2>1, <2>2 DEF IsPartition
<1>6. Together(q, v1, v2) /\ \A v, w : Together(p, v, w) => Together(q, v, w)
  BY <1>1, <1>3 DEF Together
<1>7. ASSUME NEW C, Respects(p, C), v1 \in C <=> v2 \in C
      PROVE  Respects(q, C)
  <2>. SUFFICES ASSUME NEW v, NEW w, Together(q, v, w)
                PROVE  v \in C <=> w \in C
    BY DEF Respects
  <2>1. v \in DOMAIN g /\ w \in DOMAIN g /\ g[v] = g[w]
    BY <1>1 DEF Together
  <2>2. \A x \in DOMAIN f : f[x] # l + 1
    BY <1>4
  <2>3. CASE v \in DOMAIN f
    <3>1. w \in DOMAIN f
      BY <1>3, <2>1, <2>2, <2>3
    <3>2. Together(p, v, w)
      BY <1>1, <1>3, <2>1, <2>3, <3>1 DEF Together
    <3>. QED
      BY <1>7, <3>2 DEF Respects
  <2>4. CASE v \notin DOMAIN f
    <3>1. v \in {v1, v2} /\ w \in {v1, v2}
      BY <1>3, <2>1, <2>2, <2>4
    <3>. QED
      BY <1>7, <3>1
  <2>. QED
    BY <2>3, <2>4
<1>. QED
  BY <1>5, <1>6, <1>7

\* the partitions of v1 and v2 become one
United(p, v1, v2, c) ==
  [p EXCEPT !.of = [v \in DOMAIN p.of |->
                      IF p.of[v] \in {p.of[v1], p.of[v2]} THEN c ELSE p.of[v]]]

LEMMA UnitedProperties ==
  ASSUME NEW V, NEW p, IsPartition(p, V), NEW v1 \in DOMAIN p.of, NEW v2 \in DOMAIN p.of,
         NEW c \in {p.of[v1], p.of[v2]},
         NEW q, q = United(p, v1, v2, c)
  PROVE  /\ IsPartition(q, V) /\ Together(q, v1, v2)
         /\ \A v, w : Together(p, v, w) => Together(q, v, w)
         /\ \A C : Respects(p, C) /\ (v1 \in C <=> v2 \in C) => Respects(q, C)
<1>1. PICK f, g, l : f = p.of /\ l = p.last /\ g = q.of
  OBVIOUS
<1>2. q = [of |-> [v \in DOMAIN f |-> IF f[v] \in {f[v1], f[v2]} THEN c ELSE f[v]], last |-> l]
  BY <1>1 DEF IsPartition, United
<1>3. /\ q.last = l /\ q = [of |-> g, last |-> l]
      /\ g = [v \in DOMAIN f |-> IF f[v] \in {f[v1], f[v2]} THEN c ELSE f[v]]
  BY <1>1, <1>2
<1>4. /\ DOMAIN g = DOMAIN f
      /\ \A v \in DOMAIN f : g[v] = IF f[v] \in {f[v1], f[v2]} THEN c ELSE f[v]
  BY <1>3
<1>5. IsPartition(q, V)
  BY <1>1, <1>3, <1>4 DEF IsPartition
<1>6. Together(q, v1, v2) /\ \A v, w : Together(p, v, w) => Together(q, v, w)
  BY <1>1, <1>4 DEF Together
<1>7. ASSUME NEW C, Respects(p, C), v1 \in C <=> v2 \in C
      PROVE  Respects(q, C)
  <2>. SUFFICES ASSUME NEW v, NEW w, Together(q, v, w)
                PROVE  v \in C <=> w \in C
    BY DEF Respects
  <2>1. v \in DOMAIN f /\ w \in DOMAIN f /\ g[v] = g[w]
    BY <1>1, <1>4 DEF Together
  <2>2. \A x, y \in DOMAIN f : f[x] = f[y] => (x \in C <=> y \in C)
    BY <1>1, <1>7 DEF Respects, Together
  <2>3. \A x \in DOMAIN f : f[x] \in {f[v1], f[v2]} => (x \in C <=> v1 \in C)
    BY <1>1, <1>7, <2>2
  <2>4. CASE f[v] \in {f[v1], f[v2]}
    <3>1. f[w] \in {f[v1], f[v2]}
      BY <1>1, <1>4, <2>1, <2>4
    <3>. QED
      BY <2>1, <2>3, <2>4, <3>1
  <2>5. CASE f[v] \notin {f[v1], f[v2]}
    <3>1. f[w] = f[v]
      BY <1>1, <1>4, <2>1, <2>5
    <3>. QED
      BY <2>1, <2>2, <3>1
  <2>. QED
    BY <2>4, <2>5
<1>. QED
  BY <1>5, <1>6, <1>7

LEMMA MergedProperties ==
  ASSUME NEW V, NEW p, IsPartition(p, V), NEW v1 \in V, NEW v2 \in V,
         NEW q, q = Merged(p, v1, v2)
  PROVE  /\ IsPartition(q, V) /\ Together(q, v1, v2)
         /\ \A v, w : Together(p, v, w) => Together(q, v, w)
         /\ \A C : Respects(p, C) /\ (v1 \in C <=> v2 \in C) => Respects(q, C)
<1>1. CASE v1 \in DOMAIN p.of /\ v2 \in DOMAIN p.of
  <2>1. PICK c : c = Min({p.of[v1], p.of[v2]})
    OBVIOUS
  <2>2. p.of[v1] \in Int /\ p.of[v2] \in Int
    BY <1>1 DEF IsPartition
  <2>3. c \in {p.of[v1], p.of[v2]}
    BY <2>1, <2>2, MinOfTwo
  <2>4. q = United(p, v1, v2, c)
    BY <1>1, <2>1 DEF Merged, United
  <2>. QED
    BY <1>1, <2>3, <2>4, UnitedProperties
<1>2. CASE v1 \in DOMAIN p.of /\ v2 \notin DOMAIN p.of
  <2>1. q = [p EXCEPT !.of = Emplaced(@, v2, p.of[v1])]
    BY <1>2 DEF Merged
  <2>. QED
    BY <1>2, <2>1, JoinedProperties
<1>3. CASE v1 \notin DOMAIN p.of /\ v2 \in DOMAIN p.of
  <2>1. q = [p EXCEPT !.of = Emplaced(@, v1, p.of[v2])]
    BY <1>3 DEF Merged
  <2>2. /\ IsPartition(q, V) /\ Together(q, v2, v1)
        /\ \A v, w : Together(p, v, w) => Together(q, v, w)
        /\ \A C : Respects(p, C) /\ (v2 \in C <=> v1 \in C) => Respects(q, C)
    BY <1>3, <2>1, JoinedProperties
  <2>. QED
    BY <2>2 DEF Together
<1>4. CASE v1 \notin DOMAIN p.of /\ v2 \notin DOMAIN p.of
  <2>1. q = [of   |-> Emplaced(Emplaced(p.of, v1, p.last + 1), v2, p.last + 1),
             last |-> p.last + 1]
    BY <1>4 DEF Merged
  <2>. QED
    BY <1>4, <2>1, FoundedProperties
<1>. QED
  BY <1>1, <1>2, <1>3, <1>4

-----------------------------------------------------------------------------
(***************************************************************************)
(* A sequence of sequences made into one: flat[i] joins the first i.       *)
(***************************************************************************)
IsFlatten(u, q, n) == u = [i \in 1..n |-> IF i = 1 THEN q[i] ELSE u[i - 1] \o q[i]]

LEMMA FlattenExists ==
  ASSUME NEW n \in Nat, NEW q
  PROVE  \E u : IsFlatten(u, q, n)
<1>. DEFINE Step(u) == [k \in 1..n |-> IF k = 1 THEN q[k] ELSE u[k - 1] \o q[k]]
            IsTo(u, m) == \A k \in 1..m : u[k] = Step(u)[k]
            R == {m \in 0..n : \E u : IsTo(u, m)}
<1>1. \A u : \A k \in 1..n : Step(u)[k] = IF k = 1 THEN q[k] ELSE u[k - 1] \o q[k]
  OBVIOUS
<1>. HIDE DEF Step
<1>2. 0 \in R
  <2>1. IsTo(q, 0)
    OBVIOUS
  <2>. QED
    BY <2>1
<1>3. ASSUME NEW m \in 0..(n - 1), m \in R
      PROVE  m + 1 \in R
  <2>1. PICK u : IsTo(u, m)
    BY <1>3
  <2>2. ASSUME NEW k \in 1..(m + 1)
        PROVE  Step(u)[k] = Step(Step(u))[k]
    <3>1. k \in 1..n
      OBVIOUS
    <3>2. CASE k = 1
      BY <1>1, <3>1, <3>2
    <3>3. CASE k # 1
      <4>1. k - 1 \in 1..m
        BY <3>3
      <4>2. u[k - 1] = Step(u)[k - 1]
        BY <2>1, <4>1
      <4>. QED
        BY <1>1, <3>1, <3>3, <4>2
    <3>. QED
      BY <3>2, <3>3
  <2>3. IsTo(Step(u), m + 1)
    BY <2>2
  <2>. QED
    BY <2>3
<1>. HIDE DEF R
<1>4. n \in R
  <2>. HIDE DEF IsTo
  <2>1. \A m \in 0..n : m \in R
    BY <1>2, <1>3, IntervalInduction
  <2>. QED
    BY <2>1
<1>5. PICK u : IsTo(u, n)
  BY <1>4 DEF R
<1>6. PICK v : v = Step(u)
  OBVIOUS
<1>7. v = Step(v)
  <2>1. \A k \in 1..n : k # 1 => u[k - 1] = v[k - 1]
    BY <1>5, <1>6
  <2>. QED
    BY <1>6, <2>1 DEF Step
<1>8. IsFlatten(v, q, n)
  BY <1>7, Zenon DEF IsFlatten, Step
<1>. QED
  BY <1>8

IsFlattening(flat, q, n) ==
  /\ flat[0] = <<>>
  /\ \A i \in 0..(n - 1) : flat[i + 1] = flat[i] \o q[i + 1]
  /\ FlattenSeq(q) = flat[n]

LEMMA FlattenSteps ==
  ASSUME NEW S, NEW q \in Seq(Seq(S)), NEW n \in Nat, n = Len(q)
  PROVE  \E flat : IsFlattening(flat, q, n) /\ \A i \in 0..n : flat[i] \in Seq(S)
<1>0. DOMAIN q = 1..n /\ \A i \in 1..n : q[i] \in Seq(S)
  BY LenProperties, ElementOfSeq
<1>1. PICK u : u = CHOOSE v : IsFlatten(v, q, n)
  OBVIOUS
<1>2. IsFlatten(u, q, n)
  BY <1>1, FlattenExists
<1>3. FlattenSeq(q) = IF n = 0 THEN q ELSE u[n]
  <2>1. FlattenSeq(q) = IF Len(q) = 0 THEN q ELSE (CHOOSE v : IsFlatten(v, q, Len(q)))[Len(q)]
    BY Zenon DEF FlattenSeq, IsFlatten
  <2>. QED
    BY <1>1, <2>1
<1>. DEFINE flat == [i \in 0..n |-> IF i = 0 THEN <<>> ELSE u[i]]
<1>4. flat[0] = <<>> /\ \A i \in 1..n : flat[i] = u[i]
  OBVIOUS
<1>5. \A i \in 1..n : u[i] = IF i = 1 THEN q[i] ELSE u[i - 1] \o q[i]
  BY <1>2 DEF IsFlatten
<1>. HIDE DEF flat
<1>6. ASSUME NEW i \in 0..(n - 1)
      PROVE  flat[i + 1] = flat[i] \o q[i + 1]
  <2>1. i + 1 \in 1..n /\ (i + 1) - 1 = i
    OBVIOUS
  <2>2. CASE i = 0
    <3>1. flat[i + 1] = q[1] /\ q[1] \in Seq(S)
      BY <1>0, <1>4, <1>5, <2>1, <2>2
    <3>2. <<>> \o q[1] = q[1]
      BY <3>1, ConcatEmptySeq
    <3>3. flat[i] = <<>>
      BY <1>4, <2>2, Zenon
    <3>4. i + 1 = 1
      BY <2>2
    <3>. QED
      BY <3>1, <3>2, <3>3, <3>4, Zenon
  <2>3. CASE i # 0
    <3>1. i \in 1..n /\ i + 1 # 1
      BY <2>3
    <3>. QED
      BY <1>4, <1>5, <2>1, <3>1
  <2>. QED
    BY <2>2, <2>3
<1>7. FlattenSeq(q) = flat[n]
  <2>1. CASE n = 0
    <3>1. q = <<>>
      <4>1. \A T : \A s \in Seq(T) : Len(s) = 0 => s = <<>>
        OBVIOUS
      <4>. QED
        BY <2>1, <4>1
    <3>. QED
      BY <1>3, <1>4, <2>1, <3>1
  <2>2. CASE n # 0
    BY <1>3, <1>4, <2>2
  <2>. QED
    BY <2>1, <2>2
<1>8. \A i \in 0..n : flat[i] \in Seq(S)
  <2>. DEFINE R == {i \in 0..n : flat[i] \in Seq(S)}
  <2>1. 0 \in R
    <3>1. flat[0] \in Seq(S)
      BY <1>4, EmptySeq, Zenon
    <3>. QED
      BY <3>1
  <2>2. ASSUME NEW i \in 0..(n - 1), i \in R
        PROVE  i + 1 \in R
    <3>1. i + 1 \in 1..n /\ i + 1 \in 0..n
      BY <1>0
    <3>2. flat[i] \in Seq(S) /\ q[i + 1] \in Seq(S)
      BY <1>0, <2>2, <3>1
    <3>3. flat[i] \o q[i + 1] \in Seq(S)
      BY <3>2, ConcatProperties
    <3>. QED
      BY <1>6, <3>1, <3>3
  <2>. HIDE DEF R
  <2>3. \A i \in 0..n : i \in R
    BY <2>1, <2>2, IntervalInduction
  <2>. QED
    BY <2>3 DEF R
<1>9. IsFlattening(flat, q, n)
  BY <1>4, <1>6, <1>7 DEF IsFlattening
<1>. QED
  BY <1>8, <1>9

\* an element of the joined sequence is one of the parts', and conversely
Joins(r, q) ==
  /\ \A k \in 1..Len(r) : \E i \in 1..Len(q) : \E j \in 1..Len(q[i]) : r[k] = q[i][j]
  /\ \A i \in 1..Len(q) : \A j \in 1..Len(q[i]) : \E k \in 1..Len(r) : r[k] = q[i][j]

LEMMA FlattenElements ==
  ASSUME NEW S, NEW q \in Seq(Seq(S))
  PROVE  FlattenSeq(q) \in Seq(S) /\ Joins(FlattenSeq(q), q)
<1>0. PICK r : r = FlattenSeq(q)
  OBVIOUS
<1>1. PICK n \in Nat : n = Len(q)
  BY LenProperties
<1>2. PICK flat : IsFlattening(flat, q, n) /\ \A i \in 0..n : flat[i] \in Seq(S)
  BY <1>1, FlattenSteps
<1>3. \A i \in 1..n : q[i] \in Seq(S)
  BY <1>1, ElementOfSeq
<1>. DEFINE From(m) == \A k \in 1..Len(flat[m]) : \E i \in 1..m : \E j \in 1..Len(q[i]) :
                         flat[m][k] = q[i][j]
            Has(m)  == \A i \in 1..m : \A j \in 1..Len(q[i]) : \E k \in 1..Len(flat[m]) :
                         flat[m][k] = q[i][j]
            R == {m \in 0..n : From(m) /\ Has(m)}
<1>4. 0 \in R
  BY <1>2, EmptySeq DEF IsFlattening
<1>5. ASSUME NEW m \in 0..(n - 1), m \in R
      PROVE  m + 1 \in R
  <2>1. m \in 0..n /\ m + 1 \in 0..n /\ m + 1 \in 1..n /\ 1..(m + 1) = (1..m) \cup {m + 1}
    OBVIOUS
  <2>2. PICK a, b, c : a = flat[m] /\ b = q[m + 1] /\ c = flat[m + 1]
    OBVIOUS
  <2>3. a \in Seq(S) /\ b \in Seq(S) /\ c = a \o b
    BY <1>2, <1>3, <2>1, <2>2 DEF IsFlattening
  <2>4. /\ Len(a) \in Nat /\ Len(b) \in Nat /\ Len(c) = Len(a) + Len(b)
        /\ \A k \in 1..Len(a) : c[k] = a[k]
        /\ \A k \in 1..Len(c) : k > Len(a) => c[k] = b[k - Len(a)]
    <3>1. Len(a) \in Nat /\ Len(b) \in Nat
      BY <2>3, LenProperties
    <3>2. /\ Len(c) = Len(a) + Len(b)
          /\ \A k \in 1..(Len(a) + Len(b)) : c[k] = IF k <= Len(a) THEN a[k] ELSE b[k - Len(a)]
      BY <2>3, ConcatProperties
    <3>. QED
      BY <3>1, <3>2
  <2>5. ASSUME NEW k \in 1..Len(c)
        PROVE  \E i \in 1..(m + 1) : \E j \in 1..Len(q[i]) : c[k] = q[i][j]
    <3>1. CASE k <= Len(a)
      <4>1. k \in 1..Len(a) /\ c[k] = a[k]
        BY <2>4, <3>1
      <4>2. PICK i \in 1..m : \E j \in 1..Len(q[i]) : a[k] = q[i][j]
        BY <1>5, <2>2, <4>1
      <4>. QED
        BY <2>1, <4>1, <4>2
    <3>2. CASE k > Len(a)
      <4>1. k - Len(a) \in 1..Len(b) /\ c[k] = b[k - Len(a)]
        BY <2>4, <3>2
      <4>. QED
        BY <2>1, <2>2, <4>1
    <3>. QED
      BY <2>4, <3>1, <3>2
  <2>6. ASSUME NEW i \in 1..(m + 1), NEW j \in 1..Len(q[i])
        PROVE  \E k \in 1..Len(c) : c[k] = q[i][j]
    <3>1. CASE i \in 1..m
      <4>1. PICK k \in 1..Len(a) : a[k] = q[i][j]
        BY <1>5, <2>2, <3>1
      <4>2. k \in 1..Len(c) /\ c[k] = a[k]
        BY <2>4
      <4>. QED
        BY <4>1, <4>2
    <3>2. CASE i = m + 1
      <4>1. j \in 1..Len(b) /\ q[i][j] = b[j]
        BY <2>2, <3>2
      <4>2. Len(a) + j \in 1..Len(c) /\ Len(a) + j > Len(a) /\ (Len(a) + j) - Len(a) = j
        BY <2>4, <4>1
      <4>. QED
        BY <2>4, <4>1, <4>2
    <3>. QED
      BY <2>1, <3>1, <3>2
  <2>. QED
    BY <2>1, <2>2, <2>5, <2>6
<1>. HIDE DEF R
<1>6. n \in R
  <2>1. \A m \in 0..n : m \in R
    BY <1>4, <1>5, IntervalInduction
  <2>. QED
    BY <2>1
<1>7. From(n) /\ Has(n) /\ r = flat[n] /\ r \in Seq(S)
  BY <1>0, <1>2, <1>6 DEF R, IsFlattening
<1>8. Joins(r, q)
  BY <1>1, <1>7 DEF Joins
<1>. QED
  BY <1>0, <1>7, <1>8, Zenon

-----------------------------------------------------------------------------
(***************************************************************************)
(* What compute_partitions returns: vertices that a generator maps to each *)
(* other are together, unless they are not compared, and a set that the    *)
(* generators respect has all of a partition or nothing.                   *)
(***************************************************************************)
InPairs(m, n, V) == \A k \in 1..n : m[k][1] \in V /\ m[k][2] \in V

Divides(p, m, n, excluded) ==
  /\ \A k \in 1..n : m[k][1] # m[k][2] /\ m[k] \notin excluded =>
       Together(p, m[k][1], m[k][2])
  /\ \A C : (\A k \in 1..n : m[k][1] \in C <=> m[k][2] \in C) => Respects(p, C)

LEMMA RunProperties ==
  ASSUME NEW V, NEW n \in Nat, NEW m, NEW excluded, NEW after,
         IsRun(after, n, m, excluded), InPairs(m, n, V)
  PROVE  IsPartition(after[n], V) /\ Divides(after[n], m, n, excluded)
<1>. DEFINE Pairs(i) == \A k \in 1..i : m[k][1] # m[k][2] /\ m[k] \notin excluded =>
                          Together(after[i], m[k][1], m[k][2])
            Sets(i)  == \A C : (\A k \in 1..n : m[k][1] \in C <=> m[k][2] \in C) =>
                          Respects(after[i], C)
            R == {i \in 0..n : IsPartition(after[i], V) /\ Pairs(i) /\ Sets(i)}
<1>1. 0 \in R
  <2>1. after[0] = Start
    BY DEF IsRun
  <2>2. IsPartition(after[0], V) /\ Sets(0)
    BY <2>1, StartProperties
  <2>. QED
    BY <2>2
<1>2. ASSUME NEW i \in 0..(n - 1), i \in R
      PROVE  i + 1 \in R
  <2>1. PICK p, q : p = after[i] /\ q = after[i + 1]
    OBVIOUS
  <2>2. PICK v1, v2 : v1 = m[i + 1][1] /\ v2 = m[i + 1][2]
    OBVIOUS
  <2>3. i + 1 \in 1..n /\ i + 1 \in 0..n /\ 1..(i + 1) = (1..i) \cup {i + 1}
    OBVIOUS
  <2>4. v1 \in V /\ v2 \in V
    BY <2>2, <2>3 DEF InPairs
  <2>5. IsPartition(p, V)
    BY <1>2, <2>1
  <2>6. q = IF v1 = v2 \/ m[i + 1] \in excluded THEN p ELSE Merged(p, v1, v2)
    BY <2>1, <2>2, <2>3 DEF IsRun, Taken
  <2>7. /\ IsPartition(q, V)
        /\ v1 # v2 /\ m[i + 1] \notin excluded => Together(q, v1, v2)
        /\ \A v, w : Together(p, v, w) => Together(q, v, w)
        /\ \A C : Respects(p, C) /\ (v1 \in C <=> v2 \in C) => Respects(q, C)
    <3>1. CASE v1 = v2 \/ m[i + 1] \in excluded
      BY <2>5, <2>6, <3>1
    <3>2. CASE ~(v1 = v2 \/ m[i + 1] \in excluded)
      <4>1. q = Merged(p, v1, v2)
        BY <2>6, <3>2
      <4>. QED
        BY <2>4, <2>5, <4>1, MergedProperties
    <3>. QED
      BY <3>1, <3>2
  <2>8. Pairs(i + 1)
    <3>1. ASSUME NEW k \in 1..(i + 1), m[k][1] # m[k][2], m[k] \notin excluded
          PROVE  Together(q, m[k][1], m[k][2])
      <4>1. CASE k \in 1..i
        BY <1>2, <2>1, <2>7, <3>1, <4>1
      <4>2. CASE k = i + 1
        BY <2>2, <2>7, <3>1, <4>2
      <4>. QED
        BY <2>3, <4>1, <4>2
    <3>. QED
      BY <2>1, <3>1
  <2>9. Sets(i + 1)
    <3>1. ASSUME NEW C, \A k \in 1..n : m[k][1] \in C <=> m[k][2] \in C
          PROVE  Respects(q, C)
      <4>1. Respects(p, C)
        BY <1>2, <2>1, <3>1
      <4>2. v1 \in C <=> v2 \in C
        BY <2>2, <2>3, <3>1
      <4>. QED
        BY <2>7, <4>1, <4>2
    <3>. QED
      BY <2>1, <3>1
  <2>. QED
    BY <2>1, <2>3, <2>7, <2>8, <2>9
<1>. HIDE DEF R
<1>3. n \in R
  <2>1. \A i \in 0..n : i \in R
    BY <1>1, <1>2, IntervalInduction
  <2>. QED
    BY <2>1
<1>. QED
  BY <1>3 DEF R, Divides

Images(aut, order) == [k \in DOMAIN order |-> <<order[k], aut[order[k]]>>]

\* the pairs are those of every generator and every vertex
AllPairs(m, auts, order) ==
  /\ \A k \in 1..Len(m) : \E i \in 1..Len(auts) : \E j \in 1..Len(order) :
       m[k] = <<order[j], auts[i][order[j]]>>
  /\ \A i \in 1..Len(auts) : \A j \in 1..Len(order) : \E k \in 1..Len(m) :
       m[k] = <<order[j], auts[i][order[j]]>>

MapTo(auts, V) == \A i \in 1..Len(auts) : \A v \in V : auts[i][v] \in V

LEMMA MappingsAre ==
  ASSUME NEW V, NEW A, NEW auts \in Seq(A), NEW order \in Seq(V), MapTo(auts, V)
  PROVE  /\ Mappings(auts, order) \in Seq(V \X V)
         /\ AllPairs(Mappings(auts, order), auts, order)
<1>0. PICK m : m = Mappings(auts, order)
  OBVIOUS
<1>1. PICK n \in Nat, l \in Nat : n = Len(auts) /\ l = Len(order)
  BY LenProperties
<1>2. DOMAIN auts = 1..n /\ DOMAIN order = 1..l /\ \A j \in 1..l : order[j] \in V
  BY <1>1, LenProperties, ElementOfSeq
<1>3. PICK q : q = [i \in 1..n |-> Images(auts[i], order)]
  OBVIOUS
<1>4. \A i \in 1..n : /\ Images(auts[i], order) \in Seq(V \X V)
                      /\ Len(Images(auts[i], order)) = l
                      /\ \A j \in 1..l : Images(auts[i], order)[j] = <<order[j], auts[i][order[j]]>>
  <2>. SUFFICES ASSUME NEW i \in 1..n
                PROVE  /\ Images(auts[i], order) \in Seq(V \X V)
                       /\ Len(Images(auts[i], order)) = l
                       /\ \A j \in 1..l : Images(auts[i], order)[j] = <<order[j], auts[i][order[j]]>>
    OBVIOUS
  <2>1. PICK f : f = Images(auts[i], order)
    OBVIOUS
  <2>2. f = [j \in 1..l |-> <<order[j], auts[i][order[j]]>>]
    BY <1>2, <2>1 DEF Images
  <2>3. \A j \in 1..l : <<order[j], auts[i][order[j]]>> \in V \X V
    BY <1>1, <1>2 DEF MapTo
  <2>4. f \in Seq(V \X V) /\ Len(f) = l
    BY <2>2, <2>3
  <2>. QED
    BY <2>1, <2>2, <2>4
<1>5. q \in Seq(Seq(V \X V)) /\ Len(q) = n /\ \A i \in 1..n : q[i] = Images(auts[i], order)
  BY <1>3, <1>4
<1>6. m = FlattenSeq(q)
  <2>1. m = FlattenSeq([i \in 1..n |-> Images(auts[i], order)])
    BY <1>0, <1>2, Zenon DEF Mappings, Images
  <2>. QED
    BY <1>3, <2>1
<1>7. m \in Seq(V \X V) /\ Joins(m, q)
  BY <1>5, <1>6, FlattenElements
<1>8. \A i \in 1..n : Len(q[i]) = l /\ \A j \in 1..l : q[i][j] = <<order[j], auts[i][order[j]]>>
  BY <1>4, <1>5
<1>9. ASSUME NEW k \in 1..Len(m)
      PROVE  \E i \in 1..n : \E j \in 1..l : m[k] = <<order[j], auts[i][order[j]]>>
  <2>1. PICK i \in 1..n : \E j \in 1..l : m[k] = q[i][j]
    BY <1>5, <1>7, <1>8 DEF Joins
  <2>. QED
    BY <1>8, <2>1
<1>10. ASSUME NEW i \in 1..n, NEW j \in 1..l
       PROVE  \E k \in 1..Len(m) : m[k] = <<order[j], auts[i][order[j]]>>
  <2>1. PICK k \in 1..Len(m) : m[k] = q[i][j]
    BY <1>5, <1>7, <1>8 DEF Joins
  <2>. QED
    BY <1>8, <2>1
<1>11. AllPairs(m, auts, order)
  BY <1>1, <1>9, <1>10 DEF AllPairs
<1>. QED
  BY <1>0, <1>7, <1>11, Zenon

(***************************************************************************)
(* Meets: vertices that a generator maps to each other are together.       *)
(***************************************************************************)
Meets(p, auts, order, excluded) ==
  \A i \in 1..Len(auts) : \A j \in 1..Len(order) : \A v, w :
    v = order[j] /\ w = auts[i][v] /\ v # w /\ <<v, w>> \notin excluded => Together(p, v, w)

Closed(auts, order, C) ==
  \A i \in 1..Len(auts) : \A j \in 1..Len(order) : order[j] \in C <=> auts[i][order[j]] \in C

LEMMA PartitionsAre ==
  ASSUME NEW V, NEW A, NEW auts \in Seq(A), NEW order \in Seq(V), MapTo(auts, V),
         NEW excluded
  PROVE  LET p == ComputePartitions(auts, order, excluded)
         IN  /\ IsPartition(p, V) /\ Meets(p, auts, order, excluded)
             /\ \A C : Closed(auts, order, C) => Respects(p, C)
<1>0. PICK p : p = ComputePartitions(auts, order, excluded)
  OBVIOUS
<1>1. PICK m : m = Mappings(auts, order)
  OBVIOUS
<1>2. m \in Seq(V \X V) /\ AllPairs(m, auts, order)
  BY <1>1, MappingsAre
<1>3. PICK n \in Nat : n = Len(m) /\ DOMAIN m = 1..n
  BY <1>2, LenProperties
<1>4. PICK after : IsRun(after, n, m, excluded) /\ p = after[n]
  BY <1>0, <1>1, <1>3, PartitionsRun
<1>5. InPairs(m, n, V)
  <2>1. \A k \in 1..n : m[k] \in V \X V
    BY <1>2, <1>3, ElementOfSeq
  <2>. QED
    BY <2>1 DEF InPairs
<1>6. IsPartition(p, V) /\ Divides(p, m, n, excluded)
  BY <1>4, <1>5, RunProperties
<1>7. ASSUME NEW i \in 1..Len(auts), NEW j \in 1..Len(order), NEW v, NEW w,
             v = order[j], w = auts[i][v], v # w, <<v, w>> \notin excluded
      PROVE  Together(p, v, w)
  <2>1. PICK k \in 1..n : m[k] = <<v, w>>
    BY <1>2, <1>3, <1>7 DEF AllPairs
  <2>2. m[k][1] = v /\ m[k][2] = w
    BY <2>1
  <2>3. m[k][1] # m[k][2] /\ m[k] \notin excluded => Together(p, m[k][1], m[k][2])
    BY <1>6 DEF Divides
  <2>. QED
    BY <1>7, <2>1, <2>2, <2>3
<1>8. ASSUME NEW C, Closed(auts, order, C)
      PROVE  Respects(p, C)
  <2>1. ASSUME NEW k \in 1..n
        PROVE  m[k][1] \in C <=> m[k][2] \in C
    <3>1. PICK i \in 1..Len(auts), j \in 1..Len(order) : m[k] = <<order[j], auts[i][order[j]]>>
      BY <1>2, <1>3 DEF AllPairs
    <3>2. m[k][1] = order[j] /\ m[k][2] = auts[i][order[j]]
      BY <3>1
    <3>. QED
      BY <1>8, <3>2 DEF Closed
  <2>. QED
    BY <1>6, <2>1 DEF Divides
<1>9. Meets(p, auts, order, excluded)
  BY <1>7, Zenon DEF Meets
<1>. QED
  BY <1>0, <1>6, <1>8, <1>9, Zenon

-----------------------------------------------------------------------------
(***************************************************************************)
(* The partitions of the operators are the orbits of the group.            *)
(***************************************************************************)
LEMMA ImageOfFinite ==
  ASSUME NEW C, IsFiniteSet(C), NEW f, \A u \in C : f[u] \in C,
         \A u, w \in C : f[u] = f[w] => u = w
  PROVE  {f[u] : u \in C} = C
<1>1. PICK g : g = [u \in C |-> f[u]]
  OBVIOUS
<1>2. g \in Injection(C, C)
  BY <1>1 DEF Injection, IsInjective
<1>3. g \in Surjection(C, C)
  BY <1>2, FS_Injection
<1>4. \A w \in C : \E u \in C : g[u] = w
  BY <1>3 DEF Surjection
<1>. QED
  BY <1>1, <1>4

LEMMA ProductParts ==
  ASSUME NEW e, IsProduct(e)
  PROVE  /\ Len(e.places) \in Nat /\ Len(e.nops) \in Nat
         /\ IndexOrder(e) \in Seq(Vertices(e)) /\ Len(IndexOrder(e)) = Len(e.places)
         /\ NopOrder(e) \in Seq(NopVertices(e)) /\ Len(NopOrder(e)) = Len(e.nops)
         /\ MapTo(e.auts, Vertices(e)) /\ MapTo(e.auts, NopVertices(e))
         /\ e.auts \in Seq([Vertices(e) -> Vertices(e)])
         /\ DOMAIN e.auts = 1..Len(e.auts)
         /\ \A i \in DOMAIN e.auts : \A v, w \in Vertices(e) :
              e.auts[i][v] = e.auts[i][w] => v = w
<1>1. Len(e.places) \in Nat /\ Len(e.nops) \in Nat
  BY LenProperties DEF IsProduct
<1>2. PICK a, b : a = Len(e.places) /\ b = Len(e.nops)
  OBVIOUS
<1>3. Vertices(e) = (1..a) \cup ((a + 1)..(a + b)) /\ NopVertices(e) = (a + 1)..(a + b)
  BY <1>2 DEF Vertices, Indices, NopVertices
<1>4. IndexOrder(e) = [k \in 1..a |-> k] /\ NopOrder(e) = [k \in 1..b |-> a + k]
  BY <1>2 DEF IndexOrder, NopOrder
<1>5. IndexOrder(e) \in Seq(Vertices(e)) /\ Len(IndexOrder(e)) = a
  <2>1. \A k \in 1..a : k \in Vertices(e)
    BY <1>3
  <2>. QED
    BY <1>1, <1>2, <1>4, <2>1
<1>6. NopOrder(e) \in Seq(NopVertices(e)) /\ Len(NopOrder(e)) = b
  <2>1. a \in Nat /\ b \in Nat
    BY <1>1, <1>2
  <2>2. \A k \in 1..b : a + k \in (a + 1)..(a + b)
    BY <2>1
  <2>3. PICK f, S : f = [k \in 1..b |-> a + k] /\ S = (a + 1)..(a + b)
    OBVIOUS
  <2>4. \A k \in 1..b : f[k] \in S
    BY <2>2, <2>3
  <2>5. f \in Seq(S) /\ Len(f) = b
    BY <2>1, <2>3, <2>4
  <2>. QED
    BY <1>3, <1>4, <2>3, <2>5
<1>7. /\ e.auts \in Seq([Vertices(e) -> Vertices(e)])
      /\ \A i \in DOMAIN e.auts : /\ IsInjective(e.auts[i])
                                  /\ \A v \in NopVertices(e) : e.auts[i][v] \in NopVertices(e)
  BY DEF IsProduct
<1>8. /\ DOMAIN e.auts = 1..Len(e.auts)
      /\ \A i \in DOMAIN e.auts : e.auts[i] \in [Vertices(e) -> Vertices(e)]
  BY <1>7, LenProperties, ElementOfSeq
<1>9. MapTo(e.auts, Vertices(e)) /\ MapTo(e.auts, NopVertices(e))
  BY <1>7, <1>8 DEF MapTo
<1>10. ASSUME NEW i \in DOMAIN e.auts, NEW v \in Vertices(e), NEW w \in Vertices(e),
              e.auts[i][v] = e.auts[i][w]
       PROVE  v = w
  <2>1. DOMAIN e.auts[i] = Vertices(e)
    BY <1>8
  <2>. QED
    BY <1>7, <1>10, <2>1 DEF IsInjective
<1>. QED
  BY <1>1, <1>2, <1>5, <1>6, <1>7, <1>8, <1>9, <1>10

\* a set that every generator maps to itself is respected
LEMMA ClosedIs ==
  ASSUME NEW e, IsProduct(e), NEW S \in SUBSET Vertices(e), NEW order \in Seq(S),
         NEW C \in SUBSET S, \A i \in DOMAIN e.auts : {e.auts[i][u] : u \in C} = C
  PROVE  Closed(e.auts, order, C)
<1>. SUFFICES ASSUME NEW i \in 1..Len(e.auts), NEW j \in 1..Len(order)
              PROVE  order[j] \in C <=> e.auts[i][order[j]] \in C
  BY DEF Closed
<1>1. order[j] \in S /\ i \in DOMAIN e.auts
  BY ElementOfSeq, ProductParts
<1>2. PICK v, f : v = order[j] /\ f = e.auts[i]
  OBVIOUS
<1>3. {f[u] : u \in C} = C
  BY <1>1, <1>2
<1>4. f[v] \in C => \E u \in C : f[u] = f[v]
  BY <1>3
<1>5. \A u \in C : f[u] = f[v] => u = v
  BY <1>1, <1>2, ProductParts
<1>6. v \in C => f[v] \in C
  BY <1>3
<1>. QED
  BY <1>2, <1>4, <1>5, <1>6

LEMMA NopPartitions ==
  ASSUME NEW e, IsProduct(e), NEW p, p = ComputePartitions(e.auts, NopOrder(e), {})
  PROVE  /\ IsPartition(p, NopVertices(e))
         /\ \A v, w \in NopVertices(e) : v # w =>
              (Together(p, v, w) <=> SameOrbit(e.auts, NopVertices(e), v, w))
<1>. DEFINE S == NopVertices(e)
<1>1. /\ NopOrder(e) \in Seq(S) /\ MapTo(e.auts, S) /\ S \in SUBSET Vertices(e)
      /\ e.auts \in Seq([Vertices(e) -> Vertices(e)]) /\ DOMAIN e.auts = 1..Len(e.auts)
  BY ProductParts DEF Vertices
<1>2. /\ IsPartition(p, S) /\ Meets(p, e.auts, NopOrder(e), {})
      /\ \A C : Closed(e.auts, NopOrder(e), C) => Respects(p, C)
  BY <1>1, PartitionsAre
<1>3. ASSUME NEW v \in S, NEW w \in S, Together(p, v, w)
      PROVE  SameOrbit(e.auts, S, v, w)
  <2>. SUFFICES ASSUME NEW C \in SUBSET S, \A i \in DOMAIN e.auts : {e.auts[i][u] : u \in C} = C
                PROVE  v \in C <=> w \in C
    BY DEF SameOrbit
  <2>1. Closed(e.auts, NopOrder(e), C)
    BY <1>1, ClosedIs
  <2>2. Respects(p, C)
    BY <1>2, <2>1
  <2>. QED
    BY <1>3, <2>2 DEF Respects
<1>4. \A v \in S : \E j \in 1..Len(NopOrder(e)) : NopOrder(e)[j] = v
  <2>1. PICK a, b : a = Len(e.places) /\ b = Len(e.nops)
    OBVIOUS
  <2>2. /\ a \in Nat /\ b \in Nat /\ S = (a + 1)..(a + b) /\ NopOrder(e) = [k \in 1..b |-> a + k]
        /\ Len(NopOrder(e)) = b
    BY <2>1, ProductParts DEF NopVertices, NopOrder
  <2>3. \A v \in (a + 1)..(a + b) : v - a \in 1..b /\ a + (v - a) = v
    BY <2>2
  <2>4. \A v \in (a + 1)..(a + b) : NopOrder(e)[v - a] = v
    BY <2>2, <2>3
  <2>. QED
    BY <2>2, <2>3, <2>4
<1>5. \A i \in 1..Len(e.auts) : \A v \in S : e.auts[i][v] # v => Together(p, v, e.auts[i][v])
  BY <1>2, <1>4 DEF Meets
<1>6. IsFiniteSet(S)
  <2>1. Len(e.places) + 1 \in Int /\ Len(e.places) + Len(e.nops) \in Int
    BY ProductParts
  <2>. QED
    BY <2>1, FS_Interval DEF NopVertices
<1>7. ASSUME NEW v \in S, NEW w \in S, v # w, SameOrbit(e.auts, S, v, w)
      PROVE  Together(p, v, w)
  <2>. DEFINE C == {u \in S : u = v \/ Together(p, v, u)}
  <2>1. C \in SUBSET S /\ v \in C /\ IsFiniteSet(C)
    BY <1>6, FS_Subset
  <2>2. ASSUME NEW i \in DOMAIN e.auts
        PROVE  {e.auts[i][u] : u \in C} = C
    <3>1. PICK f : f = e.auts[i]
      OBVIOUS
    <3>2. ASSUME NEW u \in C
          PROVE  f[u] \in C
      <4>1. f[u] \in S
        BY <1>1, <3>1 DEF MapTo
      <4>2. f[u] = u \/ Together(p, u, f[u])
        BY <1>1, <1>5, <3>1
      <4>3. CASE f[u] = u
        BY <4>3
      <4>4. CASE Together(p, u, f[u])
        <5>1. Together(p, v, f[u])
          BY <4>4 DEF Together
        <5>. QED
          BY <4>1, <5>1
      <4>. QED
        BY <4>2, <4>3, <4>4
    <3>3. \A u, x \in C : f[u] = f[x] => u = x
      <4>1. \A u \in C : u \in Vertices(e)
        BY <1>1
      <4>. QED
        BY <3>1, <4>1, ProductParts
    <3>. HIDE DEF C
    <3>4. {f[u] : u \in C} = C
      BY <2>1, <3>2, <3>3, ImageOfFinite
    <3>. QED
      BY <3>1, <3>4
  <2>. HIDE DEF C
  <2>3. w \in C
    BY <1>7, <2>1, <2>2 DEF SameOrbit
  <2>. QED
    BY <1>7, <2>3 DEF C
<1>. QED
  BY <1>2, <1>3, <1>7

LEMMA IndexPartitions ==
  ASSUME NEW e, IsProduct(e), TopologyApplies(e),
         NEW S \in WideSides(e), NEW i \in S, NEW j \in S
  PROVE  SameOrbit(e.auts, Indices(e), i, j)
<1>. SUFFICES ASSUME NEW C \in SUBSET Indices(e),
                     \A k \in DOMAIN e.auts : {e.auts[k][u] : u \in C} = C
              PROVE  i \in C <=> j \in C
  BY DEF SameOrbit
<1>1. PICK p : p = ComputePartitions(e.auts, IndexOrder(e), ExcludedIndices(e))
  OBVIOUS
<1>2. Together(p, i, j)
  BY <1>1 DEF TopologyApplies, Together
<1>3. /\ IndexOrder(e) \in Seq(Vertices(e)) /\ MapTo(e.auts, Vertices(e))
      /\ e.auts \in Seq([Vertices(e) -> Vertices(e)])
  BY ProductParts
<1>4. C \in SUBSET Vertices(e)
  BY DEF Vertices
<1>5. Closed(e.auts, IndexOrder(e), C)
  BY <1>3, <1>4, ClosedIs
<1>6. Respects(p, C)
  BY <1>1, <1>3, <1>5, PartitionsAre
<1>. QED
  BY <1>2, <1>6 DEF Respects

-----------------------------------------------------------------------------
(***************************************************************************)
(* Lists of partitions of n operators, and the numbers they give.          *)
(***************************************************************************)
IsListing(L, n) ==
  /\ L \in Seq((SUBSET (1..n)) \ {{}})
  /\ \A k, l \in DOMAIN L : k # l => L[k] \cap L[l] = {}

\* no more lists than operators
LEMMA ListingLength ==
  ASSUME NEW n \in Nat, NEW L, IsListing(L, n)
  PROVE  /\ Len(L) \in Nat /\ DOMAIN L = 1..Len(L) /\ Len(L) <= n
         /\ \A k \in DOMAIN L : L[k] # {} /\ L[k] \subseteq 1..n
<1>1. Len(L) \in Nat /\ DOMAIN L = 1..Len(L)
  BY LenProperties DEF IsListing
<1>2. \A k \in DOMAIN L : L[k] # {} /\ L[k] \subseteq 1..n
  BY <1>1, ElementOfSeq DEF IsListing
<1>3. PICK f : f = [k \in DOMAIN L |-> CHOOSE x \in L[k] : TRUE]
  OBVIOUS
<1>4. \A k \in DOMAIN L : f[k] \in L[k] /\ f[k] \in 1..n
  BY <1>2, <1>3
<1>5. f \in Injection(1..Len(L), 1..n)
  <2>1. f \in [1..Len(L) -> 1..n]
    BY <1>1, <1>3, <1>4
  <2>2. \A k, l \in DOMAIN L : f[k] = f[l] => k = l
    BY <1>4 DEF IsListing
  <2>. QED
    BY <1>1, <2>1, <2>2 DEF Injection, IsInjective
<1>6. Cardinality(1..Len(L)) <= Cardinality(1..n)
  BY <1>5, FS_Injection, FS_Interval
<1>7. \A m \in Nat : Cardinality(1..m) = m
  <2>. TAKE m \in Nat
  <2>1. Cardinality(1..m) = IF 1 > m THEN 0 ELSE m - 1 + 1
    BY FS_Interval
  <2>. QED
    BY <2>1
<1>. QED
  BY <1>1, <1>2, <1>6, <1>7

\* q numbers the operators as the lists do, others having 0
Numbers(q, L) ==
  /\ \A k \in DOMAIN L : \A x \in L[k] : x \in DOMAIN q /\ q[x] = k
  /\ \A x \in DOMAIN q : q[x] # 0 => q[x] \in DOMAIN L /\ x \in L[q[x]]

AllZero(q) == \A x \in DOMAIN q : q[x] = 0

Listed(L) == UNION Range(L)

LEMMA ListedIs ==
  ASSUME NEW n \in Nat, NEW L, IsListing(L, n)
  PROVE  /\ \A x : x \in Listed(L) <=> \E k \in DOMAIN L : x \in L[k]
         /\ Listed(L) \subseteq 1..n /\ IsFiniteSet(Listed(L))
<1>1. \A x : x \in Listed(L) <=> \E k \in DOMAIN L : x \in L[k]
  BY DEF Listed, Range
<1>2. Listed(L) \subseteq 1..n
  BY <1>1, ListingLength
<1>3. IsFiniteSet(1..n)
  BY FS_Interval
<1>. QED
  BY <1>1, <1>2, <1>3, FS_Subset

\* what set_op_partitions makes of q
Renumbered(r, q, L) ==
  /\ r \in Seq(Nat) /\ Len(r) >= Len(q)
  /\ \A k \in DOMAIN L : \A x \in L[k] : x \in 1..Len(r) /\ r[x] = k
  /\ \A x \in 1..Len(r) : x \notin Listed(L) => r[x] = IF x \in 1..Len(q) THEN q[x] ELSE 0

LEMMA AssignedIs ==
  ASSUME NEW n \in Nat, NEW L, IsListing(L, n), NEW q \in Seq(Nat)
  PROVE  /\ Renumbered(Assigned(q, L), q, L)
         /\ \A b \in Nat : n <= b /\ Len(q) <= b => Len(Assigned(q, L)) <= b
<1>1. PICK r : r = Assigned(q, L)
  OBVIOUS
<1>2. PICK l : l = Len(q)
  OBVIOUS
<1>3. l \in Nat /\ DOMAIN q = 1..l
  BY <1>2, LenProperties
<1>4. PICK S : S = {l} \cup Listed(L)
  OBVIOUS
<1>5. PICK t : t = Max(S)
  OBVIOUS
<1>6. t \in Nat /\ t \in S /\ \A x \in S : t >= x
  <2>1. S \in SUBSET Int /\ S # {}
    <3>1. Listed(L) \subseteq 1..n
      BY ListedIs
    <3>. QED
      BY <1>3, <1>4, <3>1
  <2>2. IsFiniteSet(S)
    <3>1. IsFiniteSet(Listed(L)) /\ IsFiniteSet({l})
      BY ListedIs, FS_Singleton
    <3>. QED
      BY <1>4, <3>1, FS_Union
  <2>3. t \in S /\ \A x \in S : t >= x
    BY <1>5, <2>1, <2>2, MaxIs
  <2>. QED
    BY <1>3, <1>4, <2>3, ListedIs
<1>7. r = [a \in 1..t |-> IF a \in Listed(L)
                          THEN Max({k \in DOMAIN L : a \in L[k]})
                          ELSE IF a \in DOMAIN q THEN q[a] ELSE 0]
  BY <1>1, <1>2, <1>4, <1>5, Zenon DEF Assigned, Listed
<1>8. ASSUME NEW k \in DOMAIN L, NEW x \in L[k]
      PROVE  /\ x \in 1..t /\ x \in Listed(L)
             /\ Max({i \in DOMAIN L : x \in L[i]}) = k /\ k \in Nat
  <2>1. x \in Listed(L)
    BY ListedIs
  <2>2. x \in 1..t
    <3>1. x \in S /\ x \in 1..n
      BY <1>4, <2>1, ListedIs
    <3>. QED
      BY <1>6, <3>1
  <2>3. {i \in DOMAIN L : x \in L[i]} = {k}
    BY DEF IsListing
  <2>4. k \in Nat
    BY ListingLength
  <2>5. Max({k}) \in {k}
    <3>1. PICK T : T = {k}
      OBVIOUS
    <3>2. IsFiniteSet(T)
      BY <3>1, FS_Singleton, Zenon
    <3>3. T \in SUBSET Int /\ T # {}
      BY <2>4, <3>1
    <3>4. Max(T) \in T
      BY <3>2, <3>3, MaxIs
    <3>. QED
      BY <3>1, <3>4
  <2>6. Max({i \in DOMAIN L : x \in L[i]}) = k
    BY <2>3, <2>5, Zenon
  <2>. QED
    BY <2>1, <2>2, <2>4, <2>6
<1>9. \A k \in DOMAIN L : \A x \in L[k] : x \in 1..t /\ r[x] = k /\ k \in Nat
  BY <1>7, <1>8
<1>10. \A x \in 1..t : x \notin Listed(L) => r[x] = IF x \in 1..l THEN q[x] ELSE 0
  BY <1>3, <1>7
<1>11. \A x \in 1..t : r[x] \in Nat
  <2>1. \A x \in 1..l : q[x] \in Nat
    BY <1>2, ElementOfSeq
  <2>. QED
    BY <1>9, <1>10, <2>1, ListedIs
<1>12. r \in Seq(Nat) /\ Len(r) = t
  <2>1. DOMAIN r = 1..t /\ r = [x \in 1..t |-> r[x]]
    BY <1>7
  <2>. QED
    BY <1>6, <1>11, <2>1
<1>13. Renumbered(r, q, L)
  <2>1. t >= l
    BY <1>4, <1>6
  <2>. QED
    BY <1>2, <1>9, <1>10, <1>12, <2>1 DEF Renumbered
<1>14. ASSUME NEW b \in Nat, n <= b, l <= b
       PROVE  t <= b
  <2>1. \A x \in S : x <= b
    BY <1>3, <1>4, <1>14, ListedIs
  <2>. QED
    BY <1>6, <2>1
<1>. QED
  BY <1>1, <1>2, <1>12, <1>13, <1>14

\* the numbers after the lists were taken, when there were none or the same before
LEMMA AssignedNumbers ==
  ASSUME NEW n \in Nat, NEW L, IsListing(L, n), NEW q \in Seq(Nat),
         AllZero(q) \/ Numbers(q, L), NEW r, Renumbered(r, q, L)
  PROVE  Numbers(r, L)
<1>1. DOMAIN q = 1..Len(q) /\ DOMAIN r = 1..Len(r)
  BY LenProperties DEF Renumbered
<1>2. \A x \in 1..Len(r) : x \notin Listed(L) => r[x] = 0
  <2>1. \A x \in DOMAIN q : x \notin Listed(L) => q[x] = 0
    BY ListedIs DEF AllZero, Numbers
  <2>. QED
    BY <1>1, <2>1 DEF Renumbered
<1>. QED
  BY <1>1, <1>2, ListedIs DEF Renumbered, Numbers

LEMMA UpsizedIs ==
  ASSUME NEW n \in Nat, NEW q \in Seq(Nat), NEW r, r = Upsized(q, n)
  PROVE  /\ r \in Seq(Nat) /\ Len(r) >= n /\ Len(r) >= Len(q)
         /\ \A b \in Nat : n <= b /\ Len(q) <= b => Len(r) <= b
         /\ \A x \in 1..Len(r) : r[x] = IF x \in 1..Len(q) THEN q[x] ELSE 0
         /\ AllZero(q) => AllZero(r)
         /\ \A L : Numbers(q, L) => Numbers(r, L)
<1>1. Len(q) \in Nat /\ DOMAIN q = 1..Len(q)
  BY LenProperties
<1>2. PICK l, S, t : l = Len(q) /\ S = {n, l} /\ t = Max(S)
  OBVIOUS
<1>3. t \in S /\ \A y \in S : t >= y
  <2>1. S \in SUBSET Int /\ S # {}
    BY <1>1, <1>2
  <2>2. IsFiniteSet(S)
    <3>1. IsFiniteSet({n}) /\ IsFiniteSet({l}) /\ S = {n} \cup {l}
      BY <1>2, FS_Singleton
    <3>. QED
      BY <3>1, FS_Union
  <2>. QED
    BY <1>2, <2>1, <2>2, MaxIs
<1>4. t \in Nat /\ t >= n /\ t >= l /\ t \in {n, l}
  BY <1>1, <1>2, <1>3
<1>5. r = [a \in 1..t |-> IF a <= l THEN q[a] ELSE 0]
  BY <1>2, Zenon DEF Upsized
<1>6. \A x \in 1..t : r[x] = IF x \in 1..l THEN q[x] ELSE 0
  BY <1>1, <1>2, <1>4, <1>5
<1>7. r \in Seq(Nat) /\ Len(r) = t /\ DOMAIN r = 1..t
  <2>1. \A x \in 1..l : q[x] \in Nat
    BY <1>2, ElementOfSeq
  <2>2. \A x \in 1..t : r[x] \in Nat
    BY <1>6, <2>1
  <2>3. DOMAIN r = 1..t /\ r = [x \in 1..t |-> r[x]]
    BY <1>5
  <2>. QED
    BY <1>4, <2>2, <2>3
<1>8. AllZero(q) => AllZero(r)
  BY <1>1, <1>2, <1>6, <1>7 DEF AllZero
<1>9. ASSUME NEW L, Numbers(q, L)
      PROVE  Numbers(r, L)
  <2>1. \A x \in 1..l : x \in 1..t
    BY <1>1, <1>2, <1>4
  <2>. QED
    BY <1>1, <1>2, <1>6, <1>7, <1>9, <2>1 DEF Numbers
<1>. QED
  BY <1>1, <1>2, <1>4, <1>6, <1>7, <1>8, <1>9

-----------------------------------------------------------------------------
(***************************************************************************)
(* The lists of partitions that compute() makes of the operators: disjoint *)
(* and none empty, two operators being in one if and only if an            *)
(* automorphism takes one to the other.                                    *)
(***************************************************************************)
Disjoint(L) == \A k, l \in 1..Len(L) : k # l => L[k] \cap L[l] = {}

\* at most one set in each part, disjoint from those of the others
Apart(q) ==
  /\ \A i \in 1..Len(q) : Len(q[i]) <= 1
  /\ \A i, j \in 1..Len(q) : i # j =>
       \A k \in 1..Len(q[i]) : \A l \in 1..Len(q[j]) : q[i][k] \cap q[j][l] = {}

LEMMA FlattenDisjoint ==
  ASSUME NEW S, NEW q \in Seq(Seq(S)), Apart(q)
  PROVE  Disjoint(FlattenSeq(q))
<1>1. PICK n \in Nat : n = Len(q)
  BY LenProperties
<1>2. PICK flat : IsFlattening(flat, q, n) /\ \A i \in 0..n : flat[i] \in Seq(S)
  BY <1>1, FlattenSteps
<1>3. \A i \in 1..n : q[i] \in Seq(S)
  BY <1>1, ElementOfSeq
<1>. DEFINE From(m) == \A k \in 1..Len(flat[m]) : \E i \in 1..m : \E j \in 1..Len(q[i]) :
                         flat[m][k] = q[i][j]
            R == {m \in 0..n : From(m) /\ Disjoint(flat[m])}
<1>4. 0 \in R
  <2>1. Len(flat[0]) = 0
    BY <1>2, EmptySeq DEF IsFlattening
  <2>. QED
    BY <2>1 DEF Disjoint
<1>5. ASSUME NEW m \in 0..(n - 1), m \in R
      PROVE  m + 1 \in R
  <2>1. m \in 0..n /\ m + 1 \in 0..n /\ m + 1 \in 1..n /\ 1..(m + 1) = (1..m) \cup {m + 1}
    OBVIOUS
  <2>2. PICK a, b, c : a = flat[m] /\ b = q[m + 1] /\ c = flat[m + 1]
    OBVIOUS
  <2>3. a \in Seq(S) /\ b \in Seq(S) /\ c = a \o b
    BY <1>2, <1>3, <2>1, <2>2 DEF IsFlattening
  <2>4. /\ Len(a) \in Nat /\ Len(b) \in Nat /\ Len(c) = Len(a) + Len(b)
        /\ \A k \in 1..Len(a) : c[k] = a[k]
        /\ \A k \in 1..Len(c) : k > Len(a) => c[k] = b[k - Len(a)]
    <3>1. Len(a) \in Nat /\ Len(b) \in Nat
      BY <2>3, LenProperties
    <3>2. /\ Len(c) = Len(a) + Len(b)
          /\ \A k \in 1..(Len(a) + Len(b)) : c[k] = IF k <= Len(a) THEN a[k] ELSE b[k - Len(a)]
      BY <2>3, ConcatProperties
    <3>. QED
      BY <3>1, <3>2
  <2>5. \A k \in 1..Len(c) : k \in 1..Len(a) \/ (k > Len(a) /\ k - Len(a) \in 1..Len(b))
    BY <2>4
  <2>6. \A k \in 1..Len(a) : \E i \in 1..m : \E j \in 1..Len(q[i]) : a[k] = q[i][j]
    BY <1>5, <2>2
  <2>7. \A k \in 1..Len(c) : \E i \in 1..(m + 1) : \E j \in 1..Len(q[i]) : c[k] = q[i][j]
    <3>. TAKE k \in 1..Len(c)
    <3>1. CASE k \in 1..Len(a)
      <4>1. PICK i \in 1..m : \E j \in 1..Len(q[i]) : a[k] = q[i][j]
        BY <2>6, <3>1
      <4>2. i \in 1..(m + 1) /\ c[k] = a[k]
        BY <2>1, <2>4, <3>1
      <4>. QED
        BY <4>1, <4>2
    <3>2. CASE k > Len(a) /\ k - Len(a) \in 1..Len(b)
      BY <2>1, <2>2, <2>4, <3>2
    <3>. QED
      BY <2>5, <3>1, <3>2
  <2>8. ASSUME NEW k \in 1..Len(c), NEW l \in 1..Len(c), k < l
        PROVE  c[k] \cap c[l] = {}
    <3>1. CASE l \in 1..Len(a)
      <4>1. k \in 1..Len(a) /\ k # l
        BY <2>4, <2>8, <3>1
      <4>. QED
        BY <1>5, <2>2, <2>4, <3>1, <4>1 DEF Disjoint
    <3>2. CASE l > Len(a) /\ l - Len(a) \in 1..Len(b)
      <4>1. Len(b) <= 1
        BY <1>1, <2>1, <2>2 DEF Apart
      <4>2. k \in 1..Len(a)
        BY <2>4, <2>8, <3>2, <4>1
      <4>3. PICK i \in 1..m : \E j \in 1..Len(q[i]) : a[k] = q[i][j]
        BY <2>6, <4>2
      <4>4. i # m + 1 /\ i \in 1..n
        BY <2>1
      <4>5. c[l] = b[l - Len(a)] /\ c[k] = a[k]
        BY <2>4, <3>2, <4>2
      <4>6. \A j \in 1..Len(q[i]) : \A r \in 1..Len(b) : q[i][j] \cap b[r] = {}
        BY <1>1, <2>1, <2>2, <4>4 DEF Apart
      <4>. QED
        BY <3>2, <4>3, <4>5, <4>6
    <3>. QED
      BY <2>5, <3>1, <3>2
  <2>9. Disjoint(c)
    <3>1. \A k, l \in 1..Len(c) : k # l => k < l \/ l < k
      BY <2>4
    <3>. QED
      BY <2>8, <3>1 DEF Disjoint
  <2>. QED
    BY <2>1, <2>2, <2>7, <2>9
<1>. HIDE DEF R
<1>6. n \in R
  <2>1. \A m \in 0..n : m \in R
    BY <1>4, <1>5, IntervalInduction
  <2>. QED
    BY <2>1
<1>. QED
  BY <1>2, <1>6 DEF R, IsFlattening

\* the lists hold v's and w's operator together if v and w are in one orbit
Orbits(L, e) ==
  \A v, w \in NopVertices(e) : v # w =>
    (SameOrbit(e.auts, NopVertices(e), v, w) <=>
       \E k \in DOMAIN L : v - Len(e.places) \in L[k] /\ w - Len(e.places) \in L[k])

\* the sets of one partition each, where empty ones are left out
IsParts(q, e, p, n) ==
  q = [k \in 1..n |-> IF Members(e, p, k - 1) = {} THEN <<>> ELSE <<Members(e, p, k - 1)>>]

LEMMA NopListsAre ==
  ASSUME NEW e, IsProduct(e)
  PROVE  IsListing(NopLists(e), Len(e.nops)) /\ Orbits(NopLists(e), e)
<1>1. PICK p, a, b : /\ p = ComputePartitions(e.auts, NopOrder(e), {})
                     /\ a = Len(e.places) /\ b = Len(e.nops)
  OBVIOUS
<1>2. PICK n : n = p.last + 1
  OBVIOUS
<1>3. PICK M : M = [k \in 1..n |-> Members(e, p, k - 1)]
  OBVIOUS
<1>4. PICK q : IsParts(q, e, p, n)
  BY DEF IsParts
<1>5. PICK L : L = NopLists(e)
  OBVIOUS
<1>6. L = FlattenSeq(q)
  BY <1>1, <1>2, <1>4, <1>5 DEF NopLists, IsParts
<1>7. a \in Nat /\ b \in Nat /\ NopVertices(e) = (a + 1)..(a + b)
  BY <1>1, ProductParts DEF NopVertices
<1>8. /\ IsPartition(p, NopVertices(e))
      /\ \A v, w \in NopVertices(e) : v # w =>
           (Together(p, v, w) <=> SameOrbit(e.auts, NopVertices(e), v, w))
  BY <1>1, NopPartitions
<1>9. n \in Nat /\ \A v \in DOMAIN p.of : v \in (a + 1)..(a + b) /\ p.of[v] + 1 \in 1..n
                                          /\ (p.of[v] + 1) - 1 = p.of[v]
  BY <1>2, <1>7, <1>8 DEF IsPartition
<1>10. \A k \in 1..n : \A v \in (a + 1)..(a + b) :
         v - a \in M[k] <=> v \in DOMAIN p.of /\ p.of[v] = k - 1
  <2>. SUFFICES ASSUME NEW k \in 1..n, NEW v \in (a + 1)..(a + b)
                PROVE  v - a \in M[k] <=> v \in DOMAIN p.of /\ p.of[v] = k - 1
    OBVIOUS
  <2>1. M[k] = {u - a : u \in {w \in DOMAIN p.of : p.of[w] = k - 1}}
    BY <1>1, <1>3 DEF Members
  <2>2. \A u \in DOMAIN p.of : u - a = v - a => u = v
    BY <1>7, <1>9
  <2>. QED
    BY <2>1, <2>2
<1>11. \A k \in 1..n : \A x \in M[k] : x \in 1..b /\ x + a \in DOMAIN p.of /\ p.of[x + a] = k - 1
  <2>. SUFFICES ASSUME NEW k \in 1..n, NEW x \in M[k]
                PROVE  x \in 1..b /\ x + a \in DOMAIN p.of /\ p.of[x + a] = k - 1
    OBVIOUS
  <2>1. M[k] = {u - a : u \in {w \in DOMAIN p.of : p.of[w] = k - 1}}
    BY <1>1, <1>3 DEF Members
  <2>2. PICK u \in DOMAIN p.of : p.of[u] = k - 1 /\ x = u - a
    BY <2>1
  <2>3. x \in 1..b /\ x + a = u
    BY <1>7, <1>9, <2>2
  <2>. QED
    BY <2>2, <2>3
<1>12. /\ DOMAIN q = 1..n
       /\ \A k \in 1..n : q[k] = IF M[k] = {} THEN <<>> ELSE <<M[k]>>
  BY <1>3, <1>4 DEF IsParts
<1>. DEFINE S == (SUBSET (1..b)) \ {{}}
<1>13. \A k \in 1..n : M[k] \in SUBSET (1..b)
  BY <1>11
<1>. HIDE DEF S
<1>14. \A k \in 1..n : /\ q[k] \in Seq(S)
                       /\ M[k] = {} => Len(q[k]) = 0
                       /\ M[k] # {} => Len(q[k]) = 1 /\ q[k][1] = M[k]
  <2>. SUFFICES ASSUME NEW k \in 1..n
                PROVE  /\ q[k] \in Seq(S)
                       /\ M[k] = {} => Len(q[k]) = 0
                       /\ M[k] # {} => Len(q[k]) = 1 /\ q[k][1] = M[k]
    OBVIOUS
  <2>1. CASE M[k] = {}
    <3>1. q[k] = <<>>
      BY <1>12, <2>1
    <3>. QED
      BY <2>1, <3>1, EmptySeq
  <2>2. CASE M[k] # {}
    <3>1. M[k] \in S
      BY <1>13, <2>2 DEF S
    <3>2. q[k] = <<M[k]>>
      BY <1>12, <2>2
    <3>. QED
      BY <2>2, <3>1, <3>2
  <2>. QED
    BY <2>1, <2>2
<1>14a. \A k \in 1..n : \A j \in 1..Len(q[k]) : M[k] # {} /\ q[k][j] = M[k] /\ Len(q[k]) <= 1
  <2>. TAKE k \in 1..n
  <2>1. CASE M[k] = {}
    BY <1>14, <2>1
  <2>2. CASE M[k] # {}
    <3>1. \A j \in 1..1 : j = 1
      OBVIOUS
    <3>2. Len(q[k]) = 1 /\ q[k][1] = M[k]
      BY <1>14, <2>2, Zenon
    <3>4. Len(q[k]) <= 1
      BY <3>2
    <3>3. \A j \in 1..Len(q[k]) : q[k][j] = M[k]
      BY <3>1, <3>2, Zenon
    <3>. QED
      BY <2>2, <3>3, <3>4
  <2>. QED
    BY <2>1, <2>2
<1>15. q \in Seq(Seq(S)) /\ Len(q) = n
  <2>1. q = [k \in 1..n |-> q[k]]
    BY <1>4, <1>12 DEF IsParts
  <2>. QED
    BY <1>9, <1>14, <2>1
<1>16. L \in Seq(S) /\ Joins(L, q)
  BY <1>6, <1>15, FlattenElements
<1>17. Len(L) \in Nat /\ DOMAIN L = 1..Len(L)
  BY <1>16, LenProperties
<1>18. \A r \in DOMAIN L : \E k \in 1..n : M[k] # {} /\ L[r] = M[k]
  <2>. TAKE r \in DOMAIN L
  <2>1. PICK k \in 1..n : \E j \in 1..Len(q[k]) : L[r] = q[k][j]
    BY <1>15, <1>16, <1>17 DEF Joins
  <2>2. M[k] # {} /\ \A j \in 1..Len(q[k]) : q[k][j] = M[k]
    BY <1>14a, <2>1
  <2>. QED
    BY <2>1, <2>2
<1>19. ASSUME NEW k \in 1..n, M[k] # {}
       PROVE  \E r \in DOMAIN L : L[r] = M[k]
  <2>1. 1 \in 1..Len(q[k]) /\ q[k][1] = M[k]
    BY <1>14, <1>19
  <2>2. \E r \in 1..Len(L) : L[r] = q[k][1]
    BY <1>15, <1>16, <2>1 DEF Joins
  <2>. QED
    BY <1>17, <2>1, <2>2
<1>20. Disjoint(L)
  <2>1. \A k \in 1..n : Len(q[k]) <= 1 /\ \A j \in 1..Len(q[k]) : q[k][j] = M[k]
    BY <1>14, <1>14a
  <2>2. \A k, l \in 1..n : k # l => M[k] \cap M[l] = {}
    <3>1. \A k, l \in 1..n : k # l => k - 1 # l - 1
      OBVIOUS
    <3>. QED
      BY <1>11, <3>1
  <2>3. Apart(q)
    BY <1>15, <2>1, <2>2 DEF Apart
  <2>. QED
    BY <1>6, <1>15, <2>3, FlattenDisjoint
<1>21. IsListing(L, b)
  BY <1>16, <1>17, <1>20 DEF IsListing, Disjoint, S
<1>22. ASSUME NEW v \in NopVertices(e), NEW w \in NopVertices(e)
       PROVE  Together(p, v, w) <=> \E k \in DOMAIN L : v - a \in L[k] /\ w - a \in L[k]
  <2>1. v \in (a + 1)..(a + b) /\ w \in (a + 1)..(a + b)
    BY <1>7
  <2>2. ASSUME Together(p, v, w)
        PROVE  \E k \in DOMAIN L : v - a \in L[k] /\ w - a \in L[k]
    <3>1. PICK k \in 1..n : k - 1 = p.of[v]
      BY <1>9, <2>2 DEF Together
    <3>2. v - a \in M[k] /\ w - a \in M[k]
      BY <1>10, <2>1, <2>2, <3>1 DEF Together
    <3>. QED
      BY <1>19, <3>2
  <2>3. ASSUME NEW r \in DOMAIN L, v - a \in L[r], w - a \in L[r]
        PROVE  Together(p, v, w)
    <3>1. PICK k \in 1..n : L[r] = M[k]
      BY <1>18
    <3>. QED
      BY <1>10, <2>1, <2>3, <3>1 DEF Together
  <2>. QED
    BY <2>2, <2>3
<1>23. Orbits(L, e)
  BY <1>1, <1>8, <1>22 DEF Orbits
<1>. QED
  BY <1>1, <1>5, <1>21, <1>23

-----------------------------------------------------------------------------
(***************************************************************************)
(* What compute() makes of an object that is in order, and what it gives   *)
(* the engine.                                                             *)
(***************************************************************************)
Ops == Seq(Seq(Op) \ {<<>>})

InRange(pairs, n) == \A p \in pairs : p \subseteq 1..n

Valid(w) ==
  /\ Shape(w)
  /\ w.input \in Ops
  /\ w.full \in BOOLEAN /\ w.topology \in BOOLEAN /\ w.spinfree \in BOOLEAN
  /\ w.topology => w.full
  /\ w.connections \in PairSets \cup {{}} /\ w.cached \in PairSets \cup {{}}
  /\ InRange(w.connections, Len(w.input)) /\ w.entries \in Nat
  /\ w.partition \in Seq(Nat)

LEMMA ValidSwitches ==
  ASSUME NEW w, Valid(w), NEW x \in BOOLEAN
  PROVE  /\ (w.topology => x) => Valid([w EXCEPT !.full = x])
         /\ (x => w.full) => Valid([w EXCEPT !.topology = x])
         /\ Valid([w EXCEPT !.spinfree = x])
         /\ [w EXCEPT !.full = x].partition = w.partition
         /\ [w EXCEPT !.topology = x].partition = w.partition
         /\ [w EXCEPT !.spinfree = x].partition = w.partition
<1>1. Shape(w)
  BY DEF Valid
<1>2. PICK f, t, s : /\ f = [w EXCEPT !.full = x] /\ t = [w EXCEPT !.topology = x]
                     /\ s = [w EXCEPT !.spinfree = x]
  OBVIOUS
<1>3. Agree(f, w) /\ Agree(t, w) /\ Agree(s, w)
  BY <1>1, <1>2, Switches
<1>4. /\ f.full = x /\ f.topology = w.topology /\ f.spinfree = w.spinfree /\ f.partition = w.partition
      /\ t.full = w.full /\ t.topology = x /\ t.spinfree = w.spinfree /\ t.partition = w.partition
      /\ s.full = w.full /\ s.topology = w.topology /\ s.spinfree = x /\ s.partition = w.partition
  BY <1>1, <1>2 DEF Shape
<1>5. /\ (w.topology => x) => Valid(f)
      /\ (x => w.full) => Valid(t)
      /\ Valid(s)
  BY <1>3, <1>4 DEF Valid, Agree
<1>. QED
  BY <1>2, <1>4, <1>5

\* v differs from w in its partitions only
Repartitioned(v, w, q) ==
  /\ Agree(v, w) /\ v.partition = q
  /\ v.full = w.full /\ v.topology = w.topology /\ v.spinfree = w.spinfree

LEMMA PartitionSet ==
  ASSUME NEW w, Shape(w), NEW q
  PROVE  Repartitioned([w EXCEPT !.partition = q], w, q)
<1>1. PICK v : v = [w EXCEPT !.partition = q]
  OBVIOUS
<1>2. Agree(v, w)
  BY <1>1, Switches
<1>3. v.partition = q /\ v.full = w.full /\ v.topology = w.topology /\ v.spinfree = w.spinfree
  BY <1>1 DEF Shape
<1>. QED
  BY <1>1, <1>2, <1>3 DEF Repartitioned

LEMMA PartitionValid ==
  ASSUME NEW w, Valid(w), NEW q \in Seq(Nat), NEW v, Repartitioned(v, w, q)
  PROVE  Valid(v) /\ v.input = w.input /\ v.topology = w.topology /\ v.partition = q
  BY DEF Repartitioned, Agree, Valid

\* the operators replaced by as many or more
LEMMA InputValid ==
  ASSUME NEW w, Valid(w), NEW x \in Ops, Len(w.input) <= Len(x),
         NEW v, v = [w EXCEPT !.input = x]
  PROVE  Valid(v) /\ v.input = x /\ v.topology = w.topology /\ v.partition = w.partition
<1>1. Shape(w)
  BY DEF Valid
<1>2. /\ Shape(v) /\ v.input = x
      /\ v.connections = w.connections /\ v.entries = w.entries /\ v.cached = w.cached
  BY <1>1, Inputs
<1>3. /\ v.partition = w.partition /\ v.full = w.full /\ v.topology = w.topology
      /\ v.spinfree = w.spinfree
  BY <1>1 DEF Shape
<1>4. Len(w.input) \in Nat /\ Len(x) \in Nat
  BY LenProperties DEF Valid, Ops
<1>5. InRange(w.connections, Len(x))
  BY <1>4 DEF Valid, InRange
<1>. QED
  BY <1>2, <1>3, <1>5 DEF Valid

LEMMA CachedValid ==
  ASSUME NEW w, Valid(w), NEW x \in PairSets, NEW v, v = [w EXCEPT !.cached = x]
  PROVE  Valid(v) /\ v.input = w.input /\ v.partition = w.partition
<1>1. Shape(w)
  BY DEF Valid
<1>2. /\ Shape(v) /\ v.input = w.input
      /\ v.connections = w.connections /\ v.entries = w.entries /\ v.cached = x
  BY <1>1, CachedPairs
<1>3. /\ v.partition = w.partition /\ v.full = w.full /\ v.topology = w.topology
      /\ v.spinfree = w.spinfree
  BY <1>1 DEF Shape
<1>. QED
  BY <1>2, <1>3 DEF Valid

LEMMA RegisterValid ==
  ASSUME NEW w, Valid(w), NEW x \in PairSets, ~OutOfRange(w, x), NEW v, v = Register(w, x)
  PROVE  /\ Valid(v) /\ v.input = w.input /\ v.topology = w.topology
         /\ v.partition = w.partition
<1>1. Shape(w)
  BY DEF Valid
<1>2. /\ Shape(v) /\ v.input = w.input /\ v.cached = {}
      /\ v.connections = IF x # {} THEN x ELSE w.connections
      /\ v.entries = IF x # {} THEN Len(w.input) ELSE w.entries
  BY <1>1, Registered
<1>. DEFINE c == IF x # {} THEN x ELSE w.connections
            n == IF x # {} THEN Len(w.input) ELSE w.entries
            none == {}
<1>3. v = [w EXCEPT !.connections = c, !.entries = n, !.cached = none]
  BY DEF Register
<1>. HIDE DEF c, n, none
<1>4. /\ v.partition = w.partition /\ v.full = w.full /\ v.topology = w.topology
      /\ v.spinfree = w.spinfree
  BY <1>1, <1>3 DEF Shape
<1>5. InRange(x, Len(w.input))
  BY DEF OutOfRange, InRange
<1>6. v.entries \in Nat
  <2>1. Len(w.input) \in Nat
    BY LenProperties DEF Valid, Ops
  <2>. QED
    BY <1>2, <2>1 DEF Valid
<1>. QED
  BY <1>2, <1>4, <1>5, <1>6 DEF Valid

-----------------------------------------------------------------------------
(***************************************************************************)
(* compute_nopseq: w is returned as it was or made ready for the engine.   *)
(***************************************************************************)
Nopsed(r, w, e) ==
  /\ Valid(r.wt) /\ r.wt.input = w.input /\ r.wt.topology = w.topology
  /\ r.wt.partition = w.partition \/ r.wt.partition = Upsized(w.partition, Len(w.input))
  /\ \A c \in r.calls : /\ c = EngineCall(r.wt, e)
                        /\ r.wt.partition = Upsized(w.partition, Len(w.input))

LEMMA NopseqValid ==
  ASSUME NEW w, Valid(w), NEW e
  PROVE  Nopsed(ComputeNopseq(w, e), w, e)
<1>. DEFINE r == ComputeNopseq(w, e)
<1>1. CASE w.spinfree \/ (w.cached # {} /\ OutOfRange(w, w.cached))
  <2>1. r = [wt |-> w, threw |-> TRUE, calls |-> {}]
    BY <1>1 DEF ComputeNopseq, Throws
  <2>. QED
    BY <2>1 DEF Nopsed
<1>2. CASE ~(w.spinfree \/ (w.cached # {} /\ OutOfRange(w, w.cached)))
  <2>. DEFINE known == IF w.cached # {} THEN Register(w, w.cached) ELSE w
              ready == [known EXCEPT !.partition = Upsized(@, Len(w.input))]
  <2>1. /\ Valid(known) /\ known.input = w.input /\ known.topology = w.topology
        /\ known.partition = w.partition
    <3>1. CASE w.cached # {}
      <4>1. w.cached \in PairSets /\ ~OutOfRange(w, w.cached)
        BY <1>2, <3>1 DEF Valid
      <4>. QED
        BY <3>1, <4>1, RegisterValid
    <3>2. CASE w.cached = {}
      BY <3>2
    <3>. QED
      BY <3>1, <3>2
  <2>. DEFINE q == Upsized(w.partition, Len(w.input))
  <2>2. ready = [known EXCEPT !.partition = q]
    BY <2>1 DEF Valid, Shape
  <2>3. q \in Seq(Nat)
    <3>1. Len(w.input) \in Nat /\ w.partition \in Seq(Nat)
      BY LenProperties DEF Valid, Ops
    <3>. QED
      BY <3>1, UpsizedIs
  <2>4. r = [wt |-> ready, threw |-> FALSE, calls |-> {EngineCall(ready, e)}]
    BY <1>2 DEF ComputeNopseq, Returns, known
  <2>. HIDE DEF known, q, ready
  <2>5. /\ Valid(ready) /\ ready.input = w.input /\ ready.topology = w.topology
        /\ ready.partition = q
    <3>1. Repartitioned(ready, known, q)
      BY <2>1, <2>2, PartitionSet DEF Valid
    <3>. QED
      BY <2>1, <2>3, <3>1, PartitionValid
  <2>6. /\ r.wt = ready /\ r.calls = {EngineCall(ready, e)}
    BY <2>4
  <2>. HIDE DEF r
  <2>7. Nopsed(r, w, e)
    BY <2>5, <2>6 DEF Nopsed, q
  <2>. QED
    BY <2>7 DEF r
<1>. QED
  BY <1>1, <1>2

-----------------------------------------------------------------------------
\* no operator has a partition, or each has that of the lists compute() makes
Grouped(q, e) == AllZero(q) \/ Numbers(q, NopLists(e))

\* numbers are only given to operators that are there
Fits(w, e) == Len(w.partition) <= Len(w.input) \/ Len(w.partition) <= Len(e.nops)

\* what every call of the engine is given
ValidCall(c) ==
  /\ c.nops \in Ops /\ c.nops # <<>>
  /\ c.full \in BOOLEAN /\ c.topology \in BOOLEAN /\ (c.topology => c.full)
  /\ c.target \in PairSets \cup {{}} /\ InRange(c.target, Len(c.nops))
  /\ c.partition \in Seq(Nat) /\ Len(c.partition) = Len(c.nops)

\* what it is given for a product
DividedCall(c) ==
  /\ Grouped(c.partition, c.product)
  /\ c.topology => TopologyApplies(c.product) /\ Numbers(c.partition, NopLists(c.product))
  /\ IsProduct(c.product) /\ Len(c.product.nops) <= Len(c.nops)

\* upsizing keeps what the numbers say
LEMMA UpsizedGroups ==
  ASSUME NEW n \in Nat, NEW q \in Seq(Nat), NEW e, Grouped(q, e)
  PROVE  Grouped(Upsized(q, n), e)
  BY UpsizedIs DEF Grouped

\* the engine's call, after the vector of partitions was made long enough
LEMMA CallValid ==
  ASSUME NEW w, Valid(w), w.input # <<>>, Len(w.partition) <= Len(w.input), NEW e,
         NEW r, Nopsed(r, w, e), NEW c \in r.calls
  PROVE  /\ ValidCall(c) /\ c.product = e /\ c.nops = w.input /\ c.topology = w.topology
         /\ c.partition = Upsized(w.partition, Len(w.input))
<1>1. PICK v : v = r.wt
  OBVIOUS
<1>2. /\ c = EngineCall(v, e) /\ v.partition = Upsized(w.partition, Len(w.input))
      /\ Valid(v) /\ v.input = w.input /\ v.topology = w.topology
  BY <1>1 DEF Nopsed
<1>3. /\ c.product = e /\ c.nops = v.input /\ c.target = v.connections
      /\ c.partition = v.partition /\ c.full = v.full /\ c.topology = v.topology
  BY <1>2 DEF EngineCall
<1>4. PICK n : n = Len(w.input)
  OBVIOUS
<1>5. n \in Nat /\ w.partition \in Seq(Nat) /\ Len(w.partition) <= n
  BY <1>4, LenProperties DEF Valid, Ops
<1>6. v.partition \in Seq(Nat) /\ Len(v.partition) >= n /\ Len(v.partition) <= n
  BY <1>2, <1>4, <1>5, UpsizedIs
<1>7. Len(v.partition) \in Nat
  BY <1>6, LenProperties
<1>8. Len(v.partition) = n
  BY <1>5, <1>6, <1>7
<1>9. ValidCall(c)
  BY <1>2, <1>3, <1>4, <1>6, <1>8 DEF ValidCall, Valid
<1>. QED
  BY <1>2, <1>3, <1>9

\* the partitions of a product's operators before the engine is called
LEMMA DividedIs ==
  ASSUME NEW e, IsProduct(e), NEW p \in Seq(Nat), Grouped(p, e), NEW topology \in BOOLEAN,
         NEW q, q = IF topology /\ NopLists(e) # <<>> THEN Assigned(p, NopLists(e)) ELSE p
  PROVE  /\ q \in Seq(Nat) /\ Grouped(q, e) /\ (topology => Numbers(q, NopLists(e)))
         /\ Len(q) <= Len(p) \/ Len(q) <= Len(e.nops)
<1>1. PICK L, n : L = NopLists(e) /\ n = Len(e.nops)
  OBVIOUS
<1>2. IsListing(L, n) /\ n \in Nat
  BY <1>1, NopListsAre, ProductParts
<1>3. Len(p) \in Nat
  BY LenProperties
<1>4. CASE topology /\ L # <<>>
  <2>1. q = Assigned(p, L)
    BY <1>1, <1>4
  <2>2. Renumbered(q, p, L) /\ \A b \in Nat : n <= b /\ Len(p) <= b => Len(q) <= b
    BY <1>2, <2>1, AssignedIs
  <2>3. Numbers(q, L)
    BY <1>1, <1>2, <2>2, AssignedNumbers DEF Grouped
  <2>4. Len(q) <= Len(p) \/ Len(q) <= n
    <3>1. n <= Len(p) \/ Len(p) <= n
      BY <1>2, <1>3
    <3>2. Len(p) <= Len(p) /\ n <= n
      BY <1>2, <1>3
    <3>. QED
      BY <1>2, <1>3, <2>2, <3>1, <3>2
  <2>. QED
    BY <1>1, <2>2, <2>3, <2>4 DEF Renumbered, Grouped
<1>5. CASE ~(topology /\ L # <<>>)
  <2>1. q = p
    BY <1>1, <1>5
  <2>2. topology => Numbers(q, L)
    <3>1. L = <<>> => DOMAIN L = {}
      OBVIOUS
    <3>2. CASE AllZero(p)
      BY <1>5, <2>1, <3>1, <3>2 DEF AllZero, Numbers
    <3>3. CASE Numbers(p, L)
      BY <2>1, <3>3
    <3>. QED
      BY <1>1, <3>2, <3>3 DEF Grouped
  <2>. QED
    BY <1>1, <1>3, <2>1, <2>2
<1>. QED
  BY <1>4, <1>5

LEMMA ProductValid ==
  ASSUME NEW e, IsProduct(e), NEW w, Valid(w), Grouped(w.partition, e), Fits(w, e),
         NEW r, r = ComputeProduct(w, e)
  PROVE  /\ Valid(r.wt) /\ Grouped(r.wt.partition, e) /\ Fits(r.wt, e)
         /\ \A c \in r.calls : ValidCall(c) /\ DividedCall(c)
<1>. DEFINE q == IF w.topology /\ NopLists(e) # <<>>
                 THEN Assigned(w.partition, NopLists(e)) ELSE w.partition
            divided == IF w.topology /\ NopLists(e) # <<>>
                       THEN [w EXCEPT !.partition = Assigned(@, NopLists(e))] ELSE w
            appended == [divided EXCEPT !.input = @ \o e.nops]
<1>1. \/ r = [wt |-> w, threw |-> FALSE, calls |-> {}]
      \/ r = [wt |-> divided, threw |-> TRUE, calls |-> {}]
      \/ e.nops # <<>> /\ (w.topology => TopologyApplies(e)) /\ r = ComputeNopseq(appended, e)
  BY DEF ComputeProduct, Returns, Throws
<1>2. /\ q \in Seq(Nat) /\ Grouped(q, e) /\ (w.topology => Numbers(q, NopLists(e)))
      /\ Len(q) <= Len(w.partition) \/ Len(q) <= Len(e.nops)
  <2>1. w.partition \in Seq(Nat) /\ w.topology \in BOOLEAN
    BY DEF Valid
  <2>. HIDE DEF q
  <2>. QED
    BY <2>1, DividedIs DEF q
<1>3. Valid(divided) /\ divided.input = w.input /\ divided.topology = w.topology
      /\ divided.partition = q
  <2>1. CASE w.topology /\ NopLists(e) # <<>>
    <3>1. divided = [w EXCEPT !.partition = q]
      BY <2>1
    <3>. HIDE DEF q, divided
    <3>2. Repartitioned(divided, w, q)
      BY <3>1, PartitionSet DEF Valid
    <3>. QED
      BY <1>2, <3>2, PartitionValid
  <2>2. CASE ~(w.topology /\ NopLists(e) # <<>>)
    BY <2>2
  <2>. QED
    BY <2>1, <2>2
<1>4. PICK n, m, l : n = Len(w.input) /\ m = Len(e.nops) /\ l = Len(q)
  OBVIOUS
<1>5. n \in Nat /\ m \in Nat /\ l \in Nat /\ Len(w.partition) \in Nat
  BY <1>2, <1>4, LenProperties, ProductParts DEF Valid, Ops
<1>6. (l <= n \/ l <= m) /\ Fits(divided, e)
  <2>1. Len(w.partition) <= n \/ Len(w.partition) <= m
    BY <1>4 DEF Fits
  <2>2. l <= n \/ l <= m
    BY <1>2, <1>4, <1>5, <2>1
  <2>. HIDE DEF q, divided
  <2>. QED
    BY <1>3, <1>4, <2>2 DEF Fits
<1>. DEFINE both == w.input \o e.nops
<1>7. both \in Ops /\ Len(both) = n + m
  <2>1. w.input \in Ops /\ e.nops \in Ops
    BY DEF Valid, IsProduct, Ops
  <2>. QED
    BY <1>4, <2>1, ConcatProperties DEF Ops
<1>8. appended = [divided EXCEPT !.input = both]
  BY <1>3 DEF Valid, Shape
<1>. HIDE DEF q, divided, both, appended
<1>9. /\ Valid(appended) /\ appended.input = both /\ appended.topology = w.topology
      /\ appended.partition = q
  <2>1. Len(divided.input) <= Len(both)
    <3>1. Len(divided.input) = n
      BY <1>3, <1>4, Zenon
    <3>2. n <= n + m
      BY <1>5
    <3>. QED
      BY <1>7, <3>1, <3>2
  <2>. QED
    BY <1>3, <1>7, <1>8, <2>1, InputValid
<1>10. CASE r = [wt |-> w, threw |-> FALSE, calls |-> {}]
  <2>1. r.wt = w /\ r.calls = {}
    BY <1>10
  <2>. QED
    BY <2>1
<1>11. CASE r = [wt |-> divided, threw |-> TRUE, calls |-> {}]
  <2>1. r.wt = divided /\ r.calls = {}
    BY <1>11
  <2>. QED
    BY <1>2, <1>3, <1>6, <2>1
<1>12. CASE e.nops # <<>> /\ (w.topology => TopologyApplies(e)) /\ r = ComputeNopseq(appended, e)
  <2>1. Nopsed(r, appended, e)
    BY <1>9, <1>12, NopseqValid
  <2>2. l <= n + m /\ n + m \in Nat /\ m <= n + m
    BY <1>5, <1>6
  <2>3. Grouped(Upsized(q, n + m), e) /\ (w.topology => Numbers(Upsized(q, n + m), NopLists(e)))
        /\ Len(Upsized(q, n + m)) <= n + m
    <3>1. PICK s, u : s = n + m /\ u = Upsized(q, s)
      OBVIOUS
    <3>2. s \in Nat /\ Len(q) <= s
      BY <1>4, <2>2, <3>1
    <3>5. s <= s
      BY <3>2
    <3>3. Grouped(u, e)
      BY <1>2, <3>1, <3>2, UpsizedGroups
    <3>4. (\A L : Numbers(q, L) => Numbers(u, L)) /\ Len(u) <= s
      BY <1>2, <3>1, <3>2, <3>5, UpsizedIs
    <3>. QED
      BY <1>2, <3>1, <3>3, <3>4
  <2>4. /\ Valid(r.wt) /\ r.wt.input = both
        /\ r.wt.partition = q \/ r.wt.partition = Upsized(q, n + m)
    BY <1>7, <1>9, <2>1 DEF Nopsed
  <2>5. Grouped(r.wt.partition, e) /\ Fits(r.wt, e)
    BY <1>2, <1>4, <1>7, <2>2, <2>3, <2>4 DEF Fits
  <2>6. appended.input # <<>> /\ Len(appended.partition) <= Len(appended.input)
    <3>1. m # 0
      <4>1. \A T : \A s \in Seq(T) : Len(s) = 0 => s = <<>>
        OBVIOUS
      <4>2. e.nops \in Seq(Seq(Op) \ {<<>>})
        BY DEF IsProduct
      <4>. QED
        BY <1>4, <1>12, <4>1, <4>2
    <3>2. Len(both) # 0
      BY <1>5, <1>7, <3>1
    <3>3. both # <<>>
      BY <3>2, EmptySeq
    <3>. QED
      BY <1>4, <1>7, <1>9, <2>2, <3>3
  <2>7. ASSUME NEW c \in r.calls
        PROVE  ValidCall(c) /\ DividedCall(c)
    <3>1. /\ ValidCall(c) /\ c.product = e /\ c.nops = both /\ c.topology = w.topology
          /\ c.partition = Upsized(q, n + m)
      BY <1>7, <1>9, <2>1, <2>6, CallValid
    <3>. QED
      BY <1>4, <1>7, <1>12, <2>2, <2>3, <3>1 DEF DividedCall
  <2>. QED
    BY <2>4, <2>5, <2>7
<1>. QED
  BY <1>1, <1>10, <1>11, <1>12

-----------------------------------------------------------------------------
(***************************************************************************)
(* What else holds between the calls, d being the number of calls of       *)
(* set_op_partitions: the partitions are those of the object's kind.       *)
(***************************************************************************)
IsExpression(o) == o.kind = "sequence expression"

KindInv(o, w, d) ==
  LET e == o.products[1]
  IN  /\ o.kind # "sum" => Fits(w, e)
      /\ o.kind = "sum" => w.partition = <<>>
      /\ o.kind = "product" => Grouped(w.partition, e)
      /\ IsExpression(o) =>
           AllZero(w.partition) /\ (w.input = <<>> \/ w.input = e.nops)
      /\ o.kind = "sequence" =>
           /\ d = 0 => AllZero(w.partition)
           /\ d = 1 => \E L : IsListing(L, Len(e.nops)) /\ Numbers(w.partition, L)

Rest ==
  /\ Valid(wt)
  /\ KindInv(object, wt, divisions)
  /\ computes \in 0..MaxComputes /\ divisions \in 0..MaxDivisions
  /\ outcome \in {"returned", "threw", "terminated"}

\* the partitions are numbered without gaps
Numbered(c) ==
  \E n \in 0..Len(c.nops) : \E L : IsListing(L, n) /\ Numbers(c.partition, L)

CallsInv(o, calls, d) ==
  \A c \in calls : /\ ValidCall(c)
                   /\ o.kind \in {"product", "sum"} => DividedCall(c)
                   /\ d <= 1 => Numbered(c)

LEMMA KindsDiffer ==
  ASSUME NEW o
  PROVE  /\ o.kind = "sequence" => ~IsExpression(o)
         /\ o.kind = "product" => ~IsExpression(o)
         /\ o.kind = "sum" => ~IsExpression(o)
         /\ IsExpression(o) => o.kind \notin {"product", "sum"}
  BY Zenon DEF IsExpression

LEMMA ZeroIsListed ==
  ASSUME NEW q, AllZero(q)
  PROVE  \A n \in Nat : IsListing(<<>>, n) /\ Numbers(q, <<>>)
<1>1. DOMAIN <<>> = {} /\ \A S : <<>> \in Seq(S)
  OBVIOUS
<1>. QED
  BY <1>1 DEF AllZero, IsListing, Numbers

\* the first product: what the assumption says of it
LEMMA FirstProduct ==
  ASSUME Inv
  PROVE  /\ object.kind \in Kinds /\ IsProduct(object.products[1])
         /\ object.products[1].nops \in Ops /\ Len(object.products[1].nops) \in Nat
         /\ object.kind = "sequence" \/ IsExpression(object) => object.products[1].nops # <<>>
         /\ \A k \in DOMAIN object.products : IsProduct(object.products[k])
<1>1. /\ object.kind \in Kinds /\ 1 \in DOMAIN object.products
      /\ \A k \in DOMAIN object.products : IsProduct(object.products[k])
      /\ object.kind = "sequence" \/ IsExpression(object) => object.products[1].nops # <<>>
  BY ObjectsAssumption, Zenon DEF Inv, IsExpression
<1>2. IsProduct(object.products[1])
  BY <1>1
<1>3. Len(object.products[1].nops) \in Nat
  BY <1>2, ProductParts
<1>. QED
  BY <1>1, <1>2, <1>3 DEF IsProduct, Ops

LEMMA InitRest == Init => Rest /\ CallsInv(object, made, divisions)
<1>. SUFFICES ASSUME Init
              PROVE  Rest /\ CallsInv(object, made, divisions)
  OBVIOUS
<1>1. Inv /\ made = {}
  BY InitInv
<1>2. wt.input \in Ops
  <2>1. wt.input = object.products[1].nops \/ wt.input = <<>>
    BY DEF Init
  <2>2. <<>> \in Ops
    BY EmptySeq, Zenon DEF Ops
  <2>. QED
    BY <1>1, <2>1, <2>2, FirstProduct
<1>3. /\ wt.full = TRUE /\ wt.topology = FALSE /\ wt.spinfree = FALSE
      /\ wt.connections = {} /\ wt.entries = 0 /\ wt.cached = {} /\ wt.partition = <<>>
  BY DEF Init
<1>4. <<>> \in Seq(Nat) /\ DOMAIN wt.partition = {} /\ Len(wt.partition) = 0
  BY <1>3
<1>5. Valid(wt)
  <2>1. Shape(wt)
    BY <1>1 DEF Inv
  <2>2. /\ InRange(wt.connections, Len(wt.input)) /\ wt.entries \in Nat
        /\ wt.partition \in Seq(Nat)
    BY <1>3, <1>4 DEF InRange
  <2>. QED
    BY <1>2, <1>3, <2>1, <2>2, Zenon DEF Valid
<1>6. Fits(wt, object.products[1]) /\ AllZero(wt.partition)
  <2>1. Len(wt.input) \in Nat
    BY <1>2, LenProperties DEF Ops
  <2>. QED
    BY <1>4, <2>1 DEF Fits, AllZero
<1>7. divisions = 0 /\ computes = 0 /\ outcome = "returned"
  BY DEF Init
<1>8. IsExpression(object) => wt.input = <<>>
  BY Zenon DEF Init, IsExpression
<1>9. KindInv(object, wt, divisions)
  <2>1. divisions # 1
    BY <1>7
  <2>. QED
    BY <1>3, <1>6, <1>8, <2>1, Zenon DEF KindInv, Grouped
<1>. QED
  BY <1>1, <1>5, <1>7, <1>9, BoundsAssumption DEF Rest, CallsInv

\* a setter that leaves the operators and their partitions alone
LEMMA SetterRest ==
  ASSUME Rest, NEW w, Valid(w), w.input = wt.input, w.partition = wt.partition,
         Set(w), UNCHANGED divisions, outcome' \in {"returned", "threw"}
  PROVE  Rest' /\ made' = {}
<1>1. wt' = w /\ made' = {} /\ object' = object /\ computes' = computes
  BY DEF Set
<1>2. Valid(wt')
  BY <1>1
<1>3. KindInv(object, w, divisions)
  BY DEF Rest, KindInv, Fits
<1>4. KindInv(object', wt', divisions')
  BY <1>1, <1>3
<1>. QED
  BY <1>1, <1>2, <1>4 DEF Rest

LEMMA SetOpConnectionsRest ==
  ASSUME Rest, NEW pairs \in PairSets, SetOpConnections(pairs)
  PROVE  Rest' /\ made' = {}
<1>1. Valid(wt) /\ UNCHANGED divisions
  BY DEF Rest, SetOpConnections
<1>2. CASE HasExpr /\ wt.cached = {}
  <2>1. Set([wt EXCEPT !.cached = pairs]) /\ outcome' = "returned"
    BY <1>2 DEF SetOpConnections
  <2>2. PICK w : w = [wt EXCEPT !.cached = pairs]
    OBVIOUS
  <2>3. Valid(w) /\ w.input = wt.input /\ w.partition = wt.partition
    BY <1>1, <2>2, CachedValid
  <2>. QED
    BY <1>1, <2>1, <2>2, <2>3, SetterRest
<1>3. CASE ~(HasExpr /\ wt.cached = {}) /\ OutOfRange(wt, pairs)
  <2>1. Set(wt) /\ outcome' = "threw"
    BY <1>3 DEF SetOpConnections
  <2>. QED
    BY <1>1, <2>1, SetterRest
<1>4. CASE ~(HasExpr /\ wt.cached = {}) /\ ~OutOfRange(wt, pairs)
  <2>1. Set(Register(wt, pairs)) /\ outcome' = "returned"
    BY <1>4 DEF SetOpConnections
  <2>2. PICK w : w = Register(wt, pairs)
    OBVIOUS
  <2>3. Valid(w) /\ w.input = wt.input /\ w.partition = wt.partition
    BY <1>1, <1>4, <2>2, RegisterValid
  <2>. QED
    BY <1>1, <2>1, <2>2, <2>3, SetterRest
<1>. QED
  BY <1>2, <1>3, <1>4

\* the user's lists: partitions of the sequence's operators
LEMMA UserListing ==
  ASSUME Inv, object.kind = "sequence", NEW lists \in PartitionLists
  PROVE  IsListing(lists, Len(object.products[1].nops))
<1>1. PICK n : n = Len(object.products[1].nops)
  OBVIOUS
<1>2. /\ lists \in Seq((SUBSET Nat) \ {{}})
      /\ \A k, l \in DOMAIN lists : k # l => lists[k] \cap lists[l] = {}
      /\ UNION Range(lists) \subseteq 1..n
  BY <1>1, ListsAssumption DEF Inv
<1>3. DOMAIN lists = 1..Len(lists) /\ Len(lists) \in Nat
  BY <1>2, LenProperties
<1>4. \A k \in 1..Len(lists) : lists[k] \in (SUBSET (1..n)) \ {{}}
  <2>. TAKE k \in 1..Len(lists)
  <2>1. lists[k] # {}
    BY <1>2, ElementOfSeq
  <2>2. lists[k] \in Range(lists)
    BY <1>3 DEF Range
  <2>3. lists[k] \subseteq 1..n
    BY <1>2, <2>2
  <2>. QED
    BY <2>1, <2>3
<1>5. lists = [k \in 1..Len(lists) |-> lists[k]]
  BY <1>2, <1>3, LenProperties
<1>6. lists \in Seq((SUBSET (1..n)) \ {{}})
  BY <1>3, <1>4, <1>5
<1>. QED
  BY <1>1, <1>2, <1>6 DEF IsListing

LEMMA SetOpPartitionsRest ==
  ASSUME Inv, Rest, NEW lists \in PartitionLists, SetOpPartitions(lists)
  PROVE  Rest' /\ made' = {}
<1>1. PICK n, q : n = Len(object.products[1].nops) /\ q = Assigned(wt.partition, lists)
  OBVIOUS
<1>2. object.kind = "sequence" /\ divisions < MaxDivisions /\ divisions' = divisions + 1
      /\ outcome' = "returned"
  BY FirstProduct DEF SetOpPartitions, HasExpr
<1>3. Valid(wt) /\ wt.partition \in Seq(Nat) /\ wt.input = object.products[1].nops
  BY <1>2 DEF Rest, Valid, Inv
<1>4. IsListing(lists, n) /\ n \in Nat
  BY <1>1, <1>2, UserListing, FirstProduct
<1>5. /\ Renumbered(q, wt.partition, lists)
      /\ \A b \in Nat : n <= b /\ Len(wt.partition) <= b => Len(q) <= b
  BY <1>1, <1>3, <1>4, AssignedIs
<1>6. wt' = [wt EXCEPT !.partition = q] /\ made' = {} /\ object' = object /\ computes' = computes
  BY <1>1 DEF SetOpPartitions, Set
<1>7. Valid(wt') /\ wt'.partition = q /\ wt'.input = wt.input
  <2>1. Repartitioned(wt', wt, q)
    BY <1>3, <1>6, PartitionSet DEF Valid
  <2>2. q \in Seq(Nat)
    BY <1>5 DEF Renumbered
  <2>. QED
    BY <1>3, <2>1, <2>2, PartitionValid
<1>8. Len(q) <= n
  <2>1. Len(wt.partition) <= n
    BY <1>1, <1>2, <1>3 DEF Rest, KindInv, Fits
  <2>2. n <= n
    BY <1>4
  <2>. QED
    BY <1>4, <1>5, <2>1, <2>2
<1>9. divisions \in Nat /\ (divisions + 1 = 1 => divisions = 0) /\ divisions + 1 # 0
      /\ divisions + 1 \in 0..MaxDivisions /\ computes \in 0..MaxComputes
  BY <1>2, BoundsAssumption DEF Rest
<1>10. divisions + 1 = 1 => Numbers(q, lists)
  <2>. SUFFICES ASSUME divisions + 1 = 1
                PROVE  Numbers(q, lists)
    OBVIOUS
  <2>1. AllZero(wt.partition)
    BY <1>2, <1>9 DEF Rest, KindInv
  <2>. QED
    BY <1>3, <1>4, <1>5, <2>1, AssignedNumbers
<1>11. KindInv(object', wt', divisions')
  <2>1. KindInv(object, wt', divisions + 1)
    BY <1>1, <1>2, <1>4, <1>7, <1>8, <1>9, <1>10, KindsDiffer, Zenon DEF KindInv, Fits
  <2>. QED
    BY <1>2, <1>6, <2>1
<1>. QED
  BY <1>2, <1>6, <1>7, <1>9, <1>11 DEF Rest

\* a product's partitions are numbered without gaps
LEMMA DividedNumbered ==
  ASSUME NEW c, ValidCall(c), DividedCall(c)
  PROVE  Numbered(c)
<1>1. PICK e, n, m : e = c.product /\ n = Len(e.nops) /\ m = Len(c.nops)
  OBVIOUS
<1>2. n \in 0..m /\ IsListing(NopLists(e), n)
  <2>1. n \in Nat /\ m \in Nat /\ n <= m /\ IsProduct(e)
    BY <1>1, ProductParts, LenProperties DEF DividedCall, ValidCall, Ops
  <2>. QED
    BY <1>1, <2>1, NopListsAre
<1>3. CASE Numbers(c.partition, NopLists(e))
  BY <1>1, <1>2, <1>3 DEF Numbered
<1>4. CASE AllZero(c.partition)
  BY <1>1, <1>2, <1>4, ZeroIsListed DEF Numbered
<1>. QED
  BY <1>1, <1>3, <1>4 DEF DividedCall, Grouped

-----------------------------------------------------------------------------
\* what a call of compute() leaves behind
ComputedInv(o, w, d, calls) == Valid(w) /\ KindInv(o, w, d) /\ CallsInv(o, calls, d)

LEMMA SequenceRest ==
  ASSUME Inv, Rest, object.kind = "sequence",
         NEW r, r = ComputeNopseq(wt, object.products[1])
  PROVE  ComputedInv(object, r.wt, divisions, r.calls)
<1>1. PICK e, n : e = object.products[1] /\ n = Len(e.nops)
  OBVIOUS
<1>2. wt.input = e.nops /\ e.nops # <<>> /\ n \in Nat /\ Valid(wt) /\ wt.partition \in Seq(Nat)
  BY <1>1, FirstProduct DEF Inv, Rest, Valid
<1>3. Nopsed(r, wt, e)
  BY <1>1, <1>2, NopseqValid
<1>4. PICK q, u : q = wt.partition /\ u = Upsized(q, n)
  OBVIOUS
<1>5. Len(q) <= n
  BY <1>1, <1>2, <1>4 DEF Rest, KindInv, Fits
<1>6. /\ u \in Seq(Nat) /\ Len(u) <= n
      /\ AllZero(q) => AllZero(u)
      /\ \A L : Numbers(q, L) => Numbers(u, L)
  <2>1. n <= n
    BY <1>2
  <2>. QED
    BY <1>2, <1>4, <1>5, <2>1, UpsizedIs
<1>7. /\ Valid(r.wt) /\ r.wt.input = e.nops
      /\ r.wt.partition = q \/ r.wt.partition = u
  BY <1>1, <1>2, <1>3, <1>4 DEF Nopsed
<1>8. /\ divisions = 0 => AllZero(q)
      /\ divisions = 1 => \E L : IsListing(L, n) /\ Numbers(q, L)
  BY <1>1, <1>4 DEF Rest, KindInv
<1>9. KindInv(object, r.wt, divisions)
  <2>1. Fits(r.wt, e)
    BY <1>1, <1>5, <1>6, <1>7 DEF Fits
  <2>2. /\ divisions = 0 => AllZero(r.wt.partition)
        /\ divisions = 1 => \E L : IsListing(L, n) /\ Numbers(r.wt.partition, L)
    BY <1>6, <1>7, <1>8
  <2>. QED
    BY <1>1, <2>1, <2>2, KindsDiffer DEF KindInv
<1>10. ASSUME NEW c \in r.calls
       PROVE  ValidCall(c) /\ (divisions <= 1 => Numbered(c))
  <2>1. ValidCall(c) /\ c.nops = e.nops /\ c.partition = u
    BY <1>1, <1>2, <1>3, <1>4, <1>5, CallValid
  <2>2. ASSUME divisions <= 1
        PROVE  \E L : IsListing(L, n) /\ Numbers(u, L)
    <3>1. divisions = 0 \/ divisions = 1
      BY <2>2, BoundsAssumption DEF Rest
    <3>2. CASE divisions = 0
      BY <1>2, <1>6, <1>8, <3>2, ZeroIsListed
    <3>3. CASE divisions = 1
      BY <1>6, <1>8, <3>3
    <3>. QED
      BY <3>1, <3>2, <3>3
  <2>3. n \in 0..Len(c.nops)
    BY <1>1, <1>2, <2>1
  <2>. QED
    BY <2>1, <2>2, <2>3 DEF Numbered
<1>. QED
  BY <1>7, <1>9, <1>10 DEF ComputedInv, CallsInv

\* no sequence was there before, or the same
LEMMA SequenceKept ==
  ASSUME Inv, Rest, IsExpression(object)
  PROVE  /\ Valid(wt) /\ object.products[1].nops \in Ops
         /\ Len(wt.input) <= Len(object.products[1].nops)
<1>1. PICK e, n : e = object.products[1] /\ n = Len(e.nops)
  OBVIOUS
<1>2. /\ e.nops \in Ops /\ n \in Nat /\ Valid(wt)
  BY <1>1, FirstProduct DEF Rest
<1>3. wt.input = <<>> \/ wt.input = e.nops
  BY <1>1 DEF Rest, KindInv
<1>4. Len(wt.input) <= n
  <2>1. 0 <= n /\ n <= n
    BY <1>2
  <2>2. CASE wt.input = <<>>
    <3>1. Len(wt.input) = 0
      BY <2>2, EmptySeq
    <3>. QED
      BY <2>1, <3>1
  <2>3. CASE wt.input = e.nops
    BY <1>1, <2>1, <2>3
  <2>. QED
    BY <1>3, <2>2, <2>3
<1>. QED
  BY <1>1, <1>2, <1>4

LEMMA ExpressionRest ==
  ASSUME Inv, Rest, IsExpression(object),
         NEW w, Valid(w), w.input = object.products[1].nops, w.partition = wt.partition,
         NEW r, r = ComputeNopseq(w, object.products[1])
  PROVE  ComputedInv(object, r.wt, divisions, r.calls)
<1>1. PICK e, n : e = object.products[1] /\ n = Len(e.nops)
  OBVIOUS
<1>2. /\ e.nops # <<>> /\ n \in Nat /\ wt.partition \in Seq(Nat) /\ Len(wt.input) \in Nat
  BY <1>1, FirstProduct, LenProperties DEF Rest, Valid, Ops
<1>3. Len(wt.input) <= n
  BY <1>1, SequenceKept
<1>4. Nopsed(r, w, e) /\ w.input = e.nops
  BY <1>1, NopseqValid
<1>5. PICK q, u : q = wt.partition /\ u = Upsized(q, n)
  OBVIOUS
<1>6. Len(q) <= n /\ AllZero(q)
  <2>1. /\ Len(q) <= Len(wt.input) \/ Len(q) <= n
        /\ AllZero(q)
    BY <1>1, <1>5 DEF Rest, KindInv, Fits
  <2>2. Len(q) \in Nat
    BY <1>2, <1>5, LenProperties
  <2>. QED
    BY <1>2, <1>3, <2>1, <2>2
<1>7. u \in Seq(Nat) /\ Len(u) <= n /\ AllZero(u)
  <2>1. n <= n
    BY <1>2
  <2>. QED
    BY <1>2, <1>5, <1>6, <2>1, UpsizedIs
<1>8. /\ Valid(r.wt) /\ r.wt.input = e.nops
      /\ r.wt.partition = q \/ r.wt.partition = u
  BY <1>1, <1>4, <1>5 DEF Nopsed
<1>9. KindInv(object, r.wt, divisions)
  <2>1. Fits(r.wt, e)
    BY <1>1, <1>6, <1>7, <1>8 DEF Fits
  <2>2. AllZero(r.wt.partition) /\ r.wt.input = object.products[1].nops
    BY <1>1, <1>6, <1>7, <1>8
  <2>3. object.kind # "sequence" /\ object.kind # "product" /\ object.kind # "sum"
    BY KindsDiffer
  <2>. QED
    BY <1>1, <2>1, <2>2, <2>3, Zenon DEF KindInv
<1>10. ASSUME NEW c \in r.calls
       PROVE  ValidCall(c) /\ Numbered(c)
  <2>1. ValidCall(c) /\ c.nops = e.nops /\ c.partition = u
    BY <1>1, <1>2, <1>4, <1>5, <1>6, CallValid
  <2>2. n \in 0..Len(c.nops)
    BY <1>1, <1>2, <2>1
  <2>. QED
    BY <1>2, <1>7, <2>1, <2>2, ZeroIsListed DEF Numbered
<1>. QED
  <2>1. object.kind \notin {"product", "sum"}
    BY KindsDiffer
  <2>2. CallsInv(object, r.calls, divisions)
    BY <1>10, <2>1, Zenon DEF CallsInv
  <2>. QED
    BY <1>8, <1>9, <2>2, Zenon DEF ComputedInv

LEMMA ProductRest ==
  ASSUME Inv, Rest, object.kind = "product",
         NEW r, r = ComputeProduct(wt, object.products[1])
  PROVE  ComputedInv(object, r.wt, divisions, r.calls)
<1>1. PICK e : e = object.products[1]
  OBVIOUS
<1>2. IsProduct(e) /\ Valid(wt) /\ Grouped(wt.partition, e) /\ Fits(wt, e)
  <2>1. IsProduct(e) /\ Valid(wt) /\ Grouped(wt.partition, e)
    BY <1>1, FirstProduct DEF Rest, KindInv
  <2>2. object.kind # "sum"
    OBVIOUS
  <2>. QED
    BY <1>1, <2>1, <2>2 DEF Rest, KindInv
<1>3. /\ Valid(r.wt) /\ Grouped(r.wt.partition, e) /\ Fits(r.wt, e)
      /\ \A c \in r.calls : ValidCall(c) /\ DividedCall(c)
  BY <1>1, <1>2, ProductValid
<1>4. KindInv(object, r.wt, divisions)
  <2>1. object.kind # "sum" /\ object.kind # "sequence" /\ ~IsExpression(object)
    BY KindsDiffer
  <2>. QED
    BY <1>1, <1>3, <2>1, Zenon DEF KindInv
<1>5. CallsInv(object, r.calls, divisions)
  BY <1>3, DividedNumbered DEF CallsInv
<1>. QED
  BY <1>3, <1>4, <1>5 DEF ComputedInv

LEMMA SumRest ==
  ASSUME Inv, Rest, ComputeSum
  PROVE  wt' = wt /\ CallsInv(object, made', divisions)
<1>1. wt' = wt /\ object.kind = "sum"
  BY DEF ComputeSum
<1>2. Valid(wt) /\ wt.partition = <<>>
  BY <1>1 DEF Rest, KindInv
<1>3. ASSUME NEW c \in made'
      PROVE  ValidCall(c) /\ DividedCall(c)
  <2>1. PICK k \in DOMAIN object.products :
          c \in ComputeProduct(wt, object.products[k]).calls
    BY <1>3 DEF ComputeSum
  <2>2. PICK e, r : e = object.products[k] /\ r = ComputeProduct(wt, e)
    OBVIOUS
  <2>3. IsProduct(e)
    BY <2>1, <2>2, FirstProduct
  <2>4. Grouped(wt.partition, e)
    <3>1. DOMAIN wt.partition = {}
      BY <1>2
    <3>. QED
      BY <3>1 DEF Grouped, AllZero
  <2>5. Fits(wt, e)
    <3>1. Len(wt.partition) = 0 /\ Len(wt.input) \in Nat
      BY <1>2, EmptySeq, LenProperties DEF Valid, Ops
    <3>. QED
      BY <3>1 DEF Fits
  <2>6. \A d \in r.calls : ValidCall(d) /\ DividedCall(d)
    BY <1>2, <2>2, <2>3, <2>4, <2>5, ProductValid
  <2>. QED
    BY <2>1, <2>2, <2>6
<1>4. CallsInv(object, made', divisions)
  BY <1>3, DividedNumbered DEF CallsInv
<1>. QED
  BY <1>1, <1>4

\* one of the parts of compute() other than that for a sum
LEMMA FinishRest ==
  ASSUME Rest, NEW r, ComputedInv(object, r.wt, divisions, r.calls), Finish(r),
         UNCHANGED <<object, divisions>>, computes' \in 0..MaxComputes
  PROVE  Rest' /\ CallsInv(object, made', divisions)
<1>1. wt' = r.wt /\ made' = r.calls /\ outcome' \in {"returned", "threw"}
      /\ object' = object /\ divisions' = divisions
  BY DEF Finish
<1>2. KindInv(object', wt', divisions')
  BY <1>1 DEF ComputedInv
<1>. QED
  BY <1>1, <1>2 DEF ComputedInv, Rest

LEMMA ComputeRest ==
  ASSUME Inv, Rest, Compute
  PROVE  Rest' /\ CallsInv(object', made', divisions')
<1>1. object' = object /\ divisions' = divisions
  BY DEF Compute
<1>2. computes' \in 0..MaxComputes
  <2>1. /\ object.kind = "product" => computes < MaxComputes
        /\ computes' = computes \/ (object.kind = "product" /\ computes' = computes + 1)
    BY DEF Compute
  <2>. QED
    BY <2>1, BoundsAssumption DEF Rest
<1>. DEFINE e == object.products[1]
<1>3. CASE object.kind = "sequence" /\ Finish(ComputeNopseq(wt, e))
  <2>1. PICK r : r = ComputeNopseq(wt, e)
    OBVIOUS
  <2>2. ComputedInv(object, r.wt, divisions, r.calls)
    BY <1>3, <2>1, SequenceRest
  <2>3. Finish(r)
    BY <1>3, <2>1
  <2>. QED
    BY <1>1, <1>2, <2>2, <2>3, FinishRest
<1>4. ASSUME IsExpression(object), Finish(ComputeNopseq([wt EXCEPT !.input = e.nops], e))
      PROVE  Rest' /\ CallsInv(object', made', divisions')
  <2>1. PICK w : w = [wt EXCEPT !.input = e.nops]
    OBVIOUS
  <2>2. PICK r : r = ComputeNopseq(w, e)
    OBVIOUS
  <2>3. Finish(r)
    BY <1>4, <2>1, <2>2, Zenon
  <2>4. Valid(w) /\ w.input = e.nops /\ w.partition = wt.partition
    BY <1>4, <2>1, SequenceKept, InputValid
  <2>5. ComputedInv(object, r.wt, divisions, r.calls)
    BY <1>4, <2>2, <2>4, ExpressionRest
  <2>. QED
    BY <1>1, <1>2, <2>3, <2>5, FinishRest
<1>5. CASE object.kind = "product" /\ Finish(ComputeProduct(wt, e))
  <2>1. PICK r : r = ComputeProduct(wt, e)
    OBVIOUS
  <2>2. ComputedInv(object, r.wt, divisions, r.calls)
    BY <1>5, <2>1, ProductRest
  <2>3. Finish(r)
    BY <1>5, <2>1
  <2>. QED
    BY <1>1, <1>2, <2>2, <2>3, FinishRest
<1>6. CASE ComputeSum
  <2>1. wt' = wt /\ CallsInv(object, made', divisions)
    BY <1>6, SumRest
  <2>2. outcome' \in {"returned", "threw", "terminated"}
    BY <1>6 DEF ComputeSum
  <2>3. Valid(wt') /\ KindInv(object', wt', divisions')
    BY <1>1, <2>1 DEF Rest
  <2>. QED
    BY <1>1, <1>2, <2>1, <2>2, <2>3 DEF Rest
<1>. QED
  BY <1>3, <1>4, <1>5, <1>6, Zenon DEF Compute, ComputeOne, IsExpression

LEMMA NextRest ==
  ASSUME Inv, Rest, Next
  PROVE  Rest' /\ (CallsInv(object', made', divisions') \/ UNCHANGED vars)
<1>1. ASSUME made' = {}
      PROVE  CallsInv(object', made', divisions')
  BY <1>1 DEF CallsInv
<1>2. Valid(wt)
  BY DEF Rest
<1>3. ASSUME NEW w, Valid(w), Agree(w, wt), w.partition = wt.partition, Set(w),
             UNCHANGED divisions, outcome' = "returned"
      PROVE  Rest' /\ made' = {}
  BY <1>3, SetterRest DEF Agree
<1>4. CASE FullContractions
  <2>1. PICK fc \in BOOLEAN : Set([wt EXCEPT !.full = fc])
    BY <1>4 DEF FullContractions
  <2>2. ~wt.topology /\ UNCHANGED divisions /\ outcome' = "returned"
    BY <1>4 DEF FullContractions
  <2>3. PICK w : w = [wt EXCEPT !.full = fc]
    OBVIOUS
  <2>4. Valid(w) /\ w.partition = wt.partition /\ Agree(w, wt)
    BY <1>2, <2>2, <2>3, ValidSwitches, Switches DEF Valid
  <2>. QED
    BY <1>1, <1>3, <2>1, <2>2, <2>3, <2>4
<1>5. CASE Spinfree
  <2>1. PICK sf \in BOOLEAN : Set([wt EXCEPT !.spinfree = sf])
    BY <1>5 DEF Spinfree
  <2>2. UNCHANGED divisions /\ outcome' = "returned"
    BY <1>5 DEF Spinfree
  <2>3. PICK w : w = [wt EXCEPT !.spinfree = sf]
    OBVIOUS
  <2>4. Valid(w) /\ w.partition = wt.partition /\ Agree(w, wt)
    BY <1>2, <2>3, ValidSwitches, Switches DEF Valid
  <2>. QED
    BY <1>1, <1>3, <2>1, <2>2, <2>3, <2>4
<1>6. CASE UseTopology
  <2>1. PICK ut \in BOOLEAN : Set([wt EXCEPT !.topology = ut])
    BY <1>6 DEF UseTopology
  <2>2. wt.full /\ UNCHANGED divisions /\ outcome' = "returned"
    BY <1>6 DEF UseTopology
  <2>3. PICK w : w = [wt EXCEPT !.topology = ut]
    OBVIOUS
  <2>4. Valid(w) /\ w.partition = wt.partition /\ Agree(w, wt)
    BY <1>2, <2>2, <2>3, ValidSwitches, Switches DEF Valid
  <2>. QED
    BY <1>1, <1>3, <2>1, <2>2, <2>3, <2>4
<1>7. ASSUME NEW pairs \in PairSets, SetOpConnections(pairs)
      PROVE  Rest' /\ made' = {}
  BY <1>7, SetOpConnectionsRest
<1>8. ASSUME NEW lists \in PartitionLists, SetOpPartitions(lists)
      PROVE  Rest' /\ made' = {}
  BY <1>8, SetOpPartitionsRest
<1>9. CASE Compute
  BY <1>9, ComputeRest
<1>10. CASE Terminated
  BY <1>10 DEF Terminated, vars, Rest
<1>. QED
  BY <1>1, <1>4, <1>5, <1>6, <1>7, <1>8, <1>9, <1>10 DEF Next

\* op_connections_ fits what the engine was given
Fitting == \A c \in made : computes <= 1 => c.entries \in {0, Len(c.nops)}

\* what holds between the calls, with what the engine was given
AllInv == Inv /\ Rest /\ CallsInv(object, made, divisions) /\ Fitting

THEOREM DriverInvariant == Spec => []AllInv
<1>1. Init => AllInv
  BY InitInv, InitRest DEF AllInv, Fitting
<1>2. AllInv /\ [Next]_vars => AllInv'
  <2>1. ASSUME AllInv, UNCHANGED vars  PROVE AllInv'
    <3>1. Inv'
      BY <2>1, StutterInv DEF AllInv
    <3>2. object' = object /\ wt' = wt /\ computes' = computes /\ divisions' = divisions
          /\ made' = made /\ outcome' = outcome
      BY <2>1 DEF vars
    <3>. QED
      BY <2>1, <3>1, <3>2 DEF AllInv, Rest, Fitting
  <2>2. ASSUME AllInv, Next  PROVE AllInv'
    <3>1. /\ Inv' /\ Rest' /\ (Given(made') \/ UNCHANGED vars)
          /\ CallsInv(object', made', divisions') \/ UNCHANGED vars
      BY <2>2, NextInv, NextRest DEF AllInv
    <3>2. CASE CallsInv(object', made', divisions') /\ Given(made')
      <4>1. Fitting'
        BY <3>2 DEF Given, Fitting
      <4>. QED
        BY <3>1, <3>2, <4>1 DEF AllInv
    <3>. QED
      BY <2>1, <2>2, <3>1, <3>2
  <2>. QED
    BY <2>1, <2>2
<1>. QED
  BY <1>1, <1>2, PTL DEF Spec

-----------------------------------------------------------------------------
LEMMA AppendedIsAccumulated ==
  ASSUME NEW s \in Ops, NEW n \in Nat, NEW r, Accumulates(s, n, r)
  PROVE  r = AppendedTimes(s, n)
<1>. DEFINE q == [k \in 1..n |-> s]
<1>1. PICK f : /\ f[0] = <<>>
               /\ \A i \in 0..(n - 1) : f[i + 1] = f[i] \o s
               /\ r = f[n]
  BY DEF Accumulates
<1>2. PICK S : S = Seq(Op) \ {<<>>}
  OBVIOUS
<1>3. q \in Seq(Seq(S)) /\ Len(q) = n
  BY <1>2 DEF Ops
<1>4. PICK flat : IsFlattening(flat, q, n)
  BY <1>3, FlattenSteps
<1>. DEFINE T == {k \in 0..n : f[k] = flat[k]}
<1>5. 0 \in T
  BY <1>1, <1>4 DEF IsFlattening
<1>6. ASSUME NEW k \in 0..(n - 1), k \in T  PROVE k + 1 \in T
  <2>1. k + 1 \in 1..n /\ k + 1 \in 0..n /\ q[k + 1] = s
    OBVIOUS
  <2>2. flat[k + 1] = flat[k] \o q[k + 1]
    BY <1>4 DEF IsFlattening
  <2>. QED
    BY <1>1, <1>6, <2>1, <2>2
<1>7. \A k \in 0..n : k \in T
  <2>. HIDE DEF T
  <2>. QED
    BY <1>5, <1>6, IntervalInduction
<1>8. r = flat[n]
  BY <1>1, <1>7
<1>. QED
  BY <1>4, <1>8 DEF IsFlattening, AppendedTimes

(***************************************************************************)
(* The engine gets the operators of a product once for every call of       *)
(* compute() that appended them, and those of a sequence or a summand,     *)
(* whatever was called, computed and aborted before.                       *)
(***************************************************************************)
THEOREM InputIsAccumulatedCorrect == Spec => []InputIsAccumulated
<1>. DEFINE I == Inv /\ InputIsAccumulated
<1>1. Init => I
  BY InitInv DEF InputIsAccumulated
<1>2. I /\ [Next]_vars => I'
  <2>1. ASSUME I, UNCHANGED vars  PROVE I'
    BY <2>1, StutterInv DEF InputIsAccumulated, vars
  <2>2. ASSUME I, Next  PROVE I'
    <3>1. Inv' /\ (Given(made') \/ UNCHANGED vars)
      BY <2>2, NextInv
    <3>2. CASE Given(made')
      <4>1. UNCHANGED object
        BY <2>2 DEF Next, FullContractions, Spinfree, UseTopology, Set, SetOpConnections,
                    SetOpPartitions, Compute, Terminated, vars
      <4>2. ASSUME object.kind = "product"
            PROVE  wt'.input = AppendedTimes(object.products[1].nops, computes')
        <5>1. /\ computes' \in Nat /\ object.products[1].nops \in Ops
              /\ Accumulates(object.products[1].nops, computes', wt'.input)
          BY <2>2, <3>1, <4>1, <4>2, FirstProduct DEF Inv
        <5>. QED
          BY <5>1, AppendedIsAccumulated
      <4>3. ASSUME NEW c \in made'
            PROVE  c.nops = IF object.kind = "product"
                            THEN AppendedTimes(c.product.nops, computes') ELSE c.product.nops
        BY <3>2, <4>2 DEF Given
      <4>. QED
        BY <3>1, <4>1, <4>3 DEF InputIsAccumulated
    <3>. QED
      BY <2>1, <2>2, <3>1, <3>2
  <2>. QED
    BY <2>1, <2>2
<1>. QED
  BY <1>1, <1>2, PTL DEF Spec

-----------------------------------------------------------------------------
LEMMA OpsAreSequences ==
  ASSUME NEW s \in Ops
  PROVE  s \in Seq(Seq(Op))
<1>1. s \in [1..Len(s) -> Seq(Op) \ {<<>>}] /\ Len(s) \in Nat
  BY LenProperties DEF Ops
<1>2. s \in [1..Len(s) -> Seq(Op)]
  BY <1>1
<1>. QED
  BY <1>1, <1>2

(***************************************************************************)
(* The object's members stay of their types under any calls.               *)
(***************************************************************************)
THEOREM TypeCorrect == Spec => []TypeOK
<1>1. AllInv => TypeOK
  <2>. SUFFICES ASSUME AllInv
                PROVE  TypeOK
    OBVIOUS
  <2>1. Valid(wt) /\ Rest
    BY DEF AllInv, Rest
  <2>2. wt.input \in Seq(Seq(Op))
    BY <2>1, OpsAreSequences DEF Valid
  <2>3. PICK q, n : q = wt.partition /\ n = Len(q)
    OBVIOUS
  <2>4. q \in Seq(Nat) /\ n \in Nat /\ DOMAIN q = 1..n
    BY <2>1, <2>3, LenProperties DEF Valid
  <2>5. Cardinality(1..n) = n
    <3>1. Cardinality(1..n) = IF 1 > n THEN 0 ELSE n - 1 + 1
      BY <2>4, FS_Interval
    <3>. QED
      BY <2>4, <3>1
  <2>6. DOMAIN q = 1..Cardinality(DOMAIN q)
    BY <2>4, <2>5
  <2>7. Range(q) \subseteq Nat
    <3>1. \A k \in 1..n : q[k] \in Nat
      BY <2>3, <2>4, ElementOfSeq
    <3>. QED
      BY <2>4, <3>1 DEF Range
  <2>. QED
    BY <2>1, <2>2, <2>3, <2>6, <2>7 DEF TypeOK, Valid, Rest
<1>. QED
  BY <1>1, DriverInvariant, PTL

-----------------------------------------------------------------------------
\* numbers as the lists give them say which operators are in one orbit
LEMMA NumbersAreOrbits ==
  ASSUME NEW e, IsProduct(e), NEW q \in Seq(Nat), Len(e.nops) <= Len(q),
         Numbers(q, NopLists(e)),
         NEW v \in NopVertices(e), NEW w \in NopVertices(e), v # w
  PROVE  LET a == v - Len(e.places)
             b == w - Len(e.places)
         IN  q[a] # 0 /\ q[a] = q[b] <=> SameOrbit(e.auts, NopVertices(e), v, w)
<1>1. PICK L, l, n : L = NopLists(e) /\ l = Len(e.places) /\ n = Len(e.nops)
  OBVIOUS
<1>2. l \in Nat /\ n \in Nat /\ v \in (l + 1)..(l + n) /\ w \in (l + 1)..(l + n)
  BY <1>1, ProductParts DEF NopVertices
<1>3. PICK a, b : a = v - l /\ b = w - l
  OBVIOUS
<1>4. Len(q) \in Nat /\ DOMAIN q = 1..Len(q) /\ n <= Len(q)
  BY <1>1, LenProperties
<1>5. a \in DOMAIN q /\ b \in DOMAIN q
  BY <1>2, <1>3, <1>4
<1>6. IsListing(L, n) /\ Orbits(L, e) /\ Numbers(q, L)
  BY <1>1, NopListsAre
<1>7. \A k \in DOMAIN L : k # 0
  <2>1. DOMAIN L = 1..Len(L) /\ Len(L) \in Nat
    BY <1>2, <1>6, ListingLength
  <2>. QED
    BY <2>1
<1>8. SameOrbit(e.auts, NopVertices(e), v, w) <=> \E k \in DOMAIN L : a \in L[k] /\ b \in L[k]
  BY <1>1, <1>3, <1>6 DEF Orbits
<1>9. q[a] # 0 /\ q[a] = q[b] <=> \E k \in DOMAIN L : a \in L[k] /\ b \in L[k]
  BY <1>5, <1>6, <1>7, Zenon DEF Numbers
<1>. QED
  BY <1>1, <1>3, <1>8, <1>9

(***************************************************************************)
(* Operators are in one partition only if the automorphisms the generators *)
(* make take one to the other, and all such operators are when topology is *)
(* used: for any generators, in any order, and after any calls.            *)
(***************************************************************************)
THEOREM PartitionsAreOrbitsCorrect == Spec => []PartitionsAreOrbits
<1>1. AllInv => PartitionsAreOrbits
  <2>. SUFFICES ASSUME AllInv, NEW c \in made, object.kind \in {"product", "sum"},
                       NEW v \in NopVertices(c.product), NEW w \in NopVertices(c.product),
                       v # w
                PROVE  LET a        == v - Len(c.product.places)
                           b        == w - Len(c.product.places)
                           together == c.partition[a] # 0 /\ c.partition[a] = c.partition[b]
                           alike    == SameOrbit(c.product.auts, NopVertices(c.product), v, w)
                       IN  /\ together => alike
                           /\ c.topology /\ alike => together
    BY DEF PartitionsAreOrbits
  <2>1. PICK e, q, l, n : e = c.product /\ q = c.partition /\ l = Len(e.places) /\ n = Len(e.nops)
    OBVIOUS
  <2>2. ValidCall(c) /\ DividedCall(c)
    BY DEF AllInv, CallsInv
  <2>3. /\ IsProduct(e) /\ q \in Seq(Nat) /\ n <= Len(q)
        /\ AllZero(q) \/ Numbers(q, NopLists(e))
        /\ c.topology => Numbers(q, NopLists(e))
    BY <2>1, <2>2 DEF ValidCall, DividedCall, Grouped
  <2>4. PICK a, b : a = v - l /\ b = w - l
    OBVIOUS
  <2>5. Numbers(q, NopLists(e)) =>
          (q[a] # 0 /\ q[a] = q[b] <=> SameOrbit(e.auts, NopVertices(e), v, w))
    BY <2>1, <2>3, <2>4, NumbersAreOrbits
  <2>6. a \in DOMAIN q
    <3>1. l \in Nat /\ n \in Nat /\ v \in (l + 1)..(l + n)
      BY <2>1, <2>3, ProductParts DEF NopVertices
    <3>2. DOMAIN q = 1..Len(q) /\ Len(q) \in Nat
      BY <2>3, LenProperties
    <3>. QED
      BY <2>3, <2>4, <3>1, <3>2
  <2>7. AllZero(q) => q[a] = 0
    BY <2>6 DEF AllZero
  <2>8. /\ q[a] # 0 /\ q[a] = q[b] => SameOrbit(e.auts, NopVertices(e), v, w)
        /\ c.topology /\ SameOrbit(e.auts, NopVertices(e), v, w) => q[a] # 0 /\ q[a] = q[b]
    BY <2>3, <2>5, <2>7
  <2>. QED
    BY <2>1, <2>4, <2>8
<1>. QED
  BY <1>1, DriverInvariant, PTL

(***************************************************************************)
(* compute() only goes on with topology if every index of a side of an     *)
(* operator is taken to every other by an automorphism.                    *)
(***************************************************************************)
THEOREM IndexCheckIsSoundCorrect == Spec => []IndexCheckIsSound
<1>1. AllInv => IndexCheckIsSound
  <2>. SUFFICES ASSUME AllInv, NEW c \in made, object.kind \in {"product", "sum"}, c.topology,
                       NEW S \in WideSides(c.product), NEW i \in S, NEW j \in S
                PROVE  SameOrbit(c.product.auts, Indices(c.product), i, j)
    BY DEF IndexCheckIsSound
  <2>1. IsProduct(c.product) /\ TopologyApplies(c.product)
    BY DEF AllInv, CallsInv, DividedCall
  <2>. QED
    BY <2>1, IndexPartitions
<1>. QED
  BY <1>1, DriverInvariant, PTL

-----------------------------------------------------------------------------
(***************************************************************************)
(* The engine's input: the operators flattened, and the number of the      *)
(* normal operator each came from.                                         *)
(***************************************************************************)
NumberingOf(q) == [a \in DOMAIN q |-> [o \in DOMAIN q[a] |-> a]]

\* r numbers ops by the parts of q they are in, in order
NumbersParts(r, l, n) ==
  /\ r \in Seq(Nat) /\ Len(r) = l
  /\ \A k \in 1..l : r[k] \in 1..n
  /\ \A k, j \in 1..l : k <= j => r[k] <= r[j]

\* each part of q with its number in the place of every element
PartsNumbered(z, q, S, n) ==
  /\ z \in Seq(Seq(Nat)) /\ n = Len(z)
  /\ \A a \in 1..n : /\ q[a] \in Seq(S) /\ Len(q[a]) \in Nat
                     /\ z[a] \in Seq(Nat) /\ Len(z[a]) = Len(q[a])
                     /\ \A o \in 1..Len(q[a]) : z[a][o] = a

\* every one of n parts has an element
EveryPart(r, n) == \A a \in 1..n : \E o \in 1..Len(r) : r[o] = a

LEMMA NumberingIs ==
  ASSUME NEW S, NEW q \in Seq(Seq(S)), NEW n \in Nat, n = Len(q)
  PROVE  PartsNumbered(NumberingOf(q), q, S, n)
<1>1. PICK z : z = NumberingOf(q)
  OBVIOUS
<1>2. DOMAIN q = 1..n /\ z = [a \in 1..n |-> [o \in DOMAIN q[a] |-> a]]
  BY <1>1, LenProperties DEF NumberingOf
<1>3. ASSUME NEW a \in 1..n
      PROVE  /\ q[a] \in Seq(S) /\ Len(q[a]) \in Nat
             /\ z[a] \in Seq(Nat) /\ Len(z[a]) = Len(q[a])
             /\ \A o \in 1..Len(q[a]) : z[a][o] = a
  <2>1. q[a] \in Seq(S)
    BY ElementOfSeq
  <2>2. PICK m : m = Len(q[a])
    OBVIOUS
  <2>3. m \in Nat /\ DOMAIN q[a] = 1..m
    BY <2>1, <2>2, LenProperties
  <2>4. z[a] = [o \in 1..m |-> a]
    BY <1>2, <2>3
  <2>5. z[a] \in Seq(Nat) /\ Len(z[a]) = m /\ \A o \in 1..m : z[a][o] = a
    BY <2>3, <2>4
  <2>. QED
    BY <2>1, <2>2, <2>3, <2>5
<1>4. z = [a \in 1..n |-> z[a]]
  BY <1>2
<1>5. z \in Seq(Seq(Nat)) /\ Len(z) = n
  BY <1>3, <1>4
<1>6. PartsNumbered(z, q, S, n)
  BY <1>3, <1>5 DEF PartsNumbered
<1>. QED
  BY <1>1, <1>6

LEMMA FlattenNumbers ==
  ASSUME NEW S, NEW q \in Seq(Seq(S)), NEW n \in Nat, n = Len(q)
  PROVE  NumbersParts(FlattenSeq(NumberingOf(q)), Len(FlattenSeq(q)), n)
<1>1. PICK z : z = NumberingOf(q)
  OBVIOUS
<1>2. PICK flat : IsFlattening(flat, q, n) /\ \A i \in 0..n : flat[i] \in Seq(S)
  BY FlattenSteps
<1>3. /\ z \in Seq(Seq(Nat)) /\ n = Len(z)
      /\ \A a \in 1..n : /\ q[a] \in Seq(S) /\ Len(q[a]) \in Nat
                         /\ z[a] \in Seq(Nat) /\ Len(z[a]) = Len(q[a])
                         /\ \A o \in 1..Len(q[a]) : z[a][o] = a
  <2>1. PartsNumbered(z, q, S, n)
    BY <1>1, NumberingIs
  <2>. QED
    BY <2>1 DEF PartsNumbered
<1>4. PICK num : IsFlattening(num, z, n) /\ \A i \in 0..n : num[i] \in Seq(Nat)
  BY <1>3, FlattenSteps
<1>. DEFINE R == {m \in 0..n : NumbersParts(num[m], Len(flat[m]), m)}
<1>5. 0 \in R
  <2>1. num[0] \in Seq(Nat) /\ Len(num[0]) = 0 /\ Len(flat[0]) = 0
    BY <1>2, <1>4, EmptySeq DEF IsFlattening
  <2>2. NumbersParts(num[0], Len(flat[0]), 0)
    BY <2>1 DEF NumbersParts
  <2>. QED
    BY <2>2
<1>6. ASSUME NEW m \in 0..(n - 1), m \in R
      PROVE  m + 1 \in R
  <2>1. m \in 0..n /\ m + 1 \in 0..n /\ m + 1 \in 1..n
    OBVIOUS
  <2>2. PICK l, k : l = Len(flat[m]) /\ k = Len(q[m + 1])
    OBVIOUS
  <2>3. l \in Nat /\ k \in Nat /\ Len(flat[m + 1]) = l + k
    <3>1. flat[m] \in Seq(S) /\ q[m + 1] \in Seq(S) /\ flat[m + 1] = flat[m] \o q[m + 1]
      BY <1>2, <1>3, <2>1 DEF IsFlattening
    <3>2. Len(flat[m]) \in Nat /\ Len(q[m + 1]) \in Nat
      BY <3>1, LenProperties
    <3>3. Len(flat[m + 1]) = Len(flat[m]) + Len(q[m + 1])
      BY <3>1, ConcatProperties
    <3>. QED
      BY <2>2, <3>2, <3>3
  <2>4. PICK a, b, c : a = num[m] /\ b = z[m + 1] /\ c = num[m + 1]
    OBVIOUS
  <2>5. NumbersParts(a, l, m)
    BY <1>6, <2>2, <2>4
  <2>6. a \in Seq(Nat) /\ b \in Seq(Nat) /\ c = a \o b /\ Len(a) = l /\ Len(b) = k
        /\ \A o \in 1..k : b[o] = m + 1
    BY <1>3, <1>4, <2>1, <2>2, <2>4, <2>5 DEF IsFlattening, NumbersParts
  <2>7. /\ c \in Seq(Nat) /\ Len(c) = l + k
        /\ \A i \in 1..(l + k) : c[i] = IF i <= l THEN a[i] ELSE b[i - l]
    BY <2>6, ConcatProperties
  <2>8. \A i \in 1..(l + k) : (i \in 1..l /\ c[i] = a[i]) \/ (i > l /\ c[i] = m + 1)
    <3>. TAKE i \in 1..(l + k)
    <3>1. CASE i <= l
      BY <2>3, <2>7, <3>1
    <3>2. CASE i > l
      <4>1. i - l \in 1..k
        BY <2>3, <3>2
      <4>. QED
        BY <2>3, <2>6, <2>7, <3>2, <4>1
    <3>. QED
      BY <2>3, <3>1, <3>2
  <2>9. /\ \A i \in 1..l : a[i] \in 1..m
        /\ \A i, j \in 1..l : i <= j => a[i] <= a[j]
    BY <2>5 DEF NumbersParts
  <2>10. ASSUME NEW i \in 1..(l + k)
         PROVE  c[i] \in 1..(m + 1) /\ c[i] <= m + 1
    <3>1. CASE i \in 1..l /\ c[i] = a[i]
      BY <2>9, <3>1
    <3>2. CASE c[i] = m + 1
      BY <3>2
    <3>. QED
      BY <2>8, <3>1, <3>2
  <2>11. ASSUME NEW i \in 1..(l + k), NEW j \in 1..(l + k), i <= j
         PROVE  c[i] <= c[j]
    <3>1. CASE j \in 1..l
      <4>1. i \in 1..l /\ c[i] = a[i] /\ c[j] = a[j]
        BY <2>3, <2>8, <2>11, <3>1
      <4>. QED
        BY <2>9, <2>11, <3>1, <4>1
    <3>2. CASE c[j] = m + 1
      BY <2>10, <3>2
    <3>. QED
      BY <2>8, <3>1, <3>2
  <2>12. NumbersParts(c, l + k, m + 1)
    BY <2>7, <2>10, <2>11 DEF NumbersParts
  <2>. QED
    BY <2>1, <2>3, <2>4, <2>12
<1>. HIDE DEF R
<1>7. n \in R
  <2>1. \A m \in 0..n : m \in R
    BY <1>5, <1>6, IntervalInduction
  <2>. QED
    BY <2>1
<1>. QED
  BY <1>1, <1>2, <1>4, <1>7 DEF R, IsFlattening

\* each of the normal operators has an op in the engine's input
LEMMA EveryPartNumbered ==
  ASSUME NEW S, NEW q \in Seq(Seq(S) \ {<<>>}), NEW n \in Nat, n = Len(q)
  PROVE  /\ q \in Seq(Seq(S)) /\ FlattenSeq(q) \in Seq(S)
         /\ EveryPart(FlattenSeq(NumberingOf(q)), n)
<1>1. q \in Seq(Seq(S)) /\ \A a \in 1..n : q[a] # <<>>
  <2>1. q \in [1..n -> Seq(S) \ {<<>>}]
    BY LenProperties
  <2>2. q \in [1..n -> Seq(S)]
    BY <2>1
  <2>. QED
    BY <2>1, <2>2
<1>2. PICK z, r : z = NumberingOf(q) /\ r = FlattenSeq(z)
  OBVIOUS
<1>3. /\ z \in Seq(Seq(Nat)) /\ Len(z) = n
      /\ \A a \in 1..n : /\ q[a] \in Seq(S) /\ Len(q[a]) \in Nat
                         /\ Len(z[a]) = Len(q[a])
                         /\ \A o \in 1..Len(q[a]) : z[a][o] = a
  <2>1. PartsNumbered(z, q, S, n)
    BY <1>1, <1>2, NumberingIs
  <2>. QED
    BY <2>1 DEF PartsNumbered
<1>4. Joins(r, z)
  BY <1>2, <1>3, FlattenElements
<1>5. ASSUME NEW a \in 1..n
      PROVE  \E o \in 1..Len(r) : r[o] = a
  <2>1. Len(q[a]) # 0
    <3>1. \A T : \A s \in Seq(T) : Len(s) = 0 => s = <<>>
      OBVIOUS
    <3>. QED
      BY <1>1, <1>3, <3>1
  <2>2. 1 \in 1..Len(z[a]) /\ z[a][1] = a
    BY <1>3, <2>1
  <2>3. \E o \in 1..Len(r) : r[o] = z[a][1]
    BY <1>3, <1>4, <2>2 DEF Joins
  <2>. QED
    BY <2>2, <2>3
<1>6. FlattenSeq(q) \in Seq(S)
  BY <1>1, FlattenElements
<1>7. EveryPart(r, n)
  BY <1>5 DEF EveryPart
<1>. QED
  BY <1>1, <1>2, <1>6, <1>7

\* no partition is empty, and there are no more partitions than operators
LEMMA PartitionInput ==
  ASSUME NEW c, ValidCall(c), Numbered(c), NEW m, m = Len(c.nops)
  PROVE  /\ c.partition \in [1..m -> 0..m]
         /\ \A a \in 1..m : \A k \in 1..c.partition[a] : \E b \in 1..m : c.partition[b] = k
<1>1. PICK q : q = c.partition
  OBVIOUS
<1>2. m \in Nat /\ q \in Seq(Nat) /\ Len(q) = m
  BY <1>1, LenProperties DEF ValidCall, Ops
<1>3. q \in [1..m -> Nat] /\ DOMAIN q = 1..m
  BY <1>2, LenProperties
<1>3a. PICK n \in 0..m : \E L : IsListing(L, n) /\ Numbers(q, L)
  BY <1>1 DEF Numbered
<1>4. PICK L : IsListing(L, n) /\ Numbers(q, L)
  BY <1>3a
<1>5. n \in Nat /\ n <= m
  BY <1>2
<1>6. /\ Len(L) \in Nat /\ DOMAIN L = 1..Len(L) /\ Len(L) <= n
      /\ \A k \in DOMAIN L : L[k] # {}
  BY <1>4, <1>5, ListingLength
<1>7. \A a \in 1..m : q[a] \in Nat /\ q[a] <= Len(L)
  <2>. TAKE a \in 1..m
  <2>1. q[a] \in Nat
    BY <1>3
  <2>2. q[a] # 0 => q[a] \in 1..Len(L)
    BY <1>3, <1>4, <1>6 DEF Numbers
  <2>. QED
    BY <1>6, <2>1, <2>2
<1>8. \A a \in 1..m : q[a] \in 0..m
  BY <1>2, <1>5, <1>6, <1>7
<1>9. ASSUME NEW a \in 1..m, NEW k \in 1..q[a]
      PROVE  \E b \in 1..m : q[b] = k
  <2>1. k \in DOMAIN L
    BY <1>6, <1>7
  <2>2. PICK x \in L[k] : TRUE
    BY <1>6, <2>1
  <2>. QED
    BY <1>3, <1>4, <2>1, <2>2 DEF Numbers
<1>. QED
  BY <1>1, <1>3, <1>8, <1>9

LEMMA CallIsInput ==
  ASSUME NEW c, ValidCall(c), Numbered(c)
  PROVE  IsInput(EngineInput(c))
<1>1. PICK in, q, m, ops, r :
        /\ in = EngineInput(c) /\ q = c.nops /\ m = Len(q)
        /\ ops = FlattenSeq(q) /\ r = FlattenSeq(NumberingOf(q))
  OBVIOUS
<1>2. in = [ops |-> ops, nop |-> r, nops |-> m, vacuum |-> "SingleProduct", target |-> c.target,
            partition |-> c.partition, full |-> c.full, topology |-> c.topology,
            countOnly |-> FALSE]
  BY <1>1, Zenon DEF EngineInput, NumberingOf
<1>3. /\ in.ops = ops /\ in.nop = r /\ in.nops = m /\ in.vacuum = "SingleProduct"
      /\ in.target = c.target /\ in.partition = c.partition /\ in.full = c.full
      /\ in.topology = c.topology /\ in.countOnly = FALSE
      /\ in = [ops |-> in.ops, nop |-> in.nop, nops |-> in.nops,
               vacuum |-> in.vacuum, target |-> in.target,
               partition |-> in.partition, full |-> in.full,
               topology |-> in.topology, countOnly |-> in.countOnly]
  BY <1>2
<1>4. q \in Seq(Seq(Op) \ {<<>>}) /\ q # <<>> /\ m \in Nat
  BY <1>1, LenProperties DEF ValidCall, Ops
<1>5. m \in Nat \ {0}
  <2>1. \A T : \A s \in Seq(T) : Len(s) = 0 => s = <<>>
    OBVIOUS
  <2>. QED
    BY <1>1, <1>4, <2>1
<1>6. /\ q \in Seq(Seq(Op)) /\ ops \in Seq(Op)
      /\ \A a \in 1..m : \E o \in 1..Len(r) : r[o] = a
  <2>1. q \in Seq(Seq(Op)) /\ ops \in Seq(Op) /\ EveryPart(r, m)
    BY <1>1, <1>4, EveryPartNumbered
  <2>. QED
    BY <2>1 DEF EveryPart
<1>7. NumbersParts(r, Len(ops), m)
  BY <1>1, <1>4, <1>6, FlattenNumbers
<1>8. PICK l : l = Len(ops)
  OBVIOUS
<1>9. l \in Nat /\ r \in Seq(Nat) /\ Len(r) = l
  BY <1>6, <1>7, <1>8, LenProperties DEF NumbersParts
<1>10. l >= 1
  <2>1. 1 \in 1..m
    BY <1>5
  <2>2. \E o \in 1..l : r[o] = 1
    BY <1>6, <1>9, <2>1
  <2>. QED
    BY <1>9, <2>2
<1>11. r \in [1..l -> 1..m]
  <2>1. r \in [1..l -> Nat]
    BY <1>9, LenProperties
  <2>2. \A k \in 1..l : r[k] \in 1..m
    BY <1>7, <1>8 DEF NumbersParts
  <2>. QED
    BY <2>1, <2>2
<1>12. \A o, p \in 1..l : o <= p => r[o] <= r[p]
  BY <1>7, <1>8 DEF NumbersParts
<1>13. \A t \in c.target : \E a, b \in 1..m : a # b /\ t = {a, b}
  <2>. TAKE t \in c.target
  <2>1. c.target \in PairSets
    BY DEF ValidCall
  <2>2. PICK a \in t, b \in t : a # b /\ t = {a, b}
    BY <2>1, PairsAssumption
  <2>3. t \subseteq 1..m
    BY <1>1 DEF ValidCall, InRange
  <2>. QED
    BY <2>2, <2>3
<1>14. /\ c.partition \in [1..m -> 0..m]
       /\ \A a \in 1..m : \A k \in 1..c.partition[a] : \E b \in 1..m : c.partition[b] = k
  BY <1>1, PartitionInput
<1>15. c.full \in BOOLEAN /\ c.topology \in BOOLEAN /\ (c.topology => c.full)
  BY DEF ValidCall
<1>16. IsInput(in)
  <2>1. /\ in.ops \in Seq(Op) /\ Len(in.ops) >= 1
        /\ in.nops \in Nat \ {0}
        /\ in.nop \in [1..Len(in.ops) -> 1..in.nops]
    BY <1>3, <1>5, <1>6, <1>8, <1>10, <1>11, Zenon
  <2>2. /\ \A o, p \in 1..Len(in.ops) : o <= p => in.nop[o] <= in.nop[p]
        /\ \A a \in 1..in.nops : \E o \in 1..Len(in.ops) : in.nop[o] = a
    BY <1>3, <1>6, <1>8, <1>9, <1>12, Zenon
  <2>3. in.vacuum \in {"Physical", "SingleProduct"}
    BY <1>3, Zenon
  <2>4. \A t \in in.target : \E a, b \in 1..in.nops : a # b /\ t = {a, b}
    <3>1. in.target = c.target /\ in.nops = m
      BY <1>3, Zenon
    <3>. QED
      BY <1>13, <3>1
  <2>6. /\ in.partition \in [1..in.nops -> 0..in.nops]
        /\ \A a \in 1..in.nops : \A k \in 1..in.partition[a] :
             \E b \in 1..in.nops : in.partition[b] = k
    BY <1>3, <1>14, Zenon
  <2>5. /\ in.full \in BOOLEAN /\ in.topology \in BOOLEAN
        /\ in.topology => in.full
        /\ in.countOnly \in BOOLEAN
    BY <1>3, <1>15, Zenon
  <2>. QED
    BY <1>3, <2>1, <2>2, <2>3, <2>4, <2>5, <2>6, Zenon DEF IsInput
<1>. QED
  BY <1>1, <1>16

(***************************************************************************)
(* What the engine is given is an input of it whatever was called before,  *)
(* if set_op_partitions was called once at most: a second call may leave   *)
(* numbers of the first that make a partition empty.                       *)
(***************************************************************************)
THEOREM EngineInputIsValidCorrect ==
  ASSUME MaxDivisions \in {0, 1}
  PROVE  Spec => []EngineInputIsValid
<1>1. AllInv => EngineInputIsValid
  <2>. SUFFICES ASSUME AllInv, NEW c \in made
                PROVE  /\ IsInput(EngineInput(c))
                       /\ computes <= 1 => c.entries \in {0, Len(c.nops)}
    BY DEF EngineInputIsValid
  <2>1. divisions <= 1
    BY DEF AllInv, Rest
  <2>2. ValidCall(c) /\ Numbered(c)
    BY <2>1 DEF AllInv, CallsInv
  <2>. QED
    BY <2>2, CallIsInput DEF AllInv, Fitting
<1>. QED
  BY <1>1, DriverInvariant, PTL
=============================================================================
