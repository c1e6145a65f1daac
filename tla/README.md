# A verification of SeQuant2

SeQuant is a C++17 library for the symbolic algebra of tensors and of second-quantized operators. Its core is
`WickTheorem`: given a product of normal-ordered operators it finds the terms of Wick's theorem, with their signs and
with multiplicities for topologically equivalent ones, and simplifies the resulting sum of tensor products. Around it are
expression trees, tensor networks and their canonical forms, the tracing of spin, and trees that evaluate the
equations. This directory holds TLA+ modules that model the library, the TLC configurations that check them and proofs
checked by TLAPS.

    tlc -workers 2 -config engine.cfg MCWickEngine     one of the runs
    tlapm WickEngineProofs.tla                         the proofs of a module

`PROJECT.json` lists the components, the runs, for each property of a passing run one mutation of the model that breaks
it, the source lines each definition stands for, and the hazards the properties are aimed at.

1. Inventory, 2. Modules, 3. The models and the code, 4. Runs, 5. Disagreements, 6. Proofs, 7. Not modelled, and what is left

## 1. Inventory

All paths are below `src/SeQuant/` unless they begin with `src/`.

| component | source | state | operations |
|---|---|---|---|
| Wick engine | `core/wick.hpp`, `core/ranges.hpp` | `NontensorWickState`: the string of operators, prefactor, connections, adjacency counts, topological partitions; local iterators of every recursive call; statistics | `recursive_nontensor_wick`, `connect`, `disconnect`, `can_contract`, `contract`, `compute_nontensor_wick` |
| Wick driver | `core/wick.hpp`, `core/wick.impl.hpp` | settings (`full_contractions_`, `use_topology_`, `op_connections_`, cached connections, partitions), `expr_input_`, `input_`, `stats_` | setters, `compute`, `compute_nopseq`, `reduce` and the index replacement under it |
| Thread pool | `core/runtime.hpp` | number of threads; per call a counter and threads | `parallel_for_each`, `parallel_do`, `set_num_threads` |
| Expressions | `core/expr.hpp`, `core/expr.cpp`, `core/expr_algorithm.hpp`, `core/expr_operator.hpp` | `Sum`: summands, place of the constant; `Product`: scalar, factors; operands are shared pointers | operators, `append`, `prepend`, `clone`, `adjoint`, `canonicalize`, `expand`, `rapid_simplify`, `simplify` |
| Normal operators | `core/op.hpp` | ops, number of creators, lazily made Hugenholtz vertex, vacuum | `erase`, `insert`, `adjoint`, `hug`, `transform_indices`, `normalize` |
| Hugenholtz vertices | `core/hugenholtz.hpp` | groups of equal edges, group of each edge | constructor, `group`, `erase`, `insert` |
| Index spaces | `core/space.hpp` | registry of spaces | `occupancy_class`, `intersection`, `includes` |
| Indices and tags | `core/index.hpp`, `core/tag.hpp` | label, space, proto-indices, tag; counter of temporary indices | `transform`, `next_tmp_index`, `IndexFactory::make`, `IndexSwapper` |
| Tensors | `core/tensor.hpp`, `core/abstract_tensor.hpp` | bra, ket, symmetries | `transform_indices`, canonicalizers and their signs |
| Tensor networks | `core/tensor_network.cpp` | tensors, edges, external indices | `canonicalize` (graph-based or fast), `make_bliss_graph` |
| Spin tracing | `domain/mbpt/spin.hpp` | tags of indices | `spintrace`, `closed_shell_spintrace`, expansions of A, P and S, `factorize_S_operator` and others |
| Evaluation trees | `domain/evaluate` | a binary tree with hashes, indices and scalars | constructor, `swap_labels`, `ops_count`, `evaluate`, `evaluate_and_make` |
| Coupled-cluster examples | `src/examples/evaluation` | amplitudes | the iteration that drives the trees |
| Many-body operators | `domain/mbpt/sr`, `op.hpp`, `convention.hpp` | default context | factories |
| Evaluation paths, factorizer | `domain/evaluate/path_tree.*`, `domain/factorize` | none | search for paths and common factors |
| bliss | `external/bliss` | vendored | graph canonization |

How they interact. `compute()` expands and canonicalizes its expression. For a sum it starts one task per summand with
`parallel_for_each`; each task has its own `WickTheorem`, adds its statistics to the parent's atomic counters and appends
its result to a shared `Sum` under a mutex. For a product it builds a tensor network, asks bliss for the automorphisms
of its graph, turns them into topological partitions of the normal operators, runs the engine, and reduces, simplifies and
canonicalizes the result. The engine walks over the string with cursors of a flattened view, asks the normal operators'
Hugenholtz vertices for the multiplicity of an op, and changes the string, the vertices, the connections and
the partitions in place, undoing every change on the way back. Its result holds overlaps, which the reduction
replaces by equal indices; products are then brought into a canonical form, so that equal terms of the sum meet and are merged.
Spin tracing rewrites such sums, and evaluation trees turn them into contractions of arrays. There are no messages, no
persistence and no timeouts.

What is hard, and what makes each component correct:

- engine: backtracking that must restore five pieces of state exactly, iterators kept across nested searches, pruning that
  must not lose a term. The terms found are those of Wick's theorem, each once, with its sign, equivalent ones counted together;
- driver: settings under any sequence of calls, also aborted ones. The engine gets what the setters asked for;
- thread pool: interleavings and exceptions. Each task once, the call outlives its threads, an exception is not lost;
- expressions: operands are shared and changed in place, and a cached place of a constant. Every call computes what the algebra
  says, and no other expression changes;
- normal operators and vertices: the caches describe the operator as it is;
- indices and tensor networks: simultaneous replacements, capture of names, signs of exchanges. The value is kept, equal
  products get one form, and the reduction ends and leaves no overlap that could go;
- spin tracing: combinatorial factors and signs, searches without a test for the end. The value is kept;
- evaluation trees: labels are exchanged under hashes, permutations have signs. The array is the value of the expression.

## 2. Modules

| module | models |
|---|---|
| `WickInput` | what the engine is given, and the quasiparticle classification of ops (`op.hpp`, `space.hpp`) |
| `WickReference` | Wick's theorem without an algorithm: all sets of contractions, signs by counting inversions, topological equivalence |
| `WickTerms` | abstract specification of one computation: terms are delivered one by one; it stops when every set of contractions is accounted for |
| `WickEngine` | the search, step by step, with an explicit call stack |
| `WickCorrect` | properties that compare the engine with `WickReference`, and the refinement of `WickTerms` |
| `WickDriver` | a `WickTheorem` object under sequences of setters and `compute()`, up to the call of the engine |
| `ForEach` | abstract specification of `parallel_for_each` |
| `ParallelForEach` | `runtime.hpp` step by step |
| `WickParallel` | `compute()` of a sum on top of it, with `Sum::append` |
| `HugenholtzVertex` | the vertex as a record and its operations as operators |
| `NormalOperator` | a normal operator with its caches, under any sequence of calls |
| `ExprHeap` | expressions as nodes on a heap, with the member functions of `Constant`, `Sum` and `Product` |
| `ExprAlgorithms` | `expand`, `rapid_simplify`, `canonicalize` on that heap |
| `Polynomials`, `Algebra` | the free algebra, and the abstract specification: a program computes polynomials in named variables |
| `Expressions` | a program with variables that point to expressions; it takes every step together with one of `Algebra` |
| `Indices` | order, replacement, the numbers of temporary indices |
| `TensorNetwork` | tensors, their canonicalizer, the graph of a network and both ways to canonicalize it |
| `IndexReduction` | the rules of an overlap, their application, what is erased |
| `Products` | a product under any sequence of reductions, canonicalizations and rewritings |
| `SpinTensors`, `SpinAlgorithms` | the expansions of A, P and S and of antisymmetric tensors; spin tracing and the factorization of S |
| `SpinTracing` | an expression under a sequence of these operations |
| `EvalTree` | construction, hashes, exchange of labels, counts, and what a node computes |
| `Evaluation` | the life of a tree |
| `MC...` | one module per run or pair of runs: small inputs |
| `WickEngineProofs`, `WickTheoremProofs` | proofs about the engine: types, terms and connections; then the order of the search and Wick's theorem |
| `WickDriverProofs`, `WickParallelProofs`, `NormalOperatorProofs`, `EvaluationProofs`, `ProductsProofs` | proofs about these components |
| `DataInduction` | lemmas by induction over the numbers, intervals and finite sets, sums, and greatest elements, for the proofs |

`WickCorrect` composes the engine with its reference, `WickParallel` the thread pool with the sum,
`NormalOperator` the operator with its vertex, `Products` the reduction with the networks. `EngineInputIsValid` of
`WickDriver` is the assumption of `WickEngine` about its input. `SpinTracing` takes a canonical form
as a constant: that there is one is `OneForm` of `Products`.

A definition marked "mutation" states a plausible bug. It is used by no specification; `PROJECT.json` names the definition
it replaces and the property that then fails.

## 3. The models and the code

### The engine

One action of `WickEngine` is one pass through a branch of the loops of `recursive_nontensor_wick`.

| code (`wick.hpp`) | model |
|---|---|
| call of `recursive_nontensor_wick`, 650-657 | `Enter`, `ReturnEarly`, `NoLeftOp` |
| right op in the same operator, not contractible, or equivalent to another: 662-723, 820-823 | `Skip` |
| `connect` returns false, 494-516 | `Refuse` |
| contraction accepted, 733-800 | `Contract`: `Connect`, sign, multiplicity, erase, delivery, nested call |
| after the nested call, 801-820 | `Restore`: `Disconnect`, prefactor and string restored, next right op |
| 824 | `AdvanceLeft` (partial contractions) or `Return` |
| 589-597 | `Finish`: contraction-free term of partial contractions |

The variables are named in the module beside the members they stand for. The recursion is an explicit `stack`
of the local variables of suspended calls. Ops are numbered from left to right; as a contraction puts its two ops back
where they came from, the string is the set `live` of the numbers of the ops in it, an iterator is the number of an op, and
the place an iterator resumes at is the next number in `live`. The Hugenholtz group of an op is derived from `live`:
that the cached vertex agrees with this is what `NormalOperator` checks (`HugIsCurrent`, `RestoreUndoesErase`).

What is abstracted. An index space is a set of the base spaces "occ" and "unocc". The expression of a contraction is its
pair of ops. The normal operator of a partial term is the set of its ops: the phase and partner indices that
`normalize()` computes are left out. `WickTheorem` asserts fermionic statistics, so the sign is always computed. The mutex in
the engine is only ever taken by its own thread and is left out.

### The driver

`WickDriver` has one action per public call: `FullContractions`, `Spinfree`, `UseTopology`, `SetOpConnections`,
`SetOpPartitions` and `Compute`. The record `wt` is the object: `input_`, the three switches, `op_connections_` as
the set of required pairs and its length (`entries`), `op_connections_input_` (`cached`) and `op_topological_partition_`. What `compute()` does for a product, a
sequence or a summand is an operator from an object to the object afterwards, whether it threw, and the calls of the engine
(`ComputeProduct`, `ComputeNopseq`); `EngineInput` turns such a call into an input of `WickEngine`. A product is its operators, the
side of an operator each of its indices is on, and generators of the automorphism group of its graph, which bliss finds. An exception
in a summand reaches the caller or ends the program, depending on the thread it happens in (`ParallelForEach`); here it may do both.
External indices, the reduction after the engine and the text of exceptions are left out. `compute_partitions` (`Emplaced`, `Taken`) and
`set_op_partitions` (`NumberingOf`) keep the order in which the code visits generators and operators. Setters are called as documented:
`use_topology(true)` only with full contractions, which `use_topology` asserts and `full_contractions` does not, and
`set_op_partitions` only for a sequence of operators. The assumptions on the constants say what arguments mean anything: a
connection is a pair of two operators (`PairsAssumption`), the partitions of a list are disjoint, not empty, and of operators of the sequence
(`ListsAssumption`), a sequence has an operator (`ObjectsAssumption`).

### Threads

`ParallelForEach` has one step for each access to state that threads share: starting a thread, `fetch_add`, the call of
the lambda, its end, a throw, a join, the return. What the lambda does is left to the extending module. In `WickParallel`
that is `wick_task`: `Compute` or `ComputeThrows`, the two atomic additions of `Stats::operator+=`, `Lock`, then for
each summand of the result `Look` and `Write` (the two halves of `Sum::append`, so that a missing lock would show) and
`Unlock`. The outcome of computing one summand is one of `Outputs`.

### Normal operators

`NormalOperator` allows `hug`, `erase`, `insert`, `adjoint` and `transform_indices` in any order, with the callers'
precondition that an inserted op keeps creators to the left of annihilators. An op is what `Op::TypeEquality` compares.
Index maps keep the types of indices, as those of the library's callers do: `transform_indices` does not touch the vertex.

### Expressions

The heap is a function from references to nodes; a node has a class, a scalar, operands and, for a `Sum`, the place of its constant.
`heap` and `var` are the state, and an action is one call: a binary operator or member function (`Operate`), an algorithm on one
variable (`Rearrange`), a clone. Each operator of `ExprHeap` and `ExprAlgorithms` takes a heap and gives the heap after the
function of the same name. Nodes that nobody owns are freed. A heap that holds the null reference is one where an assertion failed,
or where the bubble sort of `Product::canonicalize` does not end.

Tensors commute, operators do not; odd tensors, whose antisymmetric indices are out of order, give the sign of their canonicalization.
`Consumes` says how the program treats an operand that it passed to an operation: it gives it away, or goes on using it. Operators
share operands with their arguments, so that only a program of the first kind keeps trees (`TreesStayTrees`); both runs
take it. `SortsSums` says whether `canonicalize()` may be called on products that still hold operators or sums: the run
`canonicalize_order` does so. Left out: `s += s` for the same object (an iterator is used while its vector grows), hashes kept
by expressions (the hash of a product ignores its scalar, which merging relies on), CProduct, and printing.

### Products of tensors

The state of `Products` is a scalar, the tensors, the external indices and where the loop of `reduce_wick_impl` is. A pass of that loop
(`ReducePass`) is `compute_index_replacement_rules`, `apply_index_replacement_rules` with the tags of indices that were replaced, and the
erasing of overlaps. `CanonicalizeFast` and `CanonicalizeSlow` are the whole of `TensorNetwork::canonicalize`; bliss is an external choice of
any canonical labelling, i.e. one that depends only on the coloured graph up to isomorphism. `Rewrite` writes the product in another
way, without a change of its meaning. `Meaning` is defined without the algorithms: overlaps make classes of equal indices, a class ranges over the
intersection of its spaces, and a product is a signed bag of tensors up to renaming. Index spaces form the lattice of subsets of two base
spaces. The numbers of temporary indices and the order of labels as strings ("10" before "2") are kept, as the code sorts by them.
Proto-indices, and normal operators in a network, are left out.

### Spin tracing

An expression is a sequence of terms, a term an integer and tensors; bra and ket of a term may hold up to three indices (`MaxRank`).
Indices carry a spin and the tag that says they were replaced. Each public function is one action; the guards are their
preconditions: `factorize_S_operator` is for expressions that are symmetric under exchange of particles (its hashes ignore scalars; `Exchangeable`),
`transform_expression` for indices without tags, `S` for the external indices. The meaning is a polynomial in products of tensors;
`TraceOf` defines the trace of spin by loops of particles, without either of the two algorithms. `Failure` is an expression that no call
should give: a search that runs past the end of its list.

### Evaluation trees

A tree is the sequence of its nodes, operands before the node, with the hash, the indices in their order, the scalar and the labels exchanged;
expressions nest at most `Depth` sums and products, and what is computed from an expression is a function of this depth.
`Construct` is the constructor, `SwapLabelsOf`, `CountOperations`, `StartEvaluation` the public functions; an evaluation takes one step
per node. Hashes are terms: two are equal if the same things are combined in the same order, so that no collision is by chance.
Arrays are functions from tuples of index values to integers. `context` is the step of the iteration: the amplitudes change between two evaluations.
`Exact` is the value of an expression by the definition of its sums and operators. A failed state stands for an exception.
`evaluate_and_make` ignores exchanged labels and is only called without.

## 4. Runs

| run | module | distinct states | what it shows |
|---|---|---|---|
| `engine` | `MCWickEngine` | 49 736 | full and partial contractions, both vacua, all sets of required connections, equivalent ops and operators |
| `parallel` | `MCWickParallel` | 529 053 | a sum computed by up to three threads |
| `settings` | `MCWickDriver` | 390 494 | any sequence of setters and `compute()` |
| `normal_operator` | `MCNormalOperator` | 11 350 | caches of a normal operator |
| `expressions` | `MCExpressions` | 114 450 | two variables under up to three calls |
| `products` | `MCProducts` | 13 326 | reduction and canonical forms |
| `spin` | `MCSpinTracing` | 5 210 | up to six operations on coupled-cluster terms |
| `evaluation` | `MCEvaluation` | 1 749 | trees evaluated while amplitudes change |
| `noncommuting_partition` | `MCWickEngine` | - | counterexample to `NothingLost` |
| `compute_twice` | `MCWickDriver` | - | counterexample to `InputIsTheProduct` |
| `canonicalize_order` | `MCExpressions` | - | counterexample to `ComputesTheAlgebra` |
| `reduction_chain` | `MCProducts` | - | counterexample to `MeaningKept` |

### Bounds

- `engine` takes 13 strings of up to five operators and eight ops with every set of required pairs, with and without `count_only`,
  12 strings with equivalent ops and operators with and without `use_topology` and with partitions, and 10 strings for partial contractions
  with both vacua. The strings are made of the operators of coupled cluster theory, particle-hole excitations and deexcitations of rank
  one and two, the one- and two-body Hamiltonian over the complete space, an occupied block, and single ops. They are long
  enough for two operators joined by two contractions, branches that connectivity prunes, groups of ops that are
  contracted one after another, and partitions of two operators that are emptied and filled again. Partitions
  are those that are symmetries of the string (`IsSymmetric`); `noncommuting_partition` is about the others.
- `parallel`: up to three threads and three tasks (`MaxThreads`, `MaxTasks`), more or fewer tasks than threads; a task gives zero, a sum
  of a term and a constant, or an exception: constants of two tasks meet in the sum.
- `settings`: products of up to six operators, one with two sides of two indices and one with a side of three indices and an
  external index, sequences and sums; all sequences of up to two generators of small groups, so that partitions are begun, extended and
  merged in all orders. `MaxComputes` bounds the calls of `compute()` that append to `input_`; calls that throw before that may be repeated. With
  two of them, what is left of the first call meets the second one. `MaxDivisions` allows one call of `set_op_partitions`: a second
  one starts again from partition 1 and leaves the rest as it was, for which no meaning is documented.
- `normal_operator`: up to five ops (`MaxOps`) of two actions and two types; groups of two and more, and empty ones,
  occur on both sides of the place of a change.
- `expressions`: two variables start as any two of ten shapes (leaves, products, sums of sums and products, with two tensors, two operators and complex
  scalars); `MaxCalls` is 3, so that a result of an operation is rearranged and used again.
- `products`: eight products as coupled cluster theory gives them (equal amplitudes, external indices, tensors without symmetry, a
  product that is zero) and ten with the overlaps Wick's theorem makes, among them products with a factor that the rules of an erasing pass do
  not touch, before and after the overlap that is erased; labels "1", "2", "10", in which the order of strings is not
  that of numbers. No bound on the number of operations.
- `spin`: energies, singles, doubles and a triples term with A, P and S of up to three particles; `MaxSteps` is 6, which allows
  expansion, tracing, simplification, factorization, expansion of S and one more.
- `evaluation`: nine expressions, with both values of `canonize`; two values per index (`Values`), two contexts, one exchange of labels (`MaxSwaps`);
  `Depth` is 4, the nesting of the deepest of them.

### Properties

- `Bookkeeping`: after any path of contractions and returns the counters, bit sets and partitions are those
  of the contractions in the prefactor, and the string is what these leave. `Connectability`: the search never enters a branch in which
  a required connection has become impossible. `TermsAreContractions`, `TermsAreConnected`, `TermsAreDistinct`: soundness of the terms.
  `ImplementsTerms`: refinement of `WickTerms`, i.e. soundness with signs, and completeness with multiplicities.
  `UsefulAreBeginnings`: the statistic of useful contractions is the number of distinct beginnings of terms. `Terminates`.
- `SumIsComplete`, `ConstantIsUnique`, `StatsAreTotals`, `NoSilentFailure`: no interleaving loses a term, a constant, a
  count or an exception. `NoThreadOutlivesCall`, `ImplementsForEach`: the contract of `parallel_for_each`. `Ends`.
- `ConnectionsAreHonoured`, `EngineInputIsValid`: the engine is given connections that the setters asked for, and its preconditions hold, whatever
  was called, computed or aborted before; that `op_connections_` has an entry for every operator is only true until a product is appended
  a second time. `InputIsAccumulated`: a sequence or a summand is given as it is, a product once for each call that appended it. That it is given once is
  `InputIsTheProduct`, which `compute_twice` refutes. `PartitionsAreOrbits`: partitions of operators are the orbits of the automorphism group,
  defined by the sets that the generators map to themselves. `IndexCheckIsSound`: the engine is only called with
  `use_topology` if the indices of each side of each operator are one orbit, which it relies on.
- `CreatorsAreFirst`, `HugIsCurrent`, `RestoreUndoesErase`, `GroupsAreStable`: the caches of a normal operator.
- `ComputesTheAlgebra`: after any calls each variable has the value that `Algebra` gives it: every action is a step of `Algebra`,
  so this invariant is the refinement. `TreesStayTrees`: no node has two owners. `SimplifiedIsNormal`: one `simplify()` is enough.
- `MeaningKept` (of `Products`): reduction and canonicalization keep the value. `OneForm`: equal products get one canonical form.
  `NoNeedlessDelta`: no overlap stays that could go, whichever pass was the last: the code also leaves the loop after a pass that erased overlaps, if a later
  factor has no replaced index, and the rules of another pass would then erase nothing. `ReductionEnds`.
- `MeaningKept` (of `SpinTracing`): each operation keeps the value, and both tracings give the trace. `NeverFails`: no search
  runs past the end of its list.
- `EvaluationIsExact`: the array is the value of the expression. `HashIsCurrent`: hashes follow every exchange of labels.
  `CountIsWork`: the operations counted are the terms added up.

### Fairness and deadlock

The engine is a sequential call: `WF_vars(Next)` only says that it goes on as long as it has a step to
take. `WickParallel` has weak fairness of the caller and of each thread, which is what an operating system's scheduler
gives threads that can run; a thread that waits for the mutex competes with finitely many others, each of which holds
it a bounded number of times, so strong fairness is not needed. In `Products` the fairness is that of a pass of the loop of
`reduce`, which is sequential too. The other specifications have safety properties only.

Deadlock is not checked where an object may come to rest: in `expressions`, `spin` and `evaluation` when the bounded number
of calls is made, and in `products` for a product that was found to be zero. In `engine` and `parallel` the end is an explicit
stuttering step, so that deadlock is checked.

## 5. Disagreements

Shown by counterexamples:

1. `noncommuting_partition`. `wick.hpp:172-175` says that free operators of a partition are equivalent, so that contractions to the first are
   enough. For operators of one partition that contract with each other this loses the term, as the left op may belong to
   the first one.
2. `canonicalize_order`. `expr.cpp:140-141` says that bubble sort is used to avoid swaps across a noncommuting element. Its
   comparison (145) is true for neighbours that do not commute, which are then swapped.
3. `reduction_chain`. `wick.impl.hpp:90-92` says that existing rules are updated to map to the intersection. Only the rules of the two
   indices at hand are; others that share their target keep it. It takes overlaps in a chain before Wick's theorem was
   applied, as only a user writes them.
4. `compute_twice`. `wick.hpp:219` says `compute()` returns the result of applying Wick's theorem, and the setters speak of its "next call"
   (`wick.hpp:63`). For a product each call appends the operators to `input_` again (`wick.impl.hpp:703`), so that the second one contracts them twice.
   Connections that the first call registered (`wick.hpp:144`) then have no entries for the operators added, which `connect` reads without a test (491).

Met while modelling, and described here without a run:

- `wick.hpp:121` says `set_op_connections` "ensures that the given pairs of normal operators are connected". With partial
  contractions each intermediate product is a term, and so is the contraction-free one.
- `runtime.hpp:63` promises the order in which tasks are commenced; fetching and calling are two steps.
- `op.hpp:561` says `hug()` returns the representation of the operator as a vertex; `transform_indices` (657) leaves an old one. Within the
  library no caller replaces indices by those of another type between `hug()` and its use.
- `apply_index_replacement_rules` says that it returns true "if made any changes" (`wick.impl.hpp:209`), and the loop that calls it is to "keep reducing
  until stop changing" (385). A pass that only replaces indices returns false, and so does one that erased an overlap if a later factor has no
  replaced index (249). No overlap is left that could go all the same (`NeededDeltas`).
- `eval_tree_node.cpp:103-106` says that the hash of a contraction identifies which indices are contracted. Positions are combined without a mark
  between two indices, so that g(i3;i4) f(i1;i2) and g(i2;i4) f(i3;i1), which put the indices of the same arrays at different places of the result, hash
  alike. Nothing looks results up by the hashes of inner nodes.
- Once `canonicalize` has sorted a sum that holds a constant, `constant_summand_idx_` may name another summand, and adding a constant fails the assertion of
  `Sum::append`. `ComputesTheAlgebra` says nothing of histories that fail an assertion.
- `Product::prepend` of a product reverses its factors, so the model does not call it; `t + 2t` is not merged, as a lone tensor and a
  product with a scalar are of different classes; a sum of two equal lone normal operators fails an assertion in canonicalize; the clone of an NCProduct is a Product.
- The colour of a tensor in the graph of a network is its label only (`tensor_network.cpp:481`), where the comment at 123-126 names label,
  rank and symmetry. Labels of number 100 pass the test against temporary labels (`index.hpp:453`), and 100 is the first temporary number.
  The comment on fast canonicalization (287-288) does not hold for particle-symmetric tensors without symmetry. After `canonicalize` the edges
  are cleared while `have_edges_` stays true (367, 626): the networks of the library are not used again.
- `spintrace` without external indices (`{{}}`) counts each case twice; expansions of A and P leave tags behind, which
  a later `transform_expression` takes for indices already replaced; `spintrace` of a tensor without symmetry only checks the number of alpha indices.
- A product node of an evaluation tree sets the scalar of its first factor instead of multiplying it, and only its real part; the scalar of the root is never
  applied; a result without indices throws; `contraction_ops` counts in an `int`. `swap_labels` exchanges the first leaf
  that matches (`eval_tree.cpp:88-89`), where `eval_tree.hpp:76-77` speaks of all; `eval_tree.hpp:82` calls a default true that is false (86).
  Expressions for which this matters are not inputs of the run, which takes the forms the examples use.
- `compute_index_replacement_rules` asserts that the indices of an overlap have a common space (`wick.impl.hpp:185`). For a product its overlaps make
  zero this can fail in the second pass: with general internal p, q, m and external e (occupied), a (unoccupied), the chain s(p,q) s(q,a)
  s(m,e) s(p,m) maps q to a new unoccupied index in the first pass while p and m end up at e, so that an overlap of e with that index is left. For products that are not zero it
  holds (`ValuesStay`).

## 6. Proofs

Each theorem holds for every value of the constants that satisfies the assumptions named in the modules.

| theorem | module | states |
|---|---|---|
| `TypeCorrect`, `TermsAreContractionsCorrect` | `WickEngineProofs` | `TypeOK`, `TermsAreContractions` for all inputs |
| `BookkeepingCorrect`, `ConnectabilityCorrect`, `TermsAreConnectedCorrect` | `WickEngineProofs` | `Bookkeeping`, `Connectability`, `TermsAreConnected` for all inputs |
| `TermsAreDistinctCorrect` | `WickTheoremProofs` | `TermsAreDistinct` for all inputs |
| `TermsAreWicksCorrect`, `StepsAreWicksCorrect` | `WickTheoremProofs` | soundness for all inputs: what is delivered is a term of Wick's theorem with its sign, and each step delivers or counts a new one or none |
| `AllIsFoundCorrect`, `ImplementsTermsCorrect` | `WickTheoremProofs` | completeness, and the refinement `Spec => ImplementsTerms`, for inputs without topological degeneracies |
| `UsefulAreBeginningsCorrect` | `WickTheoremProofs` | `UsefulAreBeginnings` for all inputs |
| `TypeCorrect`, `NoThreadOutlivesCallCorrect`, `NoSilentFailureCorrect`, `ConstantIsUniqueCorrect`, `StatsAreTotalsCorrect`, `SumIsCompleteCorrect` | `WickParallelProofs` | those invariants for any number of threads and tasks and any outcomes |
| `ForEachImplemented` | `WickParallelProofs` | the refinement: `Spec => ImplementsForEach` |
| `TypeCorrect`, `ConnectionsAreHonouredCorrect`, `PartitionsAreOrbitsCorrect`, `IndexCheckIsSoundCorrect` | `WickDriverProofs` | those invariants for any objects, generators, setters and calls |
| `InputIsAccumulatedCorrect` | `WickDriverProofs` | `InputIsAccumulated` for any objects and any number of calls |
| `EngineInputIsValidCorrect` | `WickDriverProofs` | `EngineInputIsValid` if `MaxDivisions` is at most 1 |
| `TypeCorrect`, `CreatorsAreFirstCorrect`, `GroupsAreStableCorrect` | `NormalOperatorProofs` | those properties for any types and any number of ops |
| `HugIsCurrentCorrect`, `RestoreUndoesEraseCorrect` | `NormalOperatorProofs` | those invariants if index maps keep the types of indices |
| `TreeInvariant` | `EvaluationProofs` | `nodes` is a tree at any time, the values are those of the nodes already evaluated, and `work` is what these cost |
| `HashesCurrent`, `CountedIsWork` | `EvaluationProofs` | `HashIsCurrent`, `CountIsWork` for all expressions, contexts and exchanges of labels |
| `DeltasStayDeltas` | `ProductsProofs` | each overlap has one bra and one ket index, different ones, after any operations on any product |
| `ValuesStay` | `ProductsProofs` | a product its overlaps do not make zero keeps this, and its overlaps a common space of their indices: the assertions of every pass hold |
| `SoundRules`, `NoValuesLost` | `ProductsProofs` | for such a product the replacement rules of every pass are sound, and `zero_result` is not thrown |
| `NeededDeltas` | `ProductsProofs` | `NoNeedlessDelta` for any products, any canonical labelling and whichever pass ended the loop |

The installed provers cannot instantiate an induction rule over a predicate. `DataInduction` states the rules for a set in the
place of the predicate (`SetInduction`, `IntervalInduction`, `SubsetInduction`) and derives from them that nonempty finite sets of numbers
have a greatest element (`LargestExists`) and what a sum over a finite set becomes when an element joins, leaves or changes (`SumOver...`). All
that follows about recursive functions and folds is argued with these.

*The engine.* `TermsAreContractions` is not inductive: when the search comes back, it takes the prefactor from a frame and the string
from the ops of that frame, and the next term is built from both. The inductive invariant `Inv` adds that the string
and the prefactor belong together (`StringMatchesPrefactor`), that the left iterator is at an op of the string and
left of the right one (`CursorInv`), and that every frame holds a set of contractions which together with its own pair
of ops is the prefactor of the frame above, the topmost frame's being the current one (`FramesInv`). The lemmas follow the
actions: those that only move iterators, `Contract` (`ContractStep`, by `ContractionAdd`: a contraction of two live
ops extends the prefactor) and `Restore` (`RestoreStep`, by `ContractionSubset`: removing the pair gives back its ops).

*Connections.* The second half of `WickEngineProofs` goes on from `Inv`. `Books` says that counts, partitions and bits are functions of the prefactor; as
`Inv` says what the prefactor is after `Restore`, `disconnect` undoes `connect` by arithmetic on the number of contractions between two operators.
`Connectability` is not inductive either: taking a contraction back must give a state that satisfies it, so `ReachInv` says it of
the prefactor and of the prefactor of every suspended call. `ConnectedInv` adds that the terms already found are connected, which follows from
`Connectability` at the moment when no op is left.

*Order of the search.* A call tries pairs of a left and a right op in their order (`Precedes`), and nested calls look behind the left op of
their caller. A set of contractions is `Visited` if it is on the way to where the search is, or in a branch that a call on the stack has passed.
`ContractNotVisited` says that the prefactor a contraction makes is not; every step keeps what was visited (the lemmas `...Visited`). All terms found were
visited, hence no two are equal.

*Wick's theorem.* `WickReference` builds the sets of contractions op by op with a recursive function; `IntervalInduction` gives that they are
all sets of disjoint pairs that may be contracted (`MatchingsAreContractions`). It counts the inversions of the whole permutation, where
the engine only counts the ops between the two that it contracts: a contraction to the right of those already made adds to
the inversions twice the free ops to the left of its left op, and once those between its two ops (`InversionsAfter`), so that the signs
agree (`SignInv`). Completeness (`CompleteInv`) says that what was found is what a term is wanted for and is not `Coming`, i.e. neither the
running call nor a suspended one has it before it. A set leaves `Coming` only by the contraction that delivers it; `connect()` prunes no
branch with a wanted set, as it prunes only what can no longer be connected, and for a full contraction the first free op has a
partner in every wanted set, so that no other left op need be tried. In the end nothing is coming. `Plain` says that no contraction stands for others:
no topology and no partitions. With them a term stands for an orbit of sets of contractions; that the multiplicities then add up to all of them is left to TLC.
A useful contraction is counted when the search comes back from it, or at once when it completes a term. `UsefulInv` says that
those counted are the beginnings of the terms found but for the ones on the stack (`Open`), and that a suspended call can tell by its copy of the
counter whether its own is one; what is contracted next begins no term found before, by the order again (`BeginsNone`).

*The driver.* `InForce` is what the next call of the engine will be given: the cached pairs if there are any, the registered ones otherwise. The
inductive invariant says that it was asked for; a part of `compute()` may move it from one member to the other, also when
it throws, and must not change it (`Sound`, proved for `ComputeNopseq` and `ComputeProduct`). For the operators the invariant says
what `input_` is: for a product its operators as often as they were appended (`Accumulates`, which a call extends by one step), which is the flattening that
`InputIsAccumulated` speaks of (`AppendedIsAccumulated`). `Sized` says that `op_connections_` fits `input_` as long as a product was appended once at most.

*Partitions.* The loops of `compute_partitions` are functions of the number of passes (`IsFold`, `IsRun`), and the vectors that are joined into one
are flattenings (`IsFlattening`); what a pass does is proved once and carried along by `IntervalInduction`. A pass keeps together what was together,
puts its two vertices together, and keeps to every set that has both or neither of them (`Respects`). So in the end vertices that a generator maps to each
other are together, and each partition is within every set that all generators map to itself (`Meets`, `Divides`). The orbits are the
least such sets, and the partitions are such sets, as a permutation that maps a finite set into itself maps it onto itself (`ImageOfFinite`): hence
the theorem, in whatever order partitions were begun, extended and merged. The check of the indices is the same argument, one side of an operator at a time.

`EngineInputIsValid` says what the engine assumes (`IsInput`). `KindInv` says for each kind of object what `op_topological_partition_` holds between calls:
nothing, the numbers of the lists that `compute()` makes, or those of the lists of the user. Lists that are disjoint and not empty are no more than
there are operators (`ListingLength`), and numbers given list by list leave no gap (`Numbers`). The hypothesis on `MaxDivisions` cannot be dropped: a
second `set_op_partitions` starts from number 1 again and leaves operators it does not name as they were, so that a number may be left without operators.

*Threads.* `LoopInv` says where tasks and threads are: the tasks below the counter were begun or are held by exactly one thread, no two
threads have the same, a thread is over only when there is nothing left to take. The refinement of `ForEach` follows step by step; its bound on the
number of calls under way needs that the tasks being run are the image of the running threads (`RoomForOneMore`). `FailInv` adds that no
task ended that throws. `SumInv` adds mutual exclusion and that the place found for a summand is still right when it is
written, which is what the mutex is for. `CountersInv` bounds the counter by the threads that are over. `StatsInv` says that each atomic
counter is the sum over the tasks that are past the step that adds to it, so that no addition is lost between the two. For the sum, `AppendInv` speaks
of every weight of summands under which constants add up: the weight of the sum is that of the tasks that ended, where the task that holds the mutex is
completed by what it has yet to append. The value of the constants is such a weight, and so is the number of occurrences of any other term.

*Normal operators.* `Splits(ops, ncreators)` is inductive. The lemmas say what `RemoveAt`, `InsertAt` and `Reverse` return; an
inserted op keeps the string normal-ordered, so that a creator goes to the right of no annihilator. `Represents(v, s)` says that vertex `v` is one of the
ops `s`: each op is in the group of its edge, a group holds the ops that are in it and no two groups have the same edge. The constructor,
which the model writes as a recursive function, establishes it (`AddedRepresents`, carried along by `IntervalInduction`), and `erase` and `insert` keep it, with the members of all
groups renumbered (`Lowered`, `Raised`). An op that is put back finds the group it came from, as groups are never erased, and renumbering back and forth
is the identity. `HugInv`, that the vertex represents some ops as many as there are, holds for all index maps. That these are the ops as they are (`CurrentInv`)
needs `KeepsTypes`: `transform_indices` replaces the ops and leaves an old vertex (section 5).

*Evaluation trees.* `IsTree` says that the nodes below a node are an interval that ends with it, so that two subtrees are nested or apart
(`Nested`), that operands come before their node, and that the hash and the indices of a node are those of its operands. Trees
are joined, scaled and chained (`JoinedIsTree`, `ScaledIsTree`, `ProductIsTree`), and the recursion over expressions goes by their depth (`BuildIsTree`). An exchange
of labels changes a leaf; only hashes of nodes above this leaf can be affected, and those are what `swap_labels` computes anew on its way back
(`SwappedAbove`, `SwapIsTree`). For the count, the values are those of the nodes evaluated so far and `work` is the sum over the products among
them (`IInv`). A contraction adds up one term for each assignment of values to the indices of both operands, and the number of these functions is the power that
`contraction_ops` multiplies up (`FunctionsCount`, `PowerIs`); both sums go over the same nodes, as exchanged labels change no index set (`SameCount`). The
assumptions are that an index has finitely many values and that `Start` holds expressions of at most depth `Depth`.

*Products.* Sorting only rearranges (`SortRearranges`). Renaming keeps indices apart: new names are different from each
other and from those of the named indices (`NewIndicesDiffer`, `RenamingSeparates`), whatever ranking the canonical labelling gives. That an overlap
does not become one of an index with itself needs both, and that the reduction erases such overlaps (`ReplacedDeltas`). `NoNeedlessDelta` is an argument
about one pass, which may be the last for any reason. An overlap with an internal index makes a rule or shows that the product is zero, and no later overlap takes back a
rule (`AddRulesIs`, `NoRuleNeeded`), hence a pass without rules leaves no overlap with an internal index; one with rules leaves what it has not
erased, and that is needed (`NotErased`). Nor would another pass erase any of it: its rules replace no external index and lead from an internal one
into a space within its own (`Narrows`, `RulesNarrow`), which includes that of the external index no more than before (`NeededStays`). The
assumption on `Start` is what the assertions in `compute_index_replacement_rules` say.

The rules themselves are a question of their own: which rule an overlap makes depends on the rules made before it, and images are shared, narrowed and
passed on. `Joined` says that overlaps bind two indices, over any number of others (every set that no overlap leads out of has both or none), and an
index `Shares` a base space that all joined ones have. The invariant of the rules in the making (`Sound`) is that an image is an external index joined
with the replaced one or an index issued before, that its space lies between what is shared and the space of the replaced index, that only joined
indices have the same image, and that the product is called zero only if some joined indices share nothing. One lemma per function of the code
(`NarrowSound`, `FollowSound`, `UniteSound`, `AddRulesSound`, `BindSound`, `AddOverlapSound`) keeps it; that images only become narrower
(`Grows`) carries the claim about an overlap (`Covered`) over the later ones, and `RulesSound` is the induction over the overlaps. That an issued
index is new (`NextTmpIs`, `IssuedIsNew`) is needed throughout. From one pass to the next the invariant is `HasValues`: a base space of each index can
be chosen so that the indices of each overlap have the same. Sound rules carry such a choice over to the product they make (`ValuesCarried`), as do renamings
and permutations. The hypothesis of `ValuesStay`, `SoundRules` and `NoValuesLost` that the product has values at the start is needed: see the last
remark of section 5. That the rules are sound does not make the value of the product stay: a rule that is narrowed leaves those that share its image
as they are (the run `reduction_chain`).

Only model-checked, and why:

- `ImplementsTerms` for inputs with topological degeneracies, i.e. that the multiplicities of equivalent terms add up to all
  of them: it needs a count of orbits (the soundness of these terms is proved);
- `ComputesTheAlgebra`, `TreesStayTrees`, `SimplifiedIsNormal`, and `MeaningKept` and `NeverFails` of `SpinTracing`: the algorithms are recursive over expressions
  of any depth, and their models use recursive operators and selections, which the provers do not see through;
- `MeaningKept` and `OneForm` of `Products`: equality up to renaming of a whole product, over all canonical labellings;
- `EvaluationIsExact`: sums over functions on both sides, by induction over the expression;
- liveness under fairness (`Terminates`, `Ends`, `ReductionEnds`) and ENABLED, which are out of the prover's reach.

## 7. Not modelled, and what is left

Not modelled: bliss (vendored; any canonical labelling); the factories of many-body operators (no state; their operators are inputs of the runs);
evaluation paths and the factorizer (`largest_common_subnet` prints what it finds and returns empty vectors); printing, parsing, hash
functions, containers; the numerics of the examples. The branch of `compute()` for the parallel algorithms of the standard library locks a mutex under
`std::execution::par_unseq`, whose behaviour the standard does not define. In modelled components: the phase of `normalize()`, proto-indices,
the slow method of `factorize_S_operator` (`spin.hpp:1437-1531`), the branch of `expr_symmetrize` for operators that do not conserve particles,
`parallel_do` (no caller), the digraphs of evaluation trees.

What is left of the plan: `ImplementsTerms` with topological degeneracies, which needs a count of the orbits of symmetries of the string; proofs about
expressions, after their recursive operators were written as recursive functions, and that evaluation and canonicalization keep the
value; normal operators in tensor networks with the sign of `normalize()`; the slow factorization of S.
