# A TLA+ model of the otinum library

`include/otinum/` is a header-only C++ library of order-truncated imaginary
numbers: `otinum<M, N>` holds the value of a quantity and all its derivatives up
to total order `N` in `M` variables, as a flat array of normalized Taylor
coefficients.  This directory models the library's own logic, checks it with TLC
on small shapes, and proves some of it with TLAPS for all of them.  The two
distributed solvers under `examples/mpi/`, which exchange jets between ranks, are
modelled too.

## 1. Inventory

| component | state | operations | what is hard |
|---|---|---|---|
| ranking (`detail/multi_index.hpp`, `detail/binom.hpp`) | none | `rank`, `merge_sparse`, `sparse_rank` | two independent ranking algorithms must agree; the order is summed in an `int` |
| table builders (`detail/multi_index.hpp`, `tables<M, N>`) | tables under construction, cursors, brackets | unranking by bisection, order offsets, a counting sort of product terms | off-by-one errors that hit single indices of large shapes; a separate counting and filling pass |
| arithmetic (`core.hpp`) | the coefficient array of every object; the partially solved inverse | accessors, `+ - * /`, scalar forms, fused operations, truncated operations, `inv` | operands aliased with the result; an inverse that reads what it writes; NaN derivatives that must not vanish |
| scalar functions (`taylor.hpp`, `functions.hpp`) | running power `h^k`, partial sum | coefficient generators, `apply_scalar`, `abs` and the functions made of others | recurrences, integer powers at zero, singular points, a signal that must survive composition |
| SoA view (`soa.hpp`) | one flat buffer per array | `load`, `store`, `coeff` | threads interleaving in one buffer |
| reductions (`mpi.hpp`) | partial results and messages of the MPI library | `reduce_fn`, four combines | MPI picks order, tree and segments; ties and NaN |
| validity (`validity.hpp`) | bracket of a bisection | `evaluate`, `truncation_error`, `is_trusted`, `validity_radius`, `error_sensitivity` | non-monotone error, bounded doubling, two views of one polynomial |
| `cmath` interop (`interop.hpp`) | none | `fmax`, `hypot`, `fmod`, `expm1`, ..., predicates, rounding, printing | ties and NaN in a selection, real parts replaced by more accurate ones |
| halo exchange (`examples/mpi/halo`) | two buffers per rank, messages | four `MPI_Sendrecv` per sweep, verification | blocking calls, ranks running ahead, walls that live in ghost cells |
| unstructured exchange (`examples/mpi/unstructured`) | the same; send lists and ghost slots | one `MPI_Sendrecv` per neighbour and sweep | lists that two ranks compute independently must fit |
| profile (`profile.hpp`) | global counters | increment, reset, snapshot | not thread-safe by its own comment |
| Kokkos layer (`detail/kokkos_compat.hpp`) | none | wrappers of libm | external |
| Python bindings, other examples, benchmarks | none of the library's | conversion, timing, printing | nothing for a model |

How they interact: every operation on a jet goes from a multi-index to a place in
the flat array through `rank`, or runs over the product-term tables that the
builders computed with `sparse_rank`; scalar functions are built on the product
terms, and the other functions on them and on the arithmetic; the validity
functions read the coefficients through the sparse table; the reductions call
`operator+`, `operator*` and comparisons of the real part from a callback that the
MPI library drives; the SoA view stores jets for kernels whose threads run at the
same time; the solvers send jets as elements of an MPI datatype.  The library
itself starts no thread and sends no message: concurrency comes from the Kokkos
kernels and the MPI library that use it.

The properties that make each component correct are those of section 3; the
`hazards` of `PROJECT.json` give the place in the code where each could fail.

## 2. Modules

    MultiIndex <- LayoutTables <-----.                        (MCLayoutTables)
        ^ ^-- MultiIndexProofs <- LayoutTablesProofs
        |         ^-- FoldFacts
    JetLayout <- TruncationError <- ValidityRadius            (MCValidityRadius)
        ^                               ^
        |                           ValidityRadiusProofs
    JetRing (+ Coefficient) <- JetCalls <- JetAlgebra   abstract
        ^                          ^          |
    JetTables <------------------ OtiCore ----+ implements    (MCOtiCore)
        ^                          ^
        |                      OtiCoreProofs (+ MultiIndexProofs, FoldFacts)
    ScalarCompose (+ ScalarSeries) <- ElementaryFunctions     (MCScalarCompose)

    JetArray (abstract) <- implemented by SoaSpan <- SoaSpanProofs  (MCSoaSpan)
    JetReduce <- JetReduceProofs                              (MCJetReduce)

    SweepJets <- HaloPlan, GraphPlan <- GhostExchange         (MCGhostExchange)
    SerialSweeps (abstract) <- implemented by GhostExchange
    GhostExchange <- GhostExchangeProofs

- **MultiIndex**: the pure algorithms, translated one by one; `WrapInt` gives sums
  of `int` their width (`IntMax`).
- **LayoutTables**: the builders of `tables<M, N>`; one action per round of one
  loop, so that a bracket that does not shrink or a cursor that runs over shows.
- **Coefficient**: what a coefficient is.  Finite values are the field of `P`
  elements, so an algebraic identity is an exact equality; `NonFin` stands for
  every infinity and NaN.  Rounding, overflow of `double` and signed zero are
  abstracted away.
- **JetLayout**: which multi-index each coefficient belongs to.
- **JetRing**: truncated polynomials over multi-indices, without any layout; the
  reference for what products, inverses and compositions mean.
- **JetTables**: the flat array and its tables.  The tables are written as sets
  of terms: that the loops compute them is what LayoutTables checks.
- **JetCalls, JetAlgebra, OtiCore**: the calls a program makes; what each means
  in JetRing; what the code does on arrays.  `Value` has one case per operation,
  `CallInverse` and `SolveNext` are `inv`, `inv_solve` and `operator/`.  `path` is
  the arithmetic path compiled in: on path 0 terms come from dense ranks, on the
  others from the sparse-rank table.
- **ScalarSeries**: the coefficient generators.  With `P = 3 (mod 4)` the nonzero
  squares play the positive numbers (exactly one of `r`, `-r`; closed under
  product and root), with `P = 2 (mod 3)` cube roots are unique.  What libm
  returns for a transcendental function is any of `Values`.
- **ScalarCompose**: `apply_scalar` as the loop it is: `Apply` makes the singular
  test and the first two terms, `NextPower` multiplies by the nilpotent part and
  adds the scaled power.
- **ElementaryFunctions**: the functions made of others, each an operator over the
  arithmetic of JetRing (which OtiCore shows the code to implement) and over
  `apply_scalar` as one operator.  `Compute` is a call of one of them by the
  program of ScalarCompose.  `Outcomes` lists what a call may return: one result
  for every value libm may give (a sine with a cosine, a positive exponential, a
  rounded quotient).
- **TruncationError, ValidityRadius**: `validity.hpp`.  The sums and the gradient
  are operators over the sparse entries; `validity_radius` has the actions `Seed`
  (closed form of the leading term), `Grow` (one doubling), `GiveUp` (infinite),
  `Bracket`, `Halve` (one halving), `Return`.  Coefficients, tolerances and steps
  are integers in units as fine as one likes, seeds multiples of
  `Grain = 2^(Halvings + 1)`, so that every midpoint is exact.  `RootOf`, the closed
  form, is exact where it is such a multiple; elsewhere it is either neighbour, which
  is coarser than the code's rounding to an ulp.  The invariants and the theorems hold
  for both, whatever the seed; the one trace taken for a finding (`validity_inner`)
  has an exact seed.
- **JetArray, SoaSpan**: arrays of jets with atomic bodies; flat buffers with
  threads that load and store one coefficient at a time.
- **JetReduce**: the callback and the combines of `mpi.hpp`, driven by an MPI
  library that sends copies of segments of a partial result to ranks which do not
  cover them yet: trees, chains, rings and butterflies are interleavings of `Send`
  and `Receive`.  The MPI side is external: its standard asks only that every
  contribution be combined once.
- **SweepJets, HaloPlan, GraphPlan, GhostExchange**: the solvers.  HaloPlan and
  GraphPlan are what a rank computes before its loop: the calls of an iteration
  (partner, places sent, places filled, tag), the first contents of a buffer, the
  places every cell reads and the global name of every local place.  The values that
  no message brings are the walls of a grid (`SetBoundary`) and the sources of a
  graph, which only their owner seeds (`SeedSources`): a ghost of a source starts at
  zero and depends on its messages like any other.  GhostExchange
  runs any such plan: `Post`, `Receive`, `Return` make an `MPI_Sendrecv`, `Relax`
  is the sweep with its swap, `Verify` and `Conclude` the end of `main`.  MPI
  (external) keeps the messages of one channel in order, and a send may return
  before it is received (`ReturnBuffered`) but need not.
- **SerialSweeps**: what the solvers promise: each rank's tile goes through the
  serial fields one by one, no rank more than a sweep ahead of a neighbour.

## 3. Runs

| run | instance | shows |
|---|---|---|
| `layout` | eight-bit `int`, eight shapes: no derivatives, one variable, up to five variables and order three | `RankIsPosition`: position and dense rank are one bijection, in the graded order. `RankInverts`: what the bisections store at a position is canonical and `sparse_rank` maps it back. `SearchBrackets`: the bisection never loses its target. `RanksInRange`, `WriteOnce`, `TermsComplete`: the counting sort puts every product once into the right bucket. `InverseReadsSolved`: what `inv_solve` relies on. `Terminates` under weak fairness of the builder's step |
| `core` | `<2, 2>`, `P = 5`, two objects, programs of two calls, paths 0 and 2 | `ImplementsAlgebra`: refinement of JetAlgebra. `SolvedPrefix`: loop invariant of the inverse. `NonFiniteSticks`: a coefficient that is not finite survives linear operations, and spoils whatever it contributes to in a product or a quotient, zeros in the other operand included (but for a divisor's real part: one over infinity is zero). `TypeOK`: no write outside the array |
| `core_wrap` | four-bit `int` | *violated*: a request outside the order is not ignored when the sum of its exponents wraps (where none wraps it is: `OutsideOrderIgnoredHolds`) |
| `scalar` | `<2, 3>`, `P = 11`, every real part, nineteen functions on paths 0 and 1, seventeen composed ones | `ChainRule`: the composed jet satisfies the differential equation of the function along every variable, to every order, with the right slope. `PowerLaw`: powers and roots agree with the product. `SingularSignal`: derivatives are finite exactly where the function has them up to order `N`. `PowersOfNilpotent`: loop invariant. `ComposedRule`, `ComposedSignal`: the same for functions made of others, whose real part may be replaced. `SelectsWhole`: `fmax`, `fmin`, `copysign` return one operand with all its derivatives, NaN and ties included |
| `scalar_square` | two calls, `sqrt` and square | *violated*: `pow(v, 2)` loses the NaN derivatives that `v * v` keeps |
| `singular_docs` | `<2, 1>`, `pow` of two jets, `atan2`, `fmod` by a scalar | *violated*: finite derivatives where nan is documented |
| `soa` | three threads, two coefficients, two passes | `ImplementsArrays`: refinement of JetArray; `TypeOK`: stores stay in the buffer |
| `reduce` | three ranks, two elements, whole buffers or segments, two messages in flight | `Agreement`, `WinnerDominates`, `FoldsInputs` in every order of combination and with every cut; `TypeOK`: the callback stays in its elements |
| `reduce_nan` | a NaN among the located values | *violated*: the winner depends on the tree |
| `exchange` | grids of 2, 3 and 2 x 2 ranks on a 3 x 3 interior, a graph of seven nodes on 3 and 4 ranks, two sweeps | `ImplementsSerialSweeps`: every tile is the serial field's, whatever the interleaving. `GhostsCurrent`: a ghost read is of the reader's sweep. `CallsPair`: what two ranks compute about their channel, each on its own, agrees. `ViewsMirror`: the local views are pieces of the serial field, cut so that one round of messages makes up for the cuts. `ReceiveFits`: messages have the size the receiver expects, at most two wait. `EndsInPass`: no deadlock, and both checks of the program pass |
| `validity` | `<2, 3>`, five jets, four tolerances, every model order | `ReachIsLargest`: for one sign of the terms the reach is the largest trusted step. `InfiniteWhereExact`: infinite where the error vanishes, and not where its leading term is all of it. `BracketHolds`: loop invariant. `PredictionPlusError`. `SensitivityIsGradient`, with two offsets far beyond the sensitivities at hand |
| `validity_inner` | one jet with the error `21 r^2 - r^3` along an axis, budget 1344, whose seed `sqrt(1344 / 21) = 8` is exact | *violated*: the doubling from 16 to 32 steps over the interval in which the error exceeds the budget, and the reach is not the first crossing |

**Bounds.** Shapes with two variables and order two or three have mixed products,
repeated exponents, several terms per output and an inverse with more than one
unsolved coefficient; the builders also run with five
variables, where the bisection over positions takes three rounds.  Two calls are enough for a result to become an
operand, alias included.  Order three exercises both previous terms of the
recurrences.  Three ranks give every shape of tree (two levels) and a tie between
any two; two threads interleaving in one buffer suffice for a collision, the
third gives an element between two others.  Two doublings and two halvings stand
for the 64 of each loop: the jets are chosen so that the budget is met at once,
after doubling, and not at all, and each halving can go either way.  In the
exchange, 2 x 1, 3 x 1 and 2 x 2 grids give ranks with one wall, with two opposite
walls, with a corner, and tiles of different sizes; the graph has a rank with two
neighbours and scattered, differently sized lists.  Two sweeps let a neighbour
send its second message before the first is taken, read both buffers, and carry
every derivative past a tile's border.  `MaxCalls`, `Passes`, `MaxInFlight`,
`Doublings`, `Halvings` and `Iterations` bound the length of a behaviour and are
guards of the modules.  `reduce*` are allowed to stop: a reduction ends.

**Fairness.** The builders are sequential code evaluated by the compiler (or once
on a device), which goes on as long as a step is possible: weak fairness of `Next`
(`Terminates`).  The exchange ends (`EndsInPass`) if some process that can go on
does, and MPI delivers what was sent to a posted receive, which is its progress
rule: weak fairness of `Unbuffered`, which leaves out `ReturnBuffered`; a standard
send may be buffered, but a program must not need it to be.  No other property
needs fairness.

**Restrictions of the `scalar` model.** No function but `fmax` and `fmin` is called
on a real part that is infinite or NaN, since the field has no number for it (in
their calls it is a NaN); such real parts do arise inside a composed function
(`log` at 0 in `pow`, `y / 0` in `atan2`) and are followed there.  `atan` and
`asinh` are applied where `1 + x^2` is positive in the field, as it is for every
real `x`; the sine and cosine of an angle, and an exponential, are any numbers
with the identity that binds them.  An overload with a plain scalar is the call
with a constant jet, which is what its code computes, but for `fmod` and `remainder`
by a scalar: there `n * y` is a number, subtracted from the real part alone
(`RemainderByScalar`); at `y = 0` only the value becomes NaN, which `ComposedSignal`
therefore leaves to `DocumentedSingularities`.  Powers run over the exponents -1, 0,
1/2, 3/2, 2, 3 and 7/2: non-integer ones below and above `N = 3`.  The sign of zero is not represented:
`copysign` with a zero may go either way.

## 4. Proofs

TLAPS checks the following for all values of the constants.

- **SoaSpanProofs**: `TypeCorrect` (no store leaves a buffer) and
  `ImplementsArraysHolds` (`Spec => ImplementsArrays`).  The arithmetic core is
  `PlacesDiffer`: `c * Extent + i` determines `c` and `i`.  From it `StoreOne`: a
  store changes one coefficient of one element.  The refinement maps an element to
  its old jet, still held in the thread's register, until the last coefficient is
  stored; so `TypeOK` has to be strengthened by `ThreadInv`, which says that what a
  thread has loaded is still what the buffer holds and what it has stored so far
  is there.
- **FoldFacts**: what the other proofs build on.  The library's induction theorems
  take a predicate as a parameter, which the provers cannot instantiate; here the
  predicate is a set (`NatInductionOn`, `SetInductionOn`), derived from the
  well-foundedness of `<` and of strict inclusion.  From it: functions by recursion
  over `0..k` exist (`RecursionExists`), and the folds of the community modules
  are what they should be for a commutative operation (`FoldAdd`, `FoldUnion`).
  The module is instantiated for `+` and `*` of integers and for the sum of coefficients.
  `PrimeInverse`: what is below a prime has an inverse modulo it.
- **MultiIndexProofs**: what `binom`, `merge_sparse` and `sparse_rank` compute, for
  all arguments.  `binom`, with its divisions, returns binomial coefficients
  (`Ways`, with Pascal's rule); a merge of two sparse indices is canonical, of the
  order of both, and its exponents are the sums of theirs (`MergeDense`); the rank
  of a sparse index lies in the band of its order, by the hockey-stick identity
  along its entries, and is one-to-one (`RankTellsApart`): the indices that share a
  prefix are a run of the band, and two different next entries have disjoint runs.
  Of the dense `rank()`: within `INT_MAX` no running sum of it wraps (the
  narrowing of `binom`'s 64-bit result to `int` is not modelled), it counts along
  the graded order (`EarlierPlaces`), agrees with the sparse rank (`SparseAndDense`),
  and every place of a band is taken, since exponents chosen up to a position can be
  completed (`CompleteAll`).
- **LayoutTablesProofs**: all eight properties of the run `layout` but termination,
  for every number of variables and every order an `int` holds.  `RankInvertsHolds`: `sparse_rank` of what make_idx_to_sparse stores at a
  position is the position.  Its invariant `Decodes` says, in each round of both
  bisections, how much of the position is left below the bracket: the binomials
  skipped so far and those still to come add up to it.  `RankIsPositionHolds`: the
  place is that of the graded order, and what the dense `rank()` returns; an index
  is counted by mapping the earlier ones to their places, one to one and onto.
  `SearchBracketsHolds`: while the place wanted is within the run of the prefix
  decoded, the index wanted has that prefix (`HeldPrefix`), from which the bracket
  and the exponent bound follow.  `RanksInRangeHolds`: the
  rank of every product is in the table, from `Decodes` (the table's entries are
  canonical, so their merge is) and the band lemma.  `WriteOnceHolds`: the counting
  sort never overwrites a term.  The invariant `Inv` counts the pairs visited:
  `counts[k]` is the number of pairs of rank `k` seen by the counting pass,
  `cursor[k]` that of the filling pass, a subset of the former, so that
  `offset[k] + cursor[k]` stays in bucket `k`.  `InverseReadsSolvedHolds`: a term
  with a first factor of positive order has a second factor of lower order than
  its product, hence of lower rank.  `TermsCompleteHolds`: the tables hold every
  truncated product exactly once, each in the bucket of its output.  Half of it is
  arithmetic (`TermsAre`): a pair has a product in the layout exactly if `j` is
  below the bound of its row, and since ranks tell indices apart the rank of the
  merge is that of the one index with the summed exponents.  The other half is the
  invariant `Completing`: the terms emitted are those of the pairs visited, every
  slot below a cursor holds a term of its bucket, and when the pass ends the
  cursors have reached the next buckets.  `TypeCorrect` rests on
  the others.
- **OtiCoreProofs**: every program of calls, on every arithmetic path and for every
  shape.  The hypothesis `InputsFit` says of the inputs that the exponents of a
  request add up to an `int`: run `core_wrap` shows a program that breaks it, and
  the instance of run `core` satisfies it (`MCOtiCore` asserts so).  `SparseAssumption`
  says that the sparse requests are lists of terms.
  `TypeCorrect`, `SolvedPrefixHolds`, `OutsideOrderIgnoredHolds` and
  `NonFiniteSticksHolds` are four of the properties of those runs, and
  `ImplementsAlgebraHolds` (`Spec => ImplementsAlgebra`) is the refinement.  The invariant
  `JobOK` ties the inverse in progress to the call it was started by: its operand,
  the reciprocal of the real part, the coefficients solved (`SolvedUpTo`), the
  recurrence they satisfy (`FollowsUpTo`) and those
  that a NaN of the operand has spoilt (`SpoiltUpTo`).  `SolvedPrefix` alone is not
  inductive: the next coefficient is right only if the reciprocal is that of the
  operand's real part.  What the proof rests on:
  a coefficient of nonzero residue has an inverse (`Inverses`, from `PrimeInverse`);
  set_partial's division by a factorial
  stays in the field (`NormalizedIn`); the terms of an output are, on each of the
  paths, the pairs of places whose indices add up to its index, each once
  (`TermsAre`), and an index below the output's is in one of them, as
  either factor (`TermsReach`); the accumulation of a product is the sum over them in any order
  (`AccumulatedIs`), finite exactly if all factors are (`TotalFinite`).
  The refinement reads arrays as polynomials (`PolyOf`).  The terms of an output
  are, one for one, the splittings of its multi-index, so the accumulation over the
  table is the convolution (`ConvolutionIs`); with it every operation without an
  inverse is the algebra's (`ValuePoly`).  The inverse is a different algorithm in the
  two specifications: the code solves one coefficient after another, the algebra
  sums the geometric series of the nilpotent part.  They agree since the `k`-th
  partial sum satisfies the code's recurrence in the orders up to `k`
  (`SeriesSolves`), and a jet that satisfies it in all orders, NaN coefficients
  included, is the series (`ReciprocalIs`).  Steps of the loop but the last are
  stutters of the algebra, the last one performs the call (`SolveRefines`).
- **JetReduceProofs**: `TypeCorrect`; `FoldsInputsHolds`, a partial sum or product is
  the fold of the contributions it covers, whatever was combined with what: the
  covers of two operands are disjoint, so the folds add up (`FoldUnion`; for a
  product's derivative the product rule is carried along); `WinnerDominatesHolds`,
  under the assumption `Comparable` (no NaN among the located values) the partial
  result dominates every contribution it covers; `AgreementHolds`, with unique
  locations besides, all ranks that have combined everything hold the same result,
  for the four operations.  The run `reduce_nan` shows that `Comparable` cannot be
  dropped.
- **ValidityRadiusProofs**: the six properties of run `validity`, for every shape,
  jet, tolerance, model order and number of rounds.  `BracketAlwaysHolds` has no
  assumption on the shape of the error: the bisection ends between a step below the
  budget and one that meets it.  The others rest on `RadiusInv`.  Beside the bracket
  and its types it says that the width is divisible by what the halvings left will
  take (`Divisible`), so that no midpoint is rounded; that while the bracket
  grows, twice its end takes the leading term alone to the budget, and after a
  doubling the end itself does (`Seeded`); and that once an axis
  is settled its reach is tied to the bracket that was left (`Reaches`).
  `TypeCorrect` and `InfiniteWhereExactHolds` follow: one doubling of the closed form
  takes a leading term to the budget.  `ReachIsLargestHolds` needs two facts on the
  sums besides: along an axis only the pure terms survive, so that
  `truncation_error` and `pure_axis_error`, two loops of the code, agree; and
  where those terms have one sign the error grows with the step.
  `PredictionPlusErrorHolds`: a monomial over the sparse entries of an index is the
  product over all variables, and the bands of `evaluate` and `truncation_error`
  share no coefficient and leave none out.  `ErrorExpands`: moving one variable of
  any step by any `d` changes the error by `d` times `error_sensitivity`, but for a
  multiple of `d^2`, which is what being the gradient means for a polynomial over
  the integers.  A power expands so by induction on its exponent; of a monomial only
  the one factor moves that has the variable, since no position occurs twice among
  the sparse entries, and `dmonomial_at` lowers just that one.
  `SensitivityIsGradientHolds` is its instance for the offsets of the run.
- **GhostExchangeProofs**: the exchange of both solvers, for every grid and every
  graph, any ranks, sweeps and interleaving, in two halves.  The first takes
  the plans as given: it assumes of what the ranks compute before the loop that calls
  pair (`PlansMatch`), that the views mirror the serial field (`PlansFit`) and that
  the mean a cell becomes exists (`PlansTyped`).  From these, the lemmas `...ByPlans`.
  The invariant `Accounted` keeps books: a channel holds what its sender has posted
  less what its receiver has taken, and where a rank stands in its chain of calls
  tells both numbers.  The bound of two follows from the channel back: a rank
  takes a message of its partner in every iteration, so it is at most one
  iteration ahead (`EndsWithinOne`), and has posted at most one message more.
  `Carried` adds to the books what the
  messages hold: the k-th message on a channel is the sender's cells after as many
  sweeps as messages were sent before it, owned cells are those of the rank's own
  sweep, ghosts received in this iteration too, and places that nobody writes hold
  the boundary in both buffers (without which the swap would lose the walls).
  A sweep then reads serial values only, and its result is the serial sweep's.
  The types have an invariant of their own (`Typed`: also the messages
  hold jets) that needs `Carried`, since a message larger than the places it is for
  would leave the buffer.

  The second half shows that the plans are such plans (`PlansAllFit`).  For a grid
  (`HaloFits`):
  `BlocksTile`: `block_1d` leaves no gap, no overlap and no empty block.  `NextTo`:
  ranks and coordinates correspond, so a Cartesian shift is undone by the opposite
  one.  With both, `CallsMeet`: the row or column a call sends has the length and
  the global names of the ghosts the partner's call fills.  `HaloReads`: a cell
  beside the tile is a ghost refreshed or, at the edge of the grid of ranks, a
  wall with the serial field's value; `SweepBySweep` unfolds the recursion of the
  serial solver.  For a graph (`GraphFits`): a sorted list has every element of its
  set once (`AscendingLists`); every node has one owner (`OwnerIs`); adjacency goes
  both ways, so what a rank needs to send is what the other counts as its ghosts
  (`NeededIsGhosts`) and two ranks list each other or neither; the concatenated runs
  are the owned nodes and then a block of ghosts per neighbour, in the order of the
  calls (`LocalNodesAre`, `GhostBlockIs`), and `g2l` is the inverse of that list
  (`SlotsAre`), so that the slots a node reads hold its neighbours (`GraphSweeps`).
  The weight `1/k` of `k` neighbours exists because a node has fewer than `P` of
  them (`DegreeIs`, from `WeightsAssumption`) and what is below a prime is invertible
  (`PrimeInverse` of FoldFacts).

  Together: `TypeCorrect`, `CallsPairHolds`, `ViewsMirrorHolds`, `ReceiveFitsHolds`,
  `GhostsCurrentHolds`, `NeighbourSkewHolds` and the refinement
  `ImplementsSerialSweepsHolds` (`Spec => ImplementsSerialSweeps`), under the
  assumptions of the constants only: no tile is empty (`ProblemsAssumption`:
  at most one rank for each row, column or node), and, since the coefficients are
  residues, a graph has at most `P` nodes (`WeightsAssumption`).

Only model-checked: ScalarCompose and
ElementaryFunctions, whose identities between compositions need the associativity
of the product, sums of sums reordered; termination of the builders and of the
exchange, absence of deadlock included (liveness under fairness and `ENABLED` are
out of the prover's reach); and that the final verification passes, which is part of
`EndsInPass`.

## 5. Findings

1. `core.hpp:210` promises to ignore requests outside the truncation order;
   exponents whose sum overflows `int` are not ignored (`core_wrap`).
2. `pow(v, 2)` at `v.real() == 0` is not `v * v` when `v` carries NaN derivatives:
   `pow(sqrt(x), 2)` at 0 has the finite first derivative 0, where the function
   composed is `x`, since `add_scaled_orders` skips a zero Taylor coefficient
   (`scalar_square`).
3. `maxloc`/`minloc` are deterministic for unique locations only if no real part is
   NaN (`reduce_nan`).
4. `pow` of two jets at `x.real() == 0`, `y.real() > 0` has value 0 and zero
   derivatives, where `docs/api/functions.rst:215-218` lists nan for both; the
   derivative of `pow(x, 1)` there is 1.  At `N = 1`, `atan2(y, x)` on the y-axis has
   zero derivatives where `functions.hpp:200` says NaN; from `N = 2` on it has them.
   `fmod` and `remainder` by a plain scalar 0 have the value NaN and keep the
   derivatives of the dividend, where `functions.rst:236` says that a nan value forces
   the whole result to nan (all in `singular_docs`).
5. `validity_radius` may report a step beyond the first crossing of the budget when
   the terms of the error have opposite signs, so that steps within the radius are
   not trusted.  The closed form then lies before the first crossing; one doubling
   goes from a step below the budget to another one below it, over an interval in
   between where the error exceeds it.  With the error `21 r^2 - r^3` and the budget
   1344 the seed is 8 (error 832) and its double 16 (error 1280); the next, 32, meets
   the budget and the bisection goes for the crossing near 20.2, though the step 14
   has the error 1372 (`validity_inner`).  Besides: along an axis with opposite signs
   the reach says nothing of negative steps; and with a budget of zero an axis along
   which the model is exact has a reach of about `2^-65`, not the infinity of the
   comment at `validity.hpp:263`, since the test for it is `<`.
6. Not a finding of a run: `docs/api/functions.rst:244-246` says that at
   `real() == 0` a non-integer `pow` has nan derivatives (a vertical tangent).  For an
   exponent above `N` the code gives finite ones, all zero: `pow(x, 3.5)` with
   `N = 3`.  These are the derivatives the function has, so `SingularSignal` counts it
   as smooth to order `N` there (`Smooth`).

## 6. Not modelled

- **Profile counters**: one unsynchronised increment per operation; the header
  excludes threads, so a model would only restate the increment.
- **Kokkos and libm wrappers** (`detail/kokkos_compat.hpp`): external; their results
  are nondeterministic choices in Coefficient, ScalarSeries and ElementaryFunctions.
- **Printing, `numeric_limits`, classification predicates** (`interop.hpp`): each is
  one call of the scalar's own function on the real part.
- **Datatype constructors** (`mpi.hpp`): calls of MPI that describe a jet as packed
  coefficients; JetReduce and GhostExchange move whole jets.
- **Python bindings**: conversion of arguments around the modelled operations.
- **Examples `reduce`, `device`, `gpu_toy`, `validity`, benchmarks, plots, build files**:
  programs that call the modelled operations once and print.
- **Floating point**: rounding, overflow of `double` and signed zero.  The bit-exact
  comparison of the solvers relies on both sides adding in the same order; the
  exact arithmetic of SweepJets cannot tell orders apart.
- **Two loops as one**: the counting and the filling pass of the builders are two
  texts in the code; in LayoutTables they share the enumeration of the pairs, so a
  disagreement between the two texts would not show.
- **Stores within one call**: a call of OtiCore other than an inverse is one step from
  the earlier values of its operands to the result.  The fused operations take their
  operands by value and `operator*=` stores a finished product; that no coefficient is
  stored too early within a call is read off the code, not checked.
