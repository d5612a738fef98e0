----------------------------- MODULE LayoutTables -----------------------------
(***************************************************************************)
(* The compile-time table builders of detail::tables<M, N> as the loops    *)
(* they are: make_idx_to_sparse unranks every flat index, make_order_offset*)
(* finds the order bands, make_product_counts_by_output counts the         *)
(* product terms of every output, make_product_offset turns the counts     *)
(* into bucket starts, and the last loop fills product_terms and           *)
(* product_terms_by_output.  Each action is one iteration of one loop.     *)
(* The shape (M, N) is chosen at the start among Shapes.                   *)
(***************************************************************************)
EXTENDS MultiIndex

CONSTANT Shapes   (* The template arguments <M, N> instantiated: pairs.    *)

ASSUME ShapesAssumption == Shapes \subseteq (Nat \ {0}) \X (0..IntMax)

VARIABLES
  m, n,       (* M and N of this instantiation                             *)
  pc,         (* which loop runs: unrank, search, expo, offset, count,     *)
              (* start, fill, done                                         *)
  degree,     (* the order band being unranked, or whose offset is next    *)
  local,      (* the index within the band                                 *)
  dec,        (* the index being decoded: remaining, c, p, lo, hi, value, s*)
  sparse,     (* idx_to_sparse so far: flat index i is at position i + 1   *)
  orderOffset,(* order_offset so far, on an initial part of 0 .. N + 1     *)
  i, j,       (* the factors of the product term visited (alpha, beta)     *)
  counts,     (* product terms found for each output                       *)
  productOffset, (* start of each output's bucket, so far                  *)
  cursor,     (* how much of each bucket is filled                         *)
  terms,      (* product_terms: emission order                             *)
  byOutput    (* product_terms_by_output: slot -> term                     *)

decodeVars == <<degree, local, dec, sparse>>
countVars  == <<counts, productOffset>>
fillVars   == <<cursor, terms, byOutput>>
vars == <<m, n, pc, decodeVars, orderOffset, i, j, countVars, fillVars>>

NoTerm == <<>>
NC == NCoeffs(m, n)

Sparse(x) == sparse[x + 1]
OrderOf(x) == SparseOrder(Sparse(x))

Idle == [remaining |-> 0, c |-> 0, p |-> 0, lo |-> 0, hi |-> 0, value |-> 0, s |-> <<>>]

Init ==
  /\ \E shape \in Shapes : m = shape[1] /\ n = shape[2]
  /\ pc = "unrank" /\ degree = 0 /\ local = 0 /\ dec = Idle /\ sparse = <<>>
  /\ orderOffset = <<>>
  /\ i = 0 /\ j = 0
  /\ counts = <<>> /\ productOffset = <<>>
  /\ cursor = <<>> /\ terms = <<>> /\ byOutput = <<>>

-----------------------------------------------------------------------------
(* make_idx_to_sparse *)

(* Compositions of `remaining` over the positions from p on.               *)
Suffixed(p) == Binom(m - p + dec.remaining - 1, dec.remaining)

(* Decode the next index of the band.                                      *)
BeginIndex ==
  /\ pc = "unrank" /\ local < CompositionCount(m, degree)
  /\ dec' = [Idle EXCEPT !.remaining = degree, !.c = local, !.hi = m - 1]
  /\ pc' = "search"
  /\ UNCHANGED <<m, n, degree, local, sparse, orderOffset, i, j, countVars, fillVars>>

NextBand ==
  /\ pc = "unrank" /\ local = CompositionCount(m, degree)
  /\ local' = 0
  /\ IF degree < n THEN degree' = degree + 1 /\ UNCHANGED pc
                   ELSE degree' = 0 /\ pc' = "offset"
  /\ UNCHANGED <<m, n, dec, sparse, orderOffset, i, j, countVars, fillVars>>

(* Compositions used up by zeros from p to the position before q.          *)
CumZero(q) == Suffixed(dec.p) - Suffixed(q)

MutMiddleRoundsDown == (dec.lo + dec.hi) \div 2
Middle == (dec.lo + dec.hi + 1) \div 2

MutFitsStrictly(q) == CumZero(q) < dec.c
MutFitsOneMore(q) == CumZero(q) <= dec.c + 1
Fits(q) == CumZero(q) <= dec.c

(* Largest position whose run of leading zeros still fits in c.            *)
Bisect ==
  LET mid == Middle
  IN  /\ pc = "search" /\ dec.remaining > 0 /\ dec.lo < dec.hi
      /\ dec' = IF Fits(mid) THEN [dec EXCEPT !.lo = mid] ELSE [dec EXCEPT !.hi = mid - 1]
      /\ UNCHANGED <<m, n, pc, degree, local, sparse, orderOffset, i, j, countVars, fillVars>>

PositionFound ==
  /\ pc = "search" /\ dec.remaining > 0 /\ dec.lo >= dec.hi
  /\ dec' = [dec EXCEPT !.c = @ - CumZero(dec.lo), !.value = dec.remaining]
  /\ pc' = "expo"
  /\ UNCHANGED <<m, n, degree, local, sparse, orderOffset, i, j, countVars, fillVars>>

(* Compositions that put `value` at the position found.                    *)
MutBlockCountsPosition == CompositionCount(m - dec.lo, dec.remaining - dec.value)
Block == CompositionCount(m - dec.lo - 1, dec.remaining - dec.value)

LowerExponent ==
  /\ pc = "expo" /\ dec.value >= 1 /\ dec.c >= Block
  /\ dec' = [dec EXCEPT !.c = @ - Block, !.value = @ - 1]
  /\ UNCHANGED <<m, n, pc, degree, local, sparse, orderOffset, i, j, countVars, fillVars>>

ExponentFound ==
  /\ pc = "expo" /\ (dec.value < 1 \/ dec.c < Block)
  /\ dec' = [dec EXCEPT !.s = Append(@, [pos |-> dec.lo, exp |-> dec.value]),
                        !.remaining = @ - dec.value,
                        !.p = dec.lo + 1, !.lo = dec.lo + 1, !.hi = m - 1]
  /\ pc' = "search"
  /\ UNCHANGED <<m, n, degree, local, sparse, orderOffset, i, j, countVars, fillVars>>

StoreIndex ==
  /\ pc = "search" /\ dec.remaining = 0
  /\ sparse' = Append(sparse, dec.s)
  /\ local' = local + 1 /\ pc' = "unrank" /\ dec' = Idle
  /\ UNCHANGED <<m, n, degree, orderOffset, i, j, countVars, fillVars>>

-----------------------------------------------------------------------------
(* make_order_offset: entry d is at position d + 1, the last one is the    *)
(* end of the array.  Then the counting loop starts from zero counts.      *)
StoreOrderOffset ==
  /\ pc = "offset"
  /\ orderOffset' = Append(orderOffset,
                           IF degree = 0 THEN 0
                           ELSE orderOffset[degree] + CompositionCount(m, degree - 1))
  /\ IF degree <= n
     THEN degree' = degree + 1 /\ UNCHANGED <<pc, counts>>
     ELSE degree' = 0 /\ pc' = "count" /\ counts' = [k \in 0..(NC-1) |-> 0]
  /\ UNCHANGED <<m, n, local, dec, sparse, i, j, productOffset, fillVars>>

-----------------------------------------------------------------------------
(* make_product_counts_by_output, make_product_terms and                   *)
(* make_product_terms_by_output run the same double loop over (i, j).      *)

(* The beta that keep the sum within order N are a prefix of the layout.   *)
MutJMaxBandShort(x) == orderOffset[n - OrderOf(x) + 1]
JMax(x) == orderOffset[n - OrderOf(x) + 1 + 1]

MutRankedBetaOnly(x, y) == SparseRank(m, Sparse(y))
Ranked(x, y) == SparseRank(m, MergeSparse(Sparse(x), Sparse(y)))

NextRow ==
  /\ pc \in {"count", "fill"} /\ i < NC /\ j >= JMax(i)
  /\ i' = i + 1 /\ j' = 0
  /\ UNCHANGED <<m, n, pc, decodeVars, orderOffset, countVars, fillVars>>

CountTerm ==
  /\ pc = "count" /\ i < NC /\ j < JMax(i)
  /\ counts' = [counts EXCEPT ![Ranked(i, j)] = @ + 1]
  /\ j' = j + 1
  /\ UNCHANGED <<m, n, pc, decodeVars, orderOffset, i, productOffset, fillVars>>

EndCount ==
  /\ pc = "count" /\ i = NC
  /\ i' = 0 /\ j' = 0 /\ pc' = "start"
  /\ UNCHANGED <<m, n, decodeVars, orderOffset, countVars, fillVars>>

(* make_product_offset: output k is at position k + 1, then the total.  The*)
(* filling loop starts from zero cursors and blank tables.                 *)
StoreBucketStart ==
  LET k == Len(productOffset)
  IN  /\ pc = "start"
      /\ productOffset' = Append(productOffset,
                                 IF k = 0 THEN 0 ELSE productOffset[k] + counts[k - 1])
      /\ IF k < NC
         THEN UNCHANGED <<pc, fillVars>>
         ELSE /\ pc' = "fill"
              /\ cursor' = [x \in 0..(NC-1) |-> 0]
              /\ terms' = <<>>
              /\ byOutput' = [slot \in 0..(productOffset'[NC + 1] - 1) |-> NoTerm]
      /\ UNCHANGED <<m, n, decodeVars, orderOffset, i, j, counts>>

(* Slot of the next term of output k.                                      *)
MutSlotNoCursor(k) == productOffset[k + 1]
Slot(k) == productOffset[k + 1] + cursor[k]

FillTerm ==
  LET k == Ranked(i, j)
  IN  /\ pc = "fill" /\ i < NC /\ j < JMax(i)
      /\ terms' = Append(terms, <<i, j, k>>)
      /\ byOutput' = [byOutput EXCEPT ![Slot(k)] = <<i, j, k>>]
      /\ cursor' = [cursor EXCEPT ![k] = @ + 1]
      /\ j' = j + 1
      /\ UNCHANGED <<m, n, pc, decodeVars, orderOffset, i, countVars>>

EndFill ==
  /\ pc = "fill" /\ i = NC
  /\ pc' = "done"
  /\ UNCHANGED <<m, n, decodeVars, orderOffset, i, j, countVars, fillVars>>

(* The tables are constants of the program from here on.                   *)
Done == pc = "done" /\ UNCHANGED vars

Next ==
  \/ BeginIndex \/ NextBand \/ Bisect \/ PositionFound \/ LowerExponent
  \/ ExponentFound \/ StoreIndex
  \/ StoreOrderOffset \/ NextRow \/ CountTerm \/ EndCount \/ StoreBucketStart
  \/ FillTerm \/ EndFill
  \/ Done

Spec == Init /\ [][Next]_vars

(* The compiler evaluates the builders to the end.                         *)
FairSpec == Spec /\ WF_vars(Next)

-----------------------------------------------------------------------------
(* Type invariant of the builders' state.                                  *)
TypeOK ==
  /\ <<m, n>> \in Shapes
  /\ pc \in {"unrank", "search", "expo", "offset", "count", "start", "fill", "done"}
  /\ degree \in 0..(n + 1) /\ local \in Nat
  /\ dec \in [remaining : 0..n, c : Nat, p : 0..m, lo : 0..m, hi : 0..m, value : 0..n,
              s : Seq([pos : 0..(m-1), exp : 1..n])]
  /\ sparse \in Seq(Seq([pos : 0..(m-1), exp : 1..n])) /\ Len(sparse) <= NC
  /\ orderOffset \in Seq(0..NC)
  /\ i \in 0..NC /\ j \in 0..NC
  /\ counts \in [DOMAIN counts -> Nat] /\ productOffset \in Seq(Nat)
  /\ cursor \in [DOMAIN cursor -> Nat]
  /\ terms \in Seq((0..(NC-1)) \X (0..(NC-1)) \X (0..(NC-1)))

(* The layout the rest of the library assumes: lower total order first,    *)
(* then larger exponents in earlier positions first.                       *)
Precedes(alpha, beta) ==
  LET order(a) == MapThenSumSet(LAMBDA p : a[p], 0..(m-1))
  IN  \/ order(alpha) < order(beta)
      \/ /\ order(alpha) = order(beta)
         /\ \E p \in 0..(m-1) : alpha[p] > beta[p] /\ \A q \in 0..(p-1) : alpha[q] = beta[q]

Position(alpha) == Cardinality({beta \in AlphaSet(m, n) : Precedes(beta, alpha)})

(* Unranking and the hockey-stick sparse_rank() are two hand-written       *)
(* algorithms, one the inverse of the other: every index stored is a sparse*)
(* multi-index of order at most N in order of position, and its rank is    *)
(* the place it is stored at.                                              *)
RankInverts ==
  \A x \in 0..(Len(sparse) - 1) :
    /\ \A t \in DOMAIN Sparse(x) :
         Sparse(x)[t].pos \in 0..(m-1) /\ Sparse(x)[t].exp > 0
    /\ \A t, u \in DOMAIN Sparse(x) : t < u => Sparse(x)[t].pos < Sparse(x)[u].pos
    /\ OrderOf(x) <= n
    /\ SparseRank(m, Sparse(x)) = x

(* That place is the one the graded order gives the multi-index, and the   *)
(* dense rank(), a third algorithm, agrees.                                *)
RankIsPosition ==
  \A x \in 0..(Len(sparse) - 1) :
    LET alpha == Dense(m, Sparse(x))
    IN  Position(alpha) = x /\ Rank(m, n, alpha) = x

(* Loop invariant of the binary search and of the exponent loop of         *)
(* make_idx_to_sparse: what is decoded agrees with the multi-index wanted, *)
(* its next nonzero position never leaves [lo, hi], and the exponent found *)
(* there is never passed.                                                  *)
SearchBrackets ==
  pc \in {"search", "expo"} =>
    LET target == CHOOSE alpha \in AlphaSet(m, n) : Position(alpha) = Len(sparse)
        wanted == {q \in dec.p..(m-1) : target[q] > 0}
    IN  /\ \A q \in 0..(dec.p - 1) : Dense(m, dec.s)[q] = target[q]
        /\ dec.remaining > 0 => wanted # {} /\ Min(wanted) \in dec.lo..dec.hi
        /\ pc = "expo" => Min(wanted) = dec.lo /\ target[dec.lo] <= dec.value

(* The double loops stay inside the tables they index: every pair they     *)
(* visit has two factors and a product in the layout.                      *)
RanksInRange ==
  pc \in {"count", "start", "fill", "done"} =>
    /\ NC \in Nat
    /\ \A x \in 0..(NC-1) :
         /\ JMax(x) \in 0..NC
         /\ \A y \in 0..(JMax(x) - 1) : Ranked(x, y) \in 0..(NC-1)

(* The counting pass and the filling pass walk the pairs separately: a     *)
(* bucket whose cursor ran into the next one would overwrite a term, so a  *)
(* slot of product_terms_by_output is written once and for all.            *)
WriteOnce ==
  [][\A slot \in DOMAIN byOutput : byOutput[slot] # NoTerm => byOutput'[slot] = byOutput[slot]]_vars

(* The exact set of truncated products alpha + beta = gamma, |gamma| <= N. *)
AllTerms ==
  {t \in (0..(NC-1)) \X (0..(NC-1)) \X (0..(NC-1)) :
     \A p \in 0..(m-1) :
       Dense(m, Sparse(t[1]))[p] + Dense(m, Sparse(t[2]))[p] = Dense(m, Sparse(t[3]))[p]}

(* The finished tables hold every truncated product once, and the          *)
(* by-output table holds output k exactly in                               *)
(* [product_offset[k], product_offset[k + 1]).                             *)
TermsComplete ==
  pc = "done" =>
    /\ {terms[t] : t \in DOMAIN terms} = AllTerms
    /\ Len(terms) = Cardinality(AllTerms)
    /\ {byOutput[slot] : slot \in DOMAIN byOutput} = AllTerms
    /\ \A k \in 0..(NC-1) : \A slot \in productOffset[k+1]..(productOffset[k+2] - 1) :
         byOutput[slot][3] = k

(* inv_solve walks the outputs upwards and divides by the real part: every *)
(* term of output k but the skipped (0, k) must read an out[rhs] already   *)
(* solved, that is rhs < k.                                                *)
InverseReadsSolved ==
  \A slot \in DOMAIN byOutput :
    byOutput[slot] # NoTerm =>
      LET term == byOutput[slot] IN term[2] < term[3] \/ (term[1] = 0 /\ term[2] = term[3])

(* The builders terminate: neither loop of the unranking stalls.           *)
Terminates == <>(pc = "done")

=============================================================================
