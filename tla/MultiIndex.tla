------------------------------ MODULE MultiIndex ------------------------------
(***************************************************************************)
(* The graded multi-index layout of include/otinum/detail/multi_index.hpp  *)
(* and binom.hpp.  A dense multi-index alpha is a function on 0 .. m-1; a  *)
(* sparse one (packed_alpha) is the sequence of its nonzero entries        *)
(* [pos, exp], by increasing position.  m is the number of variables, n    *)
(* the truncation order: the template parameters M and N of the code.      *)
(***************************************************************************)
EXTENDS Integers, Sequences, FiniteSets, FiniteSetsExt, Functions

CONSTANT IntMax   (* INT_MAX: exponents are summed in a C++ int. *)

ASSUME IntMaxAssumption == IntMax \in Nat \ {0}

-----------------------------------------------------------------------------
(* binom.hpp *)

(* What an int holds after a sum: two's complement wrap at the width.      *)
WrapInt(x) ==
  LET half == IntMax + 1 IN ((x + half) % (2 * half)) - half

(* The product accumulates from the smaller of k and n - k, dividing       *)
(* exactly at every step.                                                  *)
Binom(n, k) ==
  LET kk == Min({k, n - k})
      result[i \in 0..kk] ==
        IF i = 0 THEN 1 ELSE (result[i-1] * (n - kk + i)) \div i
  IN  IF k < 0 \/ n < 0 \/ k > n THEN 0 ELSE result[kk]

Factorial(n) ==
  LET result[i \in 0..n] == IF i = 0 THEN 1 ELSE result[i-1] * i IN result[n]

-----------------------------------------------------------------------------
(* multi_index.hpp: counting and ranking *)

CompositionCount(parts, total) ==
  CASE parts < 0 \/ total < 0 -> 0
    [] parts = 0 /\ total >= 0 -> IF total = 0 THEN 1 ELSE 0
    [] OTHER -> Binom(parts + total - 1, total)

NCoeffs(m, n) == Binom(m + n, n)

(* The number of coefficients of order below `order`.                      *)
MutLowerOrdersInclusive(m, order) ==
  SumFunction([o \in 0..order |-> CompositionCount(m, o)])
LowerOrders(m, order) ==
  SumFunction([o \in 0..(order - 1) |-> CompositionCount(m, o)])

(* The running int sum of the exponents: entry p holds the first p.        *)
TotalOrder(m, alpha) ==
  LET order[p \in 0..m] ==
        IF p = 0 THEN 0 ELSE WrapInt(order[p-1] + alpha[p-1])
  IN  order[m]

(* Flat rank of a dense multi-index, -1 when it is outside the layout.     *)
Rank(m, n, alpha) ==
  LET order == TotalOrder(m, alpha)
      remaining[p \in 0..m] ==
        IF p = 0 THEN order ELSE WrapInt(remaining[p-1] - alpha[p-1])
      Before(p) ==
        MapThenSumSet(LAMBDA value : CompositionCount(m - p - 1, remaining[p] - value),
                      (alpha[p] + 1)..remaining[p])
  IN  IF (\E p \in 0..(m-1) : alpha[p] < 0) \/ order > n
      THEN -1
      ELSE LowerOrders(m, order) + MapThenSumSet(Before, 0..(m-1))

(* packed_alpha of a dense multi-index: its nonzero entries only.          *)
Packed(m, alpha) ==
  LET entries[p \in 0..m] ==
        IF p = 0 THEN << >>
        ELSE IF alpha[p-1] > 0 THEN Append(entries[p-1], [pos |-> p - 1, exp |-> alpha[p-1]])
        ELSE entries[p-1]
  IN  entries[m]

(* Sum of two sparse indices, merged on their sorted positions.            *)
MergeSparse(a, b) ==
  LET merged[at \in (1..(Len(a)+1)) \X (1..(Len(b)+1))] ==
        LET i == at[1]
            j == at[2]
        IN  CASE i > Len(a) /\ j > Len(b) -> << >>
              [] i <= Len(a) /\ (j > Len(b) \/ a[i].pos < b[j].pos) ->
                   <<a[i]>> \o merged[<<i+1, j>>]
              [] j <= Len(b) /\ (i > Len(a) \/ b[j].pos < a[i].pos) ->
                   <<b[j]>> \o merged[<<i, j+1>>]
              [] OTHER ->
                   <<[pos |-> a[i].pos, exp |-> a[i].exp + b[j].exp]>> \o merged[<<i+1, j+1>>]
  IN  merged[<<1, 1>>]

SparseOrder(s) == SumFunction([t \in DOMAIN s |-> s[t].exp])

(* What sparse_rank keeps as it walks the entries: the order remaining     *)
(* after entry t, and the position after the entry before t.               *)
Remaining(s) ==
  LET r[t \in 0..Len(s)] == IF t = 0 THEN SparseOrder(s) ELSE r[t-1] - s[t].exp IN r
Prev(s, t) == IF t = 1 THEN 0 ELSE s[t-1].pos + 1

(* Flat rank of a sparse index: runs of zero positions are skipped with    *)
(* the hockey-stick identity instead of being visited.  Of the order       *)
(* remaining, r is left before an entry and after it.                      *)
SkipRun(m, s, t, r) ==
  IF s[t].pos > Prev(s, t)
  THEN Binom(m - Prev(s, t) - 1 + r, r) - Binom(m - s[t].pos - 1 + r, r)
  ELSE 0
MutHigherSameOrder(m, s, t, r) == Binom(m - s[t].pos - 1 + r, r)
Higher(m, s, t, r) == Binom(m - s[t].pos - 1 + (r - 1), r - 1)

SparseRank(m, s) ==
  LET r == Remaining(s)
      passed == [t \in {u \in DOMAIN s : r[u-1] > 0} |->
                   SkipRun(m, s, t, r[t-1]) + Higher(m, s, t, r[t])]
  IN  LowerOrders(m, SparseOrder(s)) + SumFunction(passed)

(* alpha_at: scatter the nonzero entries into a dense multi-index.         *)
Dense(m, s) ==
  [p \in 0..(m-1) |-> MapThenSumSet(LAMBDA t : s[t].exp, {t \in DOMAIN s : s[t].pos = p})]

-----------------------------------------------------------------------------
(* The reference the tables are compared with: what the layout means.      *)

(* Every multi-index of total order at most n.                             *)
AlphaSet(m, n) ==
  {alpha \in [0..(m-1) -> 0..n] :
     MapThenSumSet(LAMBDA p : alpha[p], 0..(m-1)) <= n}

=============================================================================
