------------------------------- MODULE JetTables -------------------------------
(***************************************************************************)
(* The flat coefficient array of otinum<M, N> and the tables its           *)
(* arithmetic runs over, as LayoutTables shows the builders to compute     *)
(* them.  A path is the OTI_BENCHMARK_ARITHMETIC_PATH of a build: 0        *)
(* rebuilds every term from dense multi-indices, 1 and 2 read the tables.  *)
(***************************************************************************)
EXTENDS JetRing

CONSTANT Paths   (* the arithmetic paths built                             *)

ASSUME PathsAssumption == Paths \subseteq 0..2

Jet == [Idx -> Coeff]

FactorialAt == [x \in Idx |-> FactorialOf(AlphaAt[x]) % P]
SumAt(x, y) == [p \in 0..(M-1) |-> AlphaAt[x][p] + AlphaAt[y][p]]

(* The product terms <<lhs, rhs>> of every output: rank() of the dense sum *)
(* on path 0, the sparse_rank() tables on the others.                      *)
Pairs == {pair \in Idx \X Idx : OrderAt[pair[1]] + OrderAt[pair[2]] <= N}
NaiveOutput == [pair \in Pairs |-> Rank(M, N, SumAt(pair[1], pair[2]))]
TableOutput ==
  [pair \in Pairs |-> SparseRank(M, MergeSparse(Packed(M, AlphaAt[pair[1]]), Packed(M, AlphaAt[pair[2]])))]
TermsInto ==
  [q \in Paths |-> [k \in Idx |->
     {pair \in Pairs : (IF q = 0 THEN NaiveOutput ELSE TableOutput)[pair] = k}]]

Lift(s) == [x \in Idx |-> IF x = 0 THEN s ELSE 0]

(* The polynomial an array stands for.                                     *)
PolyOf(jet) == [alpha \in Alphas |-> jet[CHOOSE x \in Idx : AlphaAt[x] = alpha]]

=============================================================================
