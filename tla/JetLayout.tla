------------------------------- MODULE JetLayout -------------------------------
(***************************************************************************)
(* The flat layout of otinum<M, N>: which multi-index each coefficient     *)
(* belongs to, as LayoutTables shows the builders to compute it.           *)
(***************************************************************************)
EXTENDS MultiIndex, SequencesExt

CONSTANTS M, N    (* template arguments: variables and truncation order    *)

ASSUME ShapeAssumption == M \in Nat \ {0} /\ N \in 0..IntMax

Alphas == AlphaSet(M, N)
OrderIn(alpha) == MapThenSumSet(LAMBDA p : alpha[p], 0..(M-1))

NC == NCoeffs(M, N)
Idx == 0..(NC-1)

AlphaAt == [x \in Idx |-> CHOOSE alpha \in Alphas : Rank(M, N, alpha) = x]
OrderAt == [x \in Idx |-> OrderIn(AlphaAt[x])]

=============================================================================
