-------------------------------- MODULE JetRing --------------------------------
(***************************************************************************)
(* The truncated algebra behind otinum<M, N>: polynomials in M nilpotent   *)
(* variables, functions from the multi-indices of total order at most N to *)
(* coefficients, with no reference to the order they are stored in.        *)
(***************************************************************************)
EXTENDS JetLayout, Coefficient

(* The factorials up to N! are invertible modulo P.                        *)
ASSUME FactorialAssumption == N < P

Zero == [p \in 0..(M-1) |-> 0]
Unit(v) == [Zero EXCEPT ![v] = 1]
FactorialOf(alpha) ==
  FoldFunction(LAMBDA x, y : x * y, 1, [p \in 0..(M-1) |-> Factorial(alpha[p])])

Poly == [Alphas -> Coeff]

Leq(alpha, beta) == \A p \in 0..(M-1) : alpha[p] <= beta[p]
Difference(beta, alpha) == [p \in 0..(M-1) |-> beta[p] - alpha[p]]

Constant(s) == [alpha \in Alphas |-> IF alpha = Zero THEN s ELSE 0]
Sum(f, g) == [alpha \in Alphas |-> Plus(f[alpha], g[alpha])]
Scale(s, f) == [alpha \in Alphas |-> Times(s, f[alpha])]
Product(f, g) ==
  [gamma \in Alphas |->
     FoldFunction(Plus, 0, [alpha \in {beta \in Alphas : Leq(beta, gamma)} |->
                              Times(f[alpha], g[Difference(gamma, alpha)])])]
Truncate(f, max) == [alpha \in Alphas |-> IF OrderIn(alpha) <= max THEN f[alpha] ELSE 0]

(* 1/f as the geometric series in the nilpotent part of f, r being 1/f(0). *)
Reciprocal(f, r) ==
  LET h == Scale(Times(P - 1, r), [f EXCEPT ![Zero] = 0])
      series[k \in 0..N] == IF k = 0 THEN Constant(1) ELSE Sum(Constant(1), Product(h, series[k-1]))
  IN  Scale(r, series[N])

(* The scalar series t, composed with f: t[0] + t[1] h + ... + t[N] h^N    *)
(* where h is the nilpotent part of f, by Horner's rule.                   *)
Compose(t, f) ==
  LET h == [f EXCEPT ![Zero] = 0]
      horner[k \in 0..N] ==
        IF k = 0 THEN Constant(t[N]) ELSE Sum(Constant(t[N - k]), Product(h, horner[k-1]))
  IN  horner[N]

=============================================================================
