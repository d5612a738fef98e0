--------------------------- MODULE TruncationError ---------------------------
(***************************************************************************)
(* validity.hpp: a jet as a local surrogate of the quantity it was         *)
(* computed from.  A step h moves each of the M variables; the prediction  *)
(* of order m uses the monomials up to order m, and all the stored ones    *)
(* above are its error.  Coefficients, tolerances and steps are integers   *)
(* here: the units they are counted in are as fine as one likes, and what  *)
(* floating point adds (rounding, overflow) is abstracted away.            *)
(***************************************************************************)
EXTENDS JetLayout

Axes == 0..(M-1)

Abs(x) == IF x < 0 THEN -x ELSE x

PowInt(base, e) ==
  LET r[k \in 0..e] == IF k = 0 THEN 1 ELSE r[k-1] * base IN r[e]

SparseAt == [x \in Idx |-> Packed(M, AlphaAt[x])]

ProductOf(factors) == FoldFunction(LAMBDA a, b : a * b, 1, factors)

(* The monomial h^alpha over the nonzero exponents of alpha, and the one   *)
(* with the exponent of its sparse entry t lowered by one.                 *)
MonomialAt(h, x) ==
  LET s == SparseAt[x] IN ProductOf([w \in DOMAIN s |-> PowInt(h[s[w].pos], s[w].exp)])
MutDMonomialAt(h, x, t) ==
  LET s == SparseAt[x]
  IN  ProductOf([w \in DOMAIN s |-> PowInt(h[s[w].pos], s[w].exp - 1)])
DMonomialAt(h, x, t) ==
  LET s == SparseAt[x]
  IN  ProductOf([w \in DOMAIN s |-> PowInt(h[s[w].pos], s[w].exp - (IF w = t THEN 1 ELSE 0))])

Terms(jet, h) == [x \in Idx |-> jet[x] * MonomialAt(h, x)]
MutBandSum(jet, h, min, max) ==
  SumFunctionOnSet(Terms(jet, h), {x \in Idx : OrderAt[x] \in (min + 1)..max})
BandSum(jet, h, min, max) ==
  SumFunctionOnSet(Terms(jet, h), {x \in Idx : OrderAt[x] \in min..max})

evaluate(jet, h, order) == BandSum(jet, h, 0, order)
truncation_error(jet, h, order) == BandSum(jet, h, order + 1, N)

Budget(jet, tau, tau_abs) == tau_abs + tau * Abs(jet[0])
is_trusted(jet, h, tau, tau_abs, order) ==
  Abs(truncation_error(jet, h, order)) <= Budget(jet, tau, tau_abs)

(* The coefficient of the d-th power of variable i alone.                  *)
Pure(jet, i, d) == jet[Rank(M, N, [p \in Axes |-> IF p = i THEN d ELSE 0])]

MutPureAxisError(jet, i, r, order) == Abs(Pure(jet, i, order + 1) * PowInt(r, order + 1))
PureAxisError(jet, i, r, order) ==
  Abs(SumFunction([d \in (order + 1)..N |-> Pure(jet, i, d) * PowInt(r, d)]))

(* The gradient of the truncation error: what the term of x adds to its    *)
(* derivative along variable i, and the sum of those above the order.      *)
PartialAt(jet, h, i, x) ==
  LET s == SparseAt[x]
  IN  SumFunction([t \in {t \in DOMAIN s : s[t].pos = i} |->
                     jet[x] * s[t].exp * DMonomialAt(h, x, t)])
error_sensitivity(jet, h, order) ==
  [i \in Axes |-> SumFunctionOnSet([x \in Idx |-> PartialAt(jet, h, i, x)],
                                    {x \in Idx : OrderAt[x] > order})]

=============================================================================
