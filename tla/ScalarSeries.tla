----------------------------- MODULE ScalarSeries -----------------------------
(***************************************************************************)
(* The generators of taylor.hpp: the Taylor coefficients f^(k)(x) / k! of  *)
(* each scalar function at the finite real part x of a jet.                *)
(*                                                                         *)
(* Reals are the field of P elements.  With P = 3 (mod 4) exactly one of r *)
(* and -r is a square, so the nonzero squares serve as the positive        *)
(* numbers: positive numbers have positive roots and products.  With       *)
(* P = 2 (mod 3) every number has one cube root.  What libm returns for a  *)
(* transcendental function is any value of Values.                         *)
(***************************************************************************)
EXTENDS JetRing

CONSTANTS
  Values,    (* results of the transcendental functions of libm            *)
  Exponents  (* scalar exponents p of pow(v, p), given as 2p               *)

ASSUME FieldAssumption == P % 4 = 3 /\ P % 3 = 2 /\ Values \subseteq Finite
(* A binomial factor p - k vanishes modulo P only where it is zero.        *)
ASSUME ExponentsAssumption ==
  Exponents \subseteq Int /\ \A e \in Exponents : \A k \in 0..N : e % P = (2*k) % P => e = 2*k

Positive(x) == \E r \in Finite \ {0} : x = (r * r) % P
Quot(x, y) == IF IsFinite(y) /\ y # 0 THEN Times(x, CHOOSE r \in Finite : (y * r) % P = 1)
                                      ELSE NonFin
Half == Quot(1, 2)
Root(x) == CHOOSE r \in Finite : (r * r) % P = x /\ (r = 0 \/ Positive(r))
CubeRoot(x) == CHOOSE r \in Finite : (r * r * r) % P = x

Raise(x, n) ==   (* x^n for an integer n; oti_pow(0, n < 0) is infinite    *)
  LET up[i \in Nat] == IF i = 0 THEN 1 ELSE Times(x, up[i - 1])
  IN  IF n >= 0 THEN up[n] ELSE Quot(1, up[-n])

(* oti_pow(x, twice / 2).                                                  *)
OtiPow(x, twice) ==
  CASE twice % 2 = 0               -> Raise(x, twice \div 2)
    [] twice % 2 = 1 /\ x = 0      -> IF twice > 0 THEN 0 ELSE NonFin
    [] twice % 2 = 1 /\ Positive(x) -> Raise(Root(x), twice)
    [] OTHER                       -> NonFin

ExpCoeffs(ex) == [k \in 0..N |-> Quot(ex, Factorial(k) % P)]

LogCoeffs(x, log) ==
  [k \in 0..N |-> IF k = 0 THEN log
                  ELSE Quot(IF k % 2 = 1 THEN 1 ELSE P - 1, Times(k, Raise(x, k)))]

(* A zero binomial is short-circuited: 0 * oti_pow(0, negative) is no zero.*)
PowTerm(binomial, x, twice) == IF binomial = 0 THEN 0 ELSE Times(binomial, OtiPow(x, twice))
PowCoeffs(x, e) ==
  LET binomial[k \in 0..N] ==
        IF k = 0 THEN 1 ELSE Times(binomial[k-1], Quot(Times((e - 2*(k-1)) % P, Half), k))
  IN  [k \in 0..N |-> PowTerm(binomial[k], x, e - 2*k)]

(* x < 0: cbrt(x) / x^k; x > 0: oti_pow(x, 1/3 - k), the same number; the  *)
(* slope is infinite at 0.                                                 *)
CbrtCoeffs(x) ==
  LET third == Quot(1, 3)
      binomial[k \in 0..N] ==
        IF k = 0 THEN 1 ELSE Times(binomial[k-1], Quot((third - (k-1)) % P, k))
  IN  [k \in 0..N |-> Times(binomial[k], Quot(CubeRoot(x), Raise(x, k)))]

(* sin(x + k pi/2) / k!, where sin(x) = s and cos(x) = c.                  *)
SinCoeffs(s, c) ==
  [k \in 0..N |-> Quot(<<s, c, Minus(s), Minus(c)>>[1 + (k % 4)], Factorial(k) % P)]
CosCoeffs(s, c) == SinCoeffs(c, Minus(s))

(* Series division by d0 + d1 t + d2 t^2.                                  *)
DividedSeries(d0, d1, d2) ==
  LET g[j \in 0..N] ==
        Quot(Plus(Plus(IF j = 0 THEN 1 ELSE 0,
                       IF j >= 1 THEN Minus(Times(d1, g[j-1])) ELSE 0),
                  IF j >= 2 THEN Minus(Times(d2, g[j-2])) ELSE 0), d0)
  IN  g

(* (s0 + s1 t + s2 t^2)^p for p = -1/2.                                    *)
MutRootWeight(i, k) == (i * (P - Half) - k) % P
RootWeight(i, k) == (i * (P - Half) - (k - i)) % P   (* p i - (k - i)      *)
RootSeries(s0, s1, s2) ==
  LET w[k \in 0..N] ==
        IF k = 0 THEN OtiPow(s0, -1)
        ELSE Quot(Plus(Times(Times(RootWeight(1, k), s1), w[k-1]),
                       IF k >= 2 THEN Times(Times(RootWeight(2, k), s2), w[k-2]) ELSE 0),
                  (k * s0) % P)
  IN  w

(* The Gaussian exp(-(x + t)^2), exp(-x^2) = ex.                           *)
GaussSeries(x, ex) ==
  LET g[k \in 0..N] ==
        IF k = 0 THEN ex
        ELSE Quot(Plus(Times(P - 2, Times(x, g[k-1])), IF k >= 2 THEN Times(P - 2, g[k-2]) ELSE 0), k)
  IN  g

TwoOverSqrtPi == 4   (* any positive number                                *)

(* The series whose derivative is the series g.                            *)
Integral(t0, g) == [k \in 0..N |-> IF k = 0 THEN t0 ELSE Quot(g[k-1], k)]
Negated(t0, t) == [k \in 0..N |-> IF k = 0 THEN t0 ELSE Minus(t[k])]

Square(x) == Times(x, x)
AsinCoeffs(x, t0) == Integral(t0, RootSeries(Plus(1, Minus(Square(x))), Times(P - 2, x), P - 1))
ErfCoeffs(x, t0, ex) ==
  Integral(t0, [k \in 0..N |-> Times(TwoOverSqrtPi, GaussSeries(x, ex)[k])])

-----------------------------------------------------------------------------
Functions == [fn : {"pow"}, e : Exponents]
  \cup [fn : {"exp", "log", "cbrt", "sin", "cos", "atan", "asin", "acos", "asinh", "acosh",
              "atanh", "erf", "erfc", "abs"}]

(* Where libm gives NaN or an infinity instead of a number: outside the    *)
(* real domain, and at the poles of log and atanh.                         *)
InDomain(f, x) ==
  CASE f.fn = "log"              -> Positive(x)
    [] f.fn \in {"asin", "acos"} -> LET s == Plus(1, Minus(Square(x))) IN s = 0 \/ Positive(s)
    [] f.fn = "acosh"            -> LET s == Plus(Square(x), P - 1)
                                    IN  Positive(x) /\ (s = 0 \/ Positive(s))
    [] f.fn = "atanh"            -> Positive(Plus(1, Minus(Square(x))))
    [] OTHER                     -> TRUE

(* In the reals 1 + x^2 is positive; the numbers of the field for which it *)
(* is not have no counterpart, and atan and asinh are not applied to them. *)
Applicable(f, x) == f.fn \in {"atan", "asinh"} => Positive(Plus(1, Square(x)))

Libm(f, x) == IF InDomain(f, x) THEN Values ELSE {NonFin}
LibmExp == {v \in Values : Positive(v)}
Circle == {sc \in Values \X Finite : Plus(Square(sc[1]), Square(sc[2])) = 1}

(* The coefficient arrays f(x) may produce.                                *)
CoeffsOf(f, x) ==
  CASE f.fn = "exp"   -> {ExpCoeffs(ex) : ex \in LibmExp}
    [] f.fn = "log"   -> {LogCoeffs(x, t0) : t0 \in Libm(f, x)}
    [] f.fn = "pow"   -> {PowCoeffs(x, f.e)}
    [] f.fn = "cbrt"  -> {CbrtCoeffs(x)}
    [] f.fn = "sin"   -> {SinCoeffs(sc[1], sc[2]) : sc \in Circle}
    [] f.fn = "cos"   -> {CosCoeffs(sc[1], sc[2]) : sc \in Circle}
    [] f.fn = "atan"  -> {Integral(t0, DividedSeries(Plus(1, Square(x)), Times(2, x), 1)) :
                            t0 \in Libm(f, x)}
    [] f.fn = "asin"  -> {AsinCoeffs(x, t0) : t0 \in Libm(f, x)}
    [] f.fn = "acos"  -> {Negated(t0, AsinCoeffs(x, t0)) : t0 \in Libm(f, x)}
    [] f.fn = "asinh" -> {Integral(t0, RootSeries(Plus(1, Square(x)), Times(2, x), 1)) :
                            t0 \in Libm(f, x)}
    [] f.fn = "acosh" -> {Integral(t0, RootSeries(Plus(Square(x), P - 1), Times(2, x), 1)) :
                            t0 \in Libm(f, x)}
    [] f.fn = "atanh" -> {Integral(t0, DividedSeries(Plus(1, Minus(Square(x))), Times(P - 2, x), P - 1)) :
                            t0 \in Libm(f, x)}
    [] f.fn = "erf"   -> {ErfCoeffs(x, t0, ex) : t0 \in Libm(f, x), ex \in LibmExp}
    [] f.fn = "erfc"  -> {Negated(t0, ErfCoeffs(x, t0, ex)) : t0 \in Libm(f, x), ex \in LibmExp}

=============================================================================
