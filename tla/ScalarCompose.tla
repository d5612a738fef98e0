---------------------------- MODULE ScalarCompose ----------------------------
(***************************************************************************)
(* The scalar functions of functions.hpp on one jet.  apply_scalar()       *)
(* composes the Taylor coefficients t of the function at the real part     *)
(* with the nilpotent part h of the jet: a loop that forms h^k from        *)
(* h^(k-1) and adds t[k] h^k.  A program applies one function after        *)
(* another; their real parts stay finite (no function is applied to a real *)
(* part that is an infinity or a NaN).                                     *)
(***************************************************************************)
EXTENDS JetTables, ScalarSeries

CONSTANTS
  Seeds,    (* jets the program starts from                                *)
  Program,  (* functions it applies                                        *)
  MaxCalls  (* bound on the number of applications                         *)

ASSUME ProgramAssumption == Program \subseteq Functions

VARIABLES
  jet,      (* the coefficient array of the object                         *)
  path,     (* arithmetic path compiled in                                 *)
  job,      (* an apply_scalar() under way, or NoJob                       *)
  last,     (* the application completed last, or NoJob                    *)
  calls     (* number of applications started                              *)

vars == <<jet, path, job, last, calls>>

NoJob == [k |-> 0]

Nilpotent(value) == [value EXCEPT ![0] = 0]

(* add_scaled_orders: nothing below min, and nothing at all for scale 0.   *)
MutAddOneOrderMore(out, value, scale, min) ==
  [x \in Idx |-> IF OrderAt[x] > min THEN Plus(out[x], Times(scale, value[x])) ELSE out[x]]
AddScaledOrders(out, value, scale, min) ==
  IF scale = 0 THEN out
  ELSE [x \in Idx |-> IF OrderAt[x] >= min THEN Plus(out[x], Times(scale, value[x])) ELSE out[x]]

(* multiply_by_nilpotent: outputs below min stay zero, and so do the terms *)
(* with the real part of the nilpotent factor.                             *)
MutMultiplyAllOrders(lhs, nilpotent, min) ==
  [k \in Idx |->
     MapThenFoldSet(Plus, 0, LAMBDA t : Times(lhs[t[1]], nilpotent[t[2]]),
                    LAMBDA S : CHOOSE t \in S : TRUE,
                    {t \in TermsInto[path][k] : t[2] # 0})]
MultiplyByNilpotent(lhs, nilpotent, min) ==
  [k \in Idx |->
     IF OrderAt[k] < min THEN 0
     ELSE MapThenFoldSet(Plus, 0, LAMBDA t : Times(lhs[t[1]], nilpotent[t[2]]),
                         LAMBDA S : CHOOSE t \in S : TRUE,
                         {t \in TermsInto[path][k] : t[2] # 0})]

(* The scalar value, and NaN for every derivative.                         *)
MutSingularOneMore(t0) == [x \in 0..NC |-> IF x = 0 THEN t0 ELSE NonFin]
SingularJet(t0) == [x \in Idx |-> IF x = 0 THEN t0 ELSE NonFin]

MutLeadingSingular(t) == ~IsFinite(t[0])
IsSingular(t) == \E k \in 0..N : ~IsFinite(t[k])

(* abs(): NaN derivatives at a kink, also where they were not finite.      *)
AbsOf(value) ==
  CASE Positive(value[0])                               -> value
    [] ~Positive(value[0]) /\ value[0] # 0              -> [x \in Idx |-> Minus(value[x])]
    [] value[0] = 0 /\ \E x \in Idx \ {0} : value[x] # 0 -> SingularJet(0)
    [] OTHER                                            -> value

-----------------------------------------------------------------------------
Init ==
  /\ jet \in Seeds /\ path \in Paths
  /\ job = NoJob /\ last = NoJob /\ calls = 0

MayApply(f) ==
  /\ job = NoJob /\ calls < MaxCalls /\ calls' = calls + 1
  /\ IsFinite(jet[0]) /\ Applicable(f, jet[0])

Return(f, value, t, result) ==
  /\ jet' = result
  /\ last' = [fn |-> f, value |-> value, t |-> t]
  /\ job' = NoJob

ApplyAbs(f) ==
  /\ f.fn = "abs"
  /\ MayApply(f)
  /\ Return(f, jet, Lift(0), AbsOf(jet))
  /\ UNCHANGED path

(* The early returns of apply_scalar, or its first two terms.              *)
Apply(f) ==
  /\ f.fn # "abs"
  /\ MayApply(f)
  /\ \E t \in CoeffsOf(f, jet[0]) :
       LET h == Nilpotent(jet) IN
       IF IsSingular(t)
       THEN Return(f, jet, t, SingularJet(t[0]))
       ELSE IF N <= 1
       THEN Return(f, jet, t, IF N = 0 THEN Lift(t[0]) ELSE AddScaledOrders(Lift(t[0]), h, t[1], 1))
       ELSE /\ job' = [fn |-> f, t |-> t, h |-> h, hk |-> h, k |-> 2,
                       out |-> AddScaledOrders(Lift(t[0]), h, t[1], 1)]
            /\ UNCHANGED <<jet, last>>
  /\ UNCHANGED path

NextPower ==
  LET hk == MultiplyByNilpotent(job.hk, job.h, job.k)
      out == AddScaledOrders(job.out, hk, job.t[job.k], job.k)
  IN  /\ job # NoJob
      /\ IF job.k < N
         THEN job' = [job EXCEPT !.hk = hk, !.out = out, !.k = @ + 1] /\ UNCHANGED <<jet, last>>
         ELSE Return(job.fn, jet, job.t, out)
      /\ UNCHANGED <<path, calls>>

(* The program ends after its last call, or where no function applies.     *)
Finished ==
  /\ job = NoJob /\ (calls = MaxCalls \/ ~IsFinite(jet[0]))
  /\ UNCHANGED vars

Next ==
  \/ \E f \in Program : ApplyAbs(f)
  \/ \E f \in Program : Apply(f)
  \/ NextPower
  \/ Finished

Spec == Init /\ [][Next]_vars

-----------------------------------------------------------------------------
(* No loop over the coefficients runs past the array.                      *)
TypeOK ==
  /\ jet \in Jet /\ path \in Paths /\ calls \in 0..MaxCalls
  /\ job # NoJob => job.k \in 2..N /\ job.hk \in Jet /\ job.out \in Jet /\ job.t \in [0..N -> Finite]

FiniteJet(j) == \A x \in Idx : IsFinite(j[x])
Derivatives(j) == {j[x] : x \in Idx \ {0}}

(* Loop invariant: before power k is formed, hk is h^(k-1) in the algebra; *)
(* whatever is not finite in h, hk has only zeros below order k-1, which   *)
(* is why add_scaled_orders may start there.                               *)
PowerOf(f, n) == LET up[i \in 0..n] == IF i = 0 THEN Constant(1) ELSE Product(f, up[i-1]) IN up[n]
PowersOfNilpotent ==
  job # NoJob =>
    /\ \A x \in Idx : OrderAt[x] < job.k - 1 => job.hk[x] = 0
    /\ FiniteJet(job.h) => PolyOf(job.hk) = PowerOf(PolyOf(job.h), job.k - 1)

(* Where the function has N derivatives: inside its real domain, off the   *)
(* poles, vertical tangents and kinks (docs/api/functions.rst), and a      *)
(* non-integer power also at zero if it is above N, where they are all 0.  *)
Smooth(f, value) ==
  LET x == value[0] IN
  CASE f.fn = "pow" ->
         \/ f.e % 2 = 0 /\ (x # 0 \/ f.e >= 0)
         \/ f.e % 2 = 1 /\ (Positive(x) \/ (x = 0 /\ f.e > 2*N))
    [] f.fn \in {"cbrt"}         -> x # 0
    [] f.fn = "abs"              -> x # 0 \/ Derivatives(value) \subseteq {0}
    [] f.fn \in {"asin", "acos"} -> Positive(Plus(1, Minus(Square(x))))
    [] f.fn = "acosh"            -> Positive(x) /\ Positive(Plus(Square(x), P - 1))
    [] OTHER                     -> InDomain(f, x)

(* The derivatives of a function of a finite jet are finite where the      *)
(* function has them up to order N, and all of them are NaN where it lacks *)
(* one; a value that is not finite always comes with the latter.           *)
SingularSignal ==
  last # NoJob =>
    /\ FiniteJet(last.value) /\ Smooth(last.fn, last.value) => FiniteJet(jet)
    /\ ~Smooth(last.fn, last.value) => Derivatives(jet) \subseteq {NonFin}
    /\ ~IsFinite(jet[0]) => Derivatives(jet) \subseteq {NonFin}

(* Differentiation by variable p, which loses the highest order.           *)
Derivative(f, p) ==
  [alpha \in Alphas |->
     IF OrderIn(alpha) = N THEN 0
     ELSE LET raised == [alpha EXCEPT ![p] = @ + 1] IN Times(raised[p], f[raised])]
EqualBelowN(f, g) == Truncate(f, N - 1) = Truncate(g, N - 1)

OnePlus(s, f) == Sum(Constant(1), Scale(s, f))   (* 1 + s f                *)
Squared(f) == Product(f, f)
Rising == {"exp", "log", "cbrt", "asin", "asinh", "acosh", "atan", "atanh", "erf"}
Falling == {"acos", "erfc"}

(* The differential equation that defines the function, for the result r   *)
(* of applying it to v, along the variable p.                              *)
Equation(fn, v, r, t, dv, dr) ==
  CASE fn.fn = "exp"             -> EqualBelowN(dr, Product(r, dv))
    [] fn.fn = "log"             -> EqualBelowN(Product(v, dr), dv)
    [] fn.fn = "pow"             -> EqualBelowN(Product(v, dr), Scale(Times(fn.e % P, Half), Product(r, dv)))
    [] fn.fn = "cbrt"            -> EqualBelowN(Product(Scale(3, v), dr), Product(r, dv))
    [] fn.fn \in {"sin", "cos"}  -> EqualBelowN(Squared(dr), Product(OnePlus(P - 1, Squared(r)), Squared(dv)))
    [] fn.fn = "atan"            -> EqualBelowN(Product(OnePlus(1, Squared(v)), dr), dv)
    [] fn.fn = "atanh"           -> EqualBelowN(Product(OnePlus(P - 1, Squared(v)), dr), dv)
    [] fn.fn \in {"asin", "acos"} ->
         EqualBelowN(Product(OnePlus(P - 1, Squared(v)), Squared(dr)), Squared(dv))
    [] fn.fn = "asinh"           -> EqualBelowN(Product(OnePlus(1, Squared(v)), Squared(dr)), Squared(dv))
    [] fn.fn = "acosh"           ->
         EqualBelowN(Product(Sum(Squared(v), Constant(P - 1)), Squared(dr)), Squared(dv))
    [] fn.fn \in {"erf", "erfc"} ->
         LET gauss == Compose(ExpCoeffs(t[1]), Scale(P - 1, Squared(v))) IN EqualBelowN(dr, Product(gauss, dv))
    [] fn.fn = "abs"             -> Squared(r) = Squared(v)

(* The composed jet is the one the chain rule gives: along every variable, *)
(* to every order, it satisfies the differential equation of the function, *)
(* with the right sign of the slope.                                       *)
ChainRule ==
  last # NoJob /\ FiniteJet(last.value) /\ FiniteJet(jet) =>
    LET v == PolyOf(last.value)  r == PolyOf(jet)
        down(s) == IF last.fn.fn \in Falling THEN Minus(s) ELSE s IN
    \A p \in 0..(M-1) :
      LET dv == Derivative(v, p)  dr == Derivative(r, p) IN
      /\ Equation(last.fn, v, r, last.t, dv, dr)
      /\ last.fn.fn \in Rising \cup Falling /\ N > 0 /\ dv[Zero] # 0 =>
           Positive(down(Times(dr[Zero], dv[Zero])))

(* Powers and roots agree with the multiplication of the algebra: v^n is   *)
(* the n-fold product also at zero, v^-n its inverse, and the square of    *)
(* v^(n/2) and the cube of cbrt(v) give v^n and v back.                    *)
PowerLaw ==
  last # NoJob /\ FiniteJet(last.value) /\ FiniteJet(jet) =>
    LET v == PolyOf(last.value)  r == PolyOf(jet)  e == last.fn.e IN
    CASE last.fn.fn = "cbrt"                         -> PowerOf(r, 3) = v
      [] last.fn.fn = "pow" /\ e % 2 = 0 /\ e >= 0 -> r = PowerOf(v, e \div 2)
      [] last.fn.fn = "pow" /\ e % 2 = 0 /\ e < 0  -> Product(r, PowerOf(v, (-e) \div 2)) = Constant(1)
      [] last.fn.fn = "pow" /\ e % 2 = 1 /\ e >= 0 -> Squared(r) = PowerOf(v, e)
      [] OTHER                                       -> TRUE

(* tests/test_exp_log_pow.cpp: pow(x, 2) at x == 0 equals x*x exactly.     *)
SquareIsProduct ==
  last # NoJob /\ last.fn = [fn |-> "pow", e |-> 4] /\ last.value[0] = 0 =>
    PolyOf(jet) = Squared(PolyOf(last.value))

=============================================================================
