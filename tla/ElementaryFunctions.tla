-------------------------- MODULE ElementaryFunctions --------------------------
(***************************************************************************)
(* The functions of functions.hpp and interop.hpp that are made of others: *)
(* from the arithmetic of core.hpp, which OtiCore shows to be that of      *)
(* JetRing, and from apply_scalar(), whose loop ScalarCompose takes round  *)
(* by round.  The program of ScalarCompose calls them too, on its jet and  *)
(* on other operands.  A plain scalar operand is a constant jet, except as *)
(* the divisor of fmod and remainder, which the code does not make a jet.  *)
(***************************************************************************)
EXTENDS ScalarCompose

CONSTANTS
  Operands,  (* what a call may take besides the jet                       *)
  Composed   (* the functions called                                       *)

VARIABLE answer   (* the composed call completed last, or NoAnswer         *)

NoAnswer == [g |-> "none"]

-----------------------------------------------------------------------------
FromPoly(f) == [x \in Idx |-> f[AlphaAt[x]]]

Add(a, b) == [x \in Idx |-> Plus(a[x], b[x])]
ScaledBy(s, a) == [x \in Idx |-> Times(s, a[x])]
Sub(a, b) == Add(a, ScaledBy(P - 1, b))
Multiply(a, b) == FromPoly(Product(PolyOf(a), PolyOf(b)))
Quotient(a, b) == FromPoly(Product(PolyOf(a), Reciprocal(PolyOf(b), Quot(1, b[0]))))
Fraction(a, s) == ScaledBy(Quot(1, s), a)
WithReal(a, s) == [a EXCEPT ![0] = s]

apply_scalar(t, value) ==
  LET h == Nilpotent(value)
      hk[k \in 1..N] == IF k = 1 THEN h ELSE MultiplyByNilpotent(hk[k-1], h, k)
      out[k \in 0..N] == IF k = 0 THEN Lift(t[0]) ELSE AddScaledOrders(out[k-1], hk[k], t[k], k)
  IN  IF IsSingular(t) THEN SingularJet(t[0]) ELSE out[N]

(* Where the generators take a real part that is not finite.  atan at an   *)
(* infinity: 1 / (1 + x^2) is 0, and inf * 0 spoils the orders above one.  *)
AtanAt(x, t0, infinite) ==
  IF IsFinite(x) THEN Integral(t0, DividedSeries(Plus(1, Square(x)), Times(2, x), 1))
  ELSE [k \in 0..N |-> CASE ~infinite -> NonFin
                         [] infinite /\ k = 0 -> t0
                         [] infinite /\ k = 1 -> 0
                         [] OTHER -> NonFin]

Exp(ex, a) == apply_scalar(ExpCoeffs(ex), a)
Log(t0, a) == apply_scalar(LogCoeffs(a[0], t0), a)
LogBase(t0, base, a) == Fraction(Log(t0, a), base)
Sqrt(a) == apply_scalar(PowCoeffs(a[0], 1), a)

(* exp(rhs log(lhs)): log is -inf at zero, and exp there 0 or infinite by  *)
(* the sign of rhs; it is NaN where log is, and for 0 * inf.               *)
ExpOfLog(x, y) ==
  CASE Positive(x) -> LibmExp
    [] x = 0 /\ Positive(y) -> {0}
    [] OTHER -> {NonFin}
PowJet(lhs, rhs, t0, ex) == Exp(ex, Multiply(rhs, Log(t0, lhs)))

Tan(sc, a) ==
  Quotient(apply_scalar(SinCoeffs(sc[1], sc[2]), a), apply_scalar(CosCoeffs(sc[1], sc[2]), a))

(* exp(-v) is libm's as well, and the reciprocal of exp(v).                *)
ExpMinus(ex, a) == Exp(Quot(1, ex), ScaledBy(P - 1, a))
Sinh(ex, a) == Fraction(Sub(Exp(ex, a), ExpMinus(ex, a)), 2)
Cosh(ex, a) == Fraction(Add(Exp(ex, a), ExpMinus(ex, a)), 2)
Tanh(ex, a) == Quotient(Sinh(ex, a), Cosh(ex, a))
(* Values of exp with a positive cosh, as all are in the reals.            *)
HyperbolicExp == {ex \in LibmExp : Positive(Plus(ex, Quot(1, ex)))}

(* The real part is not that of atan(y / x), but the one of the quadrant.  *)
MutAtan2(y, x, angle) ==
  LET q == Quotient(x, y)
  IN  WithReal(apply_scalar(AtanAt(q[0], angle, y[0] # 0), q), angle)
Atan2(y, x, angle) ==
  LET q == Quotient(y, x)
  IN  WithReal(apply_scalar(AtanAt(q[0], angle, y[0] # 0), q), angle)

(* Sums of squares of reals are not negative.                              *)
SquaresOf(list) == FoldSeq(LAMBDA v, acc : Add(acc, Multiply(v, v)), Lift(0), list)
IsLength(v) == Positive(v[0]) \/ v[0] = 0

Less(x, y) == Positive(Plus(y, Minus(x)))   (* x < y                       *)
(* A real part that is not finite is a NaN in calls of fmax and fmin.      *)
IsNaN(v) == ~IsFinite(v[0])
MutFMax(a, b) == IF Less(a[0], b[0]) THEN b ELSE a
FMax(a, b) == IF IsNaN(a) \/ (~IsNaN(b) /\ Less(a[0], b[0])) THEN b ELSE a
FMin(a, b) == IF IsNaN(a) \/ (~IsNaN(b) /\ Less(b[0], a[0])) THEN b ELSE a

(* The sign bit of a zero is not represented: either.                      *)
SignBits(x) == IF x = 0 THEN BOOLEAN ELSE {~Positive(x)}
CopySign(a, sign) == IF sign THEN ScaledBy(P - 1, AbsOf(a)) ELSE AbsOf(a)

(* x - n y, the quotient n of the real parts rounded by libm.  A scalar y  *)
(* is subtracted from the real part alone.                                 *)
RoundedQuotients(x, y) == IF y = 0 THEN {NonFin} ELSE Values
Remainder(a, b, n) == Sub(a, ScaledBy(n, b))
RemainderByScalar(a, y, n) == WithReal(a, Plus(a[0], Minus(Times(n, y))))

LibmLog(x) == Libm([fn |-> "log"], x)
(* Angles: with their poles of tan.                                        *)
Angles == {sc \in (Values \cup {1}) \X Finite : Plus(Square(sc[1]), Square(sc[2])) = 1}

(* What a call may return on (a, b, c), and the numbers `by` of libm it    *)
(* used.                                                                   *)
Outcomes(g, a, b, c) ==
  CASE g = "log_base" ->   (* log10, log2, log_base                        *)
         {[by |-> by, out |-> LogBase(by[1], by[2], a)] : by \in LibmLog(a[0]) \X (Values \cup {0})}
    [] g = "exp2" ->
         {[by |-> by, out |-> Exp(by[1], ScaledBy(by[2], a))] : by \in LibmExp \X LibmExp}
    [] g = "expm1" ->
         {[by |-> ex, out |-> WithReal(Exp(ex, a), Plus(ex, P - 1))] : ex \in LibmExp}
    [] g = "log1p" ->
         {[by |-> t0, out |-> WithReal(Log(t0, Add(Lift(1), a)), t0)] : t0 \in LibmLog(Plus(1, a[0]))}
    [] g = "pow" ->
         {[by |-> by, out |-> PowJet(a, b, by[1], by[2])] :
            by \in LibmLog(a[0]) \X ExpOfLog(a[0], b[0])}
    [] g = "tan"  -> {[by |-> sc, out |-> Tan(sc, a)] : sc \in Angles}
    [] g = "sinh" -> {[by |-> ex, out |-> Sinh(ex, a)] : ex \in HyperbolicExp}
    [] g = "cosh" -> {[by |-> ex, out |-> Cosh(ex, a)] : ex \in HyperbolicExp}
    [] g = "tanh" -> {[by |-> ex, out |-> Tanh(ex, a)] : ex \in HyperbolicExp}
    [] g = "atan2" -> {[by |-> angle, out |-> Atan2(a, b, angle)] : angle \in Values}
    [] g = "hypot" -> {[by |-> 0, out |-> Sqrt(s)] : s \in {s \in {SquaresOf(<<a, b>>)} : IsLength(s)}}
    [] g = "hypot3" ->
         {[by |-> 0, out |-> Sqrt(s)] : s \in {s \in {SquaresOf(<<a, b, c>>)} : IsLength(s)}}
    [] g = "fmax" -> {[by |-> 0, out |-> FMax(a, b)]}
    [] g = "fmin" -> {[by |-> 0, out |-> FMin(a, b)]}
    [] g = "copysign" -> {[by |-> sign, out |-> CopySign(a, sign)] : sign \in SignBits(b[0])}
    [] g = "fmod" ->       (* and remainder                                *)
         {[by |-> n, out |-> Remainder(a, b, n)] : n \in RoundedQuotients(a[0], b[0])}
    [] g = "fmod_scalar" -> (* and remainder, by a plain scalar            *)
         {[by |-> n, out |-> RemainderByScalar(a, b[0], n)] : n \in RoundedQuotients(a[0], b[0])}
    [] g = "floor" ->      (* ceil, trunc, round, nearbyint, rint          *)
         {[by |-> n, out |-> Lift(n)] : n \in Values}

-----------------------------------------------------------------------------
InitElementary == Init /\ answer = NoAnswer

Unary == {"log_base", "exp2", "expm1", "log1p", "tan", "sinh", "cosh", "tanh", "floor"}
Selections == {"fmax", "fmin"}
MayTake(g, b) ==
  /\ ~IsNaN(b) \/ g \in Selections
  /\ g = "fmod_scalar" => b = Lift(b[0])
OperandsOf(g) == IF g \in Unary THEN {<<jet, jet>>} ELSE {<<b, jet>> : b \in {b \in Operands : MayTake(g, b)}}

(* A call of a composed function; like the others it is not made on a real *)
(* part that is not finite, which only fmax and fmin provide for.          *)
Compute(g) ==
  /\ job = NoJob /\ calls < MaxCalls /\ calls' = calls + 1
  /\ IsFinite(jet[0]) \/ g \in Selections
  /\ \E bc \in OperandsOf(g) : \E o \in Outcomes(g, jet, bc[1], bc[2]) :
       /\ jet' = o.out
       /\ answer' = [g |-> g, a |-> jet, b |-> bc[1], c |-> bc[2], by |-> o.by]
  /\ last' = NoJob
  /\ UNCHANGED <<path, job>>

NextElementary ==
  \/ \E f \in Program : (ApplyAbs(f) \/ Apply(f)) /\ answer' = NoAnswer
  \/ NextPower /\ UNCHANGED answer
  \/ \E g \in Composed : Compute(g)
  \/ Finished /\ UNCHANGED answer

SpecElementary == InitElementary /\ [][NextElementary]_<<vars, answer>>

-----------------------------------------------------------------------------
Answered == answer # NoAnswer
(* There the code does not signal: see DocumentedSingularities.            *)
PowAtZero == answer.g = "pow" /\ answer.a[0] = 0
ScalarZeroDivisor == answer.g = "fmod_scalar" /\ answer.b[0] = 0
OperandsFinite == FiniteJet(answer.a) /\ FiniteJet(answer.b) /\ FiniteJet(answer.c)

(* The equation between the result r, its derivative dr and those of the   *)
(* operands along one variable.                                            *)
ComposedEquation(g, by, r, dr, a, da, b, db, c) ==
  CASE g = "log_base" -> EqualBelowN(Scale(by[2], Product(dr, a)), da)
    [] g = "exp2"     -> EqualBelowN(dr, Scale(by[2], Product(r, da)))
    [] g = "expm1"    -> EqualBelowN(dr, Product(OnePlus(1, r), da))
    [] g = "log1p"    -> EqualBelowN(Product(dr, OnePlus(1, a)), da)
    [] g = "pow"      ->
         LET log == Compose(LogCoeffs(a[Zero], by[1]), a)
         IN  EqualBelowN(Product(a, dr), Product(r, Sum(Product(b, da), Product(Product(a, log), db))))
    [] g \in {"tan", "tanh"} ->
         EqualBelowN(dr, Product(OnePlus(IF g = "tan" THEN 1 ELSE P - 1, Squared(r)), da))
    [] g = "sinh"     -> EqualBelowN(Squared(dr), Product(OnePlus(1, Squared(r)), Squared(da)))
    [] g = "cosh"     ->
         EqualBelowN(Squared(dr), Product(Sum(Squared(r), Constant(P - 1)), Squared(da)))
    [] g = "atan2"    ->
         EqualBelowN(Product(dr, Sum(Squared(a), Squared(b))),
                     Sum(Product(b, da), Scale(P - 1, Product(a, db))))
    [] g = "hypot"    -> Squared(r) = Sum(Squared(a), Squared(b))
    [] g = "hypot3"   -> Squared(r) = Sum(Sum(Squared(a), Squared(b)), Squared(c))
    [] g \in {"fmod", "fmod_scalar", "floor"} ->
         EqualBelowN(dr, IF g = "floor" THEN Constant(0) ELSE Sum(da, Scale(Minus(by), db)))
    [] OTHER          -> TRUE

(* The formulas by which functions are reduced to others give the          *)
(* derivatives of the function computed, along every variable to every     *)
(* order: a real part overwritten by libm's goes with derivatives that were*)
(* computed around another one, quotients and powers meet in the middle.   *)
ComposedRule ==
  Answered /\ OperandsFinite /\ FiniteJet(jet) /\ ~PowAtZero =>
    LET r == PolyOf(jet)  a == PolyOf(answer.a)  b == PolyOf(answer.b)  c == PolyOf(answer.c) IN
    /\ \A p \in 0..(M-1) :
         ComposedEquation(answer.g, answer.by, r, Derivative(r, p), a, Derivative(a, p),
                          b, Derivative(b, p), c)
    /\ answer.g \in {"hypot", "hypot3"} => IsLength(jet)

(* Selection returns one of its operands whole, with its derivatives: one  *)
(* that is no NaN if it can, for fmax one that no other exceeds, for fmin  *)
(* one that exceeds no other, and the first of them in a tie; copysign the *)
(* magnitude of its first operand under the sign of the second, with all   *)
(* its derivatives.                                                        *)
SelectsWhole ==
  Answered =>
    LET a == answer.a  b == answer.b
        numbers == {v \in {a, b} : ~IsNaN(v)} IN
    CASE answer.g \in Selections ->
           /\ jet \in (IF numbers = {} THEN {a, b} ELSE numbers)
           /\ \A v \in numbers :
                IF answer.g = "fmax" THEN ~Less(jet[0], v[0]) ELSE ~Less(v[0], jet[0])
           /\ jet[0] = a[0] /\ ~IsNaN(a) => jet = a
      [] answer.g = "copysign" /\ a[0] # 0 ->
           /\ jet \in {a, ScaledBy(P - 1, a)}
           /\ b[0] # 0 => Positive(Times(jet[0], b[0]))
      [] OTHER -> TRUE

(* Where the call is analytic, and where it is documented to be singular:  *)
(* poles, vertical tangents and arguments outside the domain.              *)
AnalyticCall(g, a, b, by) ==
  CASE g = "log_base"  -> Positive(a[0]) /\ by[2] # 0
    [] g = "log1p"     -> Positive(Plus(1, a[0]))
    [] g = "pow"       -> Positive(a[0])
    [] g = "tan"       -> by[2] # 0
    [] g \in {"atan2", "fmod", "fmod_scalar"} -> b[0] # 0
    [] g = "hypot"     -> a[0] # 0 \/ b[0] # 0
    [] OTHER           -> TRUE
(* The singular signal survives composition: NaN for every derivative at a *)
(* singular point of the composed function, also where an intermediate     *)
(* result is infinite and where the real part is overwritten by a finite   *)
(* one; finite derivatives elsewhere.  Not where the code is known not to  *)
(* signal: pow of two jets at a zero base, fmod and remainder by the plain *)
(* scalar 0.                                                               *)
ComposedSignal ==
  /\ Answered /\ OperandsFinite /\ ~PowAtZero /\ ~ScalarZeroDivisor
  /\ answer.g \notin {"fmax", "fmin", "copysign", "hypot3"}
  =>
    IF AnalyticCall(answer.g, answer.a, answer.b, answer.by)
    THEN FiniteJet(jet)
    ELSE Derivatives(jet) = {NonFin}

(* docs/api/functions.rst, singular points: pow(x, y) of two jets has nan  *)
(* derivatives where x.real() <= 0, and atan2(y, x) where x.real() = 0; a  *)
(* nan value, here that of a remainder, forces the whole result to nan.    *)
DocumentedSingularities ==
  Answered /\ OperandsFinite =>
    /\ answer.g = "pow" /\ ~Positive(answer.a[0]) => Derivatives(jet) = {NonFin}
    /\ answer.g = "atan2" /\ answer.b[0] = 0 => Derivatives(jet) = {NonFin}
    /\ answer.g = "fmod_scalar" /\ ~IsFinite(jet[0]) => Derivatives(jet) = {NonFin}

=============================================================================
