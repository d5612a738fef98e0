------------------------------- MODULE OtiCore -------------------------------
(***************************************************************************)
(* The arithmetic of core.hpp on the flat coefficient array c_ of          *)
(* otinum<M, N>: products run over the product-term table, the inverse is  *)
(* solved one coefficient at a time in flat order, and the accessors go    *)
(* through rank().  `path` is the OTI_BENCHMARK_ARITHMETIC_PATH the build  *)
(* chose: 0 rebuilds every term from dense multi-indices, 1 and 2 read the *)
(* tables.  Calls run one at a time; inv() is the only one that reads what *)
(* it wrote earlier, so it is a loop of steps and the others are one step. *)
(***************************************************************************)
EXTENDS JetCalls, JetTables

CONSTANTS
  Seeds,   (* initial contents of the objects: a set of [Regs -> arrays]   *)
  MaxCalls (* bound on the length of the program                           *)

ASSUME SeedsAssumption == Seeds \subseteq [Regs -> Jet]
ASSUME MaxCallsAssumption == MaxCalls \in Nat

VARIABLES
  regs,    (* the coefficient array of every object                        *)
  path,    (* arithmetic path compiled in                                  *)
  last,    (* the call completed last                                      *)
  job,     (* an inverse being solved, or NoJob                            *)
  calls    (* number of calls started                                      *)

vars == <<regs, path, last, job, calls>>

NoJob == [k |-> 0]

(* An unchecked c_[idx] = v: an index outside the array shows as a wider   *)
(* domain.                                                                 *)
Put(jet, idx, v) == [x \in DOMAIN jet \cup {idx} |-> IF x = idx THEN v ELSE jet[x]]

(* set_coeff() and set_partial(): requests that do not rank are ignored.   *)
MutPutUnguarded(jet, idx, v) == Put(jet, idx, v)
PutRanked(jet, idx, v) == IF idx >= 0 THEN Put(jet, idx, v) ELSE jet

NormalizedPartial(idx, v) ==
  IF idx >= 0 THEN CHOOSE x \in Coeff : Times(FactorialAt[idx], x) = v ELSE v

(* rank_sparse(): repeated variables add up, a bad term spoils the list.   *)
Spoilt(list) ==
  \E t \in DOMAIN list : list[t].variable < 0 \/ list[t].variable >= M \/ list[t].order < 0
Gathered(list) ==
  [p \in 0..(M-1) |->
     FoldLeft(LAMBDA sum, term : IF term.variable = p THEN WrapInt(sum + term.order) ELSE sum,
              0, list)]
RankSparse(list) == IF Spoilt(list) THEN -1 ELSE Rank(M, N, Gathered(list))

Added(a, b) == [x \in Idx |-> Plus(a[x], b[x])]
Subtracted(a, b) == [x \in Idx |-> Plus(a[x], Minus(b[x]))]
AddedReal(a, s) == [a EXCEPT ![0] = Plus(@, s)]
Scaled(a, s) == [x \in Idx |-> Times(a[x], s)]

(* operator/=(Scalar): where 1/divisor is not finite every derivative is   *)
(* NaN; for N = 0 there are none.                                          *)
ScalarQuotient(a, recip) ==
  IF N > 0 /\ ~IsFinite(recip)
  THEN [x \in Idx |-> NonFin]
  ELSE [x \in Idx |-> Over(a[x], recip)]

(* One product term.  Skipping a zero factor would lose a non-finite one.  *)
MutTermSkipsZero(a, b, t) ==
  IF a[t[1]] = 0 \/ b[t[2]] = 0 THEN 0 ELSE Times(a[t[1]], b[t[2]])
TermProduct(a, b, t) == Times(a[t[1]], b[t[2]])

(* otinum_mul_into and otinum_trunc_mul_into accumulate on top of `seed`.  *)
MutMulFromZero(seed, a, b, max) ==
  [k \in Idx |->
     IF OrderAt[k] > max THEN 0
     ELSE MapThenFoldSet(Plus, 0, LAMBDA t : TermProduct(a, b, t),
                         LAMBDA S : CHOOSE t \in S : TRUE, TermsInto[path][k])]
MulInto(seed, a, b, max) ==
  [k \in Idx |->
     IF OrderAt[k] > max THEN seed[k]
     ELSE MapThenFoldSet(Plus, seed[k], LAMBDA t : TermProduct(a, b, t),
                         LAMBDA S : CHOOSE t \in S : TRUE, TermsInto[path][k])]

Mul(a, b) == MulInto(Lift(0), a, b, N)
TruncMul(a, b, max) == IF max < 0 THEN Lift(0) ELSE MulInto(Lift(0), a, b, Min({max, N}))
TruncAdd(a, b, max) ==
  [x \in Idx |-> IF max >= 0 /\ OrderAt[x] <= Min({max, N}) THEN Plus(a[x], b[x]) ELSE 0]

Axpy(y, s, a) == [x \in Idx |-> Plus(y[x], Times(s, a[x]))]

(* What a call without an inverse leaves in its result object.  The fused  *)
(* operations take their operands by value and store once, at the end.     *)
Value(c) ==
  LET a == regs[c.a]  b == regs[c.b]  y == regs[c.y] IN
  CASE c.op = "assign"      -> Lift(c.s)
    [] c.op = "variable"    -> IF N > 0 THEN Put(Lift(c.s), Rank(M, N, Unit(c.v)), 1) ELSE Lift(c.s)
    [] c.op = "set_coeff"   -> PutRanked(y, Rank(M, N, c.alpha), c.s)
    [] c.op = "set_partial" ->
         LET idx == Rank(M, N, c.alpha) IN PutRanked(y, idx, NormalizedPartial(idx, c.s))
    [] c.op = "set_coeff_sparse" -> PutRanked(y, RankSparse(c.list), c.s)
    [] c.op = "set_partial_sparse" ->
         LET idx == RankSparse(c.list) IN PutRanked(y, idx, NormalizedPartial(idx, c.s))
    [] c.op = "neg"         -> Scaled(a, P - 1)
    [] c.op = "add"         -> Added(a, b)
    [] c.op = "sub"         -> Subtracted(a, b)
    [] c.op = "mul"         -> Mul(a, b)
    [] c.op = "fma_into"    -> MulInto(y, a, b, N)
    [] c.op = "add_scalar"  -> AddedReal(a, c.s)
    [] c.op = "sub_scalar"  -> AddedReal(a, Minus(c.s))
    [] c.op = "mul_scalar"  -> Scaled(a, c.s)
    [] c.op = "scalar_sub"  -> AddedReal(Scaled(a, P - 1), c.s)
    [] c.op = "axpy"        -> Axpy(y, c.s, a)
    [] c.op = "scale_add"   -> Axpy(a, c.s, b)
    [] c.op = "trunc_mul"   -> TruncMul(a, b, c.max)
    [] c.op = "trunc_add"   -> TruncAdd(a, b, c.max)
    [] c.op = "gem"         -> Added(Mul(a, b), regs[c.c])

-----------------------------------------------------------------------------
Inverting == {"inv", "div", "scalar_div"}

Init ==
  /\ regs \in Seeds
  /\ path \in Paths
  /\ last = NoCall /\ job = NoJob /\ calls = 0

(* The program makes a call: its bound is MaxCalls.                        *)
MayCall(c) == job = NoJob /\ calls < MaxCalls /\ calls' = calls + 1

Store(c, jet) ==
  /\ regs' = [regs EXCEPT ![c.y] = jet]
  /\ last' = c

Call(c) ==
  /\ c.op \notin Inverting \cup {"div_scalar"}
  /\ MayCall(c)
  /\ Store(c, Value(c))
  /\ UNCHANGED <<path, job>>

CallDivScalar(c) ==
  /\ c.op = "div_scalar"
  /\ MayCall(c)
  /\ \E recip \in Recips(c.s) : Store(c, ScalarQuotient(regs[c.a], recip))
  /\ UNCHANGED <<path, job>>

(* inv() of the operand, or of the divisor of operator/.                   *)
Inverted(c) == IF c.op = "div" THEN regs[c.b] ELSE regs[c.a]

(* operator/ multiplies the inverse by the dividend, inv() returns it.     *)
FromInverse(c, out) ==
  CASE c.op = "inv"        -> out
    [] c.op = "div"        -> Mul(regs[c.a], out)
    [] c.op = "scalar_div" -> Mul(Lift(c.s), out)

(* out[0] = 1 / r: at a pole no valid jet exists, and every derivative is  *)
(* NaN; otherwise the coefficients are solved from the first on.           *)
CallInverse(c) ==
  /\ c.op \in Inverting
  /\ MayCall(c)
  /\ \E recip \in Recips(Inverted(c)[0]) :
       IF N = 0 \/ ~IsFinite(recip)
       THEN /\ Store(c, FromInverse(c, [x \in Idx |-> recip]))
            /\ UNCHANGED job
       ELSE /\ job' = [call |-> c, value |-> Inverted(c), recip |-> recip, k |-> 1, out |-> Lift(recip)]
            /\ UNCHANGED <<regs, last>>
  /\ UNCHANGED path

(* The contributions to output k but that of the unknown out[k] itself.    *)
KnownSum(k) ==
  MapThenFoldSet(Plus, 0, LAMBDA t : TermProduct(job.value, job.out, t),
                 LAMBDA S : CHOOSE t \in S : TRUE, TermsInto[path][k] \ {<<0, k>>})

MutSolvedNotNegated(k) == Over(KnownSum(k), job.recip)
Solved(k) == Over(Minus(KnownSum(k)), job.recip)

SolveNext ==
  LET out == [job.out EXCEPT ![job.k] = Solved(job.k)]
  IN  /\ job # NoJob
      /\ IF job.k + 1 < NC
         THEN job' = [job EXCEPT !.out = out, !.k = @ + 1] /\ UNCHANGED <<regs, last>>
         ELSE job' = NoJob /\ Store(job.call, FromInverse(job.call, out))
      /\ UNCHANGED <<path, calls>>

(* The program ends after its last call.                                   *)
Finished == job = NoJob /\ calls = MaxCalls /\ UNCHANGED vars

Next ==
  \/ \E c \in Calls : Call(c)
  \/ \E c \in Calls : CallDivScalar(c)
  \/ \E c \in Calls : CallInverse(c)
  \/ SolveNext
  \/ Finished

Spec == Init /\ [][Next]_vars

-----------------------------------------------------------------------------
(* Every coefficient array keeps its extent: no accessor writes outside it.*)
TypeOK ==
  /\ regs \in [Regs -> Jet] /\ path \in Paths /\ calls \in 0..MaxCalls
  /\ last \in Calls \cup {NoCall}
  /\ job # NoJob => job.value \in Jet /\ job.out \in Jet /\ job.k \in Idx \ {0}
                    /\ job.recip \in Finite

Algebra == INSTANCE JetAlgebra WITH poly <- [y \in Regs |-> PolyOf(regs[y])], last <- last

(* On every arithmetic path, every call leaves in its result object what   *)
(* the truncated algebra says of the operands' earlier values, also when   *)
(* the result object is one of the operands, and nothing in the others.    *)
ImplementsAlgebra == Algebra!Spec

(* Loop invariant of inv_solve: the coefficients solved so far already     *)
(* make the product with the operand 1, so later ones need not revisit     *)
(* them.                                                                   *)
SolvedPrefix ==
  job # NoJob /\ (\A x \in Idx : IsFinite(job.value[x])) =>
    \A k \in 0..(job.k - 1) :
      Mul(job.value, job.out)[k] = IF k = 0 THEN 1 ELSE 0

Reaches(x, k) == \A p \in 0..(M-1) : AlphaAt[x][p] <= AlphaAt[k][p]

(* The objects whose coefficients enter the result of a call one by one,   *)
(* those that are factors of a product in it, and the one it is divided by.*)
Kept(c) ==
  CASE c.op \in {"neg", "add_scalar", "sub_scalar", "mul_scalar", "div_scalar", "scalar_sub"} -> {c.a}
    [] c.op \in {"add", "sub", "scale_add"} -> {c.a, c.b}
    [] c.op = "axpy"                        -> {c.a, c.y}
    [] c.op = "fma_into"                    -> {c.y}
    [] c.op = "gem"                         -> {c.c}
    [] OTHER                                -> {}
Multiplied(c) ==
  CASE c.op \in {"mul", "fma_into", "gem"} -> {c.a, c.b}
    [] c.op = "div"                        -> {c.a}
    [] OTHER                               -> {}
Divided(c) ==
  CASE c.op \in {"inv", "scalar_div"} -> {c.a}
    [] c.op = "div"                   -> {c.b}
    [] OTHER                          -> {}

(* A coefficient of z at x that is not finite leaves none finite, in the   *)
(* result of the call, of those it contributes to.                         *)
Spoils(z, x) ==
  ~IsFinite(regs[z][x]) => \A k \in Idx : Reaches(x, k) => ~IsFinite(regs'[last'.y][k])

(* The singular-point contract survives arithmetic: a coefficient that is  *)
(* not finite stays so in a linear combination; in a factor of a product   *)
(* (or in a dividend) it makes every coefficient it contributes to not     *)
(* finite, products with zero included, and the real part thereby all of   *)
(* them; in a divisor a derivative does.  The real part of a divisor is    *)
(* left out: one over infinity is zero.                                    *)
NonFiniteSticks ==
  [][regs' # regs =>
       /\ \A z \in Kept(last'), x \in Idx :
            ~IsFinite(regs[z][x]) => ~IsFinite(regs'[last'.y][x])
       /\ \A z \in Multiplied(last'), x \in Idx : Spoils(z, x)
       /\ \A z \in Divided(last'), x \in Idx \ {0} : Spoils(z, x)]_vars

(* What the accessors are asked for is an array of M ints and, where it is *)
(* a multi-index, its total order is an int.                               *)
Fits(alpha) ==
  /\ alpha \in [0..(M-1) -> Int]
  /\ (\A p \in 0..(M-1) : alpha[p] >= 0) => OrderIn(alpha) <= IntMax
InputsFit ==
  \A alpha \in DenseInputs \cup {Algebra!SparseSum(list) : list \in {l \in SparseInputs : ~Spoilt(l)}} :
    Fits(alpha)

(* A request outside the truncation order is ignored.                      *)
OutsideOrderIgnored ==
  [][calls' # calls /\ last'.op \in {"set_coeff", "set_partial"} /\ last'.alpha \notin Alphas
       => regs' = regs]_vars

=============================================================================
