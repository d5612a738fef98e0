---------------------------- MODULE ValidityRadius ----------------------------
(***************************************************************************)
(* validity_radius(): variable by variable, an upper bracket is seeded from*)
(* the closed form of the leading term, doubled until the error reaches    *)
(* the budget, and the bracket is then halved a fixed number of times.     *)
(* Each action is one round of one of those loops.                         *)
(***************************************************************************)
EXTENDS TruncationError

CONSTANTS
  Jets,       (* jets it is called with                                    *)
  Tolerances, (* pairs <<tau, tau_abs>>                                    *)
  Doublings,  (* rounds of the growing loop, 64 in the code                *)
  Halvings,   (* rounds of the bisection, 64 in the code                   *)
  One,        (* the step 1.0                                              *)
  Infinity    (* the reach of a model that is exact along an axis          *)

(* Steps the bracket may be seeded with are multiples of Grain, so that    *)
(* every midpoint is an integer.                                           *)
Grain == PowInt(2, Halvings + 1)

ASSUME InputAssumption ==
  /\ Jets \subseteq [Idx -> Int]
  /\ Tolerances \subseteq Nat \X Nat
  /\ N > 0
ASSUME LoopAssumption ==
  Doublings \in Nat /\ Halvings \in Nat /\ One \in Nat \ {0} /\ One % Grain = 0
ASSUME InfinityAssumption == Infinity \notin Nat

VARIABLES
  jet, tau, tau_abs, model_order,   (* the arguments                       *)
  pc,         (* seed, grow, bisect, done                                  *)
  axis,       (* the variable whose reach is being found                   *)
  lo, hi,     (* the bracket                                               *)
  round,      (* rounds of the current loop: guard, it                     *)
  r           (* the reaches found so far                                  *)

args == <<jet, tau, tau_abs, model_order>>
vars == <<args, pc, axis, lo, hi, round, r>>

budget == Budget(jet, tau, tau_abs)
AxisError(x) == PureAxisError(jet, axis, x, model_order)
Within(x) == AxisError(x) < budget

Init ==
  /\ jet \in Jets /\ model_order \in 0..(N-1)
  /\ \E t \in Tolerances : tau = t[1] /\ tau_abs = t[2]
  /\ pc = "seed" /\ axis = 0 /\ lo = 0 /\ hi = 0 /\ round = 0
  /\ r = [i \in Axes |-> 0]

(* (budget / c0)^(1 / d0): where it is no multiple of Grain, the one above *)
(* or below; zero only where the budget is.                                *)
RootOf(c0, d0) ==
  LET Leading(k) == c0 * PowInt(k * Grain, d0)
      Beyond(k) == Leading(k) >= budget
      above == CHOOSE k \in 1..budget : Beyond(k) /\ ~Beyond(k - 1)
  IN  IF budget = 0 THEN {0}
      ELSE {above * Grain} \cup (IF Leading(above) = budget THEN {} ELSE {(above - 1) * Grain} \ {0})

MutSeedsOfOne(c0, d0) == {One}
SeedsOf(c0, d0) == IF c0 > 0 THEN RootOf(c0, d0) ELSE {One}

Seed ==
  /\ pc = "seed"
  /\ hi' \in SeedsOf(Abs(Pure(jet, axis, model_order + 1)), model_order + 1)
  /\ pc' = "grow" /\ round' = 0
  /\ UNCHANGED <<args, axis, lo, r>>

Grow ==
  /\ pc = "grow" /\ Within(hi) /\ round < Doublings
  /\ hi' = 2 * hi /\ round' = round + 1
  /\ UNCHANGED <<args, pc, axis, lo, r>>

(* The next variable, or the end of the call.                              *)
Settle(reach) ==
  /\ r' = [r EXCEPT ![axis] = reach]
  /\ axis' = axis + 1
  /\ pc' = IF axis' < M THEN "seed" ELSE "done"

GiveUp ==
  /\ pc = "grow" /\ Within(hi) /\ round >= Doublings
  /\ Settle(Infinity)
  /\ UNCHANGED <<args, lo, hi, round>>

MutReached == ~Within(hi) \/ round = Doublings
Reached == ~Within(hi)

Bracket ==
  /\ pc = "grow" /\ Reached
  /\ lo' = 0 /\ round' = 0 /\ pc' = "bisect"
  /\ UNCHANGED <<args, axis, hi, r>>

MutMid == (lo + hi) \div 2 + 1
Mid == (lo + hi) \div 2

Halve ==
  /\ pc = "bisect" /\ round < Halvings
  /\ IF Within(Mid) THEN lo' = Mid /\ UNCHANGED hi ELSE hi' = Mid /\ UNCHANGED lo
  /\ round' = round + 1
  /\ UNCHANGED <<args, pc, axis, r>>

Return ==
  /\ pc = "bisect" /\ round = Halvings
  /\ Settle(Mid)
  /\ UNCHANGED <<args, lo, hi, round>>

Done == pc = "done" /\ UNCHANGED vars

Next == Seed \/ Grow \/ GiveUp \/ Bracket \/ Halve \/ Return \/ Done

Spec == Init /\ [][Next]_vars

-----------------------------------------------------------------------------
(* Type invariant.  The bracket is never inverted, and its width is        *)
(* divisible by what the halvings left will take: Mid is the exact middle. *)
TypeOK ==
  /\ jet \in Jets /\ <<tau, tau_abs>> \in Tolerances /\ model_order \in 0..(N-1)
  /\ pc \in {"seed", "grow", "bisect", "done"}
  /\ axis \in 0..M /\ (pc # "done" => axis < M)
  /\ lo \in Nat /\ hi \in Nat
  /\ round \in 0..(IF pc = "grow" THEN Doublings ELSE IF pc = "bisect" THEN Halvings ELSE round)
  /\ r \in [Axes -> Nat \cup {Infinity}]
  /\ pc = "bisect" => lo <= hi /\ (hi - lo) % PowInt(2, Halvings + 1 - round) = 0

(* Whatever the shape of the error along the axis, the bisection closes in *)
(* on a step where the error meets the budget: it is below at lo and not   *)
(* below at hi, in every round.                                            *)
BracketHolds ==
  pc = "bisect" => (lo = 0 \/ Within(lo)) /\ ~Within(hi)

-----------------------------------------------------------------------------
(* The axis just settled; lo and hi still hold its last bracket.           *)
Settled == axis > 0 /\ pc \in {"seed", "done"}
Along(x) == [p \in Axes |-> IF p = axis - 1 THEN x ELSE 0]
TrustedAlong(x) == is_trusted(jet, Along(x), tau, tau_abs, model_order)

PureOrders == {d \in (model_order + 1)..N : Pure(jet, axis - 1, d) # 0}
OneSign ==
  \/ \A d \in PureOrders : Pure(jet, axis - 1, d) > 0
  \/ \A d \in PureOrders : Pure(jet, axis - 1, d) < 0

(* Where the terms of the error have one sign, so that it grows with the   *)
(* step, the reach is the largest trusted step along the axis: is_trusted  *)
(* accepts every step up to lo and none beyond hi, and where the reach is  *)
(* called infinite every step tried.                                       *)
ReachIsLargest ==
  Settled /\ OneSign /\ budget > 0 =>
    IF r[axis - 1] = Infinity
    THEN \A x \in 0..hi : TrustedAlong(x)
    ELSE /\ r[axis - 1] \in lo..hi
         /\ \A x \in 0..lo : TrustedAlong(x)
         /\ \A x \in (hi + 1)..(hi + Grain) : ~TrustedAlong(x)

(* The reach is infinite along an axis where the model is exact, and where *)
(* the leading term is the whole error it never is: the closed form needs  *)
(* one doubling at most.                                                   *)
InfiniteWhereExact ==
  Settled /\ budget > 0 =>
    /\ PureOrders = {} => r[axis - 1] = Infinity
    /\ PureOrders = {model_order + 1} /\ Doublings > 0 => r[axis - 1] # Infinity

-----------------------------------------------------------------------------
(* Steps small enough for exhaustive comparison.                           *)
SmallSteps == [Axes -> -2..2]

(* The polynomial the coefficients stand for, from its dense multi-indices.*)
Polynomial(h) ==
  SumFunction([x \in Idx |-> jet[x] * ProductOf([p \in Axes |-> PowInt(h[p], AlphaAt[x][p])])])

(* Model and error never describe different models: for every model order  *)
(* the prediction and its error make up the whole polynomial.              *)
PredictionPlusError ==
  pc = "seed" /\ axis = 0 =>
    \A h \in SmallSteps :
      evaluate(jet, h, model_order) + truncation_error(jet, h, model_order) = Polynomial(h)

(* error_sensitivity is the gradient: a step d further along a variable    *)
(* changes the error by d times the sensitivity, mixed terms included, and *)
(* what remains is of second order in d.  The two offsets have no common   *)
(* divisor: together they tell any two sensitivities apart that differ by  *)
(* less than 63 * 64.                                                      *)
Offsets == {-63, 64}

SensitivityIsGradient ==
  pc = "seed" /\ axis = 0 =>
    \A h \in SmallSteps : \A i \in Axes : \A d \in Offsets :
      LET E(e) == truncation_error(jet, [h EXCEPT ![i] = @ + e], model_order)
      IN  (E(d) - E(0) - d * error_sensitivity(jet, h, model_order)[i]) % (d * d) = 0

-----------------------------------------------------------------------------
(* validity.hpp: the step bisection finds "is the first/inner crossing", so*)
(* that every step along the axis within the reach is trusted.             *)
InnerCrossing ==
  Settled /\ r[axis - 1] # Infinity => \A x \in 0..lo : TrustedAlong(x)

=============================================================================
