--------------------------- MODULE MCScalarCompose ---------------------------
EXTENDS ElementaryFunctions

(* A jet with every derivative set, a variable, a constant, and a jet some *)
(* of whose derivatives are not finite; and a NaN.                         *)
Full(real) == [i \in Idx |-> IF i = 0 THEN real ELSE (3 * i + 1) % P]
Variable(real) == [i \in Idx |-> IF i = 0 THEN real ELSE IF i = 1 THEN 1 ELSE 0]
Spoilt(real) == [Full(real) EXCEPT ![2] = NonFin]

MCSeeds ==
  {Full(real) : real \in Finite} \cup {Variable(real) : real \in {0, 1, P - 1}}
  \cup {Lift(0)} \cup {Spoilt(real) : real \in {0, 3}} \cup {Full(NonFin)}
MCPaths == {0, 1}
MCValues == {2, 3}
(* 1/x, x^0, sqrt(x), x^(3/2), x^2, x^3, and x^(7/2), which has three      *)
(* derivatives at 0.                                                       *)
MCExponents == {-2, 0, 1, 3, 4, 6, 7}
MCProgram == Functions

(* The second operands: every real part that decides something, scalars,   *)
(* derivatives that are not finite, and a NaN.                             *)
MCOperands == {Full(real) : real \in {0, 4}} \cup {Lift(0), Lift(2), Spoilt(5), Variable(NonFin)}
MCComposed == {"log_base", "exp2", "expm1", "log1p", "pow", "tan", "sinh", "cosh", "tanh", "atan2",
               "hypot", "hypot3", "fmax", "fmin", "copysign", "fmod", "fmod_scalar", "floor"}
MCNoFunctions == {}
MCSingular == {"pow", "atan2", "fmod_scalar"}

(* sqrt(x) and then its square, from x = 0.                                *)
MCSquares == {[fn |-> "pow", e |-> 1], [fn |-> "pow", e |-> 4]}
MCZeroSeeds == {Variable(0)} \cup {Full(real) : real \in Finite \ {0}}
=============================================================================
