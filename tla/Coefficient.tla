----------------------------- MODULE Coefficient -----------------------------
(***************************************************************************)
(* What one coefficient holds.  Finite values are the field of P elements: *)
(* exact, so that an algebraic identity is an equality; rounding and       *)
(* overflow of the floating-point type are abstracted away.  NonFin stands *)
(* for every non-finite value (an infinity or a NaN): by the IEEE rules no *)
(* sum or product with a non-finite operand is finite, 0 * NonFin included.*)
(* Only a division by an infinity is finite again, so a division by NonFin *)
(* has both outcomes.                                                      *)
(***************************************************************************)
EXTENDS Integers

CONSTANTS P, NonFin

ASSUME PAssumption == P \in Nat \ {0, 1} /\ \A d \in 2..(P-1) : P % d # 0

(* An infinity or a NaN is none of the finite values.                      *)
ASSUME NonFinAssumption == NonFin \notin 0..(P-1)

Finite == 0..(P-1)
Coeff == Finite \cup {NonFin}

IsFinite(x) == x # NonFin

Plus(x, y) == IF IsFinite(x) /\ IsFinite(y) THEN (x + y) % P ELSE NonFin

Times(x, y) == IF IsFinite(x) /\ IsFinite(y) THEN (x * y) % P ELSE NonFin

Minus(x) == Times(P - 1, x)

(* 1 / x: non-finite at 0, and 0 or a NaN when x is not finite.            *)
Recips(x) ==
  CASE x = NonFin -> {0, NonFin}
    [] x = 0      -> {NonFin}
    [] OTHER      -> {y \in Finite : (x * y) % P = 1}

(* x / r given the reciprocal of r found above.                            *)
Over(x, recip) == Times(x, recip)

=============================================================================
