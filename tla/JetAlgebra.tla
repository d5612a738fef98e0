------------------------------ MODULE JetAlgebra ------------------------------
(***************************************************************************)
(* What otinum<M, N> promises, without its layout: every object is a       *)
(* polynomial in M nilpotent variables truncated above total order N, and  *)
(* a call replaces the result object by the value of an algebraic          *)
(* expression over the operands' values before the call, whichever of them *)
(* are the same object.                                                    *)
(***************************************************************************)
EXTENDS JetCalls

VARIABLES
  poly,   (* the polynomial held by each object                            *)
  last    (* the call that was completed last                              *)

vars == <<poly, last>>

(* Division by a scalar: all derivatives are lost where 1/s is not finite. *)
DivideBy(f, r) == Scale(r, f)

SparseSum(list) ==
  [p \in 0..(M-1) |->
     SumFunction([t \in DOMAIN list |-> IF list[t].variable = p THEN list[t].order ELSE 0])]
ValidSparse(list) ==
  \A t \in DOMAIN list : list[t].variable \in 0..(M-1) /\ list[t].order >= 0

(* The requests outside the truncation order are ignored.                  *)
Assigned(f, alpha, s) == IF alpha \in Alphas THEN [f EXCEPT ![alpha] = s] ELSE f
AssignedPartial(f, alpha, s) ==
  IF alpha \in Alphas
  THEN [f EXCEPT ![alpha] = CHOOSE x \in Coeff : Times(FactorialOf(alpha) % P, x) = s]
  ELSE f

(* The values a call may leave in its result object.                       *)
Results(c) ==
  LET a == poly[c.a]  b == poly[c.b]  y == poly[c.y] IN
  CASE c.op = "assign"      -> {Constant(c.s)}
    [] c.op = "variable"    -> {Assigned(Constant(c.s), Unit(c.v), 1)}
    [] c.op = "set_coeff"   -> {Assigned(y, c.alpha, c.s)}
    [] c.op = "set_partial" -> {AssignedPartial(y, c.alpha, c.s)}
    [] c.op = "set_coeff_sparse" ->
         {IF ValidSparse(c.list) THEN Assigned(y, SparseSum(c.list), c.s) ELSE y}
    [] c.op = "set_partial_sparse" ->
         {IF ValidSparse(c.list) THEN AssignedPartial(y, SparseSum(c.list), c.s) ELSE y}
    [] c.op = "neg"         -> {Scale(P - 1, a)}
    [] c.op = "inv"         -> {Reciprocal(a, r) : r \in Recips(a[Zero])}
    [] c.op = "add"         -> {Sum(a, b)}
    [] c.op = "sub"         -> {Sum(a, Scale(P - 1, b))}
    [] c.op = "mul"         -> {Product(a, b)}
    [] c.op = "div"         -> {Product(a, Reciprocal(b, r)) : r \in Recips(b[Zero])}
    [] c.op = "fma_into"    -> {Sum(y, Product(a, b))}
    [] c.op = "add_scalar"  -> {Sum(a, Constant(c.s))}
    [] c.op = "sub_scalar"  -> {Sum(a, Constant(Minus(c.s)))}
    [] c.op = "mul_scalar"  -> {Scale(c.s, a)}
    [] c.op = "div_scalar"  -> {DivideBy(a, r) : r \in Recips(c.s)}
    [] c.op = "scalar_sub"  -> {Sum(Constant(c.s), Scale(P - 1, a))}
    [] c.op = "scalar_div"  -> {Product(Constant(c.s), Reciprocal(a, r)) : r \in Recips(a[Zero])}
    [] c.op = "axpy"        -> {Sum(y, Scale(c.s, a))}
    [] c.op = "scale_add"   -> {Sum(a, Scale(c.s, b))}
    [] c.op = "trunc_mul"   -> {Truncate(Product(a, b), c.max)}
    [] c.op = "trunc_add"   -> {Truncate(Sum(a, b), c.max)}
    [] c.op = "gem"         -> {Sum(Product(a, b), poly[c.c])}

Init == poly \in [Regs -> Poly] /\ last = NoCall

Perform(c) ==
  /\ last' = c
  /\ \E value \in Results(c) : poly' = [poly EXCEPT ![c.y] = value]

Next == \E c \in Calls : Perform(c)

Spec == Init /\ [][Next]_vars

=============================================================================
