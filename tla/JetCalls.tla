------------------------------- MODULE JetCalls -------------------------------
(***************************************************************************)
(* The calls of the otinum<M, N> arithmetic interface (core.hpp): which    *)
(* function, the object it leaves its result in, and its operands.  The    *)
(* operands may name the result object: y *= y, fma_into(y, y, x), ...     *)
(***************************************************************************)
EXTENDS JetRing

CONSTANTS
  Regs,         (* the otinum objects of the program                       *)
  Scalars,      (* plain scalars it computes with                          *)
  DenseInputs,  (* multi-indices passed to coeff(), set_coeff(), ...       *)
  SparseInputs  (* lists of [variable, order] terms passed to them         *)

ASSUME ScalarsAssumption == Scalars \subseteq Coeff
ASSUME SparseAssumption == SparseInputs \subseteq Seq([variable : Int, order : Int])

(* axpy, scale_add: one scalar; trunc_mul, trunc_add: a maximal order.     *)
Calls ==
  [op : {"assign"}, y : Regs, s : Scalars]
  \cup [op : {"variable"}, y : Regs, v : 0..(M-1), s : Scalars]
  \cup [op : {"set_coeff", "set_partial"}, y : Regs, alpha : DenseInputs, s : Scalars]
  \cup [op : {"set_coeff_sparse", "set_partial_sparse"}, y : Regs, list : SparseInputs, s : Scalars]
  \cup [op : {"neg", "inv"}, y : Regs, a : Regs]
  \cup [op : {"add", "sub", "mul", "div", "fma_into"}, y : Regs, a : Regs, b : Regs]
  \cup [op : {"add_scalar", "sub_scalar", "mul_scalar", "div_scalar",
              "scalar_sub", "scalar_div", "axpy"}, y : Regs, a : Regs, s : Scalars]
  \cup [op : {"scale_add"}, y : Regs, a : Regs, b : Regs, s : Scalars]
  \cup [op : {"trunc_mul", "trunc_add"}, y : Regs, a : Regs, b : Regs, max : -1..(N + 1)]
  \cup [op : {"gem"}, y : Regs, a : Regs, b : Regs, c : Regs]

NoCall == [op |-> "none"]

=============================================================================
