------------------------------- MODULE JetArray -------------------------------
(***************************************************************************)
(* What a parallel_for over two arrays of jets promises: its body runs     *)
(* once for every element, as if at one instant, and a fence ends a pass.  *)
(* Pass 0 fills the arrays, every later pass computes y(i) from x(i) and   *)
(* y(i).                                                                   *)
(***************************************************************************)
EXTENDS Integers

CONSTANTS
  Extent,       (* elements of each array                                  *)
  ncoeffs,      (* coefficients of a jet                                   *)
  Blank,        (* what a fresh buffer holds                               *)
  FillX(_), FillY(_),   (* the jets pass 0 stores                          *)
  Combine(_, _),        (* the arithmetic of a pass                        *)
  Passes        (* bound on the number of passes after pass 0              *)

Elements == 0..(Extent-1)
Orders == 0..(ncoeffs-1)
VARIABLES
  x, y,    (* the arrays: a jet for every element                          *)
  ended,   (* the elements whose body has run in this pass                 *)
  pass

BlankJet == [k \in Orders |-> Blank]

Init ==
  /\ x = [i \in Elements |-> BlankJet] /\ y = [i \in Elements |-> BlankJet]
  /\ ended = {} /\ pass = 0

Body(i) ==
  /\ i \notin ended
  /\ ended' = ended \cup {i}
  /\ IF pass = 0
     THEN x' = [x EXCEPT ![i] = FillX(i)] /\ y' = [y EXCEPT ![i] = FillY(i)]
     ELSE y' = [y EXCEPT ![i] = Combine(x[i], y[i])] /\ x' = x
  /\ UNCHANGED pass

Fence ==
  /\ ended = Elements /\ pass < Passes
  /\ ended' = {} /\ pass' = pass + 1
  /\ UNCHANGED <<x, y>>

Next == Fence \/ \E i \in Elements : Body(i)

Spec == Init /\ [][Next]_<<x, y, ended, pass>>

=============================================================================
