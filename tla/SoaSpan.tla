------------------------------- MODULE SoaSpan -------------------------------
(***************************************************************************)
(* soa_span (soa.hpp): arrays of jets stored coefficient by coefficient in *)
(* one flat buffer each, used by a kernel whose threads run at the same    *)
(* time, one per element: each gathers its jets one coefficient after the  *)
(* other with load(), computes, and scatters the result with store()       *)
(* (tests/benchmark_soa_layout.cpp).  All elements interleave in the same  *)
(* buffer, coefficient by coefficient, with no synchronisation but the     *)
(* fence between two passes.                                               *)
(***************************************************************************)
EXTENDS Integers

CONSTANTS Extent, ncoeffs, Values, Blank, FillX(_), FillY(_), Combine(_, _), Passes

Elements == 0..(Extent-1)
Orders == 0..(ncoeffs-1)
Jets == [Orders -> Values]

ASSUME ExtentAssumption == Extent \in Nat \ {0} /\ ncoeffs \in Nat \ {0} /\ Passes \in Nat
ASSUME ValuesAssumption ==
  /\ Blank \in Values
  /\ \A i \in Elements : FillX(i) \in Jets /\ FillY(i) \in Jets
  /\ \A a, b \in Jets : Combine(a, b) \in Jets

VARIABLES
  xs, ys,  (* the flat coefficient buffers                                 *)
  pc,      (* what every thread does                                       *)
  k,       (* the loop counter of its load() or store()                    *)
  xi, yi,  (* the jets it has loaded                                       *)
  out,     (* the jet it stores into y                                     *)
  pass

vars == <<xs, ys, pc, k, xi, yi, out, pass>>
thread == <<pc, k, xi, yi, out>>

required_size == Extent * ncoeffs

(* The place of coefficient c of element i: the stride is the extent.      *)
MutAddressFromOne(c, i) == c * Extent + i + 1
MutAddressShortStride(c, i) == c * (Extent - 1) + i
Address(c, i) == c * Extent + i

(* An unchecked data_[a] = v: a place outside the buffer shows as a wider  *)
(* domain.                                                                 *)
Put(data, a, v) == [b \in DOMAIN data \cup {a} |-> IF b = a THEN v ELSE data[b]]

BlankJet == [c \in Orders |-> Blank]

Init ==
  /\ xs = [a \in 0..(required_size-1) |-> Blank]
  /\ ys = [a \in 0..(required_size-1) |-> Blank]
  /\ pc = [i \in Elements |-> "ready"]
  /\ k = [i \in Elements |-> 0]
  /\ xi = [i \in Elements |-> BlankJet] /\ yi = [i \in Elements |-> BlankJet]
  /\ out = [i \in Elements |-> BlankJet]
  /\ pass = 0

(* The thread moves on: its next loop starts with the first coefficient.   *)
Goto(i, label) == pc' = [pc EXCEPT ![i] = label] /\ k' = [k EXCEPT ![i] = 0]

(* One more round of the loop over the coefficients, or what follows it.   *)
Loop(i, label) ==
  IF k[i] + 1 < ncoeffs THEN k' = [k EXCEPT ![i] = @ + 1] /\ UNCHANGED pc ELSE Goto(i, label)

(* Pass 0 has the jets at hand; a later one loads them into fresh objects. *)
Start(i) ==
  /\ pc[i] = "ready"
  /\ xi' = [xi EXCEPT ![i] = IF pass = 0 THEN FillX(i) ELSE BlankJet]
  /\ yi' = [yi EXCEPT ![i] = BlankJet]
  /\ Goto(i, IF pass = 0 THEN "storeX" ELSE "loadX")
  /\ UNCHANGED <<xs, ys, out, pass>>

LoadX(i) ==
  /\ pc[i] = "loadX"
  /\ xi' = [xi EXCEPT ![i][k[i]] = xs[Address(k[i], i)]]
  /\ Loop(i, "loadY")
  /\ UNCHANGED <<xs, ys, yi, out, pass>>

LoadY(i) ==
  /\ pc[i] = "loadY"
  /\ yi' = [yi EXCEPT ![i][k[i]] = ys[Address(k[i], i)]]
  /\ Loop(i, "combine")
  /\ UNCHANGED <<xs, ys, xi, out, pass>>

Compute(i) ==
  /\ pc[i] = "combine"
  /\ out' = [out EXCEPT ![i] = Combine(xi[i], yi[i])]
  /\ Goto(i, "storeY")
  /\ UNCHANGED <<xs, ys, xi, yi, pass>>

StoreX(i) ==
  /\ pc[i] = "storeX"
  /\ xs' = Put(xs, Address(k[i], i), xi[i][k[i]])
  /\ Loop(i, "filled")
  /\ UNCHANGED <<ys, xi, yi, out, pass>>

(* Pass 0 goes on with the other array.                                    *)
FillNext(i) ==
  /\ pc[i] = "filled"
  /\ out' = [out EXCEPT ![i] = FillY(i)]
  /\ Goto(i, "storeY")
  /\ UNCHANGED <<xs, ys, xi, yi, pass>>

StoreY(i) ==
  /\ pc[i] = "storeY"
  /\ ys' = Put(ys, Address(k[i], i), out[i][k[i]])
  /\ Loop(i, "done")
  /\ UNCHANGED <<xs, xi, yi, out, pass>>

Fence ==
  /\ \A i \in Elements : pc[i] = "done"
  /\ pass < Passes
  /\ pass' = pass + 1
  /\ pc' = [i \in Elements |-> "ready"]
  /\ UNCHANGED <<xs, ys, k, xi, yi, out>>

(* The program ends after its last pass.                                   *)
Finished == (\A i \in Elements : pc[i] = "done") /\ pass = Passes /\ UNCHANGED vars

Step(i) ==
  Start(i) \/ LoadX(i) \/ LoadY(i) \/ Compute(i) \/ StoreX(i) \/ FillNext(i) \/ StoreY(i)

Next == Fence \/ Finished \/ \E i \in Elements : Step(i)

Spec == Init /\ [][Next]_vars

-----------------------------------------------------------------------------
Labels == {"ready", "loadX", "loadY", "combine", "storeX", "filled", "storeY", "done"}

(* No store runs past the buffer that required_size() asks for.            *)
TypeOK ==
  /\ xs \in [0..(required_size-1) -> Values] /\ ys \in [0..(required_size-1) -> Values]
  /\ pc \in [Elements -> Labels] /\ k \in [Elements -> Orders]
  /\ xi \in [Elements -> Jets] /\ yi \in [Elements -> Jets] /\ out \in [Elements -> Jets]
  /\ pass \in 0..Passes

(* The jet the buffer holds for element i.                                 *)
Loaded(data, i) == [c \in Orders |-> data[Address(c, i)]]

(* Element by element the arrays take their new value when the body ends:  *)
(* until then, the blank jet of pass 0, or the jet loaded.                 *)
ArrayX == [i \in Elements |-> IF pass = 0 /\ pc[i] # "done" THEN BlankJet ELSE Loaded(xs, i)]
ArrayY ==
  [i \in Elements |->
     IF pass = 0 /\ pc[i] # "done" THEN BlankJet
     ELSE IF pass > 0 /\ pc[i] = "storeY" THEN yi[i] ELSE Loaded(ys, i)]
Ended == {i \in Elements : pc[i] = "done"}

Arrays == INSTANCE JetArray WITH x <- ArrayX, y <- ArrayY, ended <- Ended

(* However the threads interleave, the transposed buffers are an array of  *)
(* jets whose elements change as if every body ran at one instant: no      *)
(* thread sees or spoils a coefficient of another element.                 *)
ImplementsArrays == Arrays!Spec

=============================================================================
