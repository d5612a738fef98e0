------------------------------- MODULE JetReduce -------------------------------
(***************************************************************************)
(* The MPI reductions of mpi.hpp.  The library hands MPI a datatype for a  *)
(* jet (or a jet with its location) and a callback, reduce_fn, declared    *)
(* commutative; MPI combines partial results in whatever order, tree and   *)
(* segments it likes.  A rank's buffer holds, element by element, the      *)
(* partial result over the ranks it covers; ranks send copies of segments  *)
(* of it, and a rank that receives one for ranks it does not cover yet     *)
(* combines it in.  Trees, chains, rings and butterflies are all           *)
(* interleavings of these two steps.                                       *)
(***************************************************************************)
EXTENDS Integers, FiniteSets, Functions

CONSTANTS
  Ranks,       (* the processes of the communicator                        *)
  Count,       (* elements in every buffer                                 *)
  Ops,         (* the reductions asked for, among AllOps                   *)
  Inputs(_),   (* the contributions an op may start from                   *)
  NaN,         (* the real part of a jet computed on a singular point      *)
  P,           (* finite coefficients are taken modulo P                   *)
  MaxInFlight  (* bound on the messages under way                          *)

ASSUME RanksAssumption == IsFiniteSet(Ranks)
ASSUME CountAssumption == Count \in Nat /\ MaxInFlight \in Nat
ASSUME PAssumption == P \in Nat \ {0, 1}

LocOps == {"maxloc", "minloc"}
AllOps == LocOps \cup {"sum", "prod"}

ASSUME OpsAssumption == Ops \subseteq AllOps

Elements == 1..Count

(* A jet <1, 1> is its real part and one derivative; a value_loc has a     *)
(* location too.  Only a located jet may be compared, so only its NaN is   *)
(* told apart; a field of P elements stands for the arithmetic.            *)
Located == [re : {NaN} \cup Int, der : Int, loc : Int]
Jets == [re : 0..(P-1), der : 0..(P-1)]
Value(o) == IF o \in LocOps THEN Located ELSE Jets

ASSUME InputsAssumption ==
  \A o \in Ops : Inputs(o) \subseteq [Ranks -> [Elements -> Value(o)]]

VARIABLES
  op,      (* the reduction running                                        *)
  input,   (* what every rank contributes                                  *)
  acc,     (* every rank's buffer of partial results                       *)
  cover,   (* the ranks whose contribution an element of a buffer holds    *)
  net      (* segments sent and not yet received                           *)

vars == <<op, input, acc, cover, net>>

-----------------------------------------------------------------------------
(* The combines.                                                           *)

(* The comparisons of C++: false as soon as one side is a NaN.             *)
Greater(x, y) == x # NaN /\ y # NaN /\ x > y
Less(x, y)    == x # NaN /\ y # NaN /\ x < y

MutLaterLocation(a, b) == IF a.loc <= b.loc THEN b ELSE a
MutFirstArgument(a, b) == a
EarlierLocation(a, b) == IF a.loc <= b.loc THEN a ELSE b

MaxLoc(a, b) ==
  CASE Greater(a.re, b.re) -> a
    [] Greater(b.re, a.re) -> b
    [] OTHER               -> EarlierLocation(a, b)

MinLoc(a, b) ==
  CASE Less(a.re, b.re) -> a
    [] Less(b.re, a.re) -> b
    [] OTHER            -> EarlierLocation(a, b)

AddJets(a, b) == [re |-> (a.re + b.re) % P, der |-> (a.der + b.der) % P]
MulJets(a, b) == [re |-> (a.re * b.re) % P, der |-> (a.re * b.der + a.der * b.re) % P]

Combine(a, b) ==
  CASE op = "maxloc" -> MaxLoc(a, b)
    [] op = "minloc" -> MinLoc(a, b)
    [] op = "sum"    -> AddJets(a, b)
    [] op = "prod"   -> MulJets(a, b)

(* reduce_fn: the n elements of `in` into those of the buffer from its     *)
(* element lo on, each with the element that faces it.                     *)
Within(lo, n) == lo..(lo + n - 1)

MutPairedWithFirst(e, lo) == 1
Paired(e, lo) == e - lo + 1

MutReduceFnOneMore(in, inout, lo, n) ==
  [e \in DOMAIN inout \cup {lo + n} |->
     CASE e \in Within(lo, n) -> Combine(in[Paired(e, lo)], inout[e])
       [] e = lo + n          -> in[n]
       [] OTHER               -> inout[e]]
ReduceFn(in, inout, lo, n) ==
  [e \in DOMAIN inout |->
     IF e \in Within(lo, n) THEN Combine(in[Paired(e, lo)], inout[e]) ELSE inout[e]]

-----------------------------------------------------------------------------
(* A segment of rank r's buffer, copied out with what it covers.           *)
Segment(r, lo, n) ==
  [vals |-> [k \in 1..n |-> acc[r][lo + k - 1]],
   cover |-> [k \in 1..n |-> cover[r][lo + k - 1]],
   lo |-> lo, n |-> n]

Init ==
  /\ op \in Ops
  /\ input \in Inputs(op)
  /\ acc = input
  /\ cover = [r \in Ranks |-> [e \in Elements |-> {r}]]
  /\ net = {}

Send(r, lo, n) ==
  /\ Cardinality(net) < MaxInFlight
  /\ net' = net \cup {Segment(r, lo, n)}
  /\ UNCHANGED <<op, input, acc, cover>>

(* MPI never combines a contribution into a partial result that has it.    *)
Receive(r, msg) ==
  /\ \A e \in Within(msg.lo, msg.n) : msg.cover[e - msg.lo + 1] \cap cover[r][e] = {}
  /\ acc' = [acc EXCEPT ![r] = ReduceFn(msg.vals, @, msg.lo, msg.n)]
  /\ cover' = [cover EXCEPT ![r] =
       [e \in Elements |-> IF e \in Within(msg.lo, msg.n)
                           THEN @[e] \cup msg.cover[e - msg.lo + 1] ELSE @[e]]]
  /\ net' = net \ {msg}
  /\ UNCHANGED <<op, input>>

Next ==
  \/ \E r \in Ranks, lo \in Elements : \E n \in 1..(Count - lo + 1) : Send(r, lo, n)
  \/ \E r \in Ranks, msg \in net : Receive(r, msg)

Spec == Init /\ [][Next]_vars

-----------------------------------------------------------------------------
(* Every buffer keeps its extent, whatever the segments reduce_fn is given.*)
TypeOK ==
  /\ op \in Ops
  /\ input \in [Ranks -> [Elements -> Value(op)]]
  /\ acc \in [Ranks -> [Elements -> Value(op)]]
  /\ cover \in [Ranks -> [Elements -> SUBSET Ranks]]
  /\ \A msg \in net :
       /\ msg.lo \in Elements /\ msg.n \in 1..(Count - msg.lo + 1)
       /\ msg.cover \in [1..msg.n -> SUBSET Ranks]
       /\ msg.vals \in [1..msg.n -> Value(op)]

(* Every partial result there is, in a buffer or under way: its element,   *)
(* the ranks it covers and its value.                                      *)
Partials ==
  {[e |-> e, cover |-> cover[r][e], val |-> acc[r][e]] : r \in Ranks, e \in Elements}
  \cup
  UNION {{[e |-> msg.lo + k - 1, cover |-> msg.cover[k], val |-> msg.vals[k]] :
            k \in 1..msg.n} : msg \in net}

(* What MAXLOC and MINLOC promise: the extremal real part, ties to the     *)
(* smaller location.                                                       *)
Beats(a, b) ==
  \/ IF op = "maxloc" THEN Greater(a.re, b.re) ELSE Less(a.re, b.re)
  \/ a.re = b.re /\ a.loc < b.loc

(* Whatever order MPI combined them in, a partial MAXLOC or MINLOC result  *)
(* is the whole located jet of one of the ranks covered, and no other rank *)
(* covered has a better one.                                               *)
Dominant(p) ==
  /\ \E q \in p.cover : p.val = input[q][p.e]
  /\ \A q \in p.cover : ~Beats(input[q][p.e], p.val)

WinnerDominates == op \in LocOps => \A p \in Partials : Dominant(p)

(* What the ranks contribute to an element, and the derivative of a        *)
(* product of some of them.                                                *)
Real(e)  == [q \in Ranks |-> input[q][e].re]
Deriv(e) == [q \in Ranks |-> input[q][e].der]
Product(f, S) == FoldFunctionOnSet( *, 1, f, S)
ProductRule(f, d, S) == SumFunctionOnSet([q \in S |-> d[q] * Product(f, S \ {q})], S)

(* A partial sum or product is the sum or product over the ranks covered,  *)
(* derivatives by the product rule.                                        *)
Folds(p) ==
  /\ op = "sum" =>
       p.val = [re  |-> SumFunctionOnSet(Real(p.e), p.cover) % P,
                der |-> SumFunctionOnSet(Deriv(p.e), p.cover) % P]
  /\ op = "prod" =>
       p.val = [re  |-> Product(Real(p.e), p.cover) % P,
                der |-> ProductRule(Real(p.e), Deriv(p.e), p.cover) % P]

FoldsInputs == \A p \in Partials : Folds(p)

(* The result is deterministic: two partial results over the same ranks    *)
(* are the same, so every rank of an Allreduce sees one value.             *)
Agreement == \A p, q \in Partials : p.e = q.e /\ p.cover = q.cover => p.val = q.val

(* What the comments of the located combines ask of the contributions.     *)
Comparable ==
  \A o \in Ops \cap LocOps : \A in \in Inputs(o) : \A r \in Ranks, e \in Elements :
    in[r][e].re # NaN
UniqueLocations ==
  \A o \in Ops \cap LocOps : \A in \in Inputs(o) : \A q, r \in Ranks, e \in Elements :
    q # r => in[q][e].loc # in[r][e].loc

=============================================================================
