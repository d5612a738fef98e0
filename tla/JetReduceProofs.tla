---------------------------- MODULE JetReduceProofs ----------------------------
(***************************************************************************)
(* Type correctness of the reductions, the promise of MAXLOC / MINLOC, that *)
(* sums and products are those of the contributions, and that the result   *)
(* is the same everywhere, for every number of ranks, buffer length and    *)
(* order of combining.                                                     *)
(***************************************************************************)
EXTENDS JetReduce, FiniteSetTheorems, TLAPS

Sums     == INSTANCE FoldFacts WITH Values <- Int, Base <- 0, op <- +
Products == INSTANCE FoldFacts WITH Values <- Int, Base <- 1, op <- *

(* The contributions are comparable all along.                             *)
InputChosen == op \in Ops /\ input \in Inputs(op)

(* Partial results only ever come from others: the contribution of a rank, *)
(* and the combine of two that cover no rank in common.                    *)
Contribution(p) == \E r \in Ranks : p.cover = {r} /\ p.val = input[r][p.e]
Combined(p, a, b) ==
  /\ a.e = p.e /\ b.e = p.e /\ a.cover \cap b.cover = {}
  /\ p.cover = a.cover \cup b.cover /\ p.val = Combine(a.val, b.val)

-----------------------------------------------------------------------------
(* Two comparable located jets combine into the one that is not beaten.    *)
LEMMA CombineLocated ==
  ASSUME NEW a \in Located, NEW b \in Located, op \in LocOps,
         a.re # NaN, b.re # NaN
  PROVE  /\ Combine(a, b) \in {a, b}
         /\ ~Beats(a, Combine(a, b)) /\ ~Beats(b, Combine(a, b))
<1>1. a.re \in Int /\ b.re \in Int /\ a.loc \in Int /\ b.loc \in Int
  BY DEF Located
<1>2. CASE op = "maxloc"
  BY <1>1, <1>2 DEF Combine, MaxLoc, EarlierLocation, Beats, Greater
<1>3. CASE op = "minloc"
  BY <1>1, <1>3 DEF Combine, MinLoc, EarlierLocation, Beats, Less
<1> QED  BY <1>2, <1>3 DEF LocOps

(* Not being beaten carries over to a better value.                        *)
LEMMA BeatsNegTransitive ==
  ASSUME NEW a \in Located, NEW b \in Located, NEW c \in Located, op \in LocOps,
         a.re # NaN, b.re # NaN, c.re # NaN,
         ~Beats(a, b), ~Beats(b, c)
  PROVE  ~Beats(a, c)
<1>1. \A x \in {a, b, c} : x.re \in Int /\ x.loc \in Int
  BY DEF Located
<1>2. CASE op = "maxloc"
  BY <1>1, <1>2 DEF Beats, Greater
<1>3. CASE op = "minloc"
  BY <1>1, <1>3 DEF Beats, Less
<1> QED  BY <1>2, <1>3 DEF LocOps

(* The combine of every reduction keeps the type of its operands.          *)
LEMMA CombineType ==
  ASSUME op \in AllOps, NEW a \in Value(op), NEW b \in Value(op)
  PROVE  Combine(a, b) \in Value(op)
<1>1. CASE op \in LocOps
  BY <1>1 DEF LocOps, Combine, MaxLoc, MinLoc, EarlierLocation
<1>2. CASE op = "sum"
  <2>1. a \in Jets /\ b \in Jets
    BY <1>2 DEF Value, LocOps
  <2>2. (a.re + b.re) % P \in 0..(P-1) /\ (a.der + b.der) % P \in 0..(P-1)
    BY <2>1, PAssumption DEF Jets
  <2> QED  BY <1>2, <2>2 DEF Value, LocOps, Combine, AddJets, Jets
<1>3. CASE op = "prod"
  <2>1. a \in Jets /\ b \in Jets
    BY <1>3 DEF Value, LocOps
  <2>2. a.re \in Nat /\ b.re \in Nat /\ a.der \in Nat /\ b.der \in Nat
    BY <2>1, PAssumption DEF Jets
  <2>3. (a.re * b.re) \in Nat /\ (a.re * b.der + a.der * b.re) \in Nat
    BY <2>2
  <2>4. \A x \in Nat : x % P \in 0..(P-1)
    BY PAssumption
  <2>5. (a.re * b.re) % P \in 0..(P-1) /\ (a.re * b.der + a.der * b.re) % P \in 0..(P-1)
    BY <2>3, <2>4
  <2> QED  BY <1>3, <2>5 DEF Value, LocOps, Combine, MulJets, Jets
<1> QED  BY <1>1, <1>2, <1>3 DEF AllOps, LocOps

(* The elements a segment under way stands for are elements of a buffer.   *)
LEMMA SegmentElements ==
  ASSUME TypeOK, NEW msg \in net
  PROVE  /\ \A e \in Within(msg.lo, msg.n) :
              e \in Elements /\ e - msg.lo + 1 \in 1..msg.n
         /\ \A k \in 1..msg.n : msg.lo + k - 1 \in Within(msg.lo, msg.n)
<1> DEFINE lo == msg.lo  n == msg.n
<1>1. lo \in 1..Count /\ n \in 1..(Count - lo + 1)
  BY DEF TypeOK, Elements
<1> HIDE DEF lo, n
<1>2. \A e \in lo..(lo + n - 1) : e \in 1..Count /\ e - lo + 1 \in 1..n
  BY <1>1, CountAssumption
<1>3. \A k \in 1..n : lo + k - 1 \in lo..(lo + n - 1)
  BY <1>1, CountAssumption
<1> QED  BY <1>2, <1>3 DEF Within, Elements, lo, n

(* What a send adds to the network.                                        *)
LEMMA SegmentSent ==
  ASSUME NEW r, NEW lo, NEW n, Send(r, lo, n), NEW msg \in net', msg \notin net
  PROVE  /\ msg.lo = lo /\ msg.n = n
         /\ msg.vals = [k \in 1..n |-> acc[r][lo + k - 1]]
         /\ msg.cover = [k \in 1..n |-> cover[r][lo + k - 1]]
<1>1. msg = Segment(r, lo, n)
  BY Zenon DEF Send
<1> QED  BY <1>1 DEF Segment

-----------------------------------------------------------------------------
(* Every buffer and segment keeps its extent and holds values of the       *)
(* reduction's element type, however MPI cuts and orders the reduction.    *)
THEOREM TypeCorrect == Spec => []TypeOK
<1>1. Init => TypeOK
  BY InputsAssumption, CountAssumption DEF Init, TypeOK
<1>2. TypeOK /\ [Next]_vars => TypeOK'
  <2> SUFFICES ASSUME TypeOK, [Next]_vars PROVE TypeOK'
    OBVIOUS
  <2>1. ASSUME NEW r \in Ranks, NEW lo \in Elements, NEW n \in 1..(Count - lo + 1), Send(r, lo, n)
        PROVE  TypeOK'
    <3>1. \A k \in 1..n : lo + k - 1 \in Elements
      BY CountAssumption DEF Elements
    <3>2. [k \in 1..n |-> acc[r][lo + k - 1]] \in [1..n -> Value(op)]
      BY <3>1 DEF TypeOK
    <3>3. [k \in 1..n |-> cover[r][lo + k - 1]] \in [1..n -> SUBSET Ranks]
      BY <3>1 DEF TypeOK
    <3>4. \A msg \in net' :
            /\ msg.lo \in Elements /\ msg.n \in 1..(Count - msg.lo + 1)
            /\ msg.cover \in [1..msg.n -> SUBSET Ranks]
            /\ msg.vals \in [1..msg.n -> Value(op)]
      <4>1. ASSUME NEW msg \in net', msg \notin net
            PROVE  /\ msg.lo = lo /\ msg.n = n
                   /\ msg.vals = [k \in 1..n |-> acc[r][lo + k - 1]]
                   /\ msg.cover = [k \in 1..n |-> cover[r][lo + k - 1]]
        BY <2>1, <4>1, SegmentSent
      <4> QED  BY <3>2, <3>3, <4>1 DEF TypeOK
    <3> QED  BY <2>1, <3>4 DEF Send, TypeOK
  <2>2. ASSUME NEW r \in Ranks, NEW msg \in net, Receive(r, msg)
        PROVE  TypeOK'
    <3>1. op \in AllOps
      BY OpsAssumption DEF TypeOK
    <3>2. ReduceFn(msg.vals, acc[r], msg.lo, msg.n) \in [Elements -> Value(op)]
      <4>1. \A e \in Within(msg.lo, msg.n) :
              Combine(msg.vals[e - msg.lo + 1], acc[r][e]) \in Value(op)
        BY <3>1, SegmentElements, CombineType DEF TypeOK
      <4>2. DOMAIN acc[r] = Elements
        BY DEF TypeOK
      <4> QED  BY <4>1, <4>2 DEF ReduceFn, Paired, TypeOK
    <3>3. \A e \in Within(msg.lo, msg.n) : msg.cover[e - msg.lo + 1] \in SUBSET Ranks
      BY SegmentElements DEF TypeOK
    <3>4. cover' \in [Ranks -> [Elements -> SUBSET Ranks]]
      BY <2>2, <3>3 DEF Receive, TypeOK
    <3> QED  BY <2>2, <3>2, <3>4 DEF Receive, TypeOK
  <2>3. CASE UNCHANGED vars
    BY <2>3 DEF vars, TypeOK
  <2> QED  BY <2>1, <2>2, <2>3 DEF Next
<1> QED  BY <1>1, <1>2, PTL DEF Spec

-----------------------------------------------------------------------------
(* A partial result, in a buffer or under way.                             *)
LEMMA PartialsAre ==
  ASSUME NEW p
  PROVE  p \in Partials <=>
           \/ \E r \in Ranks, e \in Elements : p = [e |-> e, cover |-> cover[r][e], val |-> acc[r][e]]
           \/ \E msg \in net : \E k \in 1..msg.n :
                p = [e |-> msg.lo + k - 1, cover |-> msg.cover[k], val |-> msg.vals[k]]
BY DEF Partials

LEMMA PartialsAreThen ==
  ASSUME NEW p
  PROVE  p \in Partials' <=>
           \/ \E r \in Ranks, e \in Elements : p = [e |-> e, cover |-> cover'[r][e], val |-> acc'[r][e]]
           \/ \E msg \in net' : \E k \in 1..msg.n :
                p = [e |-> msg.lo + k - 1, cover |-> msg.cover[k], val |-> msg.vals[k]]
BY DEF Partials

LEMMA PartialsType ==
  ASSUME TypeOK, NEW p \in Partials
  PROVE  p.e \in Elements /\ p.cover \in SUBSET Ranks /\ p.val \in Value(op)
<1>1. ASSUME NEW r \in Ranks, NEW e \in Elements,
             p = [e |-> e, cover |-> cover[r][e], val |-> acc[r][e]]
      PROVE  p.e \in Elements /\ p.cover \in SUBSET Ranks /\ p.val \in Value(op)
  BY <1>1 DEF TypeOK
<1>2. ASSUME NEW msg \in net, NEW k \in 1..msg.n,
             p = [e |-> msg.lo + k - 1, cover |-> msg.cover[k], val |-> msg.vals[k]]
      PROVE  p.e \in Elements /\ p.cover \in SUBSET Ranks /\ p.val \in Value(op)
  BY <1>2, SegmentElements DEF TypeOK
<1> QED  BY <1>1, <1>2, PartialsAre

LEMMA InitialPartials ==
  ASSUME Init, NEW p \in Partials
  PROVE  Contribution(p) /\ p.e \in Elements
<1>1. PICK r \in Ranks, e \in Elements : p = [e |-> e, cover |-> cover[r][e], val |-> acc[r][e]]
  BY PartialsAre DEF Init
<1>2. cover[r][e] = {r} /\ acc[r][e] = input[r][e]
  BY DEF Init
<1> QED  BY <1>1, <1>2 DEF Contribution

(* The step that matters: combining a segment into a buffer.               *)
LEMMA ReceivedPartials ==
  ASSUME TypeOK, NEW r \in Ranks, NEW msg \in net, Receive(r, msg),
         NEW s \in Ranks, NEW e \in Elements, NEW p,
         p = [e |-> e, cover |-> cover'[s][e], val |-> acc'[s][e]]
  PROVE  p \in Partials \/ \E a, b \in Partials : Combined(p, a, b)
<1> DEFINE b == [e |-> e, cover |-> cover[s][e], val |-> acc[s][e]]
<1>1. b \in Partials
  BY PartialsAre
<1>2. CASE s # r \/ e \notin Within(msg.lo, msg.n)
  <2>1. acc'[s][e] = acc[s][e] /\ cover'[s][e] = cover[s][e]
    BY <1>2, SegmentElements DEF Receive, ReduceFn, TypeOK
  <2> QED  BY <1>1, <2>1
<1>3. CASE s = r /\ e \in Within(msg.lo, msg.n)
  <2> DEFINE k == e - msg.lo + 1
             a == [e |-> msg.lo + k - 1, cover |-> msg.cover[k], val |-> msg.vals[k]]
  <2>1. k \in 1..msg.n /\ msg.lo + k - 1 = e
    BY <1>3, SegmentElements DEF TypeOK, Elements
  <2>2. /\ acc'[s][e] = Combine(msg.vals[k], acc[s][e])
        /\ cover'[s][e] = cover[s][e] \cup msg.cover[k]
        /\ msg.cover[k] \cap cover[s][e] = {}
    BY <1>3, SegmentElements DEF Receive, ReduceFn, Paired, TypeOK
  <2>3. a \in Partials
    <3> HIDE DEF k
    <3> QED  BY <2>1, PartialsAre
  <2>4. Combined(p, a, b)
    <3> HIDE DEF k
    <3> QED  BY <2>1, <2>2 DEF Combined
  <2> QED  BY <1>1, <2>3, <2>4
<1> QED  BY <1>2, <1>3

LEMMA StepPartials ==
  ASSUME TypeOK, [Next]_vars, NEW p \in Partials'
  PROVE  p \in Partials \/ \E a, b \in Partials : Combined(p, a, b)
<1>1. ASSUME NEW r \in Ranks, NEW lo \in Elements, NEW n \in 1..(Count - lo + 1), Send(r, lo, n)
      PROVE  p \in Partials
  <2>1. acc' = acc /\ cover' = cover
    BY <1>1 DEF Send
  <2>2. ASSUME NEW msg \in net', msg \notin net, NEW k \in 1..msg.n,
               p = [e |-> msg.lo + k - 1, cover |-> msg.cover[k], val |-> msg.vals[k]]
        PROVE  p \in Partials
    <3>1. /\ msg.lo = lo /\ msg.n = n
          /\ msg.vals = [x \in 1..n |-> acc[r][lo + x - 1]]
          /\ msg.cover = [x \in 1..n |-> cover[r][lo + x - 1]]
      BY <1>1, <2>2, SegmentSent
    <3>2. lo + k - 1 \in Elements
      BY <3>1, CountAssumption DEF Elements
    <3>3. msg.cover[k] = cover[r][lo + k - 1] /\ msg.vals[k] = acc[r][lo + k - 1]
      BY <3>1
    <3> QED  BY <2>2, <3>1, <3>2, <3>3, PartialsAre
  <2> QED  BY <2>1, <2>2, PartialsAre, PartialsAreThen
<1>2. ASSUME NEW r \in Ranks, NEW m \in net, Receive(r, m)
      PROVE  p \in Partials \/ \E a, b \in Partials : Combined(p, a, b)
  <2>1. net' \subseteq net
    BY <1>2 DEF Receive
  <2>2. ASSUME NEW msg \in net', NEW k \in 1..msg.n,
               p = [e |-> msg.lo + k - 1, cover |-> msg.cover[k], val |-> msg.vals[k]]
        PROVE  p \in Partials
    BY <2>1, <2>2, PartialsAre
  <2>3. ASSUME NEW s \in Ranks, NEW e \in Elements,
               p = [e |-> e, cover |-> cover'[s][e], val |-> acc'[s][e]]
        PROVE  p \in Partials \/ \E a, b \in Partials : Combined(p, a, b)
    BY <1>2, <2>3, ReceivedPartials
  <2> QED  BY <2>2, <2>3, PartialsAreThen
<1>3. CASE UNCHANGED vars
  BY <1>3, PartialsAre, PartialsAreThen DEF vars
<1> QED  BY <1>1, <1>2, <1>3 DEF Next

LEMMA Constants ==
  ASSUME [Next]_vars
  PROVE  op' = op /\ input' = input
BY DEF Next, Send, Receive, vars

LEMMA InputType ==
  ASSUME NEW r \in Ranks, NEW e \in Elements, TypeOK
  PROVE  input[r][e] \in Value(op)
BY DEF TypeOK

-----------------------------------------------------------------------------
(* Located reductions.                                                     *)

Inv == TypeOK /\ InputChosen /\ WinnerDominates

(* The values of partial results are located and comparable.               *)
LEMMA DominantComparable ==
  ASSUME TypeOK, InputChosen, Comparable, op \in LocOps,
         NEW p, p.e \in Elements, p.cover \in SUBSET Ranks, Dominant(p)
  PROVE  /\ p.val \in Located /\ p.val.re # NaN
         /\ \A q \in p.cover : input[q][p.e] \in Located /\ input[q][p.e].re # NaN
<1>1. \A q \in Ranks : input[q][p.e] \in Located /\ input[q][p.e].re # NaN
  BY DEF TypeOK, InputChosen, Comparable, Value
<1> QED  BY <1>1 DEF Dominant

(* The contribution of one rank dominates itself.                          *)
LEMMA ContributionDominant ==
  ASSUME TypeOK, InputChosen, Comparable, op \in LocOps,
         NEW p, p.e \in Elements, Contribution(p)
  PROVE  Dominant(p)
<1>1. PICK r \in Ranks : p.cover = {r} /\ p.val = input[r][p.e]
  BY DEF Contribution
<1>2. input[r][p.e] \in Located /\ input[r][p.e].re # NaN
  BY DEF TypeOK, InputChosen, Comparable, Value
<1>3. ~Beats(input[r][p.e], input[r][p.e])
  BY <1>2 DEF Beats, Greater, Less, Located
<1> QED  BY <1>1, <1>3 DEF Dominant

(* Combining two dominant partial results gives a dominant one over the    *)
(* ranks of both.                                                          *)
LEMMA CombineDominant ==
  ASSUME TypeOK, InputChosen, Comparable, op \in LocOps,
         NEW a \in Partials, Dominant(a), NEW b \in Partials, Dominant(b),
         NEW p, Combined(p, a, b)
  PROVE  Dominant(p)
<1> DEFINE e == p.e
<1>1. /\ a.val \in Located /\ a.val.re # NaN /\ b.val \in Located /\ b.val.re # NaN
      /\ \A q \in p.cover : input[q][e] \in Located /\ input[q][e].re # NaN
  <2>1. \A x \in {a, b} : x.e \in Elements /\ x.cover \in SUBSET Ranks
    BY PartialsType
  <2> QED  BY <2>1, DominantComparable DEF Combined
<1>2. p.val \in {a.val, b.val} /\ ~Beats(a.val, p.val) /\ ~Beats(b.val, p.val)
  BY <1>1, CombineLocated DEF Combined
<1>3. p.cover = a.cover \cup b.cover /\ a.e = e /\ b.e = e
  BY DEF Combined
<1>4. \E q \in p.cover : p.val = input[q][e]
  BY <1>2, <1>3 DEF Dominant
<1>5. p.val \in Located /\ p.val.re # NaN
  BY <1>1, <1>2
<1>6. ASSUME NEW q \in p.cover
      PROVE  ~Beats(input[q][e], p.val)
  <2>1. CASE q \in a.cover
    <3>1. ~Beats(input[q][e], a.val)
      BY <2>1, <1>3 DEF Dominant
    <3> QED  BY <3>1, <1>1, <1>2, <1>5, BeatsNegTransitive
  <2>2. CASE q \in b.cover
    <3>1. ~Beats(input[q][e], b.val)
      BY <2>2, <1>3 DEF Dominant
    <3> QED  BY <3>1, <1>1, <1>2, <1>5, BeatsNegTransitive
  <2> QED  BY <2>1, <2>2, <1>3
<1> QED  BY <1>4, <1>6 DEF Dominant

(* Dominant depends on the inputs alone, so it survives every step.        *)
LEMMA DominantStable ==
  ASSUME op' = op, input' = input, NEW p, Dominant(p)
  PROVE  Dominant(p)'
BY DEF Dominant, Beats

LEMMA InvInductive ==
  ASSUME Comparable
  PROVE  Spec => []Inv
<1>1. Init => Inv
  <2> SUFFICES ASSUME Init PROVE Inv
    OBVIOUS
  <2>1. TypeOK /\ InputChosen
    BY InputsAssumption, CountAssumption DEF Init, TypeOK, InputChosen
  <2>2. op \in LocOps => \A p \in Partials : Dominant(p)
    BY <2>1, InitialPartials, ContributionDominant
  <2> QED  BY <2>1, <2>2 DEF Inv, WinnerDominates
<1>2. ASSUME Inv, TypeOK', [Next]_vars
      PROVE  Inv'
  <2>1. op' = op /\ input' = input
    BY <1>2, Constants
  <2>2. InputChosen'
    BY <1>2, <2>1 DEF Inv, InputChosen
  <2>3. ASSUME op \in LocOps, NEW p \in Partials'
        PROVE  Dominant(p)
    <3>1. \A x \in Partials : Dominant(x)
      BY <1>2, <2>3 DEF Inv, WinnerDominates
    <3>2. p \in Partials \/ \E a, b \in Partials : Combined(p, a, b)
      BY <1>2, <2>3, StepPartials DEF Inv
    <3> QED  BY <1>2, <2>3, <3>1, <3>2, CombineDominant DEF Inv
  <2>4. WinnerDominates'
    BY <2>1, <2>3, DominantStable DEF WinnerDominates
  <2> QED  BY <1>2, <2>2, <2>4 DEF Inv
<1> QED  BY <1>1, <1>2, TypeCorrect, PTL DEF Spec

(* A partial MAXLOC or MINLOC result is the located jet of one of its      *)
(* ranks and no other of them is better, in whatever order they were       *)
(* combined, provided no real part is a NaN.                               *)
THEOREM WinnerDominatesHolds ==
  ASSUME Comparable
  PROVE  Spec => []WinnerDominates
<1>1. Inv => WinnerDominates
  BY DEF Inv
<1> QED  BY <1>1, InvInductive, PTL

-----------------------------------------------------------------------------
(* Sums and products of integers, as folds, and their remainders.          *)

LEMMA SumIs == \A f, S : SumFunctionOnSet(f, S) = Sums!Fold(f, S)
BY DEF SumFunctionOnSet, FoldFunctionOnSet, MapThenFoldSet, Sums!Fold, Sums!FoldFunctionOnSet,
       Sums!MapThenFoldSet
LEMMA ProductIs == \A f, S : Product(f, S) = Products!Fold(f, S)
BY DEF Product, FoldFunctionOnSet, MapThenFoldSet, Products!Fold, Products!FoldFunctionOnSet,
       Products!MapThenFoldSet

LEMMA Finite ==
  \A S : IsFiniteSet(S) => Sums!IsFiniteSet(S) /\ Products!IsFiniteSet(S)
BY DEF IsFiniteSet, Sums!IsFiniteSet, Products!IsFiniteSet

LEMMA SumsLaws == Sums!Closed /\ Sums!Commutes /\ Sums!Neutral
BY DEF Sums!Closed, Sums!Commutes, Sums!Neutral
LEMMA ProductsLaws == Products!Closed /\ Products!Commutes /\ Products!Neutral
<1>1. \A x, y, z \in Int : x * (y * z) = (x * y) * z
  OBVIOUS
<1> QED  BY <1>1 DEF Products!Closed, Products!Commutes, Products!Neutral

(* A sum with every term multiplied by c.                                  *)
LEMMA SumScaled ==
  ASSUME NEW S, IsFiniteSet(S), NEW f, \A x \in S : f[x] \in Int, NEW c \in Int, NEW g,
         \A x \in S : g[x] = f[x] * c
  PROVE  Sums!Fold(g, S) = Sums!Fold(f, S) * c
<1> DEFINE F == {T \in SUBSET S : Sums!Fold(g, T) = Sums!Fold(f, T) * c}
<1>1. {} \in F
  BY SumsLaws, Sums!FoldEmpty
<1>2. ASSUME NEW T \in SUBSET S, NEW x \in S \ T, T \in F
      PROVE  T \cup {x} \in F
  <2>1. IsFiniteSet(T)
    BY FS_Subset
  <2>2. f[x] * c \in Int /\ \A y \in S : f[y] * c \in Int
    OBVIOUS
  <2>3. /\ Sums!ValuesOn(f, T \cup {x}) /\ Sums!ValuesOn(g, T \cup {x}) /\ Sums!ValuesOn(f, T)
    BY <2>2 DEF Sums!ValuesOn
  <2>4. Sums!Fold(f, T \cup {x}) = f[x] + Sums!Fold(f, T)
    BY <2>1, <2>3, Finite, SumsLaws, Sums!FoldAdd
  <2>5. Sums!Fold(g, T \cup {x}) = f[x] * c + Sums!Fold(g, T)
    BY <2>1, <2>3, Finite, SumsLaws, Sums!FoldAdd
  <2>6. Sums!Fold(f, T) \in Int
    BY <2>1, <2>3, Finite, SumsLaws, Sums!FoldType
  <2>7. Sums!Fold(g, T) = Sums!Fold(f, T) * c
    BY <1>2
  <2>8. ASSUME NEW a \in Int, NEW b \in Int PROVE (a + b) * c = a * c + b * c
    OBVIOUS
  <2>9. (f[x] + Sums!Fold(f, T)) * c = f[x] * c + Sums!Fold(f, T) * c
    BY <2>6, <2>8
  <2> QED  BY <2>4, <2>5, <2>7, <2>9
<1> HIDE DEF F
<1>3. SUBSET S \subseteq F
  BY <1>1, <1>2, Finite, Sums!SetInductionOn
<1>4. S \in F
  BY <1>3
<1> QED  BY <1>4 DEF F

(* The product rule over the ranks of two disjoint sets.                   *)
LEMMA ProductRuleUnion ==
  ASSUME NEW A, IsFiniteSet(A), NEW B, IsFiniteSet(B), A \cap B = {},
         NEW f, \A x \in A \cup B : f[x] \in Int, NEW d, \A x \in A \cup B : d[x] \in Int
  PROVE  /\ Product(f, A) \in Int /\ Product(f, B) \in Int
         /\ ProductRule(f, d, A) \in Int /\ ProductRule(f, d, B) \in Int
         /\ Product(f, A \cup B) = Product(f, A) * Product(f, B)
         /\ ProductRule(f, d, A \cup B) =
              ProductRule(f, d, A) * Product(f, B) + ProductRule(f, d, B) * Product(f, A)
<1>1. ASSUME NEW S \in SUBSET (A \cup B)
      PROVE  IsFiniteSet(S) /\ Product(f, S) \in Int
  <2>1. IsFiniteSet(S)
    BY FS_Union, FS_Subset
  <2> QED  BY <2>1, Finite, ProductsLaws, Products!FoldType, ProductIs DEF Products!ValuesOn
<1>2. ASSUME NEW S \in SUBSET (A \cup B), NEW T \in SUBSET (A \cup B), S \cap T = {}
      PROVE  Product(f, S \cup T) = Product(f, S) * Product(f, T)
  <2>1. Products!ValuesOn(f, S \cup T)
    BY DEF Products!ValuesOn
  <2> QED  BY <1>1, <1>2, <2>1, Finite, ProductsLaws, Products!FoldUnion, ProductIs
<1> DEFINE term(S) == [q \in S |-> d[q] * Product(f, S \ {q})]
<1>3. ASSUME NEW S \in SUBSET (A \cup B)
      PROVE  /\ \A q \in S : term(S)[q] \in Int
             /\ ProductRule(f, d, S) = Sums!Fold(term(S), S)
             /\ ProductRule(f, d, S) \in Int
  <2>1. \A q \in S : d[q] \in Int /\ Product(f, S \ {q}) \in Int
    BY <1>1
  <2>2. \A q \in S : term(S)[q] \in Int
    BY <2>1
  <2>3. ProductRule(f, d, S) = Sums!Fold(term(S), S)
    BY SumIs DEF ProductRule
  <2> HIDE DEF term
  <2> QED  BY <1>1, <2>2, <2>3, Finite, SumsLaws, Sums!FoldType DEF Sums!ValuesOn
<1> DEFINE AB == A \cup B
<1>4. ASSUME NEW S \in SUBSET AB, NEW T \in SUBSET AB, S \cap T = {}, S \cup T = AB
      PROVE  Sums!Fold(term(AB), S) = ProductRule(f, d, S) * Product(f, T)
  <2>1. ASSUME NEW q \in S
        PROVE  term(AB)[q] = term(S)[q] * Product(f, T)
    <3>1. AB \ {q} = (S \ {q}) \cup T /\ (S \ {q}) \cap T = {} /\ S \ {q} \in SUBSET AB
      BY <1>4
    <3>2. Product(f, AB \ {q}) = Product(f, S \ {q}) * Product(f, T)
      BY <1>2, <3>1
    <3>3. d[q] \in Int /\ Product(f, S \ {q}) \in Int /\ Product(f, T) \in Int
      BY <1>1, <3>1
    <3>4. d[q] * (Product(f, S \ {q}) * Product(f, T)) = (d[q] * Product(f, S \ {q})) * Product(f, T)
      <4>1. \A x, y, z \in Int : x * (y * z) = (x * y) * z
        OBVIOUS
      <4> QED  BY <3>3, <4>1
    <3>5. term(AB)[q] = d[q] * Product(f, AB \ {q}) /\ term(S)[q] = d[q] * Product(f, S \ {q})
      BY <1>4
    <3> QED  BY <3>2, <3>4, <3>5
  <2>2. (\A q \in S : term(S)[q] \in Int) /\ ProductRule(f, d, S) = Sums!Fold(term(S), S)
    BY <1>3
  <2>3. IsFiniteSet(S) /\ Product(f, T) \in Int
    BY <1>1
  <2> HIDE DEF term
  <2>4. Sums!Fold(term(AB), S) = Sums!Fold(term(S), S) * Product(f, T)
    BY <2>1, <2>2, <2>3, SumScaled
  <2> QED  BY <2>2, <2>4
<1>5. Sums!Fold(term(AB), AB) = Sums!Fold(term(AB), A) + Sums!Fold(term(AB), B)
  <2>1. Sums!ValuesOn(term(AB), AB)
    BY <1>3 DEF Sums!ValuesOn
  <2> HIDE DEF term
  <2> QED  BY <2>1, Finite, SumsLaws, Sums!FoldUnion
<1>6. Sums!Fold(term(AB), A) = ProductRule(f, d, A) * Product(f, B)
  BY <1>4
<1>7. Sums!Fold(term(AB), B) = ProductRule(f, d, B) * Product(f, A)
  BY <1>4
<1>8. ProductRule(f, d, AB) = Sums!Fold(term(AB), AB)
  BY <1>3
<1>9. Product(f, A) \in Int /\ Product(f, B) \in Int
  BY <1>1
<1>10. ProductRule(f, d, A) \in Int /\ ProductRule(f, d, B) \in Int
  BY <1>3
<1>11. Product(f, AB) = Product(f, A) * Product(f, B)
  BY <1>2
<1> HIDE DEF term
<1> QED  BY <1>5, <1>6, <1>7, <1>8, <1>9, <1>10, <1>11

LEMMA Remainders ==
  /\ \A x \in Int : x % P \in 0..(P-1) /\ x \div P \in Int /\ x = P * (x \div P) + (x % P)
  /\ \A q \in Int, r \in 0..(P-1) : (P * q + r) % P = r
<1>1. \A x \in Int : x % P \in 0..(P-1)
  BY PAssumption
<1>2. \A x \in Int : x \div P \in Int
  BY PAssumption
<1>3. \A x \in Int : x = P * (x \div P) + (x % P)
  BY PAssumption
<1>4. \A q \in Int, r \in 0..(P-1) : (P * q + r) % P = r
  BY PAssumption
<1> QED  BY <1>1, <1>2, <1>3, <1>4

LEMMA RemainderShift == \A x, k \in Int : (x + P * k) % P = x % P
<1> TAKE x, k \in Int
<1> DEFINE q == x \div P
           r == x % P
<1>1. q \in Int /\ r \in 0..(P-1) /\ x = P * q + r
  BY Remainders
<1> HIDE DEF q, r
<1>2. P * (q + k) = P * q + P * k
  BY <1>1, PAssumption
<1>3. x + P * k = P * (q + k) + r
  BY <1>1, <1>2, PAssumption
<1>4. q + k \in Int
  BY <1>1
<1>5. (x + P * k) % P = r
  BY <1>1, <1>3, <1>4, Remainders
<1> QED  BY <1>5 DEF r

LEMMA RemainderSum == \A x, y \in Int : ((x % P) + (y % P)) % P = (x + y) % P
<1>1. ASSUME NEW x \in Int, NEW y \in Int PROVE ((x % P) + y) % P = (x + y) % P
  <2> DEFINE q == x \div P
             r == x % P
  <2>1. q \in Int /\ r \in 0..(P-1) /\ x = P * q + r
    BY Remainders
  <2> HIDE DEF q, r
  <2>2. x + y = (r + y) + P * q /\ r + y \in Int
    BY <2>1, PAssumption
  <2>3. ((r + y) + P * q) % P = (r + y) % P
    BY <2>1, <2>2, RemainderShift
  <2> QED  BY <2>2, <2>3 DEF r
<1> TAKE x, y \in Int
<1>2. y % P \in Int /\ x % P \in Int
  BY Remainders
<1>3. ((x % P) + (y % P)) % P = (x + (y % P)) % P
  BY <1>1, <1>2
<1>4. ((y % P) + x) % P = (y + x) % P
  BY <1>1
<1>5. (y % P) + x = x + (y % P) /\ y + x = x + y
  BY <1>2
<1> QED  BY <1>3, <1>4, <1>5

LEMMA RemainderProduct == \A x, y \in Int : ((x % P) * (y % P)) % P = (x * y) % P
<1>1. ASSUME NEW x \in Int, NEW y \in Int PROVE ((x % P) * y) % P = (x * y) % P
  <2> DEFINE q == x \div P
             r == x % P
  <2>1. q \in Int /\ r \in 0..(P-1) /\ x = P * q + r
    BY Remainders
  <2> HIDE DEF q, r
  <2>2. x * y = (r * y) + P * (q * y)
    BY <2>1, PAssumption
  <2>3. r * y \in Int /\ q * y \in Int
    BY <2>1
  <2>4. ((r * y) + P * (q * y)) % P = (r * y) % P
    BY <2>3, RemainderShift
  <2> QED  BY <2>2, <2>4 DEF r
<1> TAKE x, y \in Int
<1>2. y % P \in Int /\ x % P \in Int
  BY Remainders
<1>3. ((x % P) * (y % P)) % P = (x * (y % P)) % P
  BY <1>1, <1>2
<1>4. ((y % P) * x) % P = (y * x) % P
  BY <1>1
<1>5. (y % P) * x = x * (y % P) /\ y * x = x * y
  BY <1>2
<1> QED  BY <1>3, <1>4, <1>5

-----------------------------------------------------------------------------
(* Sums and products of jets.                                              *)

LEMMA Facings ==
  ASSUME TypeOK, op \notin LocOps, NEW e \in Elements
  PROVE  \A q \in Ranks : Real(e)[q] \in Int /\ Deriv(e)[q] \in Int
                          /\ input[q][e].re = Real(e)[q] /\ input[q][e].der = Deriv(e)[q]
                          /\ input[q][e] \in Jets
<1> TAKE q \in Ranks
<1>1. input[q][e] \in Jets
  BY DEF TypeOK, Value
<1>2. input[q][e].re \in Int /\ input[q][e].der \in Int
  BY <1>1, PAssumption DEF Jets
<1> QED  BY <1>1, <1>2 DEF Real, Deriv

LEMMA ContributionFolds ==
  ASSUME TypeOK, NEW p, p.e \in Elements, Contribution(p)
  PROVE  Folds(p)
<1> SUFFICES ASSUME op \in {"sum", "prod"} PROVE Folds(p)
  BY DEF Folds
<1>1. PICK r \in Ranks : p.cover = {r} /\ p.val = input[r][p.e]
  BY DEF Contribution
<1> DEFINE f == Real(p.e)
           d == Deriv(p.e)
<1>2. /\ f[r] \in Int /\ d[r] \in Int /\ input[r][p.e] \in Jets
      /\ input[r][p.e].re = f[r] /\ input[r][p.e].der = d[r]
  BY Facings DEF LocOps
<1>3. f[r] % P = f[r] /\ d[r] % P = d[r] /\ p.val = [re |-> f[r], der |-> d[r]]
  <2>1. f[r] \in 0..(P-1) /\ d[r] \in 0..(P-1)
    BY <1>2 DEF Jets
  <2>2. \A x \in 0..(P-1) : x % P = x
    BY PAssumption
  <2>3. p.val = [re |-> f[r], der |-> d[r]]
    BY <1>1, <1>2 DEF Jets
  <2> QED  BY <2>1, <2>2, <2>3
<1> HIDE DEF f, d
<1>4. SumFunctionOnSet(f, {r}) = f[r] /\ SumFunctionOnSet(d, {r}) = d[r]
  BY <1>2, SumsLaws, Sums!FoldSingleton, SumIs
<1>5. Product(f, {r}) = f[r]
  BY <1>2, ProductsLaws, Products!FoldSingleton, ProductIs
<1>6. ProductRule(f, d, {r}) = d[r]
  <2> DEFINE term == [q \in {r} |-> d[q] * Product(f, {r} \ {q})]
  <2>1. Product(f, {}) = 1
    BY ProductsLaws, Products!FoldEmpty, ProductIs
  <2>2. {r} \ {r} = {}
    OBVIOUS
  <2>3. d[r] * 1 = d[r]
    BY <1>2
  <2>4. term[r] = d[r]
    BY <2>1, <2>2, <2>3
  <2> HIDE DEF term
  <2>5. SumFunctionOnSet(term, {r}) = d[r]
    BY <1>2, <2>4, SumsLaws, Sums!FoldSingleton, SumIs
  <2> QED  BY <2>5 DEF ProductRule, term
<1> QED  BY <1>1, <1>3, <1>4, <1>5, <1>6 DEF Folds, f, d

LEMMA CombineFolds ==
  ASSUME TypeOK, NEW a \in Partials, Folds(a), NEW b \in Partials, Folds(b),
         NEW p, Combined(p, a, b)
  PROVE  Folds(p)
<1> SUFFICES ASSUME op \in {"sum", "prod"} PROVE Folds(p)
  BY DEF Folds
<1> DEFINE A == a.cover
           B == b.cover
           f == Real(p.e)
           d == Deriv(p.e)
<1>1. /\ a.e = p.e /\ b.e = p.e /\ A \cap B = {} /\ p.cover = A \cup B
      /\ p.val = Combine(a.val, b.val)
  BY DEF Combined
<1>2. p.e \in Elements /\ A \in SUBSET Ranks /\ B \in SUBSET Ranks
  BY <1>1, PartialsType
<1>3. IsFiniteSet(A) /\ IsFiniteSet(B)
  BY <1>2, FS_Subset, RanksAssumption
<1>4. (\A q \in A \cup B : f[q] \in Int) /\ (\A q \in A \cup B : d[q] \in Int)
  BY <1>2, Facings DEF LocOps
<1>5. CASE op = "sum"
  <2>1. /\ a.val = [re |-> SumFunctionOnSet(f, A) % P, der |-> SumFunctionOnSet(d, A) % P]
        /\ b.val = [re |-> SumFunctionOnSet(f, B) % P, der |-> SumFunctionOnSet(d, B) % P]
    BY <1>1, <1>5 DEF Folds
  <2>2. p.val = AddJets(a.val, b.val)
    BY <1>1, <1>5 DEF Combine
  <2> HIDE DEF A, B, f, d
  <2>3. ASSUME NEW g, \A q \in A \cup B : g[q] \in Int
        PROVE  ((SumFunctionOnSet(g, A) % P) + (SumFunctionOnSet(g, B) % P)) % P
                 = SumFunctionOnSet(g, A \cup B) % P
    <3>1. Sums!ValuesOn(g, A) /\ Sums!ValuesOn(g, B) /\ Sums!ValuesOn(g, A \cup B)
      BY <2>3 DEF Sums!ValuesOn
    <3>2. SumFunctionOnSet(g, A) \in Int /\ SumFunctionOnSet(g, B) \in Int
      BY <1>3, <3>1, Finite, SumsLaws, Sums!FoldType, SumIs
    <3>3. SumFunctionOnSet(g, A \cup B) = SumFunctionOnSet(g, A) + SumFunctionOnSet(g, B)
      BY <1>1, <1>3, <3>1, Finite, SumsLaws, Sums!FoldUnion, SumIs
    <3> QED  BY <3>2, <3>3, RemainderSum
  <2>4. /\ (a.val.re + b.val.re) % P = SumFunctionOnSet(f, A \cup B) % P
        /\ (a.val.der + b.val.der) % P = SumFunctionOnSet(d, A \cup B) % P
    <3>1. ((SumFunctionOnSet(f, A) % P) + (SumFunctionOnSet(f, B) % P)) % P
             = SumFunctionOnSet(f, A \cup B) % P
      BY <1>4, <2>3
    <3>2. ((SumFunctionOnSet(d, A) % P) + (SumFunctionOnSet(d, B) % P)) % P
             = SumFunctionOnSet(d, A \cup B) % P
      BY <1>4, <2>3
    <3> QED  BY <2>1, <3>1, <3>2
  <2> QED  BY <1>1, <1>5, <2>2, <2>4 DEF Folds, AddJets, f, d
<1>6. CASE op = "prod"
  <2>1. /\ a.val = [re |-> Product(f, A) % P, der |-> ProductRule(f, d, A) % P]
        /\ b.val = [re |-> Product(f, B) % P, der |-> ProductRule(f, d, B) % P]
    BY <1>1, <1>6 DEF Folds
  <2>2. p.val = MulJets(a.val, b.val)
    BY <1>1, <1>6 DEF Combine
  <2> HIDE DEF A, B, f, d
  <2> DEFINE x == Product(f, A)
             y == Product(f, B)
             u == ProductRule(f, d, A)
             v == ProductRule(f, d, B)
  <2>3. /\ x \in Int /\ y \in Int /\ u \in Int /\ v \in Int
        /\ Product(f, A \cup B) = x * y /\ ProductRule(f, d, A \cup B) = u * y + v * x
    BY <1>1, <1>3, <1>4, ProductRuleUnion
  <2>4. /\ a.val.re = x % P /\ a.val.der = u % P
        /\ b.val.re = y % P /\ b.val.der = v % P
    BY <2>1
  <2> HIDE DEF x, y, u, v
  <2>5. ((x % P) * (y % P)) % P = (x * y) % P
    BY <2>3, RemainderProduct
  <2>6. (((x % P) * (v % P)) + ((u % P) * (y % P))) % P = (u * y + v * x) % P
    <3>1. x % P \in Int /\ y % P \in Int /\ u % P \in Int /\ v % P \in Int
      BY <2>3, Remainders
    <3> DEFINE s == (x % P) * (v % P)
               t == (u % P) * (y % P)
    <3>2. s \in Int /\ t \in Int
      BY <3>1
    <3>3. s % P = (x * v) % P /\ t % P = (u * y) % P
      BY <2>3, RemainderProduct
    <3> HIDE DEF s, t
    <3>4. (s + t) % P = ((s % P) + (t % P)) % P
      BY <3>2, RemainderSum
    <3>5. x * v \in Int /\ u * y \in Int
      BY <2>3
    <3>6. (((x * v) % P) + ((u * y) % P)) % P = (x * v + u * y) % P
      BY <3>5, RemainderSum
    <3>7. x * v + u * y = u * y + v * x
      BY <2>3
    <3> QED  BY <3>3, <3>4, <3>6, <3>7 DEF s, t
  <2>7. MulJets(a.val, b.val) = [re  |-> (x * y) % P, der |-> (u * y + v * x) % P]
    BY <2>4, <2>5, <2>6 DEF MulJets
  <2> QED  BY <1>1, <1>6, <2>2, <2>3, <2>7 DEF Folds, f, d, x, y, u, v
<1> QED  BY <1>5, <1>6

LEMMA FoldsStable ==
  ASSUME op' = op, input' = input, NEW p, Folds(p)
  PROVE  Folds(p)'
BY DEF Folds, Real, Deriv

(* Whatever segments MPI cuts and in whatever order it combines them, a    *)
(* partial sum or product is that of the contributions it covers, and its  *)
(* derivative the sum's or, by the product rule, the product's.            *)
THEOREM FoldsInputsHolds == Spec => []FoldsInputs
<1>1. Init => FoldsInputs
  <2> SUFFICES ASSUME Init PROVE FoldsInputs
    OBVIOUS
  <2>1. TypeOK
    BY InputsAssumption, CountAssumption DEF Init, TypeOK
  <2> QED  BY <2>1, InitialPartials, ContributionFolds DEF FoldsInputs
<1>2. ASSUME TypeOK, FoldsInputs, [Next]_vars
      PROVE  FoldsInputs'
  <2>1. \A p \in Partials : Folds(p)
    BY <1>2 DEF FoldsInputs
  <2>2. ASSUME NEW p \in Partials'
        PROVE  Folds(p)
    BY <1>2, <2>1, <2>2, StepPartials, CombineFolds
  <2>3. op' = op /\ input' = input
    BY <1>2, Constants
  <2> QED  BY <2>2, <2>3, FoldsStable DEF FoldsInputs
<1> QED  BY <1>1, <1>2, TypeCorrect, PTL DEF Spec

(* The result of every reduction is the same on every rank and for every   *)
(* order of combining, provided no real part compared is a NaN and the     *)
(* locations of an element identify the ranks.                             *)
THEOREM AgreementHolds ==
  ASSUME Comparable, UniqueLocations
  PROVE  Spec => []Agreement
<1>1. ASSUME Inv, FoldsInputs PROVE Agreement
  <2> SUFFICES ASSUME NEW p \in Partials, NEW q \in Partials, p.e = q.e, p.cover = q.cover
               PROVE  p.val = q.val
    BY DEF Agreement
  <2>1. CASE op \in LocOps
    <3>1. \A x \in {p, q} : Dominant(x) /\ x.e \in Elements /\ x.cover \in SUBSET Ranks
      BY <1>1, <2>1, PartialsType DEF Inv, WinnerDominates
    <3>2. PICK i \in p.cover : p.val = input[i][p.e]
      BY <3>1 DEF Dominant
    <3>3. PICK j \in q.cover : q.val = input[j][q.e]
      BY <3>1 DEF Dominant
    <3>4. ~Beats(q.val, p.val) /\ ~Beats(p.val, q.val)
      BY <3>1, <3>2, <3>3 DEF Dominant
    <3>5. \A s \in Ranks : input[s][p.e] \in Located /\ input[s][p.e].re # NaN
      BY <1>1, <2>1, <3>1 DEF Inv, TypeOK, InputChosen, Comparable, Value
    <3>6. i \in Ranks /\ j \in Ranks
      BY <3>1
    <3>7. input[i][p.e].loc = input[j][p.e].loc
      BY <2>1, <3>2, <3>3, <3>4, <3>5, <3>6 DEF Beats, Greater, Less, Located
    <3>8. i = j
      BY <1>1, <2>1, <3>1, <3>6, <3>7 DEF Inv, InputChosen, UniqueLocations
    <3> QED  BY <3>2, <3>3, <3>8
  <2>2. CASE op \in {"sum", "prod"}
    BY <1>1, <2>2 DEF FoldsInputs, Folds
  <2>3. op \in AllOps
    BY <1>1, OpsAssumption DEF Inv, TypeOK
  <2> QED  BY <2>1, <2>2, <2>3 DEF AllOps
<1>2. Inv /\ FoldsInputs => Agreement
  BY <1>1
<1> QED  BY <1>2, InvInductive, FoldsInputsHolds, PTL

=============================================================================
