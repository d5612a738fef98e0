------------------------- MODULE ValidityRadiusProofs -------------------------
(***************************************************************************)
(* What validity_radius returns, for every jet, tolerance and number of    *)
(* rounds.                                                                 *)
(***************************************************************************)
EXTENDS ValidityRadius, MultiIndexProofs

-----------------------------------------------------------------------------
(* Powers.                                                                 *)
PowersUp(g, base, e) == g = [k \in 0..e |-> IF k = 0 THEN 1 ELSE g[k-1] * base]
PowersOf(base, e) == CHOOSE g : PowersUp(g, base, e)

LEMMA PowersIs ==
  ASSUME NEW base \in Int, NEW e \in Nat
  PROVE  PowersUp(PowersOf(base, e), base, e) /\ PowInt(base, e) = PowersOf(base, e)[e]
<1> DEFINE step == [x \in (1..e) \X Int |-> x[2] * base]
<1>1. step \in [(1..e) \X Int -> Int] /\ 1 \in Int
  OBVIOUS
<1>2. PICK g \in [0..e -> Int] : Sums!Recursive(g, e, 1, step)
  <2> HIDE DEF step
  <2> QED  BY <1>1, Sums!RecursionExists
<1>3. \A i \in 0..e : i # 0 => step[<<i, g[i-1]>>] = g[i-1] * base
  <2> SUFFICES ASSUME NEW i \in 0..e, i # 0 PROVE step[<<i, g[i-1]>>] = g[i-1] * base
    OBVIOUS
  <2>1. i \in 1..e /\ i - 1 \in 0..e
    OBVIOUS
  <2>2. <<i, g[i-1]>> \in (1..e) \X Int
    BY <2>1
  <2> QED  BY <2>2
<1> HIDE DEF step
<1>4. PowersUp(g, base, e)
  BY <1>2, <1>3 DEF Sums!Recursive, PowersUp
<1>5. PowersUp(PowersOf(base, e), base, e)
  BY <1>4 DEF PowersOf
<1>6. PowInt(base, e) = PowersOf(base, e)[e]
  BY DEF PowInt, PowersOf, PowersUp
<1> QED  BY <1>5, <1>6

LEMMA PowersAgree ==
  ASSUME NEW base \in Int, NEW e \in Nat, NEW f \in Nat, NEW g, NEW h,
         PowersUp(g, base, e), PowersUp(h, base, f)
  PROVE  \A k \in Nat : k <= e /\ k <= f => g[k] = h[k] /\ g[k] \in Int
<1> DEFINE T == {k \in Nat : k <= e /\ k <= f => g[k] = h[k] /\ g[k] \in Int}
<1>1. 0 \in T
  BY DEF PowersUp
<1>2. ASSUME NEW k \in Nat, k \in T PROVE k + 1 \in T
  <2> SUFFICES ASSUME k + 1 <= e, k + 1 <= f PROVE g[k+1] = h[k+1] /\ g[k+1] \in Int
    OBVIOUS
  <2>1. k + 1 \in 0..e /\ k + 1 \in 0..f /\ k + 1 # 0 /\ (k + 1) - 1 = k
    OBVIOUS
  <2>2. g[k] = h[k] /\ g[k] \in Int
    BY <1>2
  <2>3. g[k+1] = g[k] * base /\ h[k+1] = h[k] * base
    BY <2>1 DEF PowersUp
  <2> QED  BY <2>2, <2>3
<1> HIDE DEF T
<1>3. Nat \subseteq T
  BY <1>1, <1>2, Sums!NatInductionOn
<1> QED  BY <1>3 DEF T

LEMMA PowIntIs ==
  ASSUME NEW base \in Int, NEW e \in Nat
  PROVE  PowInt(base, 0) = 1 /\ PowInt(base, e) \in Int /\ PowInt(base, e + 1) = PowInt(base, e) * base
<1>1. /\ PowersUp(PowersOf(base, e), base, e) /\ PowersUp(PowersOf(base, e + 1), base, e + 1)
      /\ PowInt(base, e) = PowersOf(base, e)[e] /\ PowInt(base, e + 1) = PowersOf(base, e + 1)[e + 1]
  BY PowersIs
<1>2. PowersOf(base, e + 1)[e] = PowersOf(base, e)[e] /\ PowersOf(base, e)[e] \in Int
  BY <1>1, PowersAgree
<1>3. PowersOf(base, e + 1)[e + 1] = PowersOf(base, e + 1)[e] * base
  <2>1. e + 1 \in 0..(e + 1) /\ e + 1 # 0 /\ (e + 1) - 1 = e
    OBVIOUS
  <2> QED  BY <1>1, <2>1 DEF PowersUp
<1>4. PowInt(base, 0) = 1
  <2>1. PowersUp(PowersOf(base, 0), base, 0) /\ PowInt(base, 0) = PowersOf(base, 0)[0]
    BY PowersIs
  <2> QED  BY <2>1 DEF PowersUp
<1> QED  BY <1>1, <1>2, <1>3, <1>4

(* Powers grow with a base that is not negative.                           *)
LEMMA PowerGrows ==
  ASSUME NEW a \in Nat, NEW b \in Nat, a <= b, NEW e \in Nat
  PROVE  PowInt(a, e) \in Nat /\ PowInt(b, e) \in Nat /\ PowInt(a, e) <= PowInt(b, e)
<1> DEFINE T == {k \in Nat : PowInt(a, k) \in Nat /\ PowInt(b, k) \in Nat /\ PowInt(a, k) <= PowInt(b, k)}
<1>1. 0 \in T
  <2>1. PowInt(a, 0) = 1 /\ PowInt(b, 0) = 1
    <3>1. a \in Int /\ b \in Int
      OBVIOUS
    <3> QED  BY <3>1, PowIntIs
  <2> QED  BY <2>1
<1>2. ASSUME NEW k \in Nat, k \in T PROVE k + 1 \in T
  <2> DEFINE x == PowInt(a, k)
             y == PowInt(b, k)
  <2>1. PowInt(a, k + 1) = x * a /\ PowInt(b, k + 1) = y * b
    BY PowIntIs
  <2>2. x \in Nat /\ y \in Nat /\ x <= y
    BY <1>2
  <2> HIDE DEF x, y
  <2>3. x * a \in Nat /\ y * b \in Nat /\ y * a \in Nat
    BY <2>2
  <2>4. x * a <= y * a
    BY <2>2
  <2>5. y * a <= y * b
    BY <2>2
  <2>6. x * a <= y * b
    BY <2>3, <2>4, <2>5
  <2> QED  BY <2>1, <2>3, <2>6
<1> HIDE DEF T
<1>3. Nat \subseteq T
  BY <1>1, <1>2, Sums!NatInductionOn
<1> QED  BY <1>3 DEF T

(* Strictly, and at least as fast as the base.                             *)
LEMMA PowerGrowsStrictly ==
  ASSUME NEW a \in Nat, NEW b \in Nat, a < b, NEW e \in Nat
  PROVE  PowInt(a, e + 1) < PowInt(b, e + 1) /\ b <= PowInt(b, e + 1) /\ PowInt(0, e + 1) = 0
<1> DEFINE x == PowInt(a, e)
           y == PowInt(b, e)
<1>1. x \in Nat /\ y \in Nat /\ x <= y
  <2>1. a <= b
    OBVIOUS
  <2> QED  BY <2>1, PowerGrows
<1>2. y >= 1
  <2>1. PowInt(1, e) = 1
    <3> DEFINE T == {k \in Nat : PowInt(1, k) = 1}
    <3>1. 0 \in T
      BY PowIntIs
    <3>2. ASSUME NEW k \in Nat, k \in T PROVE k + 1 \in T
      BY <3>2, PowIntIs
    <3> HIDE DEF T
    <3>3. Nat \subseteq T
      BY <3>1, <3>2, Sums!NatInductionOn
    <3> QED  BY <3>3 DEF T
  <2>2. PowInt(1, e) <= y
    <3>1. 1 \in Nat /\ 1 <= b
      OBVIOUS
    <3> QED  BY <3>1, PowerGrows
  <2> QED  BY <2>1, <2>2
<1>3. PowInt(a, e + 1) = x * a /\ PowInt(b, e + 1) = y * b /\ PowInt(0, e + 1) = PowInt(0, e) * 0
  BY PowIntIs
<1>4. PowInt(0, e) \in Int
  BY PowIntIs
<1> HIDE DEF x, y
<1>5. x * a <= y * a /\ x * a \in Nat /\ y * a \in Nat
  BY <1>1
<1>6. y * a < y * b /\ y * b \in Nat
  BY <1>1, <1>2
<1>7. y * b >= 1 * b
  BY <1>1, <1>2
<1> QED  BY <1>3, <1>4, <1>5, <1>6, <1>7

-----------------------------------------------------------------------------
(* The layout of the jet in the terms of the lemmas.                       *)
LEMMA ShapeIs == M \in Nat \ {0} /\ N \in Nat /\ N \in 0..IntMax /\ NC \in Nat
<1>1. M \in Nat \ {0} /\ N \in 0..IntMax /\ N \in Nat
  BY ShapeAssumption, IntMaxAssumption
<1> QED  BY <1>1, NCoeffsIs DEF NC

LEMMA OrderIs == \A a : OrderIn(a) = Summed(a, M)
BY DEF OrderIn, Summed, Sums!Fold, Sums!FoldFunctionOnSet, MapThenSumSet, MapThenFoldSet,
       Sums!MapThenFoldSet

LEMMA AlphasAre ==
  \A a : a \in Alphas <=> /\ a \in DenseIndices(M) /\ Summed(a, M) <= N
<1>1. M \in Nat \ {0} /\ N \in Nat
  BY ShapeIs
<1> QED  BY <1>1, AlphaSetIs DEF Alphas

LEMMA PlaceIs ==
  ASSUME NEW a \in DenseIndices(M)
  PROVE  /\ a \in Alphas <=> PlaceOf(M, a) \in Idx
         /\ a \in Alphas => Rank(M, N, a) = PlaceOf(M, a) /\ AlphaAt[PlaceOf(M, a)] = a
<1>1. M \in Nat \ {0} /\ N \in Nat /\ N \in 0..IntMax /\ NC \in Nat
  BY ShapeIs
<1>2. a \in Alphas <=> PlaceOf(M, a) \in Idx
  <2>1. PlaceOf(M, a) \in Nat
    BY <1>1, PlaceBand
  <2>2. PlaceOf(M, a) < NC <=> Summed(a, M) <= N
    BY <1>1, PlaceInLayout DEF NC
  <2>3. PlaceOf(M, a) \in Idx <=> PlaceOf(M, a) < NC
    BY <1>1, <2>1 DEF Idx
  <2> QED  BY <2>2, <2>3, AlphasAre
<1>3. ASSUME a \in Alphas PROVE Rank(M, N, a) = PlaceOf(M, a) /\ AlphaAt[PlaceOf(M, a)] = a
  <2>1. \A b \in Alphas : b \in DenseIndices(M) /\ Rank(M, N, b) = PlaceOf(M, b)
    BY <1>1, LayoutRanks DEF Alphas
  <2>2. \A b \in Alphas : Rank(M, N, b) = PlaceOf(M, a) => b = a
    BY <1>1, <2>1, PlacesOrder
  <2>3. (CHOOSE b \in Alphas : Rank(M, N, b) = PlaceOf(M, a)) = a
    BY <1>3, <2>1, <2>2
  <2>4. AlphaAt[PlaceOf(M, a)] = CHOOSE b \in Alphas : Rank(M, N, b) = PlaceOf(M, a)
    BY <1>2, <1>3 DEF AlphaAt
  <2> QED  BY <1>3, <2>1, <2>3, <2>4
<1> QED  BY <1>2, <1>3

LEMMA IndexAt ==
  ASSUME NEW x \in Idx
  PROVE  /\ AlphaAt[x] \in Alphas /\ AlphaAt[x] \in DenseIndices(M)
         /\ PlaceOf(M, AlphaAt[x]) = x
         /\ OrderAt[x] = Summed(AlphaAt[x], M) /\ OrderAt[x] \in 0..N
<1>1. M \in Nat \ {0} /\ N \in Nat /\ N \in 0..IntMax
  BY ShapeIs
<1>2. PICK a \in Alphas : PlaceOf(M, a) = x
  BY <1>1, LayoutRanks DEF Alphas, Idx, NC
<1>3. a \in DenseIndices(M) /\ Summed(a, M) <= N
  BY AlphasAre
<1>4. AlphaAt[x] = a
  BY <1>2, <1>3, PlaceIs
<1>5. Summed(a, M) \in Nat
  BY <1>1, <1>3, PlaceBand
<1>6. OrderAt[x] = Summed(a, M)
  BY <1>4, OrderIs DEF OrderAt
<1> QED  BY <1>1, <1>2, <1>3, <1>4, <1>5, <1>6

(* Sums of zeros, products of ones, and a product with a factor zero.      *)
Mul == INSTANCE FoldFacts WITH Values <- Int, Base <- 1, op <- *

LEMMA ZeroSum ==
  ASSUME NEW S, IsFiniteSet(S), NEW f, \A x \in S : f[x] = 0
  PROVE  Sums!Fold(f, S) = 0
<1> DEFINE F == {T \in SUBSET S : Sums!Fold(f, T) = 0}
<1>1. {} \in F
  BY SumsLaws, Sums!FoldEmpty
<1>2. ASSUME NEW T \in SUBSET S, NEW x \in S \ T, T \in F PROVE T \cup {x} \in F
  <2>1. Sums!IsFiniteSet(T) /\ Sums!ValuesOn(f, T \cup {x})
    <3>1. Sums!IsFiniteSet(T)
      BY FS_Subset, FiniteForSums
    <3> QED  BY <3>1 DEF Sums!ValuesOn
  <2>2. Sums!Fold(f, T \cup {x}) = f[x] + Sums!Fold(f, T)
    BY <2>1, SumsLaws, Sums!FoldAdd
  <2>3. f[x] = 0 /\ Sums!Fold(f, T) = 0
    BY <1>2
  <2> QED  BY <2>2, <2>3
<1> HIDE DEF F
<1>3. SUBSET S \subseteq F
  BY <1>1, <1>2, FiniteForSums, Sums!SetInductionOn
<1> QED  BY <1>3 DEF F

LEMMA FiniteForMul == \A S : IsFiniteSet(S) => Mul!IsFiniteSet(S)
BY DEF IsFiniteSet, Mul!IsFiniteSet

LEMMA MulLaws == Mul!Closed /\ Mul!Commutes /\ Mul!Neutral
<1>1. \A x, y \in Int : x * y \in Int /\ x * y = y * x /\ 1 * x = x
  OBVIOUS
<1>2. \A x, y, z \in Int : x * (y * z) = (x * y) * z
  OBVIOUS
<1> QED  BY <1>1, <1>2 DEF Mul!Closed, Mul!Commutes, Mul!Neutral

LEMMA OneProduct ==
  ASSUME NEW S, IsFiniteSet(S), NEW f, \A x \in S : f[x] = 1
  PROVE  Mul!Fold(f, S) = 1
<1> DEFINE F == {T \in SUBSET S : Mul!Fold(f, T) = 1}
<1>1. {} \in F
  BY MulLaws, Mul!FoldEmpty
<1>2. ASSUME NEW T \in SUBSET S, NEW x \in S \ T, T \in F PROVE T \cup {x} \in F
  <2>1. Mul!IsFiniteSet(T) /\ Mul!ValuesOn(f, T \cup {x})
    <3>1. Mul!IsFiniteSet(T)
      BY FS_Subset, FiniteForMul
    <3> QED  BY <3>1 DEF Mul!ValuesOn
  <2>2. Mul!Fold(f, T \cup {x}) = f[x] * Mul!Fold(f, T)
    BY <2>1, MulLaws, Mul!FoldAdd
  <2>3. f[x] = 1 /\ Mul!Fold(f, T) = 1
    BY <1>2
  <2> QED  BY <2>2, <2>3
<1> HIDE DEF F
<1>3. SUBSET S \subseteq F
  BY <1>1, <1>2, FiniteForMul, Mul!SetInductionOn
<1> QED  BY <1>3 DEF F

LEMMA OneFactor ==
  ASSUME NEW S, IsFiniteSet(S), NEW f, NEW x \in S, \A y \in S : f[y] \in Int
  PROVE  /\ Mul!Fold(f, S) \in Int
         /\ f[x] = 0 => Mul!Fold(f, S) = 0
         /\ (\A y \in S \ {x} : f[y] = 1) => Mul!Fold(f, S) = f[x]
<1>1. Mul!IsFiniteSet(S) /\ Mul!ValuesOn(f, S) /\ IsFiniteSet(S \ {x}) /\ Mul!IsFiniteSet(S \ {x})
      /\ Mul!ValuesOn(f, S \ {x})
  <2>1. IsFiniteSet(S \ {x})
    BY FS_Subset
  <2> QED  BY <2>1, FiniteForMul DEF Mul!ValuesOn
<1> DEFINE rest == Mul!Fold(f, S \ {x})
<1>2. Mul!Fold(f, S) = f[x] * rest
  BY <1>1, MulLaws, Mul!FoldTake
<1>3. rest \in Int /\ f[x] \in Int
  BY <1>1, MulLaws, Mul!FoldType
<1>4. (\A y \in S \ {x} : f[y] = 1) => rest = 1
  BY <1>1, OneProduct
<1> HIDE DEF rest
<1> QED  BY <1>2, <1>3, <1>4

-----------------------------------------------------------------------------
(* The multi-index of a power of one variable, and its coefficient.        *)
PureIndex(i, d) == [p \in Axes |-> IF p = i THEN d ELSE 0]

LEMMA PureIndexIs ==
  ASSUME NEW i \in Axes, NEW d \in Nat, d <= N
  PROVE  /\ PureIndex(i, d) \in DenseIndices(M) /\ PureIndex(i, d) \in Alphas
         /\ Rank(M, N, PureIndex(i, d)) \in Idx
         /\ AlphaAt[Rank(M, N, PureIndex(i, d))] = PureIndex(i, d)
         /\ OrderAt[Rank(M, N, PureIndex(i, d))] = d
<1> DEFINE u == PureIndex(i, d)
<1>1. M \in Nat \ {0} /\ M \in Nat /\ Axes = 0..(M-1)
  BY ShapeIs DEF Axes
<1>2. u \in DenseIndices(M) /\ \A p \in Axes : u[p] = IF p = i THEN d ELSE 0
  BY <1>1 DEF PureIndex, DenseIndices
<1> HIDE DEF u
<1>3. Summed(u, M) = d
  <2>1. IsFiniteSet(Axes) /\ IsFiniteSet(Axes \ {i})
    <3>1. IsFiniteSet(Axes)
      BY <1>1, FS_Interval
    <3> QED  BY <3>1, FS_Subset
  <2>2. Sums!ValuesOn(u, Axes)
    BY <1>2 DEF Sums!ValuesOn
  <2>3. Sums!Fold(u, Axes) = u[i] + Sums!Fold(u, Axes \ {i})
    BY <2>1, <2>2, FiniteForSums, SumsLaws, Sums!FoldTake
  <2>4. Sums!Fold(u, Axes \ {i}) = 0
    BY <1>2, <2>1, ZeroSum
  <2> QED  BY <1>1, <1>2, <2>3, <2>4 DEF Summed
<1>4. u \in Alphas
  BY <1>2, <1>3, AlphasAre
<1>5. Rank(M, N, u) = PlaceOf(M, u) /\ PlaceOf(M, u) \in Idx /\ AlphaAt[PlaceOf(M, u)] = u
  BY <1>2, <1>4, PlaceIs
<1>6. OrderAt[PlaceOf(M, u)] = d
  BY <1>3, <1>5, IndexAt
<1> QED  BY <1>2, <1>4, <1>5, <1>6 DEF u

LEMMA PureIn ==
  ASSUME NEW c \in [Idx -> Int], NEW i \in Axes, NEW d \in Nat, d <= N
  PROVE  Pure(c, i, d) \in Int /\ Pure(c, i, d) = c[Rank(M, N, PureIndex(i, d))]
<1>1. Pure(c, i, d) = c[Rank(M, N, PureIndex(i, d))]
  BY DEF Pure, PureIndex
<1> QED  BY <1>1, PureIndexIs

(* A monomial is the product over all variables of the powers its dense    *)
(* multi-index names: the entries left out of the sparse one are ones.     *)
PowersAt(h, x) == [p \in Axes |-> PowInt(h[p], AlphaAt[x][p])]

LEMMA ExponentsIn ==
  ASSUME NEW h \in [Axes -> Int], NEW x \in Idx
  PROVE  /\ \A p \in Axes : AlphaAt[x][p] \in Nat /\ PowersAt(h, x)[p] = PowInt(h[p], AlphaAt[x][p])
                            /\ PowersAt(h, x)[p] \in Int
         /\ IsFiniteSet(Axes)
<1>1. M \in Nat /\ Axes = 0..(M-1)
  BY ShapeIs DEF Axes
<1>2. \A p \in Axes : AlphaAt[x][p] \in Nat
  BY <1>1, IndexAt DEF DenseIndices
<1>3. \A p \in Axes : PowInt(h[p], AlphaAt[x][p]) \in Int
  <2> TAKE p \in Axes
  <2>1. h[p] \in Int /\ AlphaAt[x][p] \in Nat
    BY <1>2
  <2> QED  BY <2>1, PowIntIs
<1>4. IsFiniteSet(Axes)
  BY <1>1, FS_Interval
<1> QED  BY <1>2, <1>3, <1>4 DEF PowersAt

(* The sparse entries of a multi-index: places, exponents, and no place    *)
(* twice.                                                                  *)
LEMMA SparseEntries ==
  ASSUME NEW x \in Idx
  PROVE  /\ IsFiniteSet(DOMAIN SparseAt[x])
         /\ \A t \in DOMAIN SparseAt[x] : SparseAt[x][t].pos \in Axes /\ SparseAt[x][t].exp \in Nat \ {0}
         /\ \A t, u \in DOMAIN SparseAt[x] : SparseAt[x][t].pos = SparseAt[x][u].pos => t = u
<1> DEFINE s == Packed(M, AlphaAt[x])
<1>1. SparseAt[x] = s
  BY DEF SparseAt
<1>2. M \in Nat \ {0} /\ Axes = 0..(M-1) /\ AlphaAt[x] \in DenseIndices(M)
  BY ShapeIs, IndexAt DEF Axes
<1>3. s \in SparseIndices(M)
  BY <1>2, PackedIs
<1> HIDE DEF s
<1>4. s \in Seq(Entries(M)) /\ \A t, u \in DOMAIN s : t < u => s[t].pos < s[u].pos
  BY <1>3 DEF SparseIndices
<1>5. /\ DOMAIN s = 1..Len(s) /\ Len(s) \in Nat
      /\ \A t \in DOMAIN s : s[t].pos \in Axes /\ s[t].exp \in Nat \ {0}
  BY <1>2, <1>4, EntryIs
<1>6. IsFiniteSet(DOMAIN s)
  BY <1>5, FS_Interval
<1>7. \A t, u \in DOMAIN s : s[t].pos = s[u].pos => t = u
  <2> TAKE t \in DOMAIN s, u \in DOMAIN s
  <2>1. t \in Nat /\ u \in Nat
    BY <1>5
  <2>2. s[t].pos \in Nat /\ s[u].pos \in Nat
    BY <1>2, <1>5
  <2>3. (t < u => s[t].pos < s[u].pos) /\ (u < t => s[u].pos < s[t].pos)
    BY <1>4
  <2> QED  BY <2>1, <2>2, <2>3
<1> QED  BY <1>1, <1>5, <1>6, <1>7

LEMMA ProductIs == \A f : ProductOf(f) = Mul!Fold(f, DOMAIN f)
BY DEF ProductOf, FoldFunction, FoldFunctionOnSet, MapThenFoldSet, Mul!Fold, Mul!FoldFunctionOnSet,
       Mul!MapThenFoldSet

LEMMA MonomialIs ==
  ASSUME NEW h \in [Axes -> Int], NEW x \in Idx
  PROVE  MonomialAt(h, x) = Mul!Fold(PowersAt(h, x), Axes) /\ MonomialAt(h, x) \in Int
<1> DEFINE a == AlphaAt[x]
           s == Packed(M, a)
           f == [w \in DOMAIN s |-> PowInt(h[s[w].pos], s[w].exp)]
           g == PowersAt(h, x)
           T == {s[w].pos : w \in DOMAIN s}
           to == [w \in DOMAIN s |-> s[w].pos]
<1>1. M \in Nat \ {0} /\ Axes = 0..(M-1) /\ a \in DenseIndices(M)
  BY ShapeIs, IndexAt DEF Axes
<1>2. \A p \in Axes : a[p] \in Nat /\ g[p] = PowInt(h[p], a[p]) /\ g[p] \in Int
  BY ExponentsIn
<1>3. SparseAt[x] = s
  BY DEF SparseAt
<1>4. MonomialAt(h, x) = ProductOf(f)
  BY <1>3 DEF MonomialAt
<1>5. s \in SparseIndices(M) /\ Dense(M, s) = a
  BY <1>1, PackedIs
<1> HIDE DEF a, s, g
<1>6. /\ IsFiniteSet(DOMAIN s)
      /\ \A t \in DOMAIN s : s[t].pos \in Axes /\ s[t].exp \in Nat \ {0}
      /\ \A t, u \in DOMAIN s : s[t].pos = s[u].pos => t = u
  BY <1>3, SparseEntries
<1>7. IsFiniteSet(DOMAIN s) /\ IsFiniteSet(Axes) /\ T \subseteq Axes
  BY <1>6, ExponentsIn
<1>8. \A t \in DOMAIN s : a[s[t].pos] = s[t].exp
  <2> TAKE t \in DOMAIN s
  <2>1. s[t].pos \in 0..(M-1)
    BY <1>1, <1>6
  <2>2. Dense(M, s)[s[t].pos] = s[t].exp
    BY <1>5, <2>1, ExponentAt
  <2> QED  BY <1>5, <2>2
<1>9. \A p \in Axes \ T : a[p] = 0
  <2> TAKE p \in Axes \ T
  <2>1. p \in 0..(M-1) /\ \A t \in DOMAIN s : s[t].pos # p
    BY <1>1
  <2>2. Dense(M, s)[p] = 0
    BY <1>5, <2>1, ExponentAt
  <2> QED  BY <1>5, <2>2
<1>10. Mul!Fold(f, DOMAIN s) = Mul!Fold(g, T)
  <2>1. to \in [DOMAIN s -> T]
    OBVIOUS
  <2>2. \A t, u \in DOMAIN s : to[t] = to[u] => t = u
    BY <1>6
  <2>3. \A p \in T : \E t \in DOMAIN s : to[t] = p
    OBVIOUS
  <2>4. Mul!ValuesOn(g, T)
    BY <1>2, <1>7 DEF Mul!ValuesOn
  <2>5. \A t \in DOMAIN s : f[t] = g[to[t]]
    BY <1>2, <1>6, <1>8
  <2>6. Mul!IsFiniteSet(DOMAIN s)
    BY <1>7, FiniteForMul
  <2> HIDE DEF f, to, T
  <2> QED  BY <2>1, <2>2, <2>3, <2>4, <2>5, <2>6, MulLaws, Mul!FoldMoved
<1>11. Mul!Fold(g, Axes) = Mul!Fold(g, T) * 1 /\ Mul!Fold(g, T) \in Int
  <2> DEFINE U == Axes \ T
  <2>1. IsFiniteSet(T) /\ IsFiniteSet(U)
    <3> HIDE DEF T
    <3> QED  BY <1>7, FS_Subset
  <2>2. Mul!ValuesOn(g, T) /\ Mul!ValuesOn(g, T \cup U) /\ T \cap U = {} /\ T \cup U = Axes
    BY <1>2, <1>7 DEF Mul!ValuesOn
  <2>3. \A p \in U : g[p] = 1
    <3> TAKE p \in U
    <3>1. g[p] = PowInt(h[p], 0) /\ h[p] \in Int
      BY <1>2, <1>9
    <3>2. PowInt(h[p], 0) = 1
      BY <3>1, PowIntIs
    <3> QED  BY <3>1, <3>2
  <2> HIDE DEF T, U
  <2>4. Mul!Fold(g, U) = 1
    BY <2>1, <2>3, OneProduct
  <2>5. Mul!Fold(g, T \cup U) = Mul!Fold(g, T) * Mul!Fold(g, U)
    BY <2>1, <2>2, FiniteForMul, MulLaws, Mul!FoldUnion
  <2>6. Mul!Fold(g, T) \in Int
    BY <2>1, <2>2, FiniteForMul, MulLaws, Mul!FoldType
  <2> QED  BY <2>2, <2>4, <2>5, <2>6
<1>12. ProductOf(f) = Mul!Fold(f, DOMAIN s)
  <2>1. DOMAIN f = DOMAIN s
    OBVIOUS
  <2> HIDE DEF f
  <2> QED  BY <2>1, ProductIs
<1>13. Mul!Fold(g, Axes) = Mul!Fold(g, T)
  <2> HIDE DEF T
  <2> QED  BY <1>11
<1> HIDE DEF f, T
<1> QED  BY <1>4, <1>10, <1>11, <1>12, <1>13 DEF g

-----------------------------------------------------------------------------
(* Along one axis only the powers of its variable are left of a monomial.  *)
LEMMA MonomialAlong ==
  ASSUME NEW i \in Axes, NEW s \in Nat, NEW x \in Idx
  PROVE  /\ \A d \in Nat : AlphaAt[x] = PureIndex(i, d) => MonomialAt(PureIndex(i, s), x) = PowInt(s, d)
         /\ (\A d \in 0..N : AlphaAt[x] # PureIndex(i, d)) => MonomialAt(PureIndex(i, s), x) = 0
<1> DEFINE h == PureIndex(i, s)
           a == AlphaAt[x]
           g == PowersAt(h, x)
<1>1. h \in [Axes -> Int] /\ h[i] = s /\ \A p \in Axes \ {i} : h[p] = 0
  BY DEF PureIndex
<1>2. M \in Nat \ {0} /\ M \in Nat /\ Axes = 0..(M-1) /\ N \in Nat /\ a \in DenseIndices(M)
  BY ShapeIs, IndexAt DEF Axes
<1> HIDE DEF h
<1>3. /\ \A p \in Axes : a[p] \in Nat /\ g[p] = PowInt(h[p], a[p]) /\ g[p] \in Int
      /\ IsFiniteSet(Axes) /\ MonomialAt(h, x) = Mul!Fold(g, Axes)
  BY <1>1, ExponentsIn, MonomialIs
<1>4. ASSUME NEW d \in Nat, a = PureIndex(i, d)
      PROVE  MonomialAt(h, x) = PowInt(s, d)
  <2>1. a[i] = d /\ \A p \in Axes \ {i} : a[p] = 0
    BY <1>4 DEF PureIndex
  <2>2. g[i] = PowInt(s, d)
    BY <1>1, <1>3, <2>1
  <2>3. \A p \in Axes \ {i} : g[p] = 1
    <3> TAKE p \in Axes \ {i}
    <3>1. g[p] = PowInt(0, 0)
      BY <1>1, <1>3, <2>1
    <3>2. PowInt(0, 0) = 1
      BY PowIntIs
    <3> QED  BY <3>1, <3>2
  <2> HIDE DEF g
  <2>4. Mul!Fold(g, Axes) = g[i]
    BY <1>3, <2>3, OneFactor
  <2> QED  BY <1>3, <2>2, <2>4
<1>5. ASSUME \A d \in 0..N : a # PureIndex(i, d)
      PROVE  MonomialAt(h, x) = 0
  <2>1. a[i] \in 0..N
    <3>1. a[i] \in Nat /\ a[i] <= Summed(a, M)
      BY <1>2, ExponentBounds
    <3>2. Summed(a, M) \in 0..N
      BY IndexAt
    <3> QED  BY <1>2, <3>1, <3>2
  <2>2. PICK p \in Axes \ {i} : a[p] # 0
    <3>1. ASSUME \A p \in Axes \ {i} : a[p] = 0 PROVE FALSE
      <4>1. PureIndex(i, a[i]) \in DenseIndices(M)
        BY <1>2, <2>1, PureIndexIs
      <4>2. \A p \in 0..(M-1) : a[p] = PureIndex(i, a[i])[p]
        BY <1>2, <3>1 DEF PureIndex
      <4>3. a = PureIndex(i, a[i])
        BY <1>2, <4>1, <4>2, SameIndex
      <4> QED  BY <1>5, <2>1, <4>3
    <3> QED  BY <3>1
  <2>3. g[p] = 0
    <3>1. a[p] \in Nat /\ a[p] - 1 \in Nat /\ (a[p] - 1) + 1 = a[p]
      BY <1>3, <2>2
    <3>2. PowInt(0, (a[p] - 1) + 1) = 0
      BY <3>1, PowerGrowsStrictly
    <3> QED  BY <1>1, <1>3, <2>2, <3>1, <3>2
  <2>4. Mul!Fold(g, Axes) = 0
    <3>1. p \in Axes
      BY <2>2
    <3> HIDE DEF g
    <3> QED  BY <1>3, <2>3, <3>1, OneFactor
  <2> QED  BY <1>3, <2>4
<1> QED  BY <1>4, <1>5 DEF h

(* is_trusted along an axis and the error validity_radius looks at are     *)
(* about the same sum.                                                     *)
PureTerms(c, i, s) == [d \in 0..N |-> Pure(c, i, d) * PowInt(s, d)]
PureSum(c, i, s, m) == Sums!Fold(PureTerms(c, i, s), (m + 1)..N)

LEMMA PureTermsIn ==
  ASSUME NEW c \in [Idx -> Int], NEW i \in Axes, NEW s \in Nat, NEW m \in 0..N
  PROVE  /\ \A d \in 0..N : /\ Pure(c, i, d) \in Int /\ PowInt(s, d) \in Nat
                            /\ PureTerms(c, i, s)[d] = Pure(c, i, d) * PowInt(s, d)
                            /\ PureTerms(c, i, s)[d] \in Int
         /\ (m + 1)..N \subseteq 0..N /\ IsFiniteSet((m + 1)..N)
         /\ PureSum(c, i, s, m) \in Int
<1>1. N \in Nat /\ m \in Nat
  BY ShapeIs
<1>2. ASSUME NEW d \in 0..N PROVE Pure(c, i, d) \in Int /\ PowInt(s, d) \in Nat
  <2>1. d \in Nat /\ d <= N /\ s <= s
    BY <1>1
  <2> QED  BY <2>1, PureIn, PowerGrows
<1>3. \A d \in 0..N : PureTerms(c, i, s)[d] = Pure(c, i, d) * PowInt(s, d)
  BY DEF PureTerms
<1>4. \A d \in 0..N : Pure(c, i, d) * PowInt(s, d) \in Int
  <2> TAKE d \in 0..N
  <2> DEFINE x == Pure(c, i, d)
             y == PowInt(s, d)
  <2>1. x \in Int /\ y \in Int
    BY <1>2
  <2> HIDE DEF x, y
  <2> QED  BY <2>1 DEF x, y
<1>5. (m + 1)..N \subseteq 0..N /\ IsFiniteSet((m + 1)..N)
  <2>1. (m + 1)..N \subseteq 0..N
    BY <1>1
  <2>2. m + 1 \in Int /\ N \in Int
    BY <1>1
  <2>3. IsFiniteSet((m + 1)..N)
    BY <2>2, FS_Interval
  <2> QED  BY <2>1, <2>3
<1>6. PureSum(c, i, s, m) \in Int
  <2>1. Sums!ValuesOn(PureTerms(c, i, s), (m + 1)..N)
    BY <1>3, <1>4, <1>5 DEF Sums!ValuesOn
  <2> QED  BY <1>5, <2>1, FiniteForSums, SumsLaws, Sums!FoldType DEF PureSum
<1> QED  BY <1>2, <1>3, <1>4, <1>5, <1>6

LEMMA SumOnIs == \A f, S : SumFunctionOnSet(f, S) = Sums!Fold(f, S)
BY DEF SumFunctionOnSet, FoldFunctionOnSet, MapThenFoldSet, Sums!Fold,
       Sums!FoldFunctionOnSet, Sums!MapThenFoldSet

LEMMA PureAxisErrorIs ==
  ASSUME NEW c \in [Idx -> Int], NEW i \in Axes, NEW s \in Nat, NEW m \in 0..N
  PROVE  PureAxisError(c, i, s, m) = Abs(PureSum(c, i, s, m))
<1> DEFINE D == (m + 1)..N
           f == [d \in (m + 1)..N |-> Pure(c, i, d) * PowInt(s, d)]
<1>1. SumFunction(f) = Sums!Fold(f, D)
  <2>1. DOMAIN f = D
    OBVIOUS
  <2> HIDE DEF f, D
  <2> QED  BY <2>1, SumIs
<1>2. \A d \in D : f[d] = PureTerms(c, i, s)[d] /\ f[d] \in Int
  <2> TAKE d \in D
  <2>1. d \in 0..N
    BY PureTermsIn
  <2>2. PureTerms(c, i, s)[d] = Pure(c, i, d) * PowInt(s, d) /\ PureTerms(c, i, s)[d] \in Int
    BY <2>1, PureTermsIn
  <2>3. f[d] = Pure(c, i, d) * PowInt(s, d)
    OBVIOUS
  <2> QED  BY <2>2, <2>3
<1>3. Sums!Fold(f, D) = Sums!Fold(PureTerms(c, i, s), D)
  <2>1. Sums!ValuesOn(f, D) /\ Sums!IsFiniteSet(D)
    BY <1>2, PureTermsIn, FiniteForSums DEF Sums!ValuesOn
  <2> HIDE DEF f, D
  <2> QED  BY <1>2, <2>1, SumsLaws, Sums!FoldSame
<1>4. PureAxisError(c, i, s, m) = Abs(SumFunction(f))
  BY DEF PureAxisError
<1> QED  BY <1>1, <1>3, <1>4 DEF PureSum

LEMMA TermsIn ==
  ASSUME NEW c \in [Idx -> Int], NEW h \in [Axes -> Int]
  PROVE  /\ \A x \in Idx : Terms(c, h)[x] = c[x] * MonomialAt(h, x) /\ Terms(c, h)[x] \in Int
         /\ IsFiniteSet(Idx)
<1>1. \A x \in Idx : Terms(c, h)[x] = c[x] * MonomialAt(h, x) /\ Terms(c, h)[x] \in Int
  <2> TAKE x \in Idx
  <2> DEFINE a == c[x]
             b == MonomialAt(h, x)
  <2>1. a \in Int /\ b \in Int
    BY MonomialIs
  <2>2. Terms(c, h)[x] = a * b
    BY DEF Terms
  <2> HIDE DEF a, b
  <2>3. a * b \in Int
    BY <2>1
  <2> QED  BY <2>2, <2>3 DEF a, b
<1>2. IsFiniteSet(Idx)
  BY ShapeIs, FS_Interval DEF Idx
<1> QED  BY <1>1, <1>2

LEMMA ErrorAlong ==
  ASSUME NEW c \in [Idx -> Int], NEW i \in Axes, NEW s \in Nat, NEW m \in 0..N
  PROVE  truncation_error(c, PureIndex(i, s), m) = PureSum(c, i, s, m)
<1> DEFINE h == PureIndex(i, s)
           D == (m + 1)..N
           S == {x \in Idx : OrderAt[x] \in (m + 1)..N}
           place == [d \in D |-> Rank(M, N, PureIndex(i, d))]
           T == {place[d] : d \in D}
           f == Terms(c, h)
<1>1. N \in Nat /\ D \subseteq 0..N /\ IsFiniteSet(D)
  BY ShapeIs, PureTermsIn
<1>2. h \in [Axes -> Int]
  BY DEF PureIndex
<1>3. ASSUME NEW d \in D
      PROVE  /\ d \in Nat /\ d <= N /\ place[d] \in Idx /\ AlphaAt[place[d]] = PureIndex(i, d)
             /\ OrderAt[place[d]] = d
  <2>1. d \in Nat /\ d <= N
    BY <1>1
  <2> QED  BY <2>1, PureIndexIs
<1>4. T \subseteq S
  BY <1>3
<1> HIDE DEF h
<1>5. \A x \in Idx : f[x] = c[x] * MonomialAt(h, x) /\ f[x] \in Int
  BY <1>2, TermsIn
<1>6. ASSUME NEW d \in D PROVE PureTerms(c, i, s)[d] = f[place[d]]
  <2>1. f[place[d]] = c[place[d]] * MonomialAt(h, place[d])
    BY <1>3, <1>5
  <2>2. MonomialAt(h, place[d]) = PowInt(s, d)
    <3> HIDE DEF place
    <3> QED  BY <1>3, MonomialAlong DEF h
  <2>3. PureTerms(c, i, s)[d] = Pure(c, i, d) * PowInt(s, d)
    BY <1>1, PureTermsIn
  <2>4. Pure(c, i, d) = c[place[d]]
    BY <1>3, PureIn
  <2> QED  BY <2>1, <2>2, <2>3, <2>4
<1>7. ASSUME NEW x \in S \ T PROVE f[x] = 0
  <2>1. \A d \in 0..N : AlphaAt[x] # PureIndex(i, d)
    <3> SUFFICES ASSUME NEW d \in 0..N, AlphaAt[x] = PureIndex(i, d) PROVE FALSE
      OBVIOUS
    <3>1. PureIndex(i, d) \in DenseIndices(M) /\ Rank(M, N, PureIndex(i, d)) = PlaceOf(M, PureIndex(i, d))
      <4>1. d \in Nat /\ d <= N
        BY <1>1
      <4> QED  BY <4>1, PureIndexIs, PlaceIs
    <3>2. x = Rank(M, N, PureIndex(i, d))
      BY <3>1, IndexAt
    <3>3. OrderAt[x] = d
      <4>1. d \in Nat /\ d <= N
        BY <1>1
      <4> QED  BY <3>2, <4>1, PureIndexIs
    <3>4. d \in D
      BY <3>3
    <3> QED  BY <3>2, <3>4
  <2>2. MonomialAt(h, x) = 0
    BY <2>1, MonomialAlong DEF h
  <2>3. f[x] = c[x] * 0 /\ c[x] \in Int
    BY <1>5, <2>2
  <2> QED  BY <2>3
<1> HIDE DEF f
<1>8. Sums!Fold(PureTerms(c, i, s), D) = Sums!Fold(f, T)
  <2>1. place \in [D -> T] /\ \A z \in T : \E d \in D : place[d] = z
    OBVIOUS
  <2>2. \A d, e \in D : place[d] = place[e] => d = e
    <3> TAKE d \in D, e \in D
    <3>1. OrderAt[place[d]] = d /\ OrderAt[place[e]] = e
      BY <1>3
    <3> HIDE DEF place
    <3> QED  BY <3>1
  <2>3. Sums!ValuesOn(f, T) /\ Sums!IsFiniteSet(D)
    BY <1>1, <1>4, <1>5, FiniteForSums DEF Sums!ValuesOn
  <2> HIDE DEF place, T, D
  <2> QED  BY <1>6, <2>1, <2>2, <2>3, SumsLaws, Sums!FoldMoved
<1>9. Sums!Fold(f, S) = Sums!Fold(f, T)
  <2> DEFINE U == S \ T
  <2>1. IsFiniteSet(T) /\ IsFiniteSet(U)
    <3>1. IsFiniteSet(Idx) /\ T \subseteq Idx /\ U \subseteq Idx
      BY <1>2, <1>4, TermsIn
    <3> HIDE DEF T, U
    <3> QED  BY <3>1, FS_Subset
  <2>2. Sums!ValuesOn(f, T) /\ Sums!ValuesOn(f, T \cup U) /\ T \cap U = {} /\ T \cup U = S
    BY <1>4, <1>5 DEF Sums!ValuesOn
  <2> HIDE DEF T, U, S
  <2>3. Sums!Fold(f, U) = 0
    BY <1>7, <2>1, ZeroSum DEF U
  <2>4. Sums!Fold(f, T \cup U) = Sums!Fold(f, T) + Sums!Fold(f, U)
    BY <2>1, <2>2, FiniteForSums, SumsLaws, Sums!FoldUnion
  <2>5. Sums!Fold(f, T) \in Int
    BY <2>1, <2>2, FiniteForSums, SumsLaws, Sums!FoldType
  <2> QED  BY <2>2, <2>3, <2>4, <2>5
<1>10. truncation_error(c, h, m) = Sums!Fold(f, S)
  <2>1. truncation_error(c, h, m) = SumFunctionOnSet(Terms(c, h), {x \in Idx : OrderAt[x] \in (m + 1)..N})
    BY DEF truncation_error, BandSum
  <2> QED  BY <2>1, SumOnIs DEF f
<1> QED  BY <1>8, <1>9, <1>10 DEF PureSum, h

-----------------------------------------------------------------------------
(* The budget, and the error against it.                                   *)
LEMMA BudgetIn ==
  ASSUME NEW c \in [Idx -> Int], NEW t \in Nat, NEW u \in Nat
  PROVE  Budget(c, t, u) \in Nat
<1>1. c[0] \in Int
  <2>1. Nowhere(M) \in DenseIndices(M) /\ Summed(Nowhere(M), M) = 0 /\ PlaceOf(M, Nowhere(M)) = 0
    BY ShapeIs, NowhereIs
  <2>2. Nowhere(M) \in Alphas
    BY <2>1, ShapeIs, AlphasAre
  <2>3. 0 \in Idx
    BY <2>1, <2>2, PlaceIs
  <2> QED  BY <2>3
<1> DEFINE x == Abs(c[0])
<1>2. x \in Nat
  BY <1>1 DEF Abs
<1>3. Budget(c, t, u) = u + t * x
  BY DEF Budget
<1> HIDE DEF x
<1>4. t * x \in Nat
  BY <1>2
<1> QED  BY <1>3, <1>4

LEMMA TrustedAlongIs ==
  ASSUME NEW c \in [Idx -> Int], NEW i \in Axes, NEW s \in Nat, NEW m \in 0..N, NEW t, NEW u
  PROVE  is_trusted(c, PureIndex(i, s), t, u, m) <=> PureAxisError(c, i, s, m) <= Budget(c, t, u)
BY ErrorAlong, PureAxisErrorIs DEF is_trusted

LEMMA ErrorIn ==
  ASSUME NEW c \in [Idx -> Int], NEW i \in Axes, NEW s \in Nat, NEW m \in 0..N
  PROVE  PureAxisError(c, i, s, m) \in Nat
<1> DEFINE A == PureSum(c, i, s, m)
<1>1. PureAxisError(c, i, s, m) = Abs(A)
  BY PureAxisErrorIs
<1>2. A \in Int
  BY PureTermsIn
<1> HIDE DEF A
<1>3. Abs(A) \in Nat
  BY <1>2 DEF Abs
<1> QED  BY <1>1, <1>3

LEMMA ErrorAtZero ==
  ASSUME NEW c \in [Idx -> Int], NEW i \in Axes, NEW m \in 0..N
  PROVE  PureAxisError(c, i, 0, m) = 0
<1> DEFINE f == PureTerms(c, i, 0)
           D == (m + 1)..N
<1>1. 0 \in Nat /\ m \in Nat
  OBVIOUS
<1>2. IsFiniteSet(D) /\ D \subseteq 0..N
  BY <1>1, PureTermsIn
<1>3. \A d \in D : f[d] = 0
  <2> TAKE d \in D
  <2>1. d \in 0..N /\ d - 1 \in Nat /\ (d - 1) + 1 = d /\ 1 \in Nat /\ 0 < 1
    BY <1>1, <1>2
  <2>2. PowInt(0, (d - 1) + 1) = 0
    BY <1>1, <2>1, PowerGrowsStrictly
  <2>3. f[d] = Pure(c, i, d) * PowInt(0, d) /\ Pure(c, i, d) \in Int
    BY <1>1, <2>1, PureTermsIn
  <2> QED  BY <2>1, <2>2, <2>3
<1>4. PureSum(c, i, 0, m) = 0
  <2> HIDE DEF f, D
  <2>1. Sums!Fold(f, D) = 0
    BY <1>2, <1>3, ZeroSum
  <2> QED  BY <2>1 DEF PureSum, f, D
<1>5. PureAxisError(c, i, 0, m) = Abs(PureSum(c, i, 0, m))
  BY <1>1, PureAxisErrorIs
<1> QED  BY <1>4, <1>5 DEF Abs

(* Terms of one sign: the error is zero or grows with the step.            *)
SameSign(c, i, m) ==
  \/ \A d \in (m + 1)..N : Pure(c, i, d) >= 0
  \/ \A d \in (m + 1)..N : Pure(c, i, d) <= 0

LEMMA SumGrows ==
  ASSUME NEW c \in [Idx -> Int], NEW i \in Axes, NEW m \in 0..N, NEW x \in Nat, NEW y \in Nat, x < y,
         NEW sg \in {1, -1}, \A d \in (m + 1)..N : sg * Pure(c, i, d) >= 0
  PROVE  LET A == PureSum(c, i, x, m)
             B == PureSum(c, i, y, m)
         IN  0 <= sg * A /\ sg * A <= sg * B /\ (A = 0 \/ sg * A < sg * B)
<1> DEFINE D == (m + 1)..N
           a == PureTerms(c, i, x)
           b == PureTerms(c, i, y)
           Good(A, B) == 0 <= sg * A /\ sg * A <= sg * B /\ (A = 0 \/ sg * A < sg * B)
           F == {T \in SUBSET D : Good(Sums!Fold(a, T), Sums!Fold(b, T))}
<1>1. IsFiniteSet(D) /\ D \subseteq 0..N /\ \A d \in D : a[d] \in Int /\ b[d] \in Int
  <2>1. \A d \in 0..N : a[d] \in Int /\ b[d] \in Int
    BY PureTermsIn
  <2>2. IsFiniteSet(D) /\ D \subseteq 0..N
    BY PureTermsIn
  <2> QED  BY <2>1, <2>2
<1>2. \A d \in D : Good(a[d], b[d])
  <2> TAKE d \in D
  <2> DEFINE k == Pure(c, i, d)
             u == PowInt(x, d)
             v == PowInt(y, d)
  <2>1. k \in Int /\ u \in Nat /\ v \in Nat /\ a[d] = k * u /\ b[d] = k * v
    BY <1>1, PureTermsIn
  <2>2. u < v
    <3>1. m \in Nat /\ d \in Nat /\ d - 1 \in Nat /\ (d - 1) + 1 = d
      OBVIOUS
    <3>2. PowInt(x, (d - 1) + 1) < PowInt(y, (d - 1) + 1)
      BY <3>1, PowerGrowsStrictly
    <3> QED  BY <3>1, <3>2
  <2>3. sg * k >= 0
    OBVIOUS
  <2> HIDE DEF a, b, k, u, v
  <2>4. CASE k = 0
    BY <2>1, <2>4
  <2>5. CASE k > 0
    <3>1. sg = 1
      BY <2>1, <2>3, <2>5
    <3>2. k * u >= 0 /\ k * u < k * v
      BY <2>1, <2>2, <2>5
    <3>3. k * u \in Int /\ k * v \in Int
      BY <2>1
    <3> QED  BY <2>1, <3>1, <3>2, <3>3
  <2>6. CASE k < 0
    <3>1. sg = -1
      BY <2>1, <2>3, <2>6
    <3>2. k * u <= 0 /\ k * v < k * u
      BY <2>1, <2>2, <2>6
    <3>3. k * u \in Int /\ k * v \in Int
      BY <2>1
    <3> QED  BY <2>1, <3>1, <3>2, <3>3
  <2> QED  BY <2>1, <2>4, <2>5, <2>6
<1>3. {} \in F
  <2>1. Sums!Fold(a, {}) = 0 /\ Sums!Fold(b, {}) = 0
    BY SumsLaws, Sums!FoldEmpty
  <2> QED  BY <2>1
<1>4. ASSUME NEW T \in SUBSET D, NEW d \in D \ T, T \in F PROVE T \cup {d} \in F
  <2> HIDE DEF a, b, D
  <2>1. Sums!IsFiniteSet(T) /\ Sums!ValuesOn(a, T \cup {d}) /\ Sums!ValuesOn(b, T \cup {d})
        /\ Sums!ValuesOn(a, T) /\ Sums!ValuesOn(b, T)
    <3>1. IsFiniteSet(T)
      BY <1>1, FS_Subset
    <3> QED  BY <1>1, <3>1, FiniteForSums DEF Sums!ValuesOn
  <2>2. /\ Sums!Fold(a, T \cup {d}) = a[d] + Sums!Fold(a, T)
        /\ Sums!Fold(b, T \cup {d}) = b[d] + Sums!Fold(b, T)
        /\ Sums!Fold(a, T) \in Int /\ Sums!Fold(b, T) \in Int
    BY <2>1, SumsLaws, Sums!FoldAdd, Sums!FoldType
  <2> DEFINE A == Sums!Fold(a, T)
             B == Sums!Fold(b, T)
             p == a[d]
             q == b[d]
  <2>3. Good(A, B) /\ Good(p, q) /\ A \in Int /\ B \in Int /\ p \in Int /\ q \in Int
    BY <1>1, <1>2, <1>4, <2>2
  <2> HIDE DEF A, B, p, q
  <2>4. Good(p + A, q + B)
    <3>1. CASE sg = 1
      BY <2>3, <3>1
    <3>2. CASE sg = -1
      BY <2>3, <3>2
    <3> QED  BY <3>1, <3>2
  <2>5. T \cup {d} \in SUBSET D
    OBVIOUS
  <2> QED  BY <2>2, <2>4, <2>5 DEF A, B, p, q
<1> HIDE DEF F, a, b, D
<1>5. SUBSET D \subseteq F
  BY <1>1, <1>3, <1>4, FiniteForSums, Sums!SetInductionOn
<1>6. D \in F
  BY <1>5
<1> QED  BY <1>6 DEF F, a, b, D, PureSum

LEMMA ErrorGrows ==
  ASSUME NEW c \in [Idx -> Int], NEW i \in Axes, NEW m \in 0..N, NEW x \in Nat, NEW y \in Nat, x <= y,
         SameSign(c, i, m)
  PROVE  LET A == PureAxisError(c, i, x, m)
             B == PureAxisError(c, i, y, m)
         IN  A <= B /\ (x < y => A = 0 \/ A < B)
<1> DEFINE A == PureSum(c, i, x, m)
           B == PureSum(c, i, y, m)
<1>1. /\ PureAxisError(c, i, x, m) = Abs(A) /\ PureAxisError(c, i, y, m) = Abs(B)
      /\ A \in Int /\ B \in Int /\ \A d \in (m + 1)..N : Pure(c, i, d) \in Int
  BY PureAxisErrorIs, PureTermsIn
<1>2. CASE x = y
  BY <1>1, <1>2 DEF Abs
<1>3. CASE x < y
  <2>1. PICK sg \in {1, -1} : \A d \in (m + 1)..N : sg * Pure(c, i, d) >= 0
    <3>1. CASE \A d \in (m + 1)..N : Pure(c, i, d) >= 0
      <4>1. \A d \in (m + 1)..N : 1 * Pure(c, i, d) >= 0
        BY <1>1, <3>1
      <4> QED  BY <4>1
    <3>2. CASE \A d \in (m + 1)..N : Pure(c, i, d) <= 0
      <4>1. \A d \in (m + 1)..N : (-1) * Pure(c, i, d) >= 0
        BY <1>1, <3>2
      <4> QED  BY <4>1
    <3> QED  BY <3>1, <3>2 DEF SameSign
  <2>2. 0 <= sg * A /\ sg * A <= sg * B /\ (A = 0 \/ sg * A < sg * B)
    BY <1>3, <2>1, SumGrows
  <2> HIDE DEF A, B
  <2>3. CASE sg = 1
    BY <1>1, <2>2, <2>3 DEF Abs
  <2>4. CASE sg = -1
    BY <1>1, <2>2, <2>4 DEF Abs
  <2> QED  BY <2>3, <2>4
<1> QED  BY <1>2, <1>3

(* The error where at most the leading term is there.                      *)
LEMMA ErrorOfLeading ==
  ASSUME NEW c \in [Idx -> Int], NEW i \in Axes, NEW s \in Nat, NEW m \in 0..(N-1),
         \A d \in (m + 2)..N : Pure(c, i, d) = 0
  PROVE  /\ PureAxisError(c, i, s, m) = Abs(Pure(c, i, m + 1)) * PowInt(s, m + 1)
         /\ PowInt(s, m + 1) \in Nat /\ Pure(c, i, m + 1) \in Int
<1> DEFINE D == (m + 1)..N
           f == PureTerms(c, i, s)
           k == Pure(c, i, m + 1)
           u == PowInt(s, m + 1)
<1>1. N \in Nat /\ m \in 0..N /\ m + 1 \in 0..N /\ m + 1 \in D
  BY ShapeIs
<1>2. /\ \A d \in 0..N : f[d] = Pure(c, i, d) * PowInt(s, d) /\ f[d] \in Int /\ PowInt(s, d) \in Nat
      /\ D \subseteq 0..N /\ IsFiniteSet(D) /\ k \in Int /\ u \in Nat
  BY <1>1, PureTermsIn
<1>3. \A d \in D \ {m + 1} : f[d] = 0
  <2> TAKE d \in D \ {m + 1}
  <2>1. d \in (m + 2)..N /\ d \in 0..N
    BY <1>1, <1>2
  <2>2. f[d] = 0 * PowInt(s, d) /\ PowInt(s, d) \in Nat
    BY <1>2, <2>1
  <2> QED  BY <2>2
<1> HIDE DEF f, D
<1>4. Sums!Fold(f, D) = f[m + 1] + Sums!Fold(f, D \ {m + 1})
  <2>1. Sums!ValuesOn(f, D)
    BY <1>2 DEF Sums!ValuesOn
  <2> QED  BY <1>1, <1>2, <2>1, FiniteForSums, SumsLaws, Sums!FoldTake
<1>5. Sums!Fold(f, D \ {m + 1}) = 0
  <2>1. IsFiniteSet(D \ {m + 1})
    BY <1>2, FS_Subset
  <2> QED  BY <1>3, <2>1, ZeroSum
<1>6. PureSum(c, i, s, m) = k * u
  <2>1. f[m + 1] = k * u /\ f[m + 1] \in Int
    BY <1>1, <1>2
  <2> QED  BY <1>4, <1>5, <2>1 DEF PureSum, f, D
<1>7. PureAxisError(c, i, s, m) = Abs(k * u)
  BY <1>1, <1>6, PureAxisErrorIs
<1> HIDE DEF k, u
<1>8. Abs(k * u) = Abs(k) * u
  <2>1. k * u \in Int /\ (-k) * u = -(k * u)
    BY <1>2
  <2>2. CASE k >= 0
    <3>1. k * u >= 0
      BY <1>2, <2>2
    <3> QED  BY <1>2, <2>1, <2>2, <3>1 DEF Abs
  <2>3. CASE k < 0
    <3>1. k * u <= 0
      BY <1>2, <2>3
    <3> QED  BY <1>2, <2>1, <2>3, <3>1 DEF Abs
  <2> QED  BY <1>2, <2>2, <2>3
<1> QED  BY <1>2, <1>7, <1>8 DEF k, u

-----------------------------------------------------------------------------
(* The grain, the widths the halvings go through, and the seeds.           *)
LEMMA DoublingIs ==
  ASSUME NEW k \in Nat
  PROVE  PowInt(2, k) \in Nat \ {0} /\ PowInt(2, k + 1) = 2 * PowInt(2, k)
<1>1. PowInt(2, k) \in Int /\ PowInt(2, k + 1) = PowInt(2, k) * 2
  BY PowIntIs
<1> DEFINE T == {j \in Nat : PowInt(2, j) \in Nat \ {0}}
<1>2. 0 \in T
  BY PowIntIs
<1>3. ASSUME NEW j \in Nat, j \in T PROVE j + 1 \in T
  <2>1. PowInt(2, j + 1) = PowInt(2, j) * 2 /\ PowInt(2, j) \in Nat \ {0}
    BY <1>3, PowIntIs
  <2> HIDE DEF T
  <2>2. PowInt(2, j + 1) \in Nat \ {0}
    BY <2>1
  <2> QED  BY <2>2 DEF T
<1> HIDE DEF T
<1>4. Nat \subseteq T
  BY <1>2, <1>3, Sums!NatInductionOn
<1>5. PowInt(2, k) \in Nat \ {0}
  BY <1>4 DEF T
<1> QED  BY <1>1, <1>5

LEMMA GrainIs == Grain \in Nat \ {0} /\ Halvings \in Nat /\ Doublings \in Nat
<1>1. Halvings + 1 \in Nat /\ Halvings \in Nat /\ Doublings \in Nat
  BY LoopAssumption
<1> QED  BY <1>1, DoublingIs DEF Grain

LEMMA MultipleIs ==
  ASSUME NEW p \in Nat \ {0}, NEW x \in Nat
  PROVE  x % p = 0 <=> \E q \in Nat : x = q * p
<1> DEFINE d == x \div p
           s == x % p
<1>1. d \in Nat /\ s \in 0..(p - 1) /\ x = p * d + s
  <2>1. d \in Nat
    BY Quotient
  <2> QED  BY <2>1
<1>2. ASSUME s = 0 PROVE \E q \in Nat : x = q * p
  <2> HIDE DEF d, s
  <2>1. x = d * p
    BY <1>1, <1>2
  <2> QED  BY <1>1, <2>1
<1>3. ASSUME NEW q \in Nat, x = q * p PROVE s = 0
  <2>1. d = q
    BY <1>3, Quotient
  <2> HIDE DEF d, s
  <2> QED  BY <1>1, <1>3, <2>1
<1> QED  BY <1>2, <1>3

LEMMA RootIs ==
  ASSUME budget \in Nat, budget > 0, NEW c0 \in Nat \ {0}, NEW e \in Nat
  PROVE  \A x \in RootOf(c0, e + 1) :
           x \in Nat /\ (\E q \in Nat : x = q * Grain) /\ c0 * PowInt(2 * x, e + 1) >= budget
<1> DEFINE b == budget
           G == Grain
           Beyond(k) == c0 * PowInt(k * G, e + 1) >= b
           above == CHOOSE k \in 1..b : Beyond(k) /\ ~Beyond(k - 1)
           T == {k \in Nat : Beyond(k)}
<1>1. b \in Nat /\ b > 0 /\ G \in Nat \ {0}
  BY GrainIs
<1>2. \A x \in RootOf(c0, e + 1) : x = above * G \/ (x = (above - 1) * G /\ x # 0)
  BY <1>1 DEF RootOf
<1> HIDE DEF b, G
<1>3. \A k \in Nat : k * G \in Nat /\ k <= k * G /\ PowInt(k * G, e + 1) \in Nat
  <2> TAKE k \in Nat
  <2>1. k * G \in Nat
    BY <1>1
  <2>2. k * G >= k * 1
    BY <1>1
  <2>3. PowInt(k * G, e + 1) \in Nat
    <3>1. k * G <= k * G /\ e + 1 \in Nat
      BY <2>1
    <3> QED  BY <2>1, <3>1, PowerGrows
  <2> QED  BY <2>1, <2>2, <2>3
<1>4. Beyond(b)
  <2> DEFINE y == b * G
             z == PowInt(y, e + 1)
  <2>1. y \in Nat /\ b <= y /\ z \in Nat
    BY <1>1, <1>3
  <2>2. 0 < y /\ 0 \in Nat
    BY <1>1, <2>1
  <2> HIDE DEF y
  <2>3. y <= z
    BY <2>1, <2>2, PowerGrowsStrictly
  <2> HIDE DEF z
  <2>4. c0 * z >= 1 * z /\ c0 * z \in Nat
    BY <2>1
  <2>5. c0 * z >= b
    BY <1>1, <2>1, <2>3, <2>4
  <2> QED  BY <2>5 DEF z, y
<1>5. ~Beyond(0)
  <2>1. 0 * G = 0 /\ 0 < 1 /\ 0 \in Nat /\ 1 \in Nat
    BY <1>1
  <2>2. PowInt(0, e + 1) = 0
    BY <2>1, PowerGrowsStrictly
  <2>3. PowInt(0 * G, e + 1) = 0
    BY <2>1, <2>2
  <2>4. c0 * PowInt(0 * G, e + 1) = 0
    BY <2>3
  <2> QED  BY <1>1, <2>4
<1>6. above \in 1..b /\ Beyond(above)
  <2>1. PICK k \in T : \A j \in T : k <= j
    <3>1. T \in SUBSET Nat /\ T # {}
      BY <1>1, <1>4
    <3> HIDE DEF T
    <3> QED  BY <3>1, Sums!LeastNatural
  <2>2. k # 0 /\ k \in Nat /\ Beyond(k) /\ k <= b
    BY <1>1, <1>4, <1>5, <2>1
  <2>3. ~Beyond(k - 1)
    <3> SUFFICES ASSUME Beyond(k - 1) PROVE FALSE
      OBVIOUS
    <3>1. k - 1 \in Nat
      BY <2>2
    <3>2. k - 1 \in T
      BY <3>1
    <3>3. k <= k - 1
      BY <2>1, <3>2
    <3> QED  BY <2>2, <3>3
  <2>4. k \in 1..b
    BY <1>1, <2>2
  <2> HIDE DEF Beyond
  <2> QED  BY <2>2, <2>3, <2>4
<1> HIDE DEF above
<1>7. above \in Nat /\ above >= 1 /\ c0 * PowInt(above * G, e + 1) >= b
  BY <1>1, <1>6
<1>8. ASSUME NEW q \in Nat, 2 * q >= above
      PROVE  q * G \in Nat /\ c0 * PowInt(2 * (q * G), e + 1) >= b
  <2>1. above * G \in Nat /\ q * G \in Nat /\ (2 * q) * G \in Nat
    BY <1>3, <1>7
  <2>2. above * G <= (2 * q) * G
    BY <1>1, <1>7, <1>8
  <2>3. (2 * q) * G = 2 * (q * G)
    BY <1>1
  <2> DEFINE y == above * G
             z == 2 * (q * G)
             u == PowInt(y, e + 1)
             v == PowInt(z, e + 1)
  <2>4. y \in Nat /\ z \in Nat /\ y <= z
    BY <2>1, <2>2, <2>3
  <2>5. c0 * u >= b
    BY <1>7
  <2> HIDE DEF y, z
  <2>6. u \in Nat /\ v \in Nat /\ u <= v
    <3>1. e + 1 \in Nat
      OBVIOUS
    <3> QED  BY <2>4, <3>1, PowerGrows
  <2> HIDE DEF u, v
  <2>7. c0 * u <= c0 * v /\ c0 * u \in Nat /\ c0 * v \in Nat
    BY <2>6
  <2>8. c0 * v >= b
    BY <1>1, <2>5, <2>7
  <2> QED  BY <2>1, <2>8 DEF v, z
<1> SUFFICES ASSUME NEW x \in RootOf(c0, e + 1)
             PROVE  x \in Nat /\ (\E q \in Nat : x = q * Grain) /\ c0 * PowInt(2 * x, e + 1) >= budget
  OBVIOUS
<1>9. x = above * G \/ (x = (above - 1) * G /\ x # 0)
  BY <1>2
<1>10. CASE x = above * G
  <2>1. 2 * above >= above
    BY <1>7
  <2>2. x \in Nat /\ c0 * PowInt(2 * x, e + 1) >= b
    BY <1>7, <1>8, <1>10, <2>1
  <2> QED  BY <1>7, <1>10, <2>2 DEF b, G
<1>11. CASE x = (above - 1) * G /\ x # 0
  <2>1. above - 1 \in Nat
    BY <1>7
  <2>2. above # 1
    <3>1. ASSUME above = 1 PROVE FALSE
      <4>1. above - 1 = 0 /\ 0 * G = 0
        BY <1>1, <3>1
      <4> QED  BY <1>11, <4>1
    <3> QED  BY <3>1
  <2>3. 2 * (above - 1) >= above
    BY <1>7, <2>2
  <2>4. x \in Nat /\ c0 * PowInt(2 * x, e + 1) >= b
    BY <1>8, <1>11, <2>1, <2>3
  <2> QED  BY <1>11, <2>1, <2>4 DEF b, G
<1> QED  BY <1>9, <1>10, <1>11

(* Prediction and error are the sums over two parts of the layout.         *)
LEMMA PartsMakeWhole ==
  ASSUME NEW c \in [Idx -> Int], NEW h \in [Axes -> Int], NEW m \in 0..N
  PROVE  evaluate(c, h, m) + truncation_error(c, h, m) = Sums!Fold(Terms(c, h), Idx)
<1> DEFINE S == {x \in Idx : OrderAt[x] \in 0..m}
           T == {x \in Idx : OrderAt[x] \in (m + 1)..N}
           f == Terms(c, h)
<1>1. evaluate(c, h, m) = Sums!Fold(f, S) /\ truncation_error(c, h, m) = Sums!Fold(f, T)
  <2>1. evaluate(c, h, m) = SumFunctionOnSet(f, S) /\ truncation_error(c, h, m) = SumFunctionOnSet(f, T)
    BY DEF evaluate, truncation_error, BandSum
  <2> QED  BY <2>1, SumOnIs
<1>2. IsFiniteSet(Idx) /\ \A x \in Idx : f[x] \in Int
  BY TermsIn
<1>3. S \cup T = Idx /\ S \cap T = {}
  <2>1. \A x \in Idx : OrderAt[x] \in 0..N
    BY IndexAt
  <2>2. N \in Nat /\ m \in Nat /\ m <= N
    BY ShapeIs
  <2>3. \A o \in 0..N : (o \in 0..m \/ o \in (m + 1)..N) /\ ~(o \in 0..m /\ o \in (m + 1)..N)
    BY <2>2
  <2> QED  BY <2>1, <2>3
<1> HIDE DEF S, T, f
<1>4. IsFiniteSet(S) /\ IsFiniteSet(T) /\ Sums!ValuesOn(f, S \cup T)
  BY <1>2, <1>3, FS_Subset DEF Sums!ValuesOn
<1>5. Sums!Fold(f, S \cup T) = Sums!Fold(f, S) + Sums!Fold(f, T)
  BY <1>3, <1>4, FiniteForSums, SumsLaws, Sums!FoldUnion
<1> QED  BY <1>1, <1>3, <1>5 DEF f

-----------------------------------------------------------------------------
(* The bracket, in every round.  Nothing is assumed about the shape of the *)
(* error: this is what remains true where it is not monotone.              *)
LEMMA BracketKept == BracketHolds /\ [Next]_vars => BracketHolds'
<1> SUFFICES ASSUME BracketHolds, [Next]_vars PROVE BracketHolds'
  OBVIOUS
<1>1. CASE Seed
  BY <1>1 DEF Seed, BracketHolds
<1>2. CASE Grow
  BY <1>2 DEF Grow, BracketHolds
<1>3. CASE GiveUp
  BY <1>3 DEF GiveUp, Settle, BracketHolds
<1>4. CASE Bracket
  <2>1. ~Within(hi) /\ hi' = hi /\ lo' = 0 /\ UNCHANGED <<args, axis>>
    BY <1>4 DEF Bracket, Reached
  <2>2. ~Within(hi)'
    BY <2>1 DEF Within, AxisError, budget, args
  <2> QED BY <2>1, <2>2 DEF BracketHolds
<1>5. CASE Halve
  <2>1. UNCHANGED <<args, axis>> /\ pc = "bisect"
    BY <1>5 DEF Halve
  <2>2. (lo = 0 \/ Within(lo)) /\ ~Within(hi)
    BY <2>1 DEF BracketHolds
  <2>3. CASE Within(Mid)
    <3>1. lo' = Mid /\ hi' = hi
      BY <1>5, <2>3 DEF Halve
    <3>2. Within(lo)' /\ ~Within(hi)'
      BY <2>1, <2>2, <2>3, <3>1 DEF Within, AxisError, budget, args
    <3> QED BY <3>2 DEF BracketHolds
  <2>4. CASE ~Within(Mid)
    <3>1. lo' = lo /\ hi' = Mid
      BY <1>5, <2>4 DEF Halve
    <3>2. (lo' = 0 \/ Within(lo)') /\ ~Within(hi)'
      BY <2>1, <2>2, <2>4, <3>1 DEF Within, AxisError, budget, args
    <3> QED BY <3>2 DEF BracketHolds
  <2> QED BY <2>3, <2>4
<1>6. CASE Return
  BY <1>6 DEF Return, Settle, BracketHolds
<1>7. CASE Done \/ UNCHANGED vars
  BY <1>7 DEF Done, vars, args, BracketHolds, Within, AxisError, budget
<1> QED BY <1>1, <1>2, <1>3, <1>4, <1>5, <1>6, <1>7 DEF Next

(* The bisection closes in on a step where the error meets the budget.     *)
THEOREM BracketAlwaysHolds == Spec => []BracketHolds
<1>1. Init => BracketHolds
  BY DEF Init, BracketHolds
<1> QED  BY <1>1, BracketKept, PTL DEF Spec

-----------------------------------------------------------------------------
(* What the rounds of the two loops keep.                                  *)
Typed ==
  /\ jet \in Jets /\ <<tau, tau_abs>> \in Tolerances /\ model_order \in 0..(N-1)
  /\ pc \in {"seed", "grow", "bisect", "done"}
  /\ axis \in 0..M /\ (pc # "done" => axis < M)
  /\ lo \in Nat /\ hi \in Nat /\ round \in Nat
  /\ (pc = "grow" => round <= Doublings) /\ (pc = "bisect" => round <= Halvings)
  /\ r \in [Axes -> Nat \cup {Infinity}]

(* The bracket is as wide as the halvings left will divide.                *)
Divisible ==
  /\ pc = "grow" => \E q \in Nat : hi = q * Grain
  /\ pc = "bisect" => \E q \in Nat : hi = lo + q * PowInt(2, Halvings + 1 - round)

(* The closed form of the leading term is met after one doubling.          *)
Leading(i) == Abs(Pure(jet, i, model_order + 1))
LeadingAt(i, x) == Leading(i) * PowInt(x, model_order + 1)
Seeded ==
  pc = "grow" /\ budget > 0 /\ Leading(axis) > 0 =>
    /\ LeadingAt(axis, 2 * hi) >= budget
    /\ round > 0 => LeadingAt(axis, hi) >= budget

(* The reach just found, with the bracket it was found in.                 *)
ErrorOf(i, x) == PureAxisError(jet, i, x, model_order)
GivenUp(i) ==
  /\ r[i] = Infinity /\ ErrorOf(i, hi) < budget
  /\ Doublings > 0 /\ budget > 0 /\ Leading(i) > 0 => LeadingAt(i, hi) >= budget
Bracketed(i) ==
  /\ r[i] \in lo..hi
  /\ lo = 0 \/ ErrorOf(i, lo) < budget
  /\ ~(ErrorOf(i, hi) < budget)
Reaches == Settled => GivenUp(axis - 1) \/ Bracketed(axis - 1)

RadiusInv == Typed /\ Divisible /\ BracketHolds /\ Seeded /\ Reaches

(* What the values of a typed state are.                                   *)
LEMMA TypedIs ==
  ASSUME Typed
  PROVE  /\ jet \in [Idx -> Int] /\ tau \in Nat /\ tau_abs \in Nat
         /\ model_order \in 0..N /\ model_order \in Nat /\ model_order + 1 \in Nat /\ model_order + 1 <= N
         /\ budget \in Nat
         /\ \A i \in Axes : Pure(jet, i, model_order + 1) \in Int /\ Leading(i) \in Nat
         /\ \A i \in Axes : \A x \in Nat : ErrorOf(i, x) \in Nat
         /\ axis \in 0..M /\ (axis < M => axis \in Axes) /\ (axis > 0 => axis - 1 \in Axes)
<1>1. jet \in [Idx -> Int] /\ tau \in Nat /\ tau_abs \in Nat
  BY InputAssumption DEF Typed
<1>2. N \in Nat /\ M \in Nat \ {0} /\ N > 0 /\ Axes = 0..(M-1)
  BY ShapeIs, InputAssumption DEF Axes
<1>3. model_order \in 0..N /\ model_order \in Nat /\ model_order + 1 \in Nat /\ model_order + 1 <= N
  BY <1>2 DEF Typed
<1>4. budget \in Nat
  BY <1>1, BudgetIn DEF budget
<1>5. \A i \in Axes : Pure(jet, i, model_order + 1) \in Int /\ Leading(i) \in Nat
  <2> TAKE i \in Axes
  <2>1. Pure(jet, i, model_order + 1) \in Int
    BY <1>1, <1>3, PureIn
  <2> QED  BY <2>1 DEF Leading, Abs
<1>6. \A i \in Axes : \A x \in Nat : ErrorOf(i, x) \in Nat
  BY <1>1, <1>3, ErrorIn DEF ErrorOf
<1>7. axis \in 0..M /\ (axis < M => axis \in Axes) /\ (axis > 0 => axis - 1 \in Axes)
  BY <1>2 DEF Typed
<1> QED  BY <1>1, <1>3, <1>4, <1>5, <1>6, <1>7

LEMMA SeedIs ==
  ASSUME Typed, axis \in Axes,
         NEW x \in SeedsOf(Abs(Pure(jet, axis, model_order + 1)), model_order + 1)
  PROVE  /\ x \in Nat /\ (\E q \in Nat : x = q * Grain)
         /\ budget > 0 /\ Leading(axis) > 0 => LeadingAt(axis, 2 * x) >= budget
<1> DEFINE c0 == Abs(Pure(jet, axis, model_order + 1))
<1>1. c0 = Leading(axis) /\ c0 \in Nat /\ budget \in Nat /\ model_order \in Nat
  BY TypedIs DEF Leading
<1>2. x \in SeedsOf(c0, model_order + 1)
  OBVIOUS
<1> HIDE DEF c0
<1>3. CASE c0 > 0 /\ budget > 0
  <2>1. x \in RootOf(c0, model_order + 1)
    BY <1>2, <1>3 DEF SeedsOf
  <2>2. c0 \in Nat \ {0}
    BY <1>1, <1>3
  <2>3. x \in Nat /\ (\E q \in Nat : x = q * Grain) /\ c0 * PowInt(2 * x, model_order + 1) >= budget
    BY <1>1, <1>3, <2>1, <2>2, RootIs
  <2> QED  BY <1>1, <2>3 DEF LeadingAt
<1>4. CASE c0 > 0 /\ ~(budget > 0)
  <2>1. budget = 0
    BY <1>1, <1>4
  <2>2. x = 0
    BY <1>2, <1>4, <2>1 DEF SeedsOf, RootOf
  <2>3. x = 0 * Grain
    BY <2>2, GrainIs
  <2>4. \E q \in Nat : x = q * Grain
    BY <2>3
  <2> QED  BY <1>4, <2>2, <2>4
<1>5. CASE ~(c0 > 0)
  <2>1. x = One
    BY <1>2, <1>5 DEF SeedsOf
  <2>2. One \in Nat /\ One % Grain = 0
    BY LoopAssumption
  <2>3. \E q \in Nat : One = q * Grain
    BY <2>2, GrainIs, MultipleIs
  <2> QED  BY <1>1, <1>5, <2>1, <2>2, <2>3
<1> QED  BY <1>3, <1>4, <1>5

(* The middle of the bracket, and of its width.                            *)
LEMMA MidIs ==
  ASSUME Typed, Divisible, pc = "bisect"
  PROVE  /\ Mid \in Nat /\ lo <= Mid /\ Mid <= hi
         /\ round < Halvings =>
              \E q \in Nat : /\ Mid = lo + q * PowInt(2, Halvings + 1 - (round + 1))
                             /\ hi = Mid + q * PowInt(2, Halvings + 1 - (round + 1))
<1>1. lo \in Nat /\ hi \in Nat /\ round \in Nat /\ round <= Halvings /\ Halvings \in Nat
  BY GrainIs DEF Typed
<1> DEFINE k == Halvings - round
           w == PowInt(2, Halvings + 1 - round)
<1>2. k \in Nat /\ Halvings + 1 - round = k + 1 /\ Halvings + 1 - (round + 1) = k
  BY <1>1
<1> HIDE DEF k
<1> DEFINE v == PowInt(2, k)
<1>3. v \in Nat /\ w = 2 * v
  BY <1>2, DoublingIs
<1>4. PICK q \in Nat : hi = lo + q * w
  BY DEF Divisible
<1> HIDE DEF v, w
<1> DEFINE u == q * v
<1>5. u \in Nat /\ q * w = 2 * u
  <2>1. u \in Nat
    BY <1>3
  <2>2. q * (2 * v) = 2 * (q * v)
    BY <1>3
  <2> QED  BY <1>3, <2>1, <2>2
<1> HIDE DEF u
<1>6. lo + hi = 2 * (lo + u) /\ lo + u \in Nat
  BY <1>1, <1>4, <1>5
<1>7. Mid = lo + u
  <2>1. (2 * (lo + u)) \div 2 = lo + u
    BY <1>6
  <2> QED  BY <1>6, <2>1 DEF Mid
<1>8. hi = Mid + u
  BY <1>1, <1>4, <1>5, <1>7
<1>9. Mid \in Nat /\ lo <= Mid /\ Mid <= hi
  BY <1>1, <1>5, <1>6, <1>7, <1>8
<1>10. Mid = lo + q * PowInt(2, Halvings + 1 - (round + 1)) /\ hi = Mid + q * PowInt(2, Halvings + 1 - (round + 1))
  BY <1>2, <1>7, <1>8 DEF u, v
<1> QED  BY <1>9, <1>10

LEMMA TypedKept == Typed /\ Divisible /\ [Next]_vars => Typed' /\ Divisible'
<1> SUFFICES ASSUME Typed, Divisible, [Next]_vars PROVE Typed' /\ Divisible'
  OBVIOUS
<1>1. /\ M \in Nat \ {0} /\ N \in Nat /\ Axes = 0..(M-1)
      /\ Doublings \in Nat /\ Halvings \in Nat
  BY ShapeIs, GrainIs DEF Axes
<1>2. ASSUME NEW reach \in Nat \cup {Infinity}, Settle(reach), axis < M, UNCHANGED <<args, lo, hi, round>>
      PROVE  Typed' /\ Divisible'
  <2>1. axis \in Nat /\ axis' = axis + 1 /\ axis \in Axes
    BY <1>1, <1>2 DEF Typed, Settle
  <2>2. axis' \in 0..M
    BY <1>1, <1>2, <2>1
  <2>3. pc' \in {"seed", "done"} /\ (pc' # "done" => axis' < M)
    BY <1>2 DEF Settle
  <2>4. r' \in [Axes -> Nat \cup {Infinity}]
    BY <1>2 DEF Settle, Typed
  <2>5. jet' = jet /\ tau' = tau /\ tau_abs' = tau_abs /\ model_order' = model_order
        /\ lo' = lo /\ hi' = hi /\ round' = round
    BY <1>2 DEF args
  <2>6. Typed'
    BY <2>2, <2>3, <2>4, <2>5 DEF Typed
  <2>7. Divisible'
    BY <2>3 DEF Divisible
  <2> QED  BY <2>6, <2>7
<1>3. CASE Seed
  <2>1. axis \in Axes /\ hi' \in SeedsOf(Abs(Pure(jet, axis, model_order + 1)), model_order + 1)
    BY <1>3, TypedIs DEF Seed, Typed
  <2>2. hi' \in Nat /\ \E q \in Nat : hi' = q * Grain
    BY <2>1, SeedIs
  <2>3. pc' = "grow" /\ round' = 0 /\ UNCHANGED <<args, axis, lo, r>> /\ pc # "done"
    BY <1>3 DEF Seed
  <2>4. Typed'
    BY <1>1, <2>2, <2>3 DEF Typed, args
  <2>5. Divisible'
    BY <2>2, <2>3 DEF Divisible
  <2> QED  BY <2>4, <2>5
<1>4. CASE Grow
  <2>1. /\ pc = "grow" /\ pc' = "grow" /\ round < Doublings /\ hi' = 2 * hi /\ round' = round + 1
        /\ UNCHANGED <<args, pc, axis, lo, r>>
    BY <1>4 DEF Grow
  <2>2. hi' \in Nat /\ round' \in Nat /\ round' <= Doublings
    BY <1>1, <2>1 DEF Typed
  <2>3. \E q \in Nat : hi' = q * Grain
    <3>1. PICK q \in Nat : hi = q * Grain
      BY <2>1 DEF Divisible
    <3> DEFINE G == Grain
    <3>2. G \in Nat
      BY GrainIs
    <3>3. hi' = (2 * q) * G
      <4> HIDE DEF G
      <4>1. (2 * q) * G = 2 * (q * G)
        BY <3>2
      <4>2. hi = q * G
        BY <3>1 DEF G
      <4> QED  BY <2>1, <4>1, <4>2
    <3>4. 2 * q \in Nat
      OBVIOUS
    <3> QED  BY <3>3, <3>4
  <2>4. Typed'
    BY <2>1, <2>2 DEF Typed, args
  <2>5. Divisible'
    BY <2>1, <2>3 DEF Divisible
  <2> QED  BY <2>4, <2>5
<1>5. CASE GiveUp
  <2>1. axis < M
    BY <1>5 DEF GiveUp, Typed
  <2> QED  BY <1>2, <1>5, <2>1 DEF GiveUp
<1>6. CASE Bracket
  <2>1. /\ pc = "grow" /\ lo' = 0 /\ round' = 0 /\ pc' = "bisect" /\ hi' = hi
        /\ UNCHANGED <<args, axis, hi, r>>
    BY <1>6 DEF Bracket
  <2>2. PICK q \in Nat : hi = q * Grain
    BY <2>1 DEF Divisible
  <2>3. Halvings + 1 - 0 = Halvings + 1 /\ q * Grain \in Nat /\ 0 + q * Grain = q * Grain
    BY <1>1, GrainIs
  <2>4. hi' = lo' + q * PowInt(2, Halvings + 1 - round')
    BY <2>1, <2>2, <2>3 DEF Grain
  <2>5. Typed'
    BY <1>1, <2>1 DEF Typed, args
  <2>6. Divisible'
    BY <2>1, <2>4 DEF Divisible
  <2> QED  BY <2>5, <2>6
<1>7. CASE Halve
  <2>1. /\ pc = "bisect" /\ pc' = "bisect" /\ round < Halvings /\ round' = round + 1
        /\ UNCHANGED <<args, pc, axis, r>>
        /\ (lo' = Mid /\ hi' = hi) \/ (hi' = Mid /\ lo' = lo)
    BY <1>7 DEF Halve
  <2>2. PICK q \in Nat : /\ Mid = lo + q * PowInt(2, Halvings + 1 - (round + 1))
                         /\ hi = Mid + q * PowInt(2, Halvings + 1 - (round + 1))
    BY <2>1, MidIs
  <2>3. Mid \in Nat /\ round \in Nat /\ round + 1 <= Halvings
    BY <1>1, <2>1, MidIs DEF Typed
  <2>4. Typed'
    BY <2>1, <2>3 DEF Typed, args
  <2>5. hi' = lo' + q * PowInt(2, Halvings + 1 - round')
    BY <2>1, <2>2
  <2>6. Divisible'
    BY <2>1, <2>5 DEF Divisible
  <2> QED  BY <2>4, <2>6
<1>8. CASE Return
  <2>1. axis < M /\ pc = "bisect" /\ Settle(Mid) /\ UNCHANGED <<args, lo, hi, round>>
    BY <1>8 DEF Return, Typed
  <2>2. Mid \in Nat
    BY <2>1, MidIs
  <2> QED  BY <1>2, <2>1, <2>2
<1>9. CASE Done \/ UNCHANGED vars
  BY <1>9 DEF Done, vars, args, Typed, Divisible
<1> QED  BY <1>3, <1>4, <1>5, <1>6, <1>7, <1>8, <1>9 DEF Next

(* The leading term meets the budget at the bracket, once it was doubled.  *)
LEMMA SeededKept == Typed /\ Seeded /\ [Next]_vars => Seeded'
<1> SUFFICES ASSUME Typed, Seeded, [Next]_vars PROVE Seeded'
  OBVIOUS
<1>1. CASE Seed
  <2>1. axis \in Axes /\ hi' \in SeedsOf(Abs(Pure(jet, axis, model_order + 1)), model_order + 1)
    BY <1>1, TypedIs DEF Seed, Typed
  <2>2. budget > 0 /\ Leading(axis) > 0 => LeadingAt(axis, 2 * hi') >= budget
    BY <2>1, SeedIs
  <2>3. round' = 0 /\ jet' = jet /\ tau' = tau /\ tau_abs' = tau_abs /\ model_order' = model_order /\ axis' = axis
    BY <1>1 DEF Seed, args
  <2>4. budget' = budget /\ Leading(axis)' = Leading(axis) /\ LeadingAt(axis, 2 * hi)' = LeadingAt(axis, 2 * hi')
    BY <2>3 DEF budget, Leading, LeadingAt
  <2> QED  BY <2>2, <2>3, <2>4 DEF Seeded
<1>2. CASE Grow
  <2>1. /\ pc = "grow" /\ hi' = 2 * hi /\ axis' = axis
        /\ jet' = jet /\ tau' = tau /\ tau_abs' = tau_abs /\ model_order' = model_order
    BY <1>2 DEF Grow, args
  <2>2. /\ budget' = budget /\ Leading(axis)' = Leading(axis)
        /\ LeadingAt(axis, hi)' = LeadingAt(axis, 2 * hi)
        /\ LeadingAt(axis, 2 * hi)' = LeadingAt(axis, 2 * (2 * hi))
    BY <2>1 DEF budget, Leading, LeadingAt
  <2>3. ASSUME budget > 0, Leading(axis) > 0
        PROVE  LeadingAt(axis, 2 * hi) >= budget /\ LeadingAt(axis, 2 * (2 * hi)) >= budget
    <3>1. LeadingAt(axis, 2 * hi) >= budget
      BY <2>1, <2>3 DEF Seeded
    <3> DEFINE x == 2 * hi
               y == 2 * (2 * hi)
               c == Leading(axis)
               u == PowInt(x, model_order + 1)
               v == PowInt(y, model_order + 1)
               b == budget
    <3>2. axis \in Axes /\ c \in Nat /\ model_order + 1 \in Nat /\ b \in Nat
      BY <2>1, TypedIs DEF Typed
    <3>3. x \in Nat /\ y \in Nat /\ x <= y
      BY DEF Typed
    <3>4. c * u >= b
      BY <3>1 DEF LeadingAt
    <3> HIDE DEF x, y, c, b
    <3>5. u \in Nat /\ v \in Nat /\ u <= v
      BY <3>2, <3>3, PowerGrows
    <3> HIDE DEF u, v
    <3>6. c * u <= c * v /\ c * u \in Nat /\ c * v \in Nat
      BY <3>2, <3>5
    <3>7. c * v >= b
      BY <3>2, <3>4, <3>6
    <3> QED  BY <3>1, <3>7 DEF LeadingAt, c, v, y, b
  <2> QED  BY <2>2, <2>3 DEF Seeded
<1>3. CASE GiveUp
  BY <1>3 DEF GiveUp, Settle, Seeded
<1>4. CASE Bracket
  BY <1>4 DEF Bracket, Seeded
<1>5. CASE Halve
  BY <1>5 DEF Halve, Seeded
<1>6. CASE Return
  BY <1>6 DEF Return, Settle, Seeded
<1>7. CASE Done \/ UNCHANGED vars
  <2>1. /\ jet' = jet /\ tau' = tau /\ tau_abs' = tau_abs /\ model_order' = model_order /\ axis' = axis
        /\ pc' = pc /\ hi' = hi /\ round' = round
    BY <1>7 DEF Done, vars, args
  <2> QED  BY <2>1 DEF Seeded, budget, Leading, LeadingAt
<1> QED  BY <1>1, <1>2, <1>3, <1>4, <1>5, <1>6, <1>7 DEF Next

(* The reach of an axis is written with the bracket it was found in.       *)
LEMMA ReachesKept ==
  Typed /\ Divisible /\ BracketHolds /\ Seeded /\ Reaches /\ [Next]_vars => Reaches'
<1> SUFFICES ASSUME Typed, Divisible, BracketHolds, Seeded, Reaches, [Next]_vars PROVE Reaches'
  OBVIOUS
<1>1. ASSUME NEW reach \in Nat \cup {Infinity}, Settle(reach), axis < M, UNCHANGED <<args, lo, hi, round>>
      PROVE  /\ axis \in Axes /\ axis' - 1 = axis /\ r'[axis] = reach /\ lo' = lo /\ hi' = hi
             /\ budget' = budget /\ Leading(axis - 1)' = Leading(axis)
             /\ LeadingAt(axis - 1, hi)' = LeadingAt(axis, hi)
             /\ ErrorOf(axis - 1, hi)' = ErrorOf(axis, hi) /\ ErrorOf(axis - 1, lo)' = ErrorOf(axis, lo)
  <2>1. axis \in Axes /\ axis \in Nat
    BY <1>1, TypedIs DEF Typed
  <2>2. axis' = axis + 1 /\ r' = [r EXCEPT ![axis] = reach]
    BY <1>1 DEF Settle
  <2>3. axis' - 1 = axis
    BY <2>1, <2>2
  <2>4. r'[axis] = reach
    BY <2>1, <2>2 DEF Typed
  <2>5. jet' = jet /\ tau' = tau /\ tau_abs' = tau_abs /\ model_order' = model_order /\ lo' = lo /\ hi' = hi
    BY <1>1 DEF args
  <2> QED  BY <2>1, <2>3, <2>4, <2>5 DEF budget, Leading, LeadingAt, ErrorOf
<1>2. CASE Seed
  BY <1>2 DEF Seed, Reaches, Settled
<1>3. CASE Grow
  BY <1>3 DEF Grow, Reaches, Settled
<1>4. CASE GiveUp
  <2>1. /\ pc = "grow" /\ Within(hi) /\ round >= Doublings /\ axis < M /\ Settle(Infinity)
        /\ UNCHANGED <<args, lo, hi, round>>
    BY <1>4 DEF GiveUp, Typed
  <2>2. Infinity \in Nat \cup {Infinity}
    OBVIOUS
  <2>3. /\ axis' - 1 = axis /\ r'[axis] = Infinity /\ budget' = budget /\ Leading(axis - 1)' = Leading(axis)
        /\ LeadingAt(axis - 1, hi)' = LeadingAt(axis, hi) /\ ErrorOf(axis - 1, hi)' = ErrorOf(axis, hi)
    BY <1>1, <2>1, <2>2
  <2>4. ErrorOf(axis, hi) < budget
    BY <2>1 DEF Within, AxisError, ErrorOf
  <2>5. Doublings > 0 /\ budget > 0 /\ Leading(axis) > 0 => LeadingAt(axis, hi) >= budget
    <3>1. Doublings > 0 => round > 0
      <4>1. Doublings \in Nat /\ round \in Nat
        BY GrainIs DEF Typed
      <4> QED  BY <2>1, <4>1
    <3> QED  BY <2>1, <3>1 DEF Seeded
  <2>6. GivenUp(axis - 1)'
    BY <2>3, <2>4, <2>5 DEF GivenUp
  <2> QED  BY <2>6 DEF Reaches
<1>5. CASE Bracket
  BY <1>5 DEF Bracket, Reaches, Settled
<1>6. CASE Halve
  BY <1>6 DEF Halve, Reaches, Settled
<1>7. CASE Return
  <2>1. pc = "bisect" /\ axis < M /\ Settle(Mid) /\ UNCHANGED <<args, lo, hi, round>>
    BY <1>7 DEF Return, Typed
  <2>2. Mid \in Nat /\ lo <= Mid /\ Mid <= hi
    BY <2>1, MidIs
  <2>3. Mid \in lo..hi
    <3>1. lo \in Nat /\ hi \in Nat
      BY DEF Typed
    <3> QED  BY <2>2, <3>1
  <2>4. /\ axis' - 1 = axis /\ r'[axis] = Mid /\ lo' = lo /\ hi' = hi /\ budget' = budget
        /\ ErrorOf(axis - 1, hi)' = ErrorOf(axis, hi) /\ ErrorOf(axis - 1, lo)' = ErrorOf(axis, lo)
    BY <1>1, <2>1, <2>2
  <2>5. (lo = 0 \/ ErrorOf(axis, lo) < budget) /\ ~(ErrorOf(axis, hi) < budget)
    BY <2>1 DEF BracketHolds, Within, AxisError, ErrorOf
  <2>6. Bracketed(axis - 1)'
    BY <2>3, <2>4, <2>5 DEF Bracketed
  <2> QED  BY <2>6 DEF Reaches
<1>8. CASE Done \/ UNCHANGED vars
  <2>1. /\ jet' = jet /\ tau' = tau /\ tau_abs' = tau_abs /\ model_order' = model_order /\ axis' = axis
        /\ pc' = pc /\ lo' = lo /\ hi' = hi /\ round' = round /\ r' = r
    BY <1>8 DEF Done, vars, args
  <2> QED  BY <2>1 DEF Reaches, Settled, GivenUp, Bracketed, budget, Leading, LeadingAt, ErrorOf
<1> QED  BY <1>2, <1>3, <1>4, <1>5, <1>6, <1>7, <1>8 DEF Next

LEMMA RadiusInvHolds == Spec => []RadiusInv
<1>1. Init => RadiusInv
  <2> SUFFICES ASSUME Init PROVE RadiusInv
    OBVIOUS
  <2>1. PICK t \in Tolerances : tau = t[1] /\ tau_abs = t[2]
    BY DEF Init
  <2>2. t \in Nat \X Nat
    BY InputAssumption
  <2>3. <<tau, tau_abs>> = t
    BY <2>1, <2>2
  <2>4. M \in Nat \ {0}
    BY ShapeIs
  <2>5. Typed
    BY <2>1, <2>3, <2>4 DEF Init, Typed
  <2>6. Divisible /\ BracketHolds /\ Seeded /\ Reaches
    BY DEF Init, Divisible, BracketHolds, Seeded, Reaches, Settled
  <2> QED  BY <2>5, <2>6 DEF RadiusInv
<1>2. RadiusInv /\ [Next]_vars => RadiusInv'
  BY TypedKept, BracketKept, SeededKept, ReachesKept DEF RadiusInv
<1> QED  BY <1>1, <1>2, PTL DEF Spec

-----------------------------------------------------------------------------
(* Arguments, brackets and reaches keep their types, and a bracket is as   *)
(* wide as the halvings left divide exactly: the middle is never rounded.  *)
THEOREM TypeCorrect == Spec => []TypeOK
<1>1. RadiusInv => TypeOK
  <2> SUFFICES ASSUME Typed, Divisible PROVE TypeOK
    BY DEF RadiusInv
  <2>1. round \in 0..(IF pc = "grow" THEN Doublings ELSE IF pc = "bisect" THEN Halvings ELSE round)
    BY GrainIs DEF Typed
  <2>2. ASSUME pc = "bisect"
        PROVE  lo <= hi /\ (hi - lo) % PowInt(2, Halvings + 1 - round) = 0
    <3> DEFINE p == PowInt(2, Halvings + 1 - round)
    <3>1. p \in Nat \ {0}
      <4>1. Halvings + 1 - round \in Nat
        BY <2>2, GrainIs DEF Typed
      <4> QED  BY <4>1, DoublingIs
    <3>2. PICK q \in Nat : hi = lo + q * p
      BY <2>2 DEF Divisible
    <3> HIDE DEF p
    <3>3. q * p \in Nat /\ lo \in Nat
      BY <3>1 DEF Typed
    <3>4. hi - lo = q * p /\ lo <= hi
      BY <3>2, <3>3
    <3>5. (q * p) % p = 0
      BY <3>1, <3>3, MultipleIs
    <3> QED  BY <3>4, <3>5 DEF p
  <2> QED  BY <2>1, <2>2 DEF Typed, TypeOK
<1> QED  BY <1>1, RadiusInvHolds, PTL

(* Where the error along an axis has terms of one sign, its reach is the   *)
(* largest trusted step: is_trusted accepts every step up to the bracket's *)
(* lower end and none above its upper end, for every number of variables,  *)
(* every order and every number of rounds.                                 *)
THEOREM ReachIsLargestHolds == Spec => []ReachIsLargest
<1>1. RadiusInv => ReachIsLargest
  <2> SUFFICES ASSUME RadiusInv, Settled, OneSign, budget > 0
               PROVE  IF r[axis - 1] = Infinity
                      THEN \A x \in 0..hi : TrustedAlong(x)
                      ELSE /\ r[axis - 1] \in lo..hi
                           /\ \A x \in 0..lo : TrustedAlong(x)
                           /\ \A x \in (hi + 1)..(hi + Grain) : ~TrustedAlong(x)
    BY DEF ReachIsLargest
  <2> DEFINE i == axis - 1
             E(x) == PureAxisError(jet, i, x, model_order)
  <2>1. /\ Typed /\ jet \in [Idx -> Int] /\ model_order \in 0..N /\ i \in Axes /\ budget \in Nat
        /\ lo \in Nat /\ hi \in Nat /\ Grain \in Nat
    BY TypedIs, GrainIs DEF RadiusInv, Settled, Typed
  <2>2. SameSign(jet, i, model_order)
    <3>1. \A d \in (model_order + 1)..N : Pure(jet, i, d) \in Int
      BY <2>1, PureTermsIn
    <3>2. \A d \in (model_order + 1)..N : Pure(jet, i, d) = 0 \/ d \in PureOrders
      BY DEF PureOrders
    <3> QED  BY <3>1, <3>2 DEF OneSign, SameSign
  <2>3. \A x \in Nat : (TrustedAlong(x) <=> E(x) <= budget) /\ E(x) \in Nat
    <3> TAKE x \in Nat
    <3>1. Along(x) = PureIndex(i, x)
      BY DEF Along, PureIndex
    <3>2. is_trusted(jet, PureIndex(i, x), tau, tau_abs, model_order) <=> E(x) <= budget
      BY <2>1, TrustedAlongIs DEF budget
    <3>3. E(x) \in Nat
      BY <2>1, ErrorIn
    <3> QED  BY <3>1, <3>2, <3>3 DEF TrustedAlong
  <2>4. \A x, y \in Nat : x <= y => E(x) <= E(y) /\ (x < y => E(x) = 0 \/ E(x) < E(y))
    BY <2>1, <2>2, ErrorGrows
  <2>5. GivenUp(i) \/ Bracketed(i)
    BY DEF RadiusInv, Reaches
  <2>6. E(0) = 0
    BY <2>1, ErrorAtZero
  <2>7. CASE GivenUp(i)
    <3>1. E(hi) < budget /\ r[i] = Infinity
      BY <2>7 DEF GivenUp, ErrorOf
    <3> HIDE DEF E, i
    <3>2. \A x \in 0..hi : TrustedAlong(x)
      <4> TAKE x \in 0..hi
      <4>1. x \in Nat /\ x <= hi
        BY <2>1
      <4>2. E(x) <= E(hi) /\ E(x) \in Nat /\ E(hi) \in Nat
        BY <2>1, <2>3, <2>4, <4>1
      <4>3. E(x) <= budget
        BY <2>1, <3>1, <4>2
      <4> QED  BY <2>3, <4>1, <4>3
    <3> QED  BY <3>1, <3>2 DEF i
  <2>8. CASE Bracketed(i)
    <3>1. r[i] \in lo..hi /\ (lo = 0 \/ E(lo) < budget) /\ ~(E(hi) < budget)
      BY <2>8 DEF Bracketed, ErrorOf
    <3>2. r[i] # Infinity
      <4>1. r[i] \in Nat
        BY <2>1, <3>1
      <4> QED  BY <4>1, InfinityAssumption
    <3> HIDE DEF E, i
    <3>3. \A x \in 0..lo : TrustedAlong(x)
      <4> TAKE x \in 0..lo
      <4>1. x \in Nat /\ x <= lo
        BY <2>1
      <4>2. E(x) <= E(lo) /\ E(x) \in Nat /\ E(lo) \in Nat
        BY <2>1, <2>3, <2>4, <4>1
      <4>3. E(lo) <= budget
        BY <2>1, <2>6, <3>1, <4>2
      <4>4. E(x) <= budget
        BY <2>1, <4>2, <4>3
      <4> QED  BY <2>3, <4>1, <4>4
    <3>4. \A x \in (hi + 1)..(hi + Grain) : ~TrustedAlong(x)
      <4> TAKE x \in (hi + 1)..(hi + Grain)
      <4>1. x \in Nat /\ hi <= x /\ hi < x
        BY <2>1
      <4>2. (E(hi) = 0 \/ E(hi) < E(x)) /\ E(hi) \in Nat /\ E(x) \in Nat
        BY <2>1, <2>3, <2>4, <4>1
      <4>3. E(x) > budget
        BY <2>1, <3>1, <4>2
      <4>4. ~(E(x) <= budget)
        BY <2>1, <4>2, <4>3
      <4> QED  BY <2>3, <4>1, <4>4
    <3> QED  BY <3>1, <3>2, <3>3, <3>4 DEF i
  <2> QED  BY <2>5, <2>7, <2>8
<1> QED  BY <1>1, RadiusInvHolds, PTL

(* An axis along which the model is exact has an infinite reach, and one   *)
(* where the leading term is the whole error never has: the closed form    *)
(* seeds the bracket so well that one doubling is enough.                  *)
THEOREM InfiniteWhereExactHolds == Spec => []InfiniteWhereExact
<1>1. RadiusInv => InfiniteWhereExact
  <2> SUFFICES ASSUME RadiusInv, Settled, budget > 0
               PROVE  /\ PureOrders = {} => r[axis - 1] = Infinity
                      /\ PureOrders = {model_order + 1} /\ Doublings > 0 => r[axis - 1] # Infinity
    BY DEF InfiniteWhereExact
  <2> DEFINE i == axis - 1
  <2>1. /\ Typed /\ jet \in [Idx -> Int] /\ model_order \in 0..(N-1) /\ i \in Axes /\ budget \in Nat
        /\ lo \in Nat /\ hi \in Nat /\ model_order \in Nat /\ model_order + 1 <= N
    BY TypedIs DEF RadiusInv, Settled, Typed
  <2>2. GivenUp(i) \/ Bracketed(i)
    BY DEF RadiusInv, Reaches
  <2>3. PureOrders = {d \in (model_order + 1)..N : Pure(jet, i, d) # 0}
    BY DEF PureOrders
  <2>4. ASSUME \A d \in (model_order + 2)..N : Pure(jet, i, d) = 0
        PROVE  /\ ErrorOf(i, hi) = LeadingAt(i, hi) /\ LeadingAt(i, hi) \in Nat
               /\ Pure(jet, i, model_order + 1) = 0 => ErrorOf(i, hi) = 0
    <3> DEFINE c == Leading(i)
               u == PowInt(hi, model_order + 1)
    <3>1. ErrorOf(i, hi) = c * u /\ u \in Nat /\ Pure(jet, i, model_order + 1) \in Int
      BY <2>1, <2>4, ErrorOfLeading DEF ErrorOf, Leading
    <3>2. c \in Nat /\ (Pure(jet, i, model_order + 1) = 0 => c = 0)
      BY <3>1 DEF Leading, Abs
    <3>3. LeadingAt(i, hi) = c * u
      BY DEF LeadingAt
    <3> HIDE DEF c, u
    <3>4. c * u \in Nat /\ (c = 0 => c * u = 0)
      BY <3>1, <3>2
    <3> QED  BY <3>1, <3>2, <3>3, <3>4
  <2>5. ASSUME PureOrders = {} PROVE r[i] = Infinity
    <3>1. \A d \in (model_order + 1)..N : Pure(jet, i, d) = 0
      BY <2>3, <2>5
    <3>2. model_order + 1 \in (model_order + 1)..N /\ (model_order + 2)..N \subseteq (model_order + 1)..N
      BY <2>1, ShapeIs
    <3>3. ErrorOf(i, hi) = 0
      BY <2>4, <3>1, <3>2
    <3>4. ~Bracketed(i)
      BY <2>1, <3>3 DEF Bracketed
    <3> QED  BY <2>2, <3>4 DEF GivenUp
  <2>6. ASSUME PureOrders = {model_order + 1}, Doublings > 0 PROVE r[i] # Infinity
    <3>1. /\ Pure(jet, i, model_order + 1) # 0
          /\ \A d \in (model_order + 2)..N : Pure(jet, i, d) = 0
      <4>1. Pure(jet, i, model_order + 1) # 0
        BY <2>3, <2>6
      <4>2. ASSUME NEW d \in (model_order + 2)..N, Pure(jet, i, d) # 0 PROVE FALSE
        <5>1. d \in (model_order + 1)..N /\ d # model_order + 1
          BY <2>1, ShapeIs
        <5>2. d \in PureOrders
          BY <2>3, <4>2, <5>1
        <5> QED  BY <2>6, <5>1, <5>2
      <4> QED  BY <4>1, <4>2
    <3>2. Leading(i) > 0
      <4>1. Pure(jet, i, model_order + 1) \in Int
        BY <2>1, TypedIs
      <4> QED  BY <3>1, <4>1 DEF Leading, Abs
    <3>3. ErrorOf(i, hi) = LeadingAt(i, hi) /\ LeadingAt(i, hi) \in Nat
      BY <2>4, <3>1
    <3>4. ~GivenUp(i)
      BY <2>1, <2>6, <3>2, <3>3 DEF GivenUp
    <3>5. r[i] \in Nat
      BY <2>1, <2>2, <3>4 DEF Bracketed
    <3> QED  BY <3>5, InfinityAssumption
  <2> QED  BY <2>5, <2>6
<1> QED  BY <1>1, RadiusInvHolds, PTL

(* Prediction and truncation error make up the polynomial whose dense      *)
(* multi-indices the layout stands for: the sparse monomials lose nothing, *)
(* and no coefficient is in both bands or in neither.                      *)
THEOREM PredictionPlusErrorHolds == Spec => []PredictionPlusError
<1>1. ASSUME NEW c \in [Idx -> Int], NEW h \in [Axes -> Int]
      PROVE  SumFunction([x \in Idx |-> c[x] * ProductOf([p \in Axes |-> PowInt(h[p], AlphaAt[x][p])])])
               = Sums!Fold(Terms(c, h), Idx)
  <2> DEFINE f == [x \in Idx |-> c[x] * ProductOf([p \in Axes |-> PowInt(h[p], AlphaAt[x][p])])]
  <2>1. SumFunction(f) = Sums!Fold(f, Idx)
    <3>1. DOMAIN f = Idx
      OBVIOUS
    <3> HIDE DEF f
    <3> QED  BY <3>1, SumIs
  <2>2. \A x \in Idx : f[x] = Terms(c, h)[x]
    <3> TAKE x \in Idx
    <3>1. f[x] = c[x] * ProductOf(PowersAt(h, x))
      BY DEF PowersAt
    <3>2. ProductOf(PowersAt(h, x)) = MonomialAt(h, x)
      <4>1. DOMAIN PowersAt(h, x) = Axes
        BY DEF PowersAt
      <4> QED  BY <4>1, ProductIs, MonomialIs
    <3> QED  BY <3>1, <3>2, TermsIn
  <2>3. Sums!Fold(Terms(c, h), Idx) = Sums!Fold(f, Idx)
    <3>1. Sums!ValuesOn(Terms(c, h), Idx) /\ Sums!IsFiniteSet(Idx)
      BY TermsIn, FiniteForSums DEF Sums!ValuesOn
    <3> HIDE DEF f
    <3> QED  BY <2>2, <3>1, SumsLaws, Sums!FoldSame
  <2> QED  BY <2>1, <2>3
<1>2. RadiusInv => PredictionPlusError
  <2> SUFFICES ASSUME RadiusInv, NEW h \in SmallSteps
               PROVE  evaluate(jet, h, model_order) + truncation_error(jet, h, model_order) = Polynomial(h)
    BY DEF PredictionPlusError
  <2>1. jet \in [Idx -> Int] /\ model_order \in 0..N
    BY TypedIs DEF RadiusInv
  <2>2. h \in [Axes -> Int]
    BY DEF SmallSteps
  <2>3. Polynomial(h) = Sums!Fold(Terms(jet, h), Idx)
    BY <1>1, <2>1, <2>2 DEF Polynomial
  <2> QED  BY <2>1, <2>2, <2>3, PartsMakeWhole
<1> QED  BY <1>2, RadiusInvHolds, PTL

-----------------------------------------------------------------------------
(* The gradient.  A power to first order in a step d of its base.          *)
Slope(b, e) == IF e = 0 THEN 0 ELSE e * PowInt(b, e - 1)

LEMMA ProductExpands ==
  ASSUME NEW b \in Int, NEW d \in Int, NEW p \in Int, NEW s \in Int, NEW q \in Int
  PROVE  /\ q * b + q * d + s \in Int
         /\ (p + d * s + q * (d * d)) * (b + d) = p * b + d * (p + s * b) + (q * b + q * d + s) * (d * d)
<1> DEFINE dd == d * d
<1>1. dd \in Int /\ d * s \in Int /\ q * dd \in Int /\ p + d * s + q * dd \in Int
  OBVIOUS
<1>2. (p + d * s + q * dd) * (b + d) = (p + d * s + q * dd) * b + (p + d * s + q * dd) * d
  BY <1>1
<1>3. (p + d * s + q * dd) * b = p * b + d * (s * b) + (q * b) * dd
  BY <1>1
<1>4. (p + d * s + q * dd) * d = d * p + s * dd + (q * d) * dd
  BY <1>1
<1>5. d * (p + s * b) = d * p + d * (s * b)
  OBVIOUS
<1>6. (q * b + q * d + s) * dd = (q * b) * dd + (q * d) * dd + s * dd
  BY <1>1
<1>7. /\ p * b \in Int /\ d * (s * b) \in Int /\ (q * b) * dd \in Int /\ d * p \in Int /\ s * dd \in Int
      /\ (q * d) * dd \in Int /\ q * b + q * d + s \in Int
  BY <1>1
<1> HIDE DEF dd
<1> QED  BY <1>2, <1>3, <1>4, <1>5, <1>6, <1>7 DEF dd

LEMMA PowerExpands ==
  ASSUME NEW b \in Int, NEW d \in Int, NEW e \in Nat
  PROVE  /\ Slope(b, e) \in Int
         /\ \E q \in Int : PowInt(b + d, e) = PowInt(b, e) + d * Slope(b, e) + q * (d * d)
<1> DEFINE P(k) == /\ Slope(b, k) \in Int
                   /\ \E q \in Int : PowInt(b + d, k) = PowInt(b, k) + d * Slope(b, k) + q * (d * d)
           T == {k \in Nat : P(k)}
<1>1. 0 \in T
  <2>1. PowInt(b, 0) = 1 /\ PowInt(b + d, 0) = 1 /\ Slope(b, 0) = 0
    <3>1. b + d \in Int
      OBVIOUS
    <3> QED  BY <3>1, PowIntIs DEF Slope
  <2>2. 1 = 1 + d * 0 + 0 * (d * d)
    OBVIOUS
  <2> QED  BY <2>1, <2>2
<1>2. ASSUME NEW k \in Nat, k \in T PROVE k + 1 \in T
  <2> DEFINE p == PowInt(b, k)
             s == Slope(b, k)
  <2>1. PICK q \in Int : PowInt(b + d, k) = p + d * s + q * (d * d)
    BY <1>2
  <2>2. s \in Int /\ p \in Int
    BY <1>2, PowIntIs
  <2>3. PowInt(b, k + 1) = p * b /\ PowInt(b + d, k + 1) = PowInt(b + d, k) * (b + d)
    <3>1. b + d \in Int
      OBVIOUS
    <3> QED  BY <3>1, PowIntIs
  <2>4. Slope(b, k + 1) = p + s * b
    <3>1. Slope(b, k + 1) = (k + 1) * p
      <4>1. k + 1 # 0 /\ (k + 1) - 1 = k
        OBVIOUS
      <4> QED  BY <4>1 DEF Slope
    <3>2. s * b = k * p
      <4>1. CASE k = 0
        BY <2>2, <4>1 DEF Slope
      <4>2. CASE k # 0
        <5> DEFINE u == PowInt(b, k - 1)
        <5>1. k - 1 \in Nat /\ (k - 1) + 1 = k
          BY <4>2
        <5>2. u \in Int /\ p = u * b
          BY <5>1, PowIntIs
        <5>3. s = k * u
          BY <4>2 DEF Slope
        <5> HIDE DEF u, p, s
        <5>4. (k * u) * b = k * (u * b)
          BY <5>2
        <5> QED  BY <5>2, <5>3, <5>4
      <4> QED  BY <4>1, <4>2
    <3> HIDE DEF p, s
    <3>3. (k + 1) * p = p + k * p
      BY <2>2
    <3> QED  BY <3>1, <3>2, <3>3
  <2> HIDE DEF p, s
  <2> DEFINE z == q * b + q * d + s
  <2>5. z \in Int /\ PowInt(b + d, k + 1) = p * b + d * (p + s * b) + z * (d * d)
    BY <2>1, <2>2, <2>3, ProductExpands
  <2>6. p + s * b \in Int
    BY <2>2
  <2> HIDE DEF z
  <2>7. Slope(b, k + 1) \in Int /\ PowInt(b + d, k + 1) = PowInt(b, k + 1) + d * Slope(b, k + 1) + z * (d * d)
    BY <2>3, <2>4, <2>5, <2>6
  <2>8. P(k + 1)
    BY <2>5, <2>7
  <2> HIDE DEF P
  <2> QED  BY <2>8
<1> HIDE DEF T
<1>3. Nat \subseteq T
  BY <1>1, <1>2, Sums!NatInductionOn
<1>4. e \in T
  BY <1>3
<1> QED  BY <1>4 DEF T

Moved(h, i, d) == [h EXCEPT ![i] = @ + d]

(* A monomial to first order in a step of one variable: only the factor of *)
(* that variable moves, and PartialAt is what the step is multiplied by.   *)
LEMMA TermExpands ==
  ASSUME NEW c \in [Idx -> Int], NEW h \in [Axes -> Int], NEW i \in Axes, NEW d \in Int, NEW x \in Idx
  PROVE  /\ PartialAt(c, h, i, x) \in Int
         /\ \E q \in Int :
              Terms(c, Moved(h, i, d))[x] = Terms(c, h)[x] + d * PartialAt(c, h, i, x) + q * (d * d)
<1> DEFINE s == SparseAt[x]
           D == DOMAIN s
           k == Moved(h, i, d)
           f == [w \in D |-> PowInt(h[s[w].pos], s[w].exp)]
           g == [w \in D |-> PowInt(k[s[w].pos], s[w].exp)]
           here == {t \in D : s[t].pos = i}
           part == [t \in here |-> c[x] * s[t].exp * DMonomialAt(h, x, t)]
<1>1. /\ IsFiniteSet(D) /\ Mul!IsFiniteSet(D)
      /\ \A t \in D : s[t].pos \in Axes /\ s[t].exp \in Nat \ {0}
      /\ \A t, u \in D : s[t].pos = s[u].pos => t = u
  BY SparseEntries, FiniteForMul
<1>2. k \in [Axes -> Int] /\ k[i] = h[i] + d /\ \A p \in Axes : p # i => k[p] = h[p]
  BY DEF Moved
<1>3. /\ MonomialAt(h, x) = Mul!Fold(f, D) /\ MonomialAt(k, x) = Mul!Fold(g, D)
      /\ MonomialAt(h, x) \in Int /\ MonomialAt(k, x) \in Int
  <2>1. MonomialAt(h, x) = ProductOf(f) /\ MonomialAt(k, x) = ProductOf(g)
    BY DEF MonomialAt
  <2>2. DOMAIN f = D /\ DOMAIN g = D
    OBVIOUS
  <2>3. MonomialAt(h, x) \in Int /\ MonomialAt(k, x) \in Int
    BY <1>2, MonomialIs
  <2> HIDE DEF f, g, D, k
  <2>4. ProductOf(f) = Mul!Fold(f, D) /\ ProductOf(g) = Mul!Fold(g, D)
    BY <2>2, ProductIs
  <2> QED  BY <2>1, <2>3, <2>4
<1>4. PartialAt(c, h, i, x) = Sums!Fold(part, here)
  <2>1. PartialAt(c, h, i, x) = SumFunction(part)
    BY DEF PartialAt
  <2>2. DOMAIN part = here
    OBVIOUS
  <2> HIDE DEF part, here
  <2> QED  BY <2>1, <2>2, SumIs
<1>5. /\ Terms(c, h)[x] = c[x] * MonomialAt(h, x) /\ Terms(c, k)[x] = c[x] * MonomialAt(k, x)
      /\ c[x] \in Int
  BY <1>2, TermsIn
<1>6. /\ \A w \in D : f[w] = PowInt(h[s[w].pos], s[w].exp) /\ f[w] \in Int
      /\ \A w \in D : g[w] = PowInt(k[s[w].pos], s[w].exp) /\ g[w] \in Int
      /\ \A w \in D : s[w].pos # i => g[w] = f[w]
  <2>1. ASSUME NEW w \in D
        PROVE  /\ f[w] = PowInt(h[s[w].pos], s[w].exp) /\ f[w] \in Int
               /\ g[w] = PowInt(k[s[w].pos], s[w].exp) /\ g[w] \in Int
               /\ s[w].pos # i => g[w] = f[w]
    <3>1. f[w] = PowInt(h[s[w].pos], s[w].exp) /\ g[w] = PowInt(k[s[w].pos], s[w].exp)
      OBVIOUS
    <3>2. h[s[w].pos] \in Int /\ k[s[w].pos] \in Int /\ s[w].exp \in Nat
      BY <1>1, <1>2
    <3>3. PowInt(h[s[w].pos], s[w].exp) \in Int /\ PowInt(k[s[w].pos], s[w].exp) \in Int
      BY <3>2, PowIntIs
    <3>4. s[w].pos # i => k[s[w].pos] = h[s[w].pos]
      BY <1>1, <1>2
    <3> QED  BY <3>1, <3>3, <3>4
  <2> QED  BY <2>1
<1>7. CASE here = {}
  <2>1. PartialAt(c, h, i, x) = 0
    BY <1>4, <1>7, SumsLaws, Sums!FoldEmpty
  <2>2. MonomialAt(k, x) = MonomialAt(h, x)
    <3>1. \A w \in D : f[w] = g[w]
      BY <1>6, <1>7
    <3>2. Mul!ValuesOn(f, D)
      BY <1>6 DEF Mul!ValuesOn
    <3> HIDE DEF f, g, D, k
    <3> QED  BY <1>1, <1>3, <3>1, <3>2, MulLaws, Mul!FoldSame
  <2> DEFINE y == Terms(c, h)[x]
  <2>3. y \in Int /\ Terms(c, k)[x] = y
    BY <1>5, <2>2, TermsIn
  <2> HIDE DEF y, k
  <2>4. y = y + d * 0 + 0 * (d * d)
    BY <2>3
  <2>5. Terms(c, k)[x] = Terms(c, h)[x] + d * PartialAt(c, h, i, x) + 0 * (d * d)
    BY <2>1, <2>3, <2>4 DEF y
  <2> QED  BY <2>1, <2>5 DEF k
<1>8. CASE here # {}
  <2>1. PICK t \in D : s[t].pos = i
    BY <1>8
  <2>2. here = {t}
    BY <1>1, <2>1
  <2> DEFINE e == s[t].exp
             R == Mul!Fold(f, D \ {t})
             j == [w \in D |-> PowInt(h[s[w].pos], s[w].exp - (IF w = t THEN 1 ELSE 0))]
             u == PowInt(h[i], e - 1)
             p == PowInt(h[i], e)
  <2>3. e \in Nat /\ e - 1 \in Nat /\ e # 0
    BY <1>1, <2>1
  <2>4. u \in Int /\ p \in Int /\ h[i] \in Int
    BY <2>3, PowIntIs
  <2>5. PICK q \in Int : PowInt(h[i] + d, e) = p + d * (e * u) + q * (d * d)
    <3>1. \E q \in Int : PowInt(h[i] + d, e) = p + d * Slope(h[i], e) + q * (d * d)
      BY <2>3, <2>4, PowerExpands
    <3>2. Slope(h[i], e) = e * u
      BY <2>3 DEF Slope
    <3> QED  BY <3>1, <3>2
  <2>6. IsFiniteSet(D \ {t}) /\ Mul!IsFiniteSet(D \ {t})
    <3>1. IsFiniteSet(D \ {t})
      BY <1>1, FS_Subset
    <3> QED  BY <3>1, FiniteForMul
  <2>7. /\ \A w \in D \ {t} : g[w] = f[w] /\ j[w] = f[w] /\ f[w] \in Int
        /\ f[t] = p /\ g[t] = PowInt(h[i] + d, e) /\ j[t] = u
    <3>1. \A w \in D \ {t} : g[w] = f[w] /\ f[w] \in Int
      BY <1>1, <1>6, <2>1
    <3>2. \A w \in D \ {t} : j[w] = f[w]
      <4> TAKE w \in D \ {t}
      <4>1. s[w].exp \in Nat
        BY <1>1
      <4>2. s[w].exp - 0 = s[w].exp
        BY <4>1
      <4> QED  BY <4>2
    <3>3. f[t] = p /\ g[t] = PowInt(h[i] + d, e) /\ j[t] = u
      BY <1>2, <1>6, <2>1
    <3> QED  BY <3>1, <3>2, <3>3
  <2>8. DMonomialAt(h, x, t) = Mul!Fold(j, D)
    <3>1. DMonomialAt(h, x, t) = ProductOf(j) /\ DOMAIN j = D
      BY DEF DMonomialAt
    <3> HIDE DEF j, D
    <3> QED  BY <3>1, ProductIs
  <2> HIDE DEF j
  <2>9. /\ MonomialAt(h, x) = p * R /\ MonomialAt(k, x) = PowInt(h[i] + d, e) * R
        /\ DMonomialAt(h, x, t) = u * R /\ R \in Int
    <3> HIDE DEF f, g, D, k, u, p
    <3>1. \A w \in D : f[w] \in Int /\ g[w] \in Int /\ j[w] \in Int
      BY <1>6, <2>4, <2>7
    <3>2. Mul!ValuesOn(f, D) /\ Mul!ValuesOn(g, D) /\ Mul!ValuesOn(j, D) /\ Mul!ValuesOn(f, D \ {t})
      BY <3>1 DEF Mul!ValuesOn
    <3>3. /\ Mul!Fold(f, D) = f[t] * Mul!Fold(f, D \ {t})
          /\ Mul!Fold(g, D) = g[t] * Mul!Fold(g, D \ {t})
          /\ Mul!Fold(j, D) = j[t] * Mul!Fold(j, D \ {t})
      BY <1>1, <2>1, <3>2, MulLaws, Mul!FoldTake
    <3>4. Mul!Fold(f, D \ {t}) = Mul!Fold(g, D \ {t}) /\ Mul!Fold(f, D \ {t}) = Mul!Fold(j, D \ {t})
      BY <2>6, <2>7, <3>2, MulLaws, Mul!FoldSame
    <3>5. Mul!Fold(f, D \ {t}) \in Int
      BY <2>6, <3>2, MulLaws, Mul!FoldType
    <3> QED  BY <1>3, <2>7, <2>8, <3>3, <3>4, <3>5
  <2>10. PartialAt(c, h, i, x) = c[x] * e * (u * R)
    <3>1. part[t] = c[x] * e * DMonomialAt(h, x, t)
      BY <2>1
    <3>2. c[x] * e * (u * R) \in Int
      <4> HIDE DEF u, R, e
      <4> QED  BY <1>5, <2>3, <2>4, <2>9
    <3>3. part[t] = c[x] * e * (u * R)
      BY <2>9, <3>1
    <3> HIDE DEF part, here, u, R, e
    <3>4. Sums!Fold(part, {t}) = part[t]
      BY <3>2, <3>3, SumsLaws, Sums!FoldSingleton
    <3> QED  BY <1>4, <2>2, <3>3, <3>4
  <2> DEFINE v == c[x]
  <2>11. v \in Int
    BY <1>5
  <2> HIDE DEF k, u, p, R, e, v
  <2>12. v * e * (u * R) \in Int
    BY <2>3, <2>4, <2>9, <2>11
  <2>13. v * ((p + d * (e * u) + q * (d * d)) * R) = v * (p * R) + d * (v * e * (u * R)) + (v * (q * R)) * (d * d)
    <3> DEFINE dd == d * d
               eu == e * u
    <3>1. dd \in Int /\ eu \in Int /\ R \in Int /\ p \in Int /\ q \in Int
      BY <2>3, <2>4, <2>9
    <3>2. v * e * (u * R) = v * (eu * R)
      BY <2>3, <2>4, <2>9, <2>11
    <3> HIDE DEF dd, eu
    <3>3. (p + d * eu + q * dd) * R = p * R + d * (eu * R) + (q * R) * dd
      BY <3>1
    <3> DEFINE a == p * R
               b == eu * R
               r0 == q * R
    <3>4. a \in Int /\ b \in Int /\ r0 \in Int
      BY <3>1
    <3> HIDE DEF a, b, r0
    <3>5. v * (a + d * b + r0 * dd) = v * a + d * (v * b) + (v * r0) * dd
      BY <2>11, <3>1, <3>4
    <3> QED  BY <3>2, <3>3, <3>5 DEF a, b, r0, dd, eu
  <2>14. Terms(c, k)[x] = Terms(c, h)[x] + d * PartialAt(c, h, i, x) + (v * (q * R)) * (d * d)
    BY <1>5, <2>5, <2>9, <2>10, <2>13 DEF v
  <2>15. v * (q * R) \in Int
    BY <2>9, <2>11
  <2>16. PartialAt(c, h, i, x) \in Int
    BY <2>10, <2>12 DEF v
  <2> QED  BY <2>14, <2>15, <2>16 DEF k
<1> QED  BY <1>7, <1>8

(* Sums of what expands expand.                                            *)
Expanding(f, g, s, S, d) ==
  \A x \in S : /\ f[x] \in Int /\ g[x] \in Int /\ s[x] \in Int
               /\ \E q \in Int : g[x] = f[x] + d * s[x] + q * (d * d)
SumExpanding(f, g, s, S, d) ==
  /\ Sums!Fold(f, S) \in Int /\ Sums!Fold(s, S) \in Int
  /\ \E q \in Int : Sums!Fold(g, S) = Sums!Fold(f, S) + d * Sums!Fold(s, S) + q * (d * d)

LEMMA SumExpands ==
  ASSUME NEW S, IsFiniteSet(S), NEW d \in Int, NEW f, NEW g, NEW s, Expanding(f, g, s, S, d)
  PROVE  SumExpanding(f, g, s, S, d)
<1> DEFINE F == {T \in SUBSET S : SumExpanding(f, g, s, T, d)}
<1>1. {} \in F
  <2>1. Sums!Fold(f, {}) = 0 /\ Sums!Fold(g, {}) = 0 /\ Sums!Fold(s, {}) = 0
    BY SumsLaws, Sums!FoldEmpty
  <2>2. Sums!Fold(g, {}) = Sums!Fold(f, {}) + d * Sums!Fold(s, {}) + 0 * (d * d)
    BY <2>1
  <2>3. SumExpanding(f, g, s, {}, d)
    BY <2>1, <2>2 DEF SumExpanding
  <2> QED  BY <2>3
<1>2. ASSUME NEW T \in SUBSET S, NEW x \in S \ T, T \in F PROVE T \cup {x} \in F
  <2> DEFINE a == Sums!Fold(f, T)
             b == Sums!Fold(s, T)
  <2>1. /\ Sums!IsFiniteSet(T)
        /\ Sums!ValuesOn(f, T \cup {x}) /\ Sums!ValuesOn(g, T \cup {x}) /\ Sums!ValuesOn(s, T \cup {x})
    <3>1. Sums!IsFiniteSet(T)
      BY FS_Subset, FiniteForSums
    <3> QED  BY <3>1 DEF Expanding, Sums!ValuesOn
  <2>2. /\ Sums!Fold(f, T \cup {x}) = f[x] + a
        /\ Sums!Fold(g, T \cup {x}) = g[x] + Sums!Fold(g, T)
        /\ Sums!Fold(s, T \cup {x}) = s[x] + b
    BY <2>1, SumsLaws, Sums!FoldAdd
  <2>3. a \in Int /\ b \in Int /\ \E q \in Int : Sums!Fold(g, T) = a + d * b + q * (d * d)
    BY <1>2 DEF SumExpanding
  <2>4. PICK q \in Int : Sums!Fold(g, T) = a + d * b + q * (d * d)
    BY <2>3
  <2>5. PICK z \in Int : g[x] = f[x] + d * s[x] + z * (d * d)
    BY DEF Expanding
  <2>6. f[x] \in Int /\ s[x] \in Int
    BY DEF Expanding
  <2> HIDE DEF a, b
  <2> DEFINE fx == f[x]
             sx == s[x]
             dd == d * d
  <2>7. fx \in Int /\ sx \in Int /\ dd \in Int
    BY <2>6
  <2> HIDE DEF fx, sx, dd
  <2>8. (fx + d * sx + z * dd) + (a + d * b + q * dd) = (fx + a) + d * (sx + b) + (z + q) * dd
    BY <2>3, <2>7
  <2>9. z + q \in Int /\ fx + a \in Int /\ sx + b \in Int
    BY <2>3, <2>7
  <2>10. Sums!Fold(g, T \cup {x}) = Sums!Fold(f, T \cup {x}) + d * Sums!Fold(s, T \cup {x}) + (z + q) * (d * d)
    BY <2>2, <2>4, <2>5, <2>8 DEF fx, sx, dd
  <2>11. Sums!Fold(f, T \cup {x}) \in Int /\ Sums!Fold(s, T \cup {x}) \in Int
    BY <2>2, <2>9 DEF fx, sx
  <2>12. SumExpanding(f, g, s, T \cup {x}, d)
    BY <2>9, <2>10, <2>11 DEF SumExpanding
  <2> QED  BY <2>12
<1> HIDE DEF F
<1>3. SUBSET S \subseteq F
  BY <1>1, <1>2, FiniteForSums, Sums!SetInductionOn
<1>4. S \in F
  BY <1>3
<1> QED  BY <1>4 DEF F

(* The truncation error to first order in a step of one variable: what     *)
(* error_sensitivity returns is its derivative there, for every jet, order *)
(* and step.                                                               *)
THEOREM ErrorExpands ==
  ASSUME NEW c \in [Idx -> Int], NEW h \in [Axes -> Int], NEW m \in 0..N, NEW i \in Axes, NEW d \in Int
  PROVE  /\ error_sensitivity(c, h, m)[i] \in Int /\ truncation_error(c, h, m) \in Int
         /\ \E q \in Int :
              truncation_error(c, Moved(h, i, d), m)
                = truncation_error(c, h, m) + d * error_sensitivity(c, h, m)[i] + q * (d * d)
<1> DEFINE S == {x \in Idx : OrderAt[x] \in (m + 1)..N}
           f == Terms(c, h)
           g == Terms(c, Moved(h, i, d))
           s == [x \in Idx |-> PartialAt(c, h, i, x)]
<1>1. Moved(h, i, d) \in [Axes -> Int]
  BY DEF Moved
<1>2. truncation_error(c, h, m) = Sums!Fold(f, S) /\ truncation_error(c, Moved(h, i, d), m) = Sums!Fold(g, S)
  <2>1. /\ truncation_error(c, h, m) = SumFunctionOnSet(f, S)
        /\ truncation_error(c, Moved(h, i, d), m) = SumFunctionOnSet(g, S)
    BY DEF truncation_error, BandSum
  <2> QED  BY <2>1, SumOnIs
<1>3. {x \in Idx : OrderAt[x] > m} = S
  <2>1. \A x \in Idx : OrderAt[x] \in 0..N
    BY IndexAt
  <2>2. N \in Nat /\ m \in Nat
    BY ShapeIs
  <2>3. \A o \in 0..N : o > m <=> o \in (m + 1)..N
    BY <2>2
  <2> QED  BY <2>1, <2>3
<1>4. error_sensitivity(c, h, m)[i] = Sums!Fold(s, S)
  <2>1. error_sensitivity(c, h, m)[i] = SumFunctionOnSet(s, {x \in Idx : OrderAt[x] > m})
    BY DEF error_sensitivity
  <2> HIDE DEF s, S
  <2> QED  BY <1>3, <2>1, SumOnIs
<1>5. \A x \in S : f[x] \in Int /\ g[x] \in Int /\ s[x] \in Int
  <2> TAKE x \in S
  <2>1. s[x] = PartialAt(c, h, i, x) /\ x \in Idx
    OBVIOUS
  <2>2. f[x] \in Int /\ g[x] \in Int
    BY <1>1, TermsIn
  <2> QED  BY <2>1, <2>2, TermExpands
<1>6. \A x \in S : \E q \in Int : g[x] = f[x] + d * s[x] + q * (d * d)
  <2> TAKE x \in S
  <2>1. s[x] = PartialAt(c, h, i, x) /\ x \in Idx
    OBVIOUS
  <2>2. \E q \in Int : g[x] = f[x] + d * PartialAt(c, h, i, x) + q * (d * d)
    BY TermExpands
  <2> QED  BY <2>1, <2>2
<1>7. IsFiniteSet(S)
  <2>1. IsFiniteSet(Idx) /\ S \subseteq Idx
    BY TermsIn
  <2> HIDE DEF S
  <2> QED  BY <2>1, FS_Subset
<1> HIDE DEF S, f, g, s
<1>8. SumExpanding(f, g, s, S, d)
  <2>1. Expanding(f, g, s, S, d)
    BY <1>5, <1>6 DEF Expanding
  <2> QED  BY <1>7, <2>1, SumExpands
<1> QED  BY <1>2, <1>4, <1>8 DEF SumExpanding

(* The sensitivity is the gradient of the error, mixed terms included, for *)
(* every jet, order of the model and number of variables.                  *)
THEOREM SensitivityIsGradientHolds == Spec => []SensitivityIsGradient
<1>1. RadiusInv => SensitivityIsGradient
  <2> SUFFICES ASSUME RadiusInv, NEW h \in SmallSteps, NEW i \in Axes, NEW d \in Offsets
               PROVE  (truncation_error(jet, [h EXCEPT ![i] = @ + d], model_order)
                         - truncation_error(jet, [h EXCEPT ![i] = @ + 0], model_order)
                         - d * error_sensitivity(jet, h, model_order)[i]) % (d * d) = 0
    BY DEF SensitivityIsGradient
  <2>1. jet \in [Idx -> Int] /\ model_order \in 0..N
    BY TypedIs DEF RadiusInv
  <2>2. h \in [Axes -> Int] /\ d \in Int /\ d # 0
    BY DEF SmallSteps, Offsets
  <2>3. [h EXCEPT ![i] = @ + 0] = h
    BY <2>2
  <2> DEFINE a == truncation_error(jet, h, model_order)
             b == error_sensitivity(jet, h, model_order)[i]
             z == truncation_error(jet, [h EXCEPT ![i] = @ + d], model_order)
  <2>4. a \in Int /\ b \in Int /\ \E q \in Int : z = a + d * b + q * (d * d)
    BY <2>1, <2>2, ErrorExpands DEF Moved
  <2>5. PICK q \in Int : z = a + d * b + q * (d * d)
    BY <2>4
  <2> HIDE DEF a, b, z
  <2>6. z - a - d * b = q * (d * d)
    <3> DEFINE u == d * b
               v == q * (d * d)
    <3>1. u \in Int /\ v \in Int
      BY <2>2, <2>4
    <3> HIDE DEF u, v
    <3> QED  BY <2>4, <2>5, <3>1 DEF u, v
  <2>7. (q * (d * d)) % (d * d) = 0
    <3>1. d * d \in {3969, 4096}
      BY DEF Offsets
    <3>2. (q * 3969) % 3969 = 0 /\ (q * 4096) % 4096 = 0
      OBVIOUS
    <3> QED  BY <3>1, <3>2
  <2> QED  BY <2>3, <2>6, <2>7 DEF a, b, z
<1> QED  BY <1>1, RadiusInvHolds, PTL

=============================================================================
