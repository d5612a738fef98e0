----------------------------- MODULE OtiCoreProofs -----------------------------
(***************************************************************************)
(* The arithmetic of otinum<M, N>, for every number of variables, every    *)
(* order and every program of calls, on all arithmetic paths.              *)
(***************************************************************************)
EXTENDS OtiCore, MultiIndexProofs

Products == INSTANCE FoldFacts WITH Values <- Coeff, Base <- 0, op <- Plus

-----------------------------------------------------------------------------
(* Arithmetic modulo P.                                                    *)
LEMMA PIs == P \in Nat /\ P > 1 /\ 0 \in Finite /\ 1 \in Finite /\ P - 1 \in Finite /\ 0 # NonFin
BY PAssumption, NonFinAssumption DEF Finite

LEMMA FiniteIs == \A x \in Finite : x \in Nat /\ x < P /\ IsFinite(x) /\ x \in Coeff
BY PIs, NonFinAssumption DEF Finite, IsFinite, Coeff

LEMMA NonFinIs == NonFin \in Coeff /\ ~IsFinite(NonFin) /\ \A x \in Coeff : IsFinite(x) <=> x \in Finite
BY NonFinAssumption DEF Coeff, Finite, IsFinite

LEMMA Residue ==
  ASSUME NEW a \in Int
  PROVE  a % P \in Finite /\ \E q \in Int : a = P * q + (a % P)
<1>1. P \in Nat /\ P > 0
  BY PIs
<1>2. a % P \in 0..(P-1) /\ a \div P \in Int /\ a = P * (a \div P) + (a % P)
  BY <1>1
<1> QED  BY <1>2 DEF Finite

LEMMA SameResidue ==
  ASSUME NEW a \in Int, NEW b \in Int, NEW k \in Int, a = b + P * k
  PROVE  a % P = b % P
<1>1. PICK q \in Int : a = P * q + (a % P)
  BY Residue
<1>2. PICK r \in Int : b = P * r + (b % P)
  BY Residue
<1> DEFINE x == a % P
           y == b % P
           d == q - r - k
<1>3. x \in 0..(P-1) /\ y \in 0..(P-1) /\ P \in Nat /\ P > 1
  BY Residue, PIs DEF Finite
<1>4. a = P * q + x /\ b = P * r + y
  BY <1>1, <1>2
<1> HIDE DEF x, y
<1>5. d \in Int /\ P * d = y - x
  <2>1. P * d = P * q - P * r - P * k
    BY <1>3
  <2>2. P * q \in Int /\ P * r \in Int /\ P * k \in Int
    BY <1>3
  <2> QED  BY <1>3, <1>4, <2>1, <2>2
<1> HIDE DEF d
<1>6. CASE d >= 1
  <2>1. P * d >= P * 1
    BY <1>3, <1>5, <1>6
  <2> QED  BY <1>3, <1>5, <2>1
<1>7. CASE d <= -1
  <2>1. P * d <= P * (-1)
    BY <1>3, <1>5, <1>7
  <2> QED  BY <1>3, <1>5, <2>1
<1>8. CASE d = 0
  <2>1. x = y
    BY <1>3, <1>5, <1>8
  <2> QED  BY <2>1 DEF x, y
<1> QED  BY <1>5, <1>6, <1>7, <1>8

LEMMA OwnResidue == \A x \in Finite : x % P = x
<1> SUFFICES ASSUME NEW x \in Finite PROVE x % P = x
  OBVIOUS
<1>1. x \in Nat /\ x < P /\ P \in Nat /\ P > 1
  BY FiniteIs, PIs
<1>2. PICK q \in Int : x = P * q + (x % P)
  <2>1. x \in Int
    BY <1>1
  <2> QED  BY <2>1, Residue
<1> DEFINE y == x % P
<1>3. y \in Nat /\ y < P
  BY <1>1, Residue, FiniteIs
<1>4. x = P * q + y
  BY <1>2
<1> HIDE DEF y
<1>5. q = 0
  <2>1. CASE q >= 1
    <3>1. P * q >= P * 1
      BY <1>1, <2>1
    <3> QED  BY <1>1, <1>3, <1>4, <3>1
  <2>2. CASE q <= -1
    <3>1. P * q <= P * (-1)
      BY <1>1, <2>2
    <3> QED  BY <1>1, <1>3, <1>4, <3>1
  <2> QED  BY <2>1, <2>2
<1>6. P * q = 0
  BY <1>1, <1>5
<1> QED  BY <1>1, <1>3, <1>4, <1>6 DEF y

(* Sums and products of coefficients.  Those with a non-finite operand are *)
(* not finite.                                                             *)
LEMMA PlusTimes ==
  \A x, y \in Coeff :
    /\ Plus(x, y) \in Coeff /\ Times(x, y) \in Coeff
    /\ IsFinite(Plus(x, y)) <=> IsFinite(x) /\ IsFinite(y)
    /\ IsFinite(Times(x, y)) <=> IsFinite(x) /\ IsFinite(y)
    /\ IsFinite(x) /\ IsFinite(y) => /\ Plus(x, y) = (x + y) % P /\ Plus(x, y) \in Finite
                                     /\ Times(x, y) = (x * y) % P /\ Times(x, y) \in Finite
<1> SUFFICES ASSUME NEW x \in Coeff, NEW y \in Coeff
             PROVE  /\ Plus(x, y) \in Coeff /\ Times(x, y) \in Coeff
                    /\ IsFinite(Plus(x, y)) <=> IsFinite(x) /\ IsFinite(y)
                    /\ IsFinite(Times(x, y)) <=> IsFinite(x) /\ IsFinite(y)
                    /\ IsFinite(x) /\ IsFinite(y) => /\ Plus(x, y) = (x + y) % P /\ Plus(x, y) \in Finite
                                                     /\ Times(x, y) = (x * y) % P /\ Times(x, y) \in Finite
  OBVIOUS
<1>1. CASE IsFinite(x) /\ IsFinite(y)
  <2>1. x \in Nat /\ y \in Nat
    BY <1>1, NonFinIs, FiniteIs
  <2>2. (x + y) % P \in Finite /\ (x * y) % P \in Finite
    <3>1. x + y \in Int /\ x * y \in Int
      BY <2>1
    <3> QED  BY <3>1, Residue
  <2>3. Plus(x, y) = (x + y) % P /\ Times(x, y) = (x * y) % P
    BY <1>1 DEF Plus, Times
  <2> QED  BY <1>1, <2>2, <2>3, FiniteIs
<1>2. CASE ~(IsFinite(x) /\ IsFinite(y))
  <2>1. Plus(x, y) = NonFin /\ Times(x, y) = NonFin
    BY <1>2 DEF Plus, Times
  <2> QED  BY <1>2, <2>1, NonFinIs
<1> QED  BY <1>1, <1>2

LEMMA SumLaws == Products!Closed /\ Products!Commutes /\ Products!Neutral
<1>1. Products!Closed
  BY PlusTimes, PIs, FiniteIs DEF Products!Closed
<1>2. \A x, y \in Coeff : Plus(x, y) = Plus(y, x)
  <2> TAKE x \in Coeff, y \in Coeff
  <2>1. CASE IsFinite(x) /\ IsFinite(y)
    <3>1. x \in Nat /\ y \in Nat
      BY <2>1, NonFinIs, FiniteIs
    <3>2. x + y = y + x
      BY <3>1
    <3> QED  BY <2>1, <3>2 DEF Plus
  <2> QED  BY <2>1 DEF Plus
<1>3. \A x, y, z \in Coeff : Plus(x, Plus(y, z)) = Plus(Plus(x, y), z)
  <2> TAKE x \in Coeff, y \in Coeff, z \in Coeff
  <2>1. CASE IsFinite(x) /\ IsFinite(y) /\ IsFinite(z)
    <3>1. x \in Nat /\ y \in Nat /\ z \in Nat
      BY <2>1, NonFinIs, FiniteIs
    <3> DEFINE u == (x + y) % P
               v == (y + z) % P
    <3>2. x + y \in Int /\ y + z \in Int
      BY <3>1
    <3>3. u \in Finite /\ v \in Finite
      BY <3>2, Residue
    <3>4. PICK q \in Int : x + y = P * q + u
      BY <3>2, Residue
    <3>5. PICK r \in Int : y + z = P * r + v
      BY <3>2, Residue
    <3>6. Plus(x, y) = u /\ Plus(y, z) = v
      BY <2>1 DEF Plus
    <3>7. u \in Nat /\ v \in Nat /\ IsFinite(u) /\ IsFinite(v)
      BY <3>3, FiniteIs
    <3> HIDE DEF u, v
    <3>8. Plus(x, Plus(y, z)) = (x + v) % P /\ Plus(Plus(x, y), z) = (u + z) % P
      BY <2>1, <3>6, <3>7 DEF Plus
    <3>9. (x + v) % P = (u + z) % P
      <4>1. P \in Int /\ q - r \in Int /\ P * (q - r) = P * q - P * r
        BY PIs
      <4>2. x + v \in Int /\ u + z \in Int /\ P * q \in Int /\ P * r \in Int
        BY <3>1, <3>7, <4>1
      <4>3. x + v = (u + z) + P * (q - r)
        BY <3>1, <3>4, <3>5, <3>7, <4>1, <4>2
      <4> QED  BY <4>1, <4>2, <4>3, SameResidue
    <3> QED  BY <3>8, <3>9
  <2>2. CASE ~(IsFinite(x) /\ IsFinite(y) /\ IsFinite(z))
    <3>1. Plus(x, y) \in Coeff /\ Plus(y, z) \in Coeff
      BY PlusTimes
    <3>2. ~IsFinite(Plus(x, Plus(y, z))) /\ ~IsFinite(Plus(Plus(x, y), z))
      BY <2>2, <3>1, PlusTimes
    <3> QED  BY <3>2 DEF IsFinite
  <2> QED  BY <2>1, <2>2
<1>4. \A x \in Coeff : Plus(0, x) = x
  <2> TAKE x \in Coeff
  <2>1. CASE IsFinite(x)
    <3>1. x \in Finite /\ x \in Nat /\ 0 + x = x
      BY <2>1, NonFinIs, FiniteIs
    <3>2. Plus(0, x) = (0 + x) % P
      BY <2>1, PIs DEF Plus, IsFinite
    <3> QED  BY <3>1, <3>2, OwnResidue
  <2>2. CASE ~IsFinite(x)
    BY <2>2 DEF Plus, IsFinite
  <2> QED  BY <2>1, <2>2
<1> QED  BY <1>1, <1>2, <1>3, <1>4 DEF Products!Commutes, Products!Neutral

(* x * 0 and 0 * x, and what the solved coefficient adds up to.            *)
LEMMA TimesZero == \A x \in Finite : Times(x, 0) = 0
<1> SUFFICES ASSUME NEW x \in Finite PROVE Times(x, 0) = 0
  OBVIOUS
<1>1. x \in Nat /\ IsFinite(x) /\ IsFinite(0) /\ x * 0 = 0
  BY FiniteIs, PIs
<1> QED  BY <1>1, PIs, OwnResidue DEF Times

LEMMA SolvesOne ==
  ASSUME NEW v \in Finite, NEW r \in Finite, (v * r) % P = 1, NEW K \in Finite
  PROVE  Plus(Times(v, Over(Minus(K), r)), K) = 0
<1>1. /\ v \in Nat /\ r \in Nat /\ K \in Nat /\ P \in Nat /\ P - 1 \in Nat
      /\ IsFinite(v) /\ IsFinite(r) /\ IsFinite(K) /\ IsFinite(P - 1)
  BY FiniteIs, PIs
<1> DEFINE n == ((P - 1) * K) % P
           s == (n * r) % P
           w == (v * s) % P
<1>2. n \in Finite /\ n \in Nat /\ IsFinite(n) /\ (P - 1) * K \in Int
  <2>1. (P - 1) * K \in Int
    BY <1>1
  <2>2. n \in Finite
    BY <2>1, Residue
  <2> HIDE DEF n
  <2> QED  BY <2>1, <2>2, FiniteIs
<1>3. PICK a \in Int : (P - 1) * K = P * a + n
  BY <1>2, Residue
<1> HIDE DEF n
<1>4. s \in Finite /\ s \in Nat /\ IsFinite(s) /\ n * r \in Int
  <2>1. n * r \in Int
    BY <1>1, <1>2
  <2>2. s \in Finite
    BY <2>1, Residue
  <2> HIDE DEF s
  <2> QED  BY <2>1, <2>2, FiniteIs
<1>5. PICK b \in Int : n * r = P * b + s
  BY <1>4, Residue
<1> HIDE DEF s
<1>6. w \in Finite /\ w \in Nat /\ IsFinite(w) /\ v * s \in Int /\ v * r \in Int
  <2>1. v * s \in Int /\ v * r \in Int
    BY <1>1, <1>4
  <2>2. w \in Finite
    BY <2>1, Residue
  <2> HIDE DEF w
  <2> QED  BY <2>1, <2>2, FiniteIs
<1>7. PICK c \in Int : v * s = P * c + w
  BY <1>6, Residue
<1> HIDE DEF w
<1>8. PICK d \in Int : v * r = P * d + 1
  BY <1>6, Residue
<1>9. Plus(Times(v, Over(Minus(K), r)), K) = (w + K) % P
  BY <1>1, <1>2, <1>4, <1>6 DEF Plus, Times, Over, Minus, n, s, w
<1>10. \E e \in Int : w + K = 0 + P * e
  <2>1. v * (n * r) = v * (P * b) + v * s
    BY <1>1, <1>2, <1>4, <1>5
  <2>2. v * (n * r) = n * (v * r)
    BY <1>1, <1>2
  <2>3. n * (v * r) = n * (P * d) + n
    BY <1>2, <1>8, <1>1
  <2>4. v * (P * b) = P * (v * b) /\ n * (P * d) = P * (n * d)
    BY <1>1, <1>2
  <2>5. (P - 1) * K = P * K - K
    BY <1>1
  <2> DEFINE e == n * d - v * b - c + K - a
  <2>6. e \in Int /\ v * b \in Int /\ n * d \in Int
    BY <1>1, <1>2
  <2>7. P * e = P * (n * d) - P * (v * b) - P * c + P * K - P * a
    BY <1>1, <2>6
  <2>8. /\ P * (n * d) \in Int /\ P * (v * b) \in Int /\ P * c \in Int /\ P * K \in Int /\ P * a \in Int
        /\ v * (n * r) \in Int
    BY <1>1, <1>2, <2>6
  <2> HIDE DEF e
  <2> DEFINE A == P * (n * d)
             B == P * (v * b)
             C == P * c
             D == P * K
             E == P * a
             F == v * s
             G == P * e
  <2>a. A + n = B + F
    <3>1. v * (n * r) = B + F
      BY <2>1, <2>4
    <3>2. v * (n * r) = A + n
      BY <2>2, <2>3, <2>4
    <3> QED  BY <3>1, <3>2
  <2>b. F = C + w /\ D - K = E + n
    BY <1>3, <1>7, <2>5
  <2>c. G = A - B - C + D - E
    BY <2>7
  <2>d. A \in Int /\ B \in Int /\ C \in Int /\ D \in Int /\ E \in Int /\ F \in Int
    BY <1>6, <2>8
  <2>e. w + K = G
    <3> HIDE DEF A, B, C, D, E, F, G
    <3> QED  BY <1>1, <1>2, <1>6, <2>a, <2>b, <2>c, <2>d
  <2>9. w + K = P * e
    BY <2>e
  <2>10. P * e \in Int
    BY <1>1, <2>6
  <2> QED  BY <2>6, <2>9, <2>10
<1>11. PICK e \in Int : w + K = 0 + P * e
  BY <1>10
<1>12. (w + K) % P = 0 % P
  <2>1. w + K \in Int /\ 0 \in Int
    BY <1>1, <1>6
  <2> QED  BY <1>11, <2>1, SameResidue
<1> QED  BY <1>9, <1>12, PIs, OwnResidue

-----------------------------------------------------------------------------
(* The layout of otinum<M, N> in the terms of the lemmas.                  *)
LEMMA ShapeIs == M \in Nat \ {0} /\ N \in Nat /\ N \in 0..IntMax /\ NC \in Nat
<1>1. M \in Nat \ {0} /\ N \in 0..IntMax /\ N \in Nat
  BY ShapeAssumption, IntMaxAssumption
<1> QED  BY <1>1, NCoeffsIs DEF NC

LEMMA OrderIs == \A a : OrderIn(a) = Summed(a, M)
BY DEF OrderIn, Summed, Sums!Fold, Sums!FoldFunctionOnSet, MapThenSumSet, MapThenFoldSet,
       Sums!MapThenFoldSet

LEMMA AlphasAre ==
  \A a : a \in Alphas <=> /\ a \in DenseIndices(M) /\ Summed(a, M) <= N
<1>1. M \in Nat \ {0} /\ N \in Nat
  BY ShapeIs
<1> QED  BY <1>1, AlphaSetIs DEF Alphas

LEMMA PlaceIs ==
  ASSUME NEW a \in DenseIndices(M)
  PROVE  /\ a \in Alphas <=> PlaceOf(M, a) \in Idx
         /\ a \in Alphas => Rank(M, N, a) = PlaceOf(M, a) /\ AlphaAt[PlaceOf(M, a)] = a
<1>1. M \in Nat \ {0} /\ N \in Nat /\ N \in 0..IntMax /\ NC \in Nat
  BY ShapeIs
<1>2. a \in Alphas <=> PlaceOf(M, a) \in Idx
  <2>1. PlaceOf(M, a) \in Nat
    BY <1>1, PlaceBand
  <2>2. PlaceOf(M, a) < NC <=> Summed(a, M) <= N
    BY <1>1, PlaceInLayout DEF NC
  <2>3. PlaceOf(M, a) \in Idx <=> PlaceOf(M, a) < NC
    BY <1>1, <2>1 DEF Idx
  <2> QED  BY <2>2, <2>3, AlphasAre
<1>3. ASSUME a \in Alphas PROVE Rank(M, N, a) = PlaceOf(M, a) /\ AlphaAt[PlaceOf(M, a)] = a
  <2>1. \A b \in Alphas : b \in DenseIndices(M) /\ Rank(M, N, b) = PlaceOf(M, b)
    BY <1>1, LayoutRanks DEF Alphas
  <2>2. \A b \in Alphas : Rank(M, N, b) = PlaceOf(M, a) => b = a
    BY <1>1, <2>1, PlacesOrder
  <2>3. (CHOOSE b \in Alphas : Rank(M, N, b) = PlaceOf(M, a)) = a
    BY <1>3, <2>1, <2>2
  <2>4. AlphaAt[PlaceOf(M, a)] = CHOOSE b \in Alphas : Rank(M, N, b) = PlaceOf(M, a)
    BY <1>2, <1>3 DEF AlphaAt
  <2> QED  BY <1>3, <2>1, <2>3, <2>4
<1> QED  BY <1>2, <1>3

LEMMA IndexAt ==
  ASSUME NEW x \in Idx
  PROVE  /\ AlphaAt[x] \in Alphas /\ AlphaAt[x] \in DenseIndices(M)
         /\ PlaceOf(M, AlphaAt[x]) = x
         /\ OrderAt[x] = Summed(AlphaAt[x], M) /\ OrderAt[x] \in 0..N
<1>1. M \in Nat \ {0} /\ N \in Nat /\ N \in 0..IntMax
  BY ShapeIs
<1>2. PICK a \in Alphas : PlaceOf(M, a) = x
  BY <1>1, LayoutRanks DEF Alphas, Idx, NC
<1>3. a \in DenseIndices(M) /\ Summed(a, M) <= N
  BY AlphasAre
<1>4. AlphaAt[x] = a
  BY <1>2, <1>3, PlaceIs
<1>5. Summed(a, M) \in Nat
  BY <1>1, <1>3, PlaceBand
<1>6. OrderAt[x] = Summed(a, M)
  BY <1>4, OrderIs DEF OrderAt
<1> QED  BY <1>1, <1>2, <1>3, <1>4, <1>5, <1>6

LEMMA RealPart == 0 \in Idx /\ AlphaAt[0] = Nowhere(M) /\ Nowhere(M) = Zero
<1>1. M \in Nat \ {0} /\ N \in Nat
  BY ShapeIs
<1>2. Nowhere(M) \in DenseIndices(M) /\ Summed(Nowhere(M), M) = 0 /\ PlaceOf(M, Nowhere(M)) = 0
  BY <1>1, NowhereIs
<1>3. Nowhere(M) \in Alphas
  BY <1>1, <1>2, AlphasAre
<1> QED  BY <1>2, <1>3, PlaceIs DEF Nowhere, Zero

(* The terms of an output, on every path: the pairs whose indices sum to   *)
(* that of the output.                                                     *)
SumOf(t) == Together(M, AlphaAt[t[1]], AlphaAt[t[2]])

LEMMA TermsAre ==
  ASSUME NEW q \in Paths, NEW k \in Idx
  PROVE  \A t : t \in TermsInto[q][k] <=> t \in Idx \X Idx /\ PlaceOf(M, SumOf(t)) = k
<1>1. M \in Nat \ {0} /\ N \in Nat
  BY ShapeIs
<1>2. ASSUME NEW t \in Idx \X Idx
      PROVE  /\ t \in Pairs <=> SumOf(t) \in Alphas
             /\ SumOf(t) \in DenseIndices(M)
             /\ SumAt(t[1], t[2]) = SumOf(t)
             /\ t \in Pairs => NaiveOutput[t] = PlaceOf(M, SumOf(t)) /\ TableOutput[t] = PlaceOf(M, SumOf(t))
  <2>1. /\ AlphaAt[t[1]] \in DenseIndices(M) /\ AlphaAt[t[2]] \in DenseIndices(M)
        /\ OrderAt[t[1]] = Summed(AlphaAt[t[1]], M) /\ OrderAt[t[2]] = Summed(AlphaAt[t[2]], M)
    BY IndexAt
  <2>2. SumOf(t) \in DenseIndices(M)
    BY <1>1, <2>1, TogetherIs DEF SumOf
  <2>3. Summed(SumOf(t), M) = OrderAt[t[1]] + OrderAt[t[2]]
    <3>1. M \in 0..M
      BY <1>1
    <3> QED  BY <1>1, <2>1, <3>1, TogetherIs DEF SumOf
  <2>4. t \in Pairs <=> SumOf(t) \in Alphas
    BY <2>2, <2>3, AlphasAre DEF Pairs
  <2>5. SumAt(t[1], t[2]) = SumOf(t)
    BY DEF SumAt, SumOf, Together
  <2>6. ASSUME t \in Pairs
        PROVE  NaiveOutput[t] = PlaceOf(M, SumOf(t)) /\ TableOutput[t] = PlaceOf(M, SumOf(t))
    <3>1. NaiveOutput[t] = Rank(M, N, SumOf(t))
      BY <2>5, <2>6 DEF NaiveOutput
    <3>2. TableOutput[t] = SparseRank(M, MergeSparse(Packed(M, AlphaAt[t[1]]), Packed(M, AlphaAt[t[2]])))
      BY <2>6 DEF TableOutput
    <3>3. TableOutput[t] = PlaceOf(M, SumOf(t))
      BY <1>1, <2>1, <3>2, MergedPlace DEF SumOf
    <3> QED  BY <2>2, <2>4, <2>6, <3>1, <3>3, PlaceIs
  <2> QED  BY <2>2, <2>4, <2>5, <2>6
<1>3. \A t : t \in Pairs => t \in Idx \X Idx
  BY DEF Pairs
<1>4. TermsInto[q][k] = {t \in Pairs : (IF q = 0 THEN NaiveOutput ELSE TableOutput)[t] = k}
  BY DEF TermsInto
<1>5. \A t \in Pairs : (IF q = 0 THEN NaiveOutput ELSE TableOutput)[t] = PlaceOf(M, SumOf(t))
  BY <1>2, <1>3
<1>6. \A t \in Idx \X Idx : PlaceOf(M, SumOf(t)) = k => t \in Pairs
  BY <1>2, PlaceIs
<1> QED  BY <1>3, <1>4, <1>5, <1>6

(* The tables hold the product of every factor with 1, and apart from that *)
(* of an output only earlier coefficients of the right factor.             *)
LEMMA TermsRead ==
  ASSUME NEW q \in Paths, NEW k \in Idx
  PROVE  /\ TermsInto[q][k] \in SUBSET (Idx \X Idx) /\ IsFiniteSet(TermsInto[q][k])
         /\ <<0, k>> \in TermsInto[q][k]
         /\ \A t \in TermsInto[q][k] : t # <<0, k>> => t[2] < k
<1>1. M \in Nat \ {0} /\ NC \in Nat
  BY ShapeIs
<1>2. TermsInto[q][k] \in SUBSET (Idx \X Idx)
  BY TermsAre
<1>3. IsFiniteSet(TermsInto[q][k])
  <2>1. IsFiniteSet(Idx)
    BY <1>1, FS_Interval DEF Idx
  <2> QED  BY <1>2, <2>1, FS_Product, FS_Subset
<1>4. <<0, k>> \in TermsInto[q][k]
  <2>1. SumOf(<<0, k>>) = AlphaAt[k]
    BY <1>1, RealPart, IndexAt, TogetherLater DEF SumOf
  <2> QED  BY <2>1, RealPart, IndexAt, TermsAre
<1>5. ASSUME NEW t \in TermsInto[q][k], t # <<0, k>> PROVE t[2] < k
  <2>1. t \in Idx \X Idx /\ PlaceOf(M, SumOf(t)) = k
    BY TermsAre
  <2>2. /\ AlphaAt[t[1]] \in DenseIndices(M) /\ AlphaAt[t[2]] \in DenseIndices(M)
        /\ PlaceOf(M, AlphaAt[t[1]]) = t[1] /\ PlaceOf(M, AlphaAt[t[2]]) = t[2]
    BY <2>1, IndexAt
  <2>3. CASE AlphaAt[t[1]] = Nowhere(M)
    <3>1. t[1] = 0
      BY <1>1, <2>2, <2>3, NowhereIs
    <3>2. t[2] = k
      BY <1>1, <2>1, <2>2, <2>3, TogetherLater DEF SumOf
    <3> QED  BY <1>5, <2>1, <3>1, <3>2
  <2>4. CASE AlphaAt[t[1]] # Nowhere(M)
    BY <1>1, <2>1, <2>2, <2>4, TogetherLater DEF SumOf
  <2> QED  BY <2>3, <2>4
<1> QED  BY <1>2, <1>3, <1>4, <1>5

(* A derivative reaches every output its index is part of, from either     *)
(* factor.                                                                 *)
LEMMA TermsReach ==
  ASSUME NEW q \in Paths, NEW k \in Idx, NEW x \in Idx, Reaches(x, k)
  PROVE  \E y \in Idx : <<x, y>> \in TermsInto[q][k] /\ <<y, x>> \in TermsInto[q][k]
<1>1. M \in Nat \ {0} /\ N \in Nat /\ NC \in Nat
  BY ShapeIs
<1> DEFINE a == AlphaAt[x]
           c == AlphaAt[k]
           b == [p \in 0..(M-1) |-> c[p] - a[p]]
<1>2. a \in DenseIndices(M) /\ c \in DenseIndices(M) /\ c \in Alphas /\ PlaceOf(M, c) = k
  BY IndexAt
<1>3. \A p \in 0..(M-1) : a[p] \in Nat /\ c[p] \in Nat /\ a[p] <= c[p]
  BY <1>2 DEF DenseIndices, Reaches
<1> HIDE DEF a, c
<1>4. b \in DenseIndices(M)
  BY <1>3 DEF DenseIndices
<1>5. Together(M, a, b) = c /\ Together(M, b, a) = c
  <2>1. \A p \in 0..(M-1) : a[p] + b[p] = c[p] /\ b[p] + a[p] = c[p]
    BY <1>3
  <2>2. /\ Together(M, a, b) \in DenseIndices(M) /\ Together(M, b, a) \in DenseIndices(M)
        /\ \A p \in 0..(M-1) : Together(M, a, b)[p] = a[p] + b[p] /\ Together(M, b, a)[p] = b[p] + a[p]
    BY <1>1, <1>2, <1>4, TogetherIs DEF Together
  <2> DEFINE ab == Together(M, a, b)
             ba == Together(M, b, a)
  <2>3. \A p \in 0..(M-1) : ab[p] = c[p] /\ ba[p] = c[p]
    <3> HIDE DEF b
    <3> QED  BY <2>1, <2>2
  <2>4. ab \in DenseIndices(M) /\ ba \in DenseIndices(M)
    BY <2>2
  <2> HIDE DEF b, ab, ba
  <2>5. ab = c
    BY <1>2, <2>3, <2>4, SameIndex
  <2>6. ba = c
    BY <1>2, <2>3, <2>4, SameIndex
  <2> QED  BY <2>5, <2>6 DEF ab, ba
<1> HIDE DEF b
<1>6. b \in Alphas
  <2>1. Summed(c, M) = Summed(a, M) + Summed(b, M)
    <3>1. M \in 0..M
      BY <1>1
    <3> QED  BY <1>1, <1>2, <1>4, <1>5, <3>1, TogetherIs
  <2>2. Summed(a, M) \in Nat /\ Summed(b, M) \in Nat /\ Summed(c, M) <= N
    BY <1>1, <1>2, <1>4, PlaceBand, AlphasAre
  <2> QED  BY <1>1, <1>4, <2>1, <2>2, AlphasAre
<1> DEFINE y == PlaceOf(M, b)
<1>7. y \in Idx /\ AlphaAt[y] = b
  BY <1>4, <1>6, PlaceIs
<1> HIDE DEF y
<1>8. SumOf(<<x, y>>) = c /\ SumOf(<<y, x>>) = c
  BY <1>5, <1>7 DEF SumOf, a
<1> QED  BY <1>2, <1>7, <1>8, TermsAre

-----------------------------------------------------------------------------
(* What a kernel accumulates into one output: the contributions of the     *)
(* terms on top of a seed, in whatever order.                              *)
Contributions(a, b, S) == [t \in S |-> TermProduct(a, b, t)]
Total(a, b, S) == Products!Fold(Contributions(a, b, S), S)

AddsUp(g, s, a, b, S) ==
  g = [ss \in SUBSET S |-> IF ss = {} THEN s
                           ELSE Plus(TermProduct(a, b, CHOOSE t \in ss : TRUE),
                                     g[ss \ {CHOOSE t \in ss : TRUE}])]
Accumulated(s, a, b, S) == (CHOOSE g : AddsUp(g, s, a, b, S))[S]

LEMMA ContributionsIn ==
  ASSUME NEW a \in Jet, NEW b \in Jet, NEW S \in SUBSET (Idx \X Idx)
  PROVE  /\ \A t \in S : TermProduct(a, b, t) \in Coeff /\ Contributions(a, b, S)[t] = TermProduct(a, b, t)
         /\ \A T \in SUBSET S : Products!ValuesOn(Contributions(a, b, S), T)
<1>1. ASSUME NEW t \in S PROVE TermProduct(a, b, t) \in Coeff
  <2>1. a[t[1]] \in Coeff /\ b[t[2]] \in Coeff
    BY DEF Jet
  <2> QED  BY <2>1, PlusTimes DEF TermProduct
<1> QED  BY <1>1 DEF Contributions, Products!ValuesOn

LEMMA FiniteForProducts == \A S : IsFiniteSet(S) => Products!IsFiniteSet(S)
BY DEF IsFiniteSet, Products!IsFiniteSet

LEMMA AccumulatedIs ==
  ASSUME NEW s \in Coeff, NEW a \in Jet, NEW b \in Jet, NEW S \in SUBSET (Idx \X Idx), IsFiniteSet(S)
  PROVE  Accumulated(s, a, b, S) = Plus(s, Total(a, b, S)) /\ Total(a, b, S) \in Coeff
<1> DEFINE c == Contributions(a, b, S)
           h == [ss \in SUBSET S |-> Plus(s, Products!Fold(c, ss))]
           g == CHOOSE g : AddsUp(g, s, a, b, S)
<1>1. ASSUME NEW ss \in SUBSET S
      PROVE  /\ Products!Fold(c, ss) \in Coeff
             /\ Products!Fold(c, ss) = IF ss = {} THEN 0
                    ELSE Plus(c[Products!Pick(ss)], Products!Fold(c, ss \ {Products!Pick(ss)}))
  <2>1. Products!IsFiniteSet(ss)
    BY FS_Subset, FiniteForProducts
  <2>2. Products!ValuesOn(c, ss)
    BY ContributionsIn
  <2> HIDE DEF c
  <2> QED  BY <2>1, <2>2, SumLaws, Products!FoldEquation
<1>2. ASSUME NEW ss \in SUBSET S
      PROVE  h[ss] = IF ss = {} THEN s
                     ELSE Plus(TermProduct(a, b, Products!Pick(ss)), h[ss \ {Products!Pick(ss)}])
  <2>1. CASE ss = {}
    <3>1. Products!Fold(c, ss) = 0
      BY <1>1, <2>1
    <3>2. Plus(s, 0) = s
      BY SumLaws, PIs, FiniteIs DEF Products!Commutes, Products!Neutral
    <3> QED  BY <2>1, <3>1, <3>2
  <2>2. CASE ss # {}
    <3> DEFINE x == Products!Pick(ss)
               rest == ss \ {x}
               u == Products!Fold(c, rest)
               v == TermProduct(a, b, x)
    <3>1. x \in ss
      BY <2>2, Products!PickIn
    <3>2. rest \in SUBSET S
      OBVIOUS
    <3>3. v \in Coeff /\ c[x] = v
      BY <3>1, ContributionsIn
    <3>4. u \in Coeff
      BY <1>1, <3>2
    <3>5. Products!Fold(c, ss) = Plus(v, u)
      BY <1>1, <2>2, <3>3
    <3>6. h[ss] = Plus(s, Products!Fold(c, ss)) /\ h[rest] = Plus(s, u)
      BY <3>2
    <3> HIDE DEF u, v, rest, h
    <3>7. Plus(s, Plus(v, u)) = Plus(v, Plus(s, u))
      <4>1. Plus(s, Plus(v, u)) = Plus(Plus(s, v), u) /\ Plus(v, Plus(s, u)) = Plus(Plus(v, s), u)
        BY <3>3, <3>4, SumLaws DEF Products!Commutes
      <4>2. Plus(s, v) = Plus(v, s)
        BY <3>3, SumLaws DEF Products!Commutes
      <4> QED  BY <4>1, <4>2
    <3> QED  BY <2>2, <3>5, <3>6, <3>7 DEF rest, v
  <2> QED  BY <2>1, <2>2
<1>3. AddsUp(h, s, a, b, S)
  <2>1. h = [ss \in SUBSET S |-> h[ss]]
    OBVIOUS
  <2> HIDE DEF h
  <2>2. [ss \in SUBSET S |-> h[ss]]
          = [ss \in SUBSET S |-> IF ss = {} THEN s
               ELSE Plus(TermProduct(a, b, Products!Pick(ss)), h[ss \ {Products!Pick(ss)}])]
    BY <1>2
  <2> QED  BY <2>1, <2>2 DEF AddsUp, Products!Pick
<1>4. AddsUp(g, s, a, b, S)
  <2> HIDE DEF h
  <2> QED  BY <1>3
<1>5. g[S] = h[S]
  <2> DEFINE F == {ss \in SUBSET S : g[ss] # h[ss]}
  <2>1. SUFFICES ASSUME F # {} PROVE FALSE
    OBVIOUS
  <2> HIDE DEF g, h
  <2>2. PICK T \in F : \A U \in F : U \subseteq T => U = T
    <3>1. F \in SUBSET SUBSET S /\ Products!IsFiniteSet(S)
      BY FiniteForProducts
    <3> HIDE DEF F
    <3> QED  BY <2>1, <3>1, Products!MinimalSubset
  <2>3. T # {}
    BY <1>3, <1>4, <2>2 DEF AddsUp
  <2>4. Products!Pick(T) \in T
    BY <2>3, Products!PickIn
  <2>5. g[T \ {Products!Pick(T)}] = h[T \ {Products!Pick(T)}]
    BY <2>2, <2>4
  <2>6. g[T] = Plus(TermProduct(a, b, Products!Pick(T)), g[T \ {Products!Pick(T)}])
    BY <1>4, <2>2, <2>3 DEF AddsUp, Products!Pick
  <2>7. h[T] = Plus(TermProduct(a, b, Products!Pick(T)), h[T \ {Products!Pick(T)}])
    BY <1>2, <2>2, <2>3
  <2> QED  BY <2>2, <2>5, <2>6, <2>7
<1>6. h[S] = Plus(s, Products!Fold(c, S)) /\ Products!Fold(c, S) \in Coeff
  BY <1>1
<1> HIDE DEF h, c
<1> QED  BY <1>5, <1>6 DEF Accumulated, Total, c

(* The total is finite when every contribution is, and only then.          *)
LEMMA TotalFinite ==
  ASSUME NEW a \in Jet, NEW b \in Jet, NEW S \in SUBSET (Idx \X Idx), IsFiniteSet(S)
  PROVE  IsFinite(Total(a, b, S)) <=> \A t \in S : IsFinite(TermProduct(a, b, t))
<1> DEFINE c == Contributions(a, b, S)
           F == {T \in SUBSET S : IsFinite(Products!Fold(c, T)) <=> \A t \in T : IsFinite(c[t])}
<1>1. \A t \in S : c[t] = TermProduct(a, b, t) /\ c[t] \in Coeff
  BY ContributionsIn
<1>2. \A T \in SUBSET S : Products!ValuesOn(c, T) /\ Products!IsFiniteSet(T)
  BY ContributionsIn, FS_Subset, FiniteForProducts
<1> HIDE DEF c
<1>3. {} \in F
  <2>1. Products!Fold(c, {}) = 0
    BY SumLaws, Products!FoldEmpty
  <2> QED  BY <2>1, PIs DEF IsFinite
<1>4. ASSUME NEW T \in SUBSET S, NEW x \in S \ T, T \in F PROVE T \cup {x} \in F
  <2>1. T \cup {x} \in SUBSET S
    OBVIOUS
  <2>2. Products!Fold(c, T \cup {x}) = Plus(c[x], Products!Fold(c, T))
    BY <1>2, <2>1, SumLaws, Products!FoldAdd
  <2>3. Products!Fold(c, T) \in Coeff /\ c[x] \in Coeff
    BY <1>1, <1>2, SumLaws, Products!FoldType
  <2>4. IsFinite(Products!Fold(c, T)) <=> \A t \in T : IsFinite(c[t])
    BY <1>4
  <2>5. IsFinite(Products!Fold(c, T \cup {x})) <=> IsFinite(c[x]) /\ IsFinite(Products!Fold(c, T))
    BY <2>2, <2>3, PlusTimes
  <2> QED  BY <2>1, <2>4, <2>5
<1> HIDE DEF F
<1>5. SUBSET S \subseteq F
  BY <1>2, <1>3, <1>4, Products!SetInductionOn
<1>6. S \in F
  BY <1>5
<1>7. Total(a, b, S) = Products!Fold(c, S)
  BY DEF Total, c
<1> QED  BY <1>1, <1>6, <1>7 DEF F

(* The product kernels: every output within the order is its seed and the  *)
(* total of its terms, and the others are the seed.                        *)
LEMMA MulIntoIs ==
  ASSUME path \in Paths, NEW seed \in Jet, NEW a \in Jet, NEW b \in Jet, NEW max
  PROVE  /\ MulInto(seed, a, b, max) \in Jet
         /\ \A k \in Idx : MulInto(seed, a, b, max)[k] =
              IF OrderAt[k] > max THEN seed[k] ELSE Plus(seed[k], Total(a, b, TermsInto[path][k]))
<1>1. ASSUME NEW k \in Idx
      PROVE  /\ Accumulated(seed[k], a, b, TermsInto[path][k])
                  = Plus(seed[k], Total(a, b, TermsInto[path][k]))
             /\ Plus(seed[k], Total(a, b, TermsInto[path][k])) \in Coeff
             /\ seed[k] \in Coeff
  <2>1. TermsInto[path][k] \in SUBSET (Idx \X Idx) /\ IsFiniteSet(TermsInto[path][k])
    BY TermsRead
  <2>2. seed[k] \in Coeff
    BY DEF Jet
  <2> QED  BY <2>1, <2>2, AccumulatedIs, PlusTimes
<1>2. MulInto(seed, a, b, max)
        = [k \in Idx |-> IF OrderAt[k] > max THEN seed[k]
                         ELSE Accumulated(seed[k], a, b, TermsInto[path][k])]
  BY DEF MulInto, MapThenFoldSet, Accumulated, AddsUp
<1> QED  BY <1>1, <1>2 DEF Jet

-----------------------------------------------------------------------------
(* Division by a factorial.  The finite values are a field, and N < P.     *)
HasInverse(f) == \E x, q \in Int : f * x = P * q + 1
Invertible == {f \in Int : HasInverse(f)}

LEMMA Inverses == \A f \in 1..(P-1) : f \in Invertible
<1>1. P \in Nat /\ P > 1 /\ \A d \in 2..(P-1) : P % d # 0
  BY PIs, PAssumption
<1>2. ASSUME NEW f \in 1..(P-1) PROVE \E x, q \in Int : f * x = P * q + 1
  <2>1. Sums!IsPrime(P)
    BY <1>1 DEF Sums!IsPrime
  <2> QED  BY <2>1, Sums!PrimeInverse
<1>3. ASSUME NEW f \in 1..(P-1) PROVE f \in Int /\ HasInverse(f)
  <2>1. f \in Int
    OBVIOUS
  <2> QED  BY <1>2, <2>1 DEF HasInverse
<1> QED  BY <1>3 DEF Invertible

LEMMA InverseOfProduct == 1 \in Invertible /\ \A f, g \in Invertible : f * g \in Invertible
<1>0. P \in Nat
  BY PIs
<1>1. 1 \in Invertible
  <2>1. 1 * 1 = P * 0 + 1
    BY <1>0
  <2> QED  BY <2>1 DEF Invertible, HasInverse
<1>2. ASSUME NEW f \in Invertible, NEW g \in Invertible PROVE f * g \in Invertible
  <2>1. f \in Int /\ g \in Int /\ f * g \in Int
    BY DEF Invertible
  <2>2. PICK x, a \in Int : f * x = P * a + 1
    BY DEF Invertible, HasInverse
  <2>3. PICK y, b \in Int : g * y = P * b + 1
    BY DEF Invertible, HasInverse
  <2> DEFINE c == P * (a * b) + a + b
  <2>4. x * y \in Int /\ a * b \in Int /\ c \in Int
    BY <1>0
  <2>5. (f * g) * (x * y) = (f * x) * (g * y)
    BY <2>1
  <2>6. (P * a + 1) * (P * b + 1) = P * c + 1
    <3>1. (P * a + 1) * (P * b + 1) = P * (P * (a * b)) + P * a + P * b + 1
      BY <1>0
    <3>2. P * c = P * (P * (a * b)) + P * a + P * b
      BY <1>0, <2>4
    <3> QED  BY <3>1, <3>2
  <2> HIDE DEF c
  <2>7. (f * g) * (x * y) = P * c + 1
    BY <2>2, <2>3, <2>5, <2>6
  <2> QED  BY <2>1, <2>4, <2>7 DEF Invertible, HasInverse
<1> QED  BY <1>1, <1>2

(* What normalises a derivative exists: an x with (f mod P) * x = v.       *)
LEMMA Divides ==
  ASSUME NEW f \in Invertible, NEW v \in Coeff
  PROVE  \E x \in Coeff : Times(f % P, x) = v
<1>1. P \in Nat /\ f \in Int
  BY PIs DEF Invertible
<1>2. f % P \in Finite /\ IsFinite(f % P)
  BY <1>1, Residue, FiniteIs
<1>3. CASE ~IsFinite(v)
  <2>1. Times(f % P, v) = v
    BY <1>3 DEF Times, IsFinite
  <2> QED  BY <2>1
<1>4. CASE IsFinite(v)
  <2>1. v \in Finite /\ v \in Nat
    BY <1>4, NonFinIs, FiniteIs
  <2>2. PICK y, q \in Int : f * y = P * q + 1
    BY DEF Invertible, HasInverse
  <2> DEFINE g == f % P
             x == (v * y) % P
  <2>3. PICK s \in Int : f = P * s + g
    BY <1>1, Residue
  <2>4. v * y \in Int /\ x \in Finite
    <3>1. v * y \in Int
      BY <2>1
    <3> QED  BY <3>1, Residue
  <2>5. PICK t \in Int : v * y = P * t + x
    BY <2>4, Residue
  <2>6. g \in Int /\ x \in Int /\ x \in Coeff /\ IsFinite(x)
    <3> HIDE DEF g, x
    <3>1. g \in Finite
      BY <1>2 DEF g
    <3> QED  BY <2>4, <3>1, FiniteIs
  <2>7. Times(g, x) = (g * x) % P
    BY <1>2, <2>6 DEF Times
  <2> HIDE DEF g, x
  <2>8. \E k \in Int : g * x = v + P * k
    <3> DEFINE k == v * q - f * t - s * x
    <3>1. v * q \in Int /\ f * t \in Int /\ s * x \in Int /\ k \in Int
      BY <1>1, <2>1, <2>6
    <3>2. g * x = f * x - (P * s) * x
      BY <1>1, <2>3, <2>6
    <3>3. f * x = f * (v * y) - f * (P * t)
      BY <1>1, <2>1, <2>4, <2>5, <2>6
    <3>4. f * (v * y) = v * (f * y)
      BY <1>1, <2>1
    <3>5. v * (f * y) = v * (P * q) + v
      BY <1>1, <2>1, <2>2
    <3>6. v * (P * q) = P * (v * q) /\ f * (P * t) = P * (f * t) /\ (P * s) * x = P * (s * x)
      BY <1>1, <2>1, <2>6
    <3>7. P * k = P * (v * q) - P * (f * t) - P * (s * x)
      BY <1>1, <3>1
    <3> DEFINE A == P * (v * q)
               B == P * (f * t)
               C == P * (s * x)
               D == P * k
               E == f * x
               F == g * x
               G == f * (v * y)
    <3>8. /\ A \in Int /\ B \in Int /\ C \in Int /\ D \in Int /\ E \in Int /\ F \in Int /\ G \in Int
      BY <1>1, <2>1, <2>6, <3>1
    <3>9. F = E - C /\ E = G - B /\ G = A + v /\ D = A - B - C
      BY <3>2, <3>3, <3>4, <3>5, <3>6, <3>7
    <3>10. F = v + D
      <4> HIDE DEF A, B, C, D, E, F, G
      <4> QED  BY <2>1, <3>8, <3>9
    <3> HIDE DEF k
    <3> QED  BY <3>1, <3>10
  <2>9. (g * x) % P = v
    <3>1. g * x \in Int /\ v \in Int
      BY <2>1, <2>6
    <3>2. (g * x) % P = v % P
      BY <2>8, <3>1, SameResidue
    <3> QED  BY <2>1, <3>2, OwnResidue
  <2> QED  BY <2>6, <2>7, <2>9 DEF g
<1> QED  BY <1>3, <1>4

Units == INSTANCE FoldFacts WITH Values <- Invertible, Base <- 1, op <- *

GrowsBy(g, n) == g = [i \in 0..n |-> IF i = 0 THEN 1 ELSE g[i-1] * i]

LEMMA FactorialInvertible ==
  ASSUME NEW n \in Nat, n < P
  PROVE  Factorial(n) \in Invertible
<1> DEFINE result == CHOOSE g : GrowsBy(g, n)
           step == [x \in (1..n) \X Int |-> x[2] * x[1]]
<1>1. GrowsBy(result, n)
  <2>1. step \in [(1..n) \X Int -> Int] /\ 1 \in Int
    OBVIOUS
  <2>2. PICK g \in [0..n -> Int] : Sums!Recursive(g, n, 1, step)
    <3> HIDE DEF step
    <3> QED  BY <2>1, Sums!RecursionExists
  <2>3. \A i \in 0..n : i # 0 => step[<<i, g[i-1]>>] = g[i-1] * i
    <3> SUFFICES ASSUME NEW i \in 0..n, i # 0 PROVE step[<<i, g[i-1]>>] = g[i-1] * i
      OBVIOUS
    <3>1. i \in 1..n /\ i - 1 \in 0..n
      OBVIOUS
    <3>2. <<i, g[i-1]>> \in (1..n) \X Int
      BY <3>1
    <3> QED  BY <3>2
  <2> HIDE DEF step
  <2>4. GrowsBy(g, n)
    BY <2>2, <2>3 DEF Sums!Recursive, GrowsBy
  <2> QED  BY <2>4
<1>2. Factorial(n) = result[n]
  BY DEF Factorial, GrowsBy
<1> HIDE DEF result
<1> DEFINE T == {i \in Nat : i <= n => result[i] \in Invertible}
<1>3. 0 \in T
  BY <1>1, InverseOfProduct DEF GrowsBy
<1>4. ASSUME NEW i \in Nat, i \in T PROVE i + 1 \in T
  <2> SUFFICES ASSUME i + 1 <= n PROVE result[i+1] \in Invertible
    OBVIOUS
  <2>1. result[i+1] = result[i] * (i + 1)
    <3>1. i + 1 \in 0..n /\ i + 1 # 0 /\ (i + 1) - 1 = i
      OBVIOUS
    <3> QED  BY <1>1, <3>1 DEF GrowsBy
  <2>2. i + 1 \in 1..(P-1)
    BY PIs
  <2>3. i + 1 \in Invertible /\ result[i] \in Invertible
    BY <1>4, <2>2, Inverses
  <2> QED  BY <2>1, <2>3, InverseOfProduct
<1> HIDE DEF T
<1>5. Nat \subseteq T
  BY <1>3, <1>4, Sums!NatInductionOn
<1>6. n \in T
  BY <1>5
<1> QED  BY <1>2, <1>6 DEF T

LEMMA UnitLaws == Units!Closed
BY InverseOfProduct DEF Units!Closed

LEMMA NormalizedIn ==
  ASSUME NEW x \in Idx, NEW v \in Coeff
  PROVE  /\ NormalizedPartial(x, v) \in Coeff
         /\ Times(FactorialAt[x], NormalizedPartial(x, v)) = v
<1> DEFINE a == AlphaAt[x]
           f == [p \in 0..(M-1) |-> Factorial(a[p])]
<1>1. M \in Nat \ {0} /\ N \in Nat /\ a \in DenseIndices(M) /\ Summed(a, M) <= N
  BY ShapeIs, IndexAt, AlphasAre
<1>2. \A p \in 0..(M-1) : Factorial(a[p]) \in Invertible
  <2> TAKE p \in 0..(M-1)
  <2>1. a[p] \in Nat /\ a[p] <= Summed(a, M) /\ Summed(a, M) \in Nat
    BY <1>1, ExponentBounds, PlaceBand
  <2>2. N < P /\ P \in Nat
    BY PIs, FactorialAssumption
  <2>3. a[p] < P
    BY <1>1, <2>1, <2>2
  <2> QED  BY <2>1, <2>3, FactorialInvertible
<1>3. FactorialOf(a) = Units!Fold(f, 0..(M-1))
  <2>1. DOMAIN f = 0..(M-1)
    OBVIOUS
  <2> QED  BY <2>1 DEF FactorialOf, FoldFunction, FoldFunctionOnSet, MapThenFoldSet, Units!Fold,
                Units!FoldFunctionOnSet, Units!MapThenFoldSet
<1>4. FactorialOf(a) \in Invertible
  <2>1. IsFiniteSet(0..(M-1))
    BY <1>1, FS_Interval
  <2>2. Units!IsFiniteSet(0..(M-1))
    BY <2>1 DEF IsFiniteSet, Units!IsFiniteSet
  <2>3. Units!ValuesOn(f, 0..(M-1))
    BY <1>2 DEF Units!ValuesOn
  <2> HIDE DEF f
  <2> QED  BY <1>3, <2>2, <2>3, UnitLaws, Units!FoldType
<1>5. FactorialAt[x] = FactorialOf(a) % P
  BY DEF FactorialAt
<1>6. x >= 0
  BY ShapeIs DEF Idx
<1> HIDE DEF a
<1>7. \E y \in Coeff : Times(FactorialAt[x], y) = v
  BY <1>4, <1>5, Divides
<1>8. NormalizedPartial(x, v) = CHOOSE y \in Coeff : Times(FactorialAt[x], y) = v
  BY <1>6 DEF NormalizedPartial
<1> QED  BY <1>7, <1>8

-----------------------------------------------------------------------------
(* The accessors.  A request that fits ranks at its place in the layout,   *)
(* and where it has none it does not rank.                                 *)
LEMMA RequestRanks ==
  ASSUME NEW alpha, Fits(alpha)
  PROVE  IF alpha \in Alphas THEN Rank(M, N, alpha) \in Idx ELSE Rank(M, N, alpha) = -1
<1>1. M \in Nat \ {0} /\ N \in Nat /\ alpha \in [0..(M-1) -> Int]
  BY ShapeIs DEF Fits
<1>2. CASE alpha \in Alphas
  <2>1. alpha \in DenseIndices(M)
    BY <1>2, AlphasAre
  <2> QED  BY <1>2, <2>1, PlaceIs
<1>3. ASSUME (\E p \in 0..(M-1) : alpha[p] < 0) \/ TotalOrder(M, alpha) > N
      PROVE  Rank(M, N, alpha) = -1
  BY <1>3 DEF Rank
<1>4. CASE alpha \notin Alphas /\ \A p \in 0..(M-1) : alpha[p] >= 0
  <2>1. \A p \in 0..(M-1) : alpha[p] \in Nat
    BY <1>1, <1>4
  <2>2. alpha \in DenseIndices(M)
    BY <1>1, <2>1 DEF DenseIndices
  <2>3. Summed(alpha, M) <= IntMax /\ Summed(alpha, M) \in Nat
    <3>1. OrderIn(alpha) <= IntMax
      BY <1>4 DEF Fits
    <3> QED  BY <1>1, <2>2, <3>1, OrderIs, PlaceBand
  <2>4. TotalOrder(M, alpha) = Summed(alpha, M)
    <3>1. M \in Nat
      BY <1>1
    <3> QED  BY <2>2, <2>3, <3>1, TotalOrderIs
  <2>5. ~(Summed(alpha, M) <= N)
    BY <1>4, <2>2, AlphasAre
  <2>6. TotalOrder(M, alpha) > N
    BY <1>1, <2>3, <2>4, <2>5
  <2> QED  BY <1>3, <1>4, <2>6
<1>5. CASE alpha \notin Alphas /\ \E p \in 0..(M-1) : ~(alpha[p] >= 0)
  <2>1. \E p \in 0..(M-1) : alpha[p] < 0
    BY <1>1, <1>5
  <2> QED  BY <1>3, <1>5, <2>1
<1> QED  BY <1>2, <1>4, <1>5

(* rank_sparse() adds up the orders asked of each variable, term by term:  *)
(* their sum, as long as that is an int.                                   *)
OrderOf(list, p) == [t \in DOMAIN list |-> IF list[t].variable = p THEN list[t].order ELSE 0]

Gathers(g, list, p) ==
  g = [ss \in SUBSET DOMAIN list |->
         IF ss = {} THEN 0
         ELSE LET x == CHOOSE x \in ss : \A y \in ss : x >= y
              IN  IF list[x].variable = p THEN WrapInt(g[ss \ {x}] + list[x].order) ELSE g[ss \ {x}]]

LEMMA GreatestIn ==
  ASSUME NEW n \in Nat, NEW ss \in SUBSET (1..n), ss # {}
  PROVE  (CHOOSE x \in ss : \A y \in ss : x >= y) \in ss
<1> DEFINE U == {b \in Nat : \A y \in ss : y <= b}
<1>1. n \in U
  OBVIOUS
<1>2. PICK b \in U : \A d \in U : b <= d
  <2>1. U \in SUBSET Nat /\ U # {}
    BY <1>1
  <2> HIDE DEF U
  <2> QED  BY <2>1, Sums!LeastNatural
<1>3. b \in Nat /\ \A y \in ss : y \in Nat /\ y >= 1 /\ y <= b
  BY <1>2
<1>4. b # 0
  <2>1. PICK y \in ss : TRUE
    OBVIOUS
  <2>2. y \in Nat /\ y >= 1 /\ y <= b
    BY <1>3
  <2> QED  BY <1>3, <2>2
<1>5. b - 1 \in Nat /\ b - 1 \notin U
  BY <1>2, <1>3, <1>4
<1>6. PICK y \in ss : y > b - 1
  BY <1>3, <1>5
<1>7. y = b
  BY <1>3, <1>6
<1>8. b \in ss /\ \A z \in ss : b >= z
  BY <1>3, <1>7
<1> QED  BY <1>8

(* A part of the sum is no more than the whole.                            *)
LEMMA PartialOrders ==
  ASSUME NEW D, IsFiniteSet(D), NEW w, \A t \in D : w[t] \in Nat
  PROVE  \A ss \in SUBSET D : /\ IsFiniteSet(ss) /\ Sums!ValuesOn(w, ss)
                              /\ Sums!Fold(w, ss) \in Nat /\ Sums!Fold(w, ss) <= Sums!Fold(w, D)
<1>1. \A ss \in SUBSET D : IsFiniteSet(ss) /\ Sums!IsFiniteSet(ss) /\ Sums!ValuesOn(w, ss)
  BY FS_Subset, FiniteForSums DEF Sums!ValuesOn
<1> DEFINE F == {ss \in SUBSET D : Sums!Fold(w, ss) \in Nat}
<1>2. {} \in F
  BY SumsLaws, Sums!FoldEmpty
<1>3. ASSUME NEW T \in SUBSET D, NEW x \in D \ T, T \in F
      PROVE  T \cup {x} \in F
  <2>1. Sums!Fold(w, T \cup {x}) = w[x] + Sums!Fold(w, T)
    BY <1>1, SumsLaws, Sums!FoldAdd
  <2> QED  BY <1>3, <2>1
<1> HIDE DEF F
<1>4. SUBSET D \subseteq F
  BY <1>2, <1>3, FiniteForSums, Sums!SetInductionOn
<1>5. \A ss \in SUBSET D : Sums!Fold(w, ss) \in Nat
  BY <1>4 DEF F
<1>6. ASSUME NEW ss \in SUBSET D PROVE Sums!Fold(w, ss) <= Sums!Fold(w, D)
  <2>1. /\ D \ ss \in SUBSET D /\ ss \cup (D \ ss) = D /\ ss \cap (D \ ss) = {} /\ D \in SUBSET D
    OBVIOUS
  <2>2. /\ Sums!IsFiniteSet(ss) /\ Sums!IsFiniteSet(D \ ss) /\ Sums!ValuesOn(w, ss \cup (D \ ss))
    BY <1>1, <2>1
  <2>3. Sums!Fold(w, ss \cup (D \ ss)) = Sums!Fold(w, ss) + Sums!Fold(w, D \ ss)
    BY <2>1, <2>2, SumsLaws, Sums!FoldUnion
  <2>4. Sums!Fold(w, ss) \in Nat /\ Sums!Fold(w, D \ ss) \in Nat
    BY <1>5, <2>1
  <2> DEFINE part == Sums!Fold(w, ss)
             other == Sums!Fold(w, D \ ss)
  <2>5. Sums!Fold(w, D) = part + other
    BY <2>1, <2>3
  <2> HIDE DEF part, other
  <2>6. part <= part + other
    BY <2>4 DEF part, other
  <2> QED  BY <2>5, <2>6 DEF part
<1> QED  BY <1>1, <1>5, <1>6

LEMMA GatheredIs ==
  ASSUME NEW list \in Seq([variable : Int, order : Int]), ~Spoilt(list), Fits(Algebra!SparseSum(list))
  PROVE  Gathered(list) = Algebra!SparseSum(list)
<1> DEFINE D == DOMAIN list
           a == Algebra!SparseSum(list)
<1>1. /\ D = 1..Len(list) /\ Len(list) \in Nat /\ IsFiniteSet(D) /\ Sums!IsFiniteSet(D)
      /\ \A t \in D : list[t].variable \in Int /\ list[t].order \in Int
  <2> DEFINE Terms == [variable : Int, order : Int]
  <2>1. list \in Seq(Terms)
    OBVIOUS
  <2>2. \A e \in Terms : e.variable \in Int /\ e.order \in Int
    OBVIOUS
  <2> HIDE DEF Terms
  <2>3. D = 1..Len(list) /\ Len(list) \in Nat /\ \A t \in D : list[t] \in Terms
    BY <2>1
  <2>4. IsFiniteSet(1..Len(list))
    BY <2>3, FS_Interval
  <2> QED  BY <2>2, <2>3, <2>4, FiniteForSums
<1>2. \A t \in D : list[t].order \in Nat
  BY <1>1 DEF Spoilt
<1>3. a = [p \in 0..(M-1) |-> a[p]] /\ \A p \in 0..(M-1) : a[p] = Sums!Fold(OrderOf(list, p), D)
  <2>1. ASSUME NEW p \in 0..(M-1) PROVE a[p] = Sums!Fold(OrderOf(list, p), D)
    BY DEF Algebra!SparseSum, Algebra!SumFunction, Algebra!SumFunctionOnSet, Algebra!FoldFunctionOnSet,
           Algebra!MapThenFoldSet, Sums!Fold, Sums!FoldFunctionOnSet, Sums!MapThenFoldSet, OrderOf
  <2>2. a = [p \in 0..(M-1) |-> a[p]]
    BY DEF Algebra!SparseSum
  <2> QED  BY <2>1, <2>2
<1> HIDE DEF a, D
<1>4. ASSUME NEW p \in 0..(M-1)
      PROVE  /\ \A t \in D : OrderOf(list, p)[t] \in Nat
                             /\ OrderOf(list, p)[t] = IF list[t].variable = p THEN list[t].order ELSE 0
             /\ a[p] \in Nat
  <2>1. \A t \in D : OrderOf(list, p)[t] = IF list[t].variable = p THEN list[t].order ELSE 0
    BY DEF OrderOf, D
  <2>2. \A t \in D : OrderOf(list, p)[t] \in Nat
    BY <1>2, <2>1
  <2> DEFINE w == OrderOf(list, p)
  <2> HIDE DEF w
  <2>3. Sums!Fold(w, D) \in Nat
    BY <1>1, <2>2, PartialOrders DEF w
  <2> QED  BY <1>3, <2>1, <2>2, <2>3 DEF w
<1>5. \A p \in 0..(M-1) : a[p] <= IntMax
  <2>1. a \in DenseIndices(M)
    BY <1>3, <1>4 DEF DenseIndices
  <2>2. \A p \in 0..(M-1) : a[p] \in Nat /\ a[p] >= 0
    BY <1>4
  <2>3. OrderIn(a) <= IntMax
    BY <2>2 DEF Fits, a
  <2>4. Summed(a, M) <= IntMax
    BY <2>3, OrderIs
  <2> TAKE p \in 0..(M-1)
  <2>5. a[p] <= Summed(a, M) /\ Summed(a, M) \in Nat
    BY <2>1, ShapeIs, ExponentBounds, SummedStep
  <2> QED  BY <1>4, <2>4, <2>5, ShapeIs, IntMaxAssumption
<1>6. ASSUME NEW p \in 0..(M-1) PROVE Gathered(list)[p] = a[p]
  <2> DEFINE w == OrderOf(list, p)
             h == [ss \in SUBSET D |-> Sums!Fold(w, ss)]
             G == CHOOSE g : Gathers(g, list, p)
             Top(ss) == CHOOSE x \in ss : \A y \in ss : x >= y
             Turn(g, ss) == IF list[Top(ss)].variable = p
                            THEN WrapInt(g[ss \ {Top(ss)}] + list[Top(ss)].order)
                            ELSE g[ss \ {Top(ss)}]
  <2>1. Gathered(list)[p] = G[D]
    BY DEF Gathered, FoldLeft, MapThenFoldSet, Gathers, Max, D
  <2>2. \A g : Gathers(g, list, p) <=> g = [ss \in SUBSET D |-> IF ss = {} THEN 0 ELSE Turn(g, ss)]
    BY DEF Gathers, D
  <2>3. \A ss \in SUBSET D : ss # {} => Top(ss) \in ss
    BY <1>1, GreatestIn
  <2> HIDE DEF Top
  <2>4. \A t \in D : w[t] \in Nat /\ w[t] = IF list[t].variable = p THEN list[t].order ELSE 0
    BY <1>4
  <2>5. Sums!Fold(w, D) = a[p] /\ a[p] \in Nat /\ a[p] <= IntMax
    BY <1>3, <1>4, <1>5
  <2> HIDE DEF w
  <2>6. \A ss \in SUBSET D : /\ IsFiniteSet(ss) /\ Sums!IsFiniteSet(ss) /\ Sums!ValuesOn(w, ss)
                             /\ Sums!Fold(w, ss) \in Nat /\ Sums!Fold(w, ss) <= a[p]
    BY <1>1, <2>4, <2>5, PartialOrders, FiniteForSums
  <2>7. ASSUME NEW ss \in SUBSET D
        PROVE  h[ss] = IF ss = {} THEN 0 ELSE Turn(h, ss)
    <3>1. CASE ss = {}
      BY <3>1, SumsLaws, Sums!FoldEmpty
    <3>2. CASE ss # {}
      <4> DEFINE x == Top(ss)
                 rest == ss \ {x}
      <4>1. x \in ss /\ x \in D /\ rest \in SUBSET D
        BY <2>3, <3>2
      <4>2. Turn(h, ss) = IF list[x].variable = p THEN WrapInt(h[rest] + list[x].order) ELSE h[rest]
        OBVIOUS
      <4> HIDE DEF Turn, x
      <4>3. Sums!Fold(w, ss) = w[x] + Sums!Fold(w, rest)
        BY <2>6, <4>1, SumsLaws, Sums!FoldTake
      <4>4. h[ss] = Sums!Fold(w, ss) /\ h[rest] = Sums!Fold(w, rest)
        BY <4>1
      <4>5. Sums!Fold(w, ss) \in Nat /\ Sums!Fold(w, ss) <= a[p] /\ Sums!Fold(w, rest) \in Nat
        BY <2>6, <4>1
      <4> HIDE DEF h, rest
      <4>6. Sums!Fold(w, ss) \in 0..IntMax
        BY <2>5, <4>5, IntMaxAssumption
      <4>7. WrapInt(Sums!Fold(w, ss)) = Sums!Fold(w, ss)
        BY <4>6, WrapKeeps
      <4>8. CASE list[x].variable = p
        <5>1. w[x] = list[x].order /\ w[x] \in Nat
          BY <2>4, <4>1, <4>8
        <5>2. h[rest] + list[x].order = Sums!Fold(w, ss)
          BY <4>3, <4>4, <4>5, <5>1
        <5> QED  BY <3>2, <4>2, <4>4, <4>7, <4>8, <5>2
      <4>9. CASE list[x].variable # p
        <5>1. w[x] = 0
          BY <2>4, <4>1, <4>9
        <5>2. h[rest] = Sums!Fold(w, ss)
          BY <4>3, <4>4, <4>5, <5>1
        <5> QED  BY <3>2, <4>2, <4>4, <4>9, <5>2
      <4> QED  BY <4>8, <4>9
    <3> QED  BY <3>1, <3>2
  <2>8. h = [ss \in SUBSET D |-> h[ss]]
    OBVIOUS
  <2> HIDE DEF h
  <2>9. h = [ss \in SUBSET D |-> IF ss = {} THEN 0 ELSE Turn(h, ss)]
    <3> HIDE DEF Turn
    <3> QED  BY <2>7, <2>8
  <2>10. Gathers(h, list, p)
    BY <2>2, <2>9
  <2>11. Gathers(G, list, p)
    BY <2>10
  <2> HIDE DEF G
  <2>12. \A ss \in SUBSET D : G[ss] = IF ss = {} THEN 0 ELSE Turn(G, ss)
    <3>1. G = [ss \in SUBSET D |-> IF ss = {} THEN 0 ELSE Turn(G, ss)]
      BY <2>2, <2>11
    <3> HIDE DEF Turn
    <3> QED  BY <3>1
  <2> DEFINE F == {ss \in SUBSET D : G[ss] # h[ss]}
  <2>13. F = {}
    <3> SUFFICES ASSUME F # {} PROVE FALSE
      OBVIOUS
    <3>1. PICK ss \in F : \A U \in F : U \subseteq ss => U = ss
      <4>1. F \in SUBSET SUBSET D
        OBVIOUS
      <4>2. F # {} /\ Sums!IsFiniteSet(D)
        BY <1>1
      <4> HIDE DEF F
      <4> QED  BY <4>1, <4>2, Sums!MinimalSubset
    <3>2. ss # {} /\ ss \in SUBSET D
      <4> HIDE DEF Turn
      <4> QED  BY <2>7, <2>12, <3>1
    <3>3. Top(ss) \in ss
      BY <2>3, <3>2
    <3>4. ss \ {Top(ss)} \in SUBSET D /\ ss \ {Top(ss)} # ss
      BY <3>2, <3>3
    <3>5. G[ss \ {Top(ss)}] = h[ss \ {Top(ss)}]
      BY <3>1, <3>4
    <3>6. Turn(G, ss) = Turn(h, ss)
      BY <3>5
    <3>7. G[ss] = h[ss]
      <4> HIDE DEF Turn
      <4> QED  BY <2>7, <2>12, <3>2, <3>6
    <3> QED  BY <3>1, <3>7
  <2>14. G[D] = h[D] /\ h[D] = Sums!Fold(w, D)
    BY <2>13 DEF h
  <2> QED  BY <2>1, <2>5, <2>14
<1>7. Gathered(list) = [p \in 0..(M-1) |-> Gathered(list)[p]]
  BY DEF Gathered
<1> QED  BY <1>3, <1>6, <1>7 DEF a

LEMMA RanksIn ==
  ASSUME InputsFit
  PROVE  /\ \A alpha \in DenseInputs : Rank(M, N, alpha) \in Idx \cup {-1}
         /\ \A list \in SparseInputs : RankSparse(list) \in Idx \cup {-1}
<1>1. \A alpha \in DenseInputs : Rank(M, N, alpha) \in Idx \cup {-1}
  BY RequestRanks DEF InputsFit
<1>2. ASSUME NEW list \in SparseInputs PROVE RankSparse(list) \in Idx \cup {-1}
  <2>1. CASE Spoilt(list)
    BY <2>1 DEF RankSparse
  <2>2. CASE ~Spoilt(list)
    <3>1. Fits(Algebra!SparseSum(list))
      BY <2>2 DEF InputsFit
    <3>2. Gathered(list) = Algebra!SparseSum(list)
      BY <2>2, <3>1, SparseAssumption, GatheredIs
    <3> QED  BY <2>2, <3>1, <3>2, RequestRanks DEF RankSparse
  <2> QED  BY <2>1, <2>2
<1> QED  BY <1>1, <1>2

LEMMA PutIn ==
  ASSUME NEW jet \in Jet, NEW v \in Coeff, NEW idx \in Idx \cup {-1}
  PROVE  /\ PutRanked(jet, idx, v) \in Jet
         /\ idx = -1 => PutRanked(jet, idx, v) = jet
         /\ idx # -1 => PutRanked(jet, idx, v)[idx] = v
<1>1. CASE idx = -1
  BY <1>1 DEF PutRanked
<1>2. CASE idx \in Idx
  <2>1. idx >= 0 /\ idx # -1
    BY <1>2, ShapeIs DEF Idx
  <2>2. DOMAIN jet \cup {idx} = Idx
    BY <1>2 DEF Jet
  <2>3. PutRanked(jet, idx, v) = [x \in Idx |-> IF x = idx THEN v ELSE jet[x]]
    BY <2>1, <2>2 DEF PutRanked, Put
  <2> QED  BY <1>2, <2>1, <2>3 DEF Jet
<1> QED  BY <1>1, <1>2

LEMMA PartialIn ==
  ASSUME NEW v \in Coeff, NEW idx \in Idx \cup {-1}
  PROVE  NormalizedPartial(idx, v) \in Coeff
<1>1. CASE idx = -1
  BY <1>1 DEF NormalizedPartial
<1>2. CASE idx \in Idx
  BY <1>2, NormalizedIn
<1> QED  BY <1>1, <1>2

LEMMA UnitSum ==
  ASSUME NEW v \in 0..(M-1)
  PROVE  Unit(v) \in DenseIndices(M) /\ Summed(Unit(v), M) = 1 /\ Unit(v) # Zero
<1> DEFINE u == Unit(v)
<1>1. M \in Nat \ {0} /\ M \in Nat
  BY ShapeIs
<1>2. u \in DenseIndices(M) /\ \A p \in 0..(M-1) : u[p] = IF p = v THEN 1 ELSE 0
  BY DEF Unit, Zero, DenseIndices
<1> HIDE DEF u
<1>3. Summed(u, M) = 1
  <2>1. Summed(u, M) = u[v] + Sums!Fold(u, 0..(M-1) \ {v})
    <3>1. IsFiniteSet(0..(M-1))
      BY <1>1, FS_Interval
    <3>2. Sums!ValuesOn(u, 0..(M-1))
      BY <1>2 DEF Sums!ValuesOn
    <3> QED  BY <3>1, <3>2, FiniteForSums, SumsLaws, Sums!FoldTake DEF Summed
  <2> DEFINE S == 0..(M-1) \ {v}
  <2>2. Sums!Fold(u, S) = 0
    <3>1. IsFiniteSet(S) /\ Sums!IsFiniteSet(S)
      <4>1. IsFiniteSet(0..(M-1))
        BY <1>1, FS_Interval
      <4>2. S \subseteq 0..(M-1)
        OBVIOUS
      <4> HIDE DEF S
      <4>3. IsFiniteSet(S)
        BY <4>1, <4>2, FS_Subset
      <4> QED  BY <4>3, FiniteForSums
    <3> DEFINE F == {T \in SUBSET S : Sums!Fold(u, T) = 0}
    <3>2. {} \in F
      BY SumsLaws, Sums!FoldEmpty
    <3>3. ASSUME NEW T \in SUBSET S, NEW x \in S \ T, T \in F PROVE T \cup {x} \in F
      <4>1. Sums!IsFiniteSet(T) /\ Sums!ValuesOn(u, T \cup {x})
        <5>1. Sums!IsFiniteSet(T)
          BY <3>1, FS_Subset, FiniteForSums
        <5> QED  BY <1>2, <5>1 DEF Sums!ValuesOn
      <4>2. Sums!Fold(u, T \cup {x}) = u[x] + Sums!Fold(u, T)
        BY <4>1, SumsLaws, Sums!FoldAdd
      <4>3. u[x] = 0 /\ Sums!Fold(u, T) = 0
        BY <1>2, <3>3
      <4> QED  BY <4>2, <4>3
    <3> HIDE DEF F, S
    <3>4. SUBSET S \subseteq F
      BY <3>1, <3>2, <3>3, Sums!SetInductionOn
    <3> QED  BY <3>4 DEF F
  <2> QED  BY <1>2, <2>1, <2>2
<1>4. u # Zero
  <2>1. u[v] = 1
    BY <1>2
  <2>2. Zero[v] = 0
    BY DEF Zero
  <2> QED  BY <2>1, <2>2
<1> QED  BY <1>2, <1>3, <1>4 DEF u

LEMMA UnitPlace ==
  ASSUME NEW v \in 0..(M-1)
  PROVE  /\ N > 0 <=> Unit(v) \in Alphas
         /\ N > 0 => Rank(M, N, Unit(v)) = PlaceOf(M, Unit(v)) /\ Rank(M, N, Unit(v)) \in Idx \ {0}
<1>1. Unit(v) \in DenseIndices(M) /\ Summed(Unit(v), M) = 1 /\ Unit(v) # Zero
  BY UnitSum
<1>2. N > 0 <=> Unit(v) \in Alphas
  BY <1>1, AlphasAre, ShapeIs
<1>3. ASSUME N > 0
      PROVE  Rank(M, N, Unit(v)) = PlaceOf(M, Unit(v)) /\ Rank(M, N, Unit(v)) \in Idx \ {0}
  <2>1. /\ Rank(M, N, Unit(v)) = PlaceOf(M, Unit(v)) /\ Rank(M, N, Unit(v)) \in Idx
        /\ AlphaAt[Rank(M, N, Unit(v))] = Unit(v)
    BY <1>1, <1>2, <1>3, PlaceIs
  <2> QED  BY <1>1, <2>1, RealPart
<1> QED  BY <1>2, <1>3

LEMMA UnitRanks == N > 0 => \A v \in 0..(M-1) : Rank(M, N, Unit(v)) \in Idx \ {0}
BY UnitPlace

-----------------------------------------------------------------------------
(* The operands of a call.                                                 *)
Setting == {"set_coeff", "set_partial"}
SettingSparse == {"set_coeff_sparse", "set_partial_sparse"}
WithScalar == {"add_scalar", "sub_scalar", "mul_scalar", "div_scalar", "scalar_sub", "scalar_div", "axpy"}
WithTwo == {"add", "sub", "mul", "div", "fma_into"}
Truncating == {"trunc_mul", "trunc_add"}

LEMMA CallIs ==
  ASSUME NEW c \in Calls
  PROVE  /\ c.y \in Regs
         /\ c.op \in {"assign", "variable", "neg", "inv", "scale_add", "gem"} \cup Setting
                       \cup SettingSparse \cup WithScalar \cup WithTwo \cup Truncating
         /\ c.op \in {"assign", "variable", "scale_add"} \cup Setting \cup SettingSparse \cup WithScalar
              => c.s \in Scalars
         /\ c.op = "variable" => c.v \in 0..(M-1)
         /\ c.op \in Setting => c.alpha \in DenseInputs
         /\ c.op \in SettingSparse => c.list \in SparseInputs
         /\ c.op \in {"neg", "inv", "scale_add", "gem"} \cup WithTwo \cup WithScalar \cup Truncating
              => c.a \in Regs
         /\ c.op \in {"scale_add", "gem"} \cup WithTwo \cup Truncating => c.b \in Regs
         /\ c.op = "gem" => c.c \in Regs
         /\ c.op \in Truncating => c.max \in -1..(N + 1)
BY DEF Calls, Setting, SettingSparse, WithScalar, WithTwo, Truncating

(* The linear operations, one coefficient at a time.                       *)
LEMMA LinearIn ==
  ASSUME NEW a \in Jet, NEW b \in Jet, NEW s \in Coeff
  PROVE  /\ Added(a, b) \in Jet /\ Subtracted(a, b) \in Jet /\ AddedReal(a, s) \in Jet
         /\ Scaled(a, s) \in Jet /\ Axpy(a, s, b) \in Jet /\ ScalarQuotient(a, s) \in Jet
         /\ Lift(s) \in Jet
<1>1. \A x \in Idx : a[x] \in Coeff /\ b[x] \in Coeff
  BY DEF Jet
<1>2. \A x \in Idx : Minus(b[x]) \in Coeff /\ Over(a[x], s) \in Coeff /\ Times(s, b[x]) \in Coeff
  BY <1>1, PlusTimes, PIs, FiniteIs DEF Minus, Over
<1>3. Added(a, b) \in Jet /\ Scaled(a, s) \in Jet
  BY <1>1, PlusTimes DEF Added, Scaled, Jet
<1>4. Subtracted(a, b) \in Jet /\ Axpy(a, s, b) \in Jet
  BY <1>1, <1>2, PlusTimes DEF Subtracted, Axpy, Jet
<1>5. AddedReal(a, s) \in Jet
  <2>1. Plus(a[0], s) \in Coeff /\ AddedReal(a, s) = [a EXCEPT ![0] = Plus(a[0], s)]
    BY <1>1, RealPart, PlusTimes DEF AddedReal
  <2> QED  BY <2>1 DEF Jet
<1>6. ScalarQuotient(a, s) \in Jet
  BY <1>2, NonFinIs DEF ScalarQuotient, Jet
<1>7. Lift(s) \in Jet
  BY PIs, FiniteIs DEF Lift, Jet
<1> QED  BY <1>3, <1>4, <1>5, <1>6, <1>7

LEMMA ProductsIn ==
  ASSUME path \in Paths, NEW a \in Jet, NEW b \in Jet, NEW max \in Int
  PROVE  /\ Mul(a, b) \in Jet /\ TruncMul(a, b, max) \in Jet /\ TruncAdd(a, b, max) \in Jet
<1>1. 0 \in Coeff
  BY PIs, FiniteIs
<1>2. Lift(0) \in Jet
  BY <1>1, LinearIn
<1>3. Mul(a, b) \in Jet
  BY <1>2, MulIntoIs DEF Mul
<1>4. TruncMul(a, b, max) \in Jet
  BY <1>2, MulIntoIs DEF TruncMul
<1>5. \A x \in Idx : Plus(a[x], b[x]) \in Coeff
  BY PlusTimes DEF Jet
<1>6. TruncAdd(a, b, max) \in Jet
  BY <1>1, <1>5 DEF TruncAdd, Jet
<1> QED  BY <1>3, <1>4, <1>6

(* Value(), call by call.                                                  *)
LEMMA ValueIs ==
  ASSUME NEW c
  PROVE  /\ c.op = "assign" => Value(c) = Lift(c.s)
         /\ c.op = "variable" =>
              Value(c) = IF N > 0 THEN Put(Lift(c.s), Rank(M, N, Unit(c.v)), 1) ELSE Lift(c.s)
         /\ c.op = "set_coeff" => Value(c) = PutRanked(regs[c.y], Rank(M, N, c.alpha), c.s)
         /\ c.op = "set_partial" =>
              Value(c) = PutRanked(regs[c.y], Rank(M, N, c.alpha), NormalizedPartial(Rank(M, N, c.alpha), c.s))
         /\ c.op = "set_coeff_sparse" => Value(c) = PutRanked(regs[c.y], RankSparse(c.list), c.s)
         /\ c.op = "set_partial_sparse" =>
              Value(c) = PutRanked(regs[c.y], RankSparse(c.list), NormalizedPartial(RankSparse(c.list), c.s))
         /\ c.op = "neg" => Value(c) = Scaled(regs[c.a], P - 1)
         /\ c.op = "add" => Value(c) = Added(regs[c.a], regs[c.b])
         /\ c.op = "sub" => Value(c) = Subtracted(regs[c.a], regs[c.b])
         /\ c.op = "mul" => Value(c) = Mul(regs[c.a], regs[c.b])
         /\ c.op = "fma_into" => Value(c) = MulInto(regs[c.y], regs[c.a], regs[c.b], N)
         /\ c.op = "add_scalar" => Value(c) = AddedReal(regs[c.a], c.s)
         /\ c.op = "sub_scalar" => Value(c) = AddedReal(regs[c.a], Minus(c.s))
         /\ c.op = "mul_scalar" => Value(c) = Scaled(regs[c.a], c.s)
         /\ c.op = "scalar_sub" => Value(c) = AddedReal(Scaled(regs[c.a], P - 1), c.s)
         /\ c.op = "axpy" => Value(c) = Axpy(regs[c.y], c.s, regs[c.a])
         /\ c.op = "scale_add" => Value(c) = Axpy(regs[c.a], c.s, regs[c.b])
         /\ c.op = "trunc_mul" => Value(c) = TruncMul(regs[c.a], regs[c.b], c.max)
         /\ c.op = "trunc_add" => Value(c) = TruncAdd(regs[c.a], regs[c.b], c.max)
         /\ c.op = "gem" => Value(c) = Added(Mul(regs[c.a], regs[c.b]), regs[c.c])
BY DEF Value

LEMMA ValueIn ==
  ASSUME InputsFit, regs \in [Regs -> Jet], path \in Paths,
         NEW c \in Calls, c.op \notin Inverting \cup {"div_scalar"}
  PROVE  Value(c) \in Jet
<1> DEFINE a == regs[c.a]
           b == regs[c.b]
           y == regs[c.y]
<1>1. y \in Jet
  BY CallIs
<1>2. N \in Int /\ 1 \in Coeff /\ P - 1 \in Coeff
  BY ShapeIs, PIs, FiniteIs
<1>3. CASE c.op \in {"assign", "variable"}
  <2>1. c.s \in Coeff /\ Lift(c.s) \in Jet
    BY <1>1, <1>3, CallIs, ScalarsAssumption, LinearIn
  <2>2. CASE c.op = "assign"
    BY <2>1, <2>2, ValueIs
  <2>3. CASE c.op = "variable" /\ N > 0
    <3>1. Rank(M, N, Unit(c.v)) \in Idx
      BY <2>3, CallIs, UnitRanks
    <3>2. Put(Lift(c.s), Rank(M, N, Unit(c.v)), 1) \in Jet
      <4>1. Rank(M, N, Unit(c.v)) >= 0
        BY <3>1, ShapeIs DEF Idx
      <4> QED  BY <1>2, <2>1, <3>1, <4>1, PutIn DEF PutRanked
    <3> QED  BY <2>3, <3>2, ValueIs
  <2>4. CASE c.op = "variable" /\ ~(N > 0)
    BY <2>1, <2>4, ValueIs
  <2> QED  BY <1>3, <2>2, <2>3, <2>4
<1>4. CASE c.op \in Setting
  <2>1. c.s \in Coeff /\ Rank(M, N, c.alpha) \in Idx \cup {-1}
    BY <1>4, CallIs, ScalarsAssumption, RanksIn
  <2>2. NormalizedPartial(Rank(M, N, c.alpha), c.s) \in Coeff
    BY <2>1, PartialIn
  <2>3. /\ PutRanked(y, Rank(M, N, c.alpha), c.s) \in Jet
        /\ PutRanked(y, Rank(M, N, c.alpha), NormalizedPartial(Rank(M, N, c.alpha), c.s)) \in Jet
    BY <1>1, <2>1, <2>2, PutIn
  <2> QED  BY <1>4, <2>3, ValueIs DEF Setting
<1>5. CASE c.op \in SettingSparse
  <2>1. c.s \in Coeff /\ RankSparse(c.list) \in Idx \cup {-1}
    BY <1>5, CallIs, ScalarsAssumption, RanksIn
  <2>2. NormalizedPartial(RankSparse(c.list), c.s) \in Coeff
    BY <2>1, PartialIn
  <2>3. /\ PutRanked(y, RankSparse(c.list), c.s) \in Jet
        /\ PutRanked(y, RankSparse(c.list), NormalizedPartial(RankSparse(c.list), c.s)) \in Jet
    BY <1>1, <2>1, <2>2, PutIn
  <2> QED  BY <1>5, <2>3, ValueIs DEF SettingSparse
<1>6. CASE c.op = "neg"
  <2>1. a \in Jet
    BY <1>6, CallIs
  <2> QED  BY <1>2, <1>6, <2>1, LinearIn, ValueIs
<1>7. CASE c.op \in WithTwo
  <2>1. a \in Jet /\ b \in Jet
    BY <1>7, CallIs
  <2>2. Added(a, b) \in Jet /\ Subtracted(a, b) \in Jet
    BY <1>2, <2>1, LinearIn
  <2>3. Mul(a, b) \in Jet /\ MulInto(y, a, b, N) \in Jet
    BY <1>1, <1>2, <2>1, MulIntoIs, ProductsIn
  <2> HIDE DEF a, b, y
  <2>4. c.op # "div"
    BY DEF Inverting
  <2>5. /\ c.op = "add" => Value(c) = Added(a, b)
        /\ c.op = "sub" => Value(c) = Subtracted(a, b)
        /\ c.op = "mul" => Value(c) = Mul(a, b)
        /\ c.op = "fma_into" => Value(c) = MulInto(y, a, b, N)
    BY ValueIs DEF a, b, y
  <2> QED  BY <1>7, <2>2, <2>3, <2>4, <2>5 DEF WithTwo
<1>8. CASE c.op \in WithScalar
  <2>1. a \in Jet /\ c.s \in Coeff
    BY <1>8, CallIs, ScalarsAssumption
  <2>2. Minus(c.s) \in Coeff
    BY <1>2, <2>1, PlusTimes DEF Minus
  <2>3. /\ AddedReal(a, c.s) \in Jet /\ AddedReal(a, Minus(c.s)) \in Jet /\ Scaled(a, c.s) \in Jet
        /\ Scaled(a, P - 1) \in Jet /\ Axpy(y, c.s, a) \in Jet
    BY <1>1, <1>2, <2>1, <2>2, LinearIn
  <2>4. AddedReal(Scaled(a, P - 1), c.s) \in Jet
    BY <2>1, <2>3, LinearIn
  <2> HIDE DEF a, y
  <2>5. c.op \notin {"scalar_div", "div_scalar"}
    BY DEF Inverting
  <2>6. /\ c.op = "add_scalar" => Value(c) = AddedReal(a, c.s)
        /\ c.op = "sub_scalar" => Value(c) = AddedReal(a, Minus(c.s))
        /\ c.op = "mul_scalar" => Value(c) = Scaled(a, c.s)
        /\ c.op = "scalar_sub" => Value(c) = AddedReal(Scaled(a, P - 1), c.s)
        /\ c.op = "axpy" => Value(c) = Axpy(y, c.s, a)
    BY ValueIs DEF a, y
  <2> QED  BY <1>8, <2>3, <2>4, <2>5, <2>6 DEF WithScalar
<1>9. CASE c.op = "scale_add"
  <2>1. a \in Jet /\ b \in Jet /\ c.s \in Coeff
    BY <1>9, CallIs, ScalarsAssumption
  <2>2. Axpy(a, c.s, b) \in Jet
    BY <2>1, LinearIn
  <2> QED  BY <1>9, <2>2, ValueIs
<1>10. CASE c.op \in Truncating
  <2>1. a \in Jet /\ b \in Jet /\ c.max \in Int
    BY <1>10, CallIs, ShapeIs
  <2>2. TruncMul(a, b, c.max) \in Jet /\ TruncAdd(a, b, c.max) \in Jet
    BY <2>1, ProductsIn
  <2> QED  BY <1>10, <2>2, ValueIs DEF Truncating
<1>11. CASE c.op = "gem"
  <2>1. a \in Jet /\ b \in Jet /\ regs[c.c] \in Jet
    BY <1>11, CallIs
  <2>2. Mul(a, b) \in Jet
    BY <1>2, <2>1, ProductsIn
  <2>3. Added(Mul(a, b), regs[c.c]) \in Jet
    BY <1>2, <2>1, <2>2, LinearIn
  <2> QED  BY <1>11, <2>3, ValueIs
<1>12. c.op # "inv"
  BY DEF Inverting
<1>13. c.op \in {"assign", "variable", "neg", "inv", "scale_add", "gem"} \cup Setting
                       \cup SettingSparse \cup WithScalar \cup WithTwo \cup Truncating
  BY CallIs
<1> QED  BY <1>3, <1>4, <1>5, <1>6, <1>7, <1>8, <1>9, <1>10, <1>11, <1>12, <1>13

-----------------------------------------------------------------------------
(* The inverse, solved one coefficient at a time.                          *)

LEMMA TotalSame ==
  ASSUME NEW a \in Jet, NEW b \in Jet, NEW d \in Jet, NEW S \in SUBSET (Idx \X Idx), IsFiniteSet(S),
         \A t \in S : b[t[2]] = d[t[2]]
  PROVE  Total(a, b, S) = Total(a, d, S)
<1> DEFINE c == Contributions(a, b, S)
           e == Contributions(a, d, S)
<1>1. \A t \in S : c[t] = e[t]
  BY DEF Contributions, TermProduct
<1>2. Products!ValuesOn(c, S) /\ Products!IsFiniteSet(S)
  BY ContributionsIn, FiniteForProducts
<1> HIDE DEF c, e
<1>3. Products!Fold(c, S) = Products!Fold(e, S)
  BY <1>1, <1>2, SumLaws, Products!FoldSame
<1> QED  BY <1>3 DEF Total, c, e

LEMMA TotalTake ==
  ASSUME NEW a \in Jet, NEW b \in Jet, NEW S \in SUBSET (Idx \X Idx), IsFiniteSet(S), NEW x \in S
  PROVE  Total(a, b, S) = Plus(TermProduct(a, b, x), Total(a, b, S \ {x}))
<1> DEFINE R == S \ {x}
           c == Contributions(a, b, S)
           e == Contributions(a, b, R)
<1>1. c[x] = TermProduct(a, b, x) /\ \A t \in R : c[t] = e[t]
  BY DEF Contributions
<1>2. Products!ValuesOn(c, S) /\ Products!ValuesOn(c, R) /\ Products!IsFiniteSet(S)
  <2>1. R \in SUBSET S /\ S \in SUBSET S
    OBVIOUS
  <2> HIDE DEF R, c
  <2> QED  BY <2>1, ContributionsIn, FiniteForProducts DEF c
<1>3. Products!IsFiniteSet(R)
  BY FS_RemoveElement, FiniteForProducts
<1> HIDE DEF c, e
<1>4. Products!Fold(c, S) = Plus(c[x], Products!Fold(c, S \ {x}))
  BY <1>2, SumLaws, Products!FoldTake
<1> HIDE DEF R
<1>5. Products!Fold(c, R) = Products!Fold(e, R)
  BY <1>1, <1>2, <1>3, SumLaws, Products!FoldSame
<1> QED  BY <1>1, <1>4, <1>5 DEF Total, c, e, R

(* The reciprocals the code finds.                                         *)
LEMMA RecipIs ==
  ASSUME NEW v \in Coeff, NEW r \in Recips(v)
  PROVE  /\ r \in Coeff
         /\ IsFinite(v) /\ IsFinite(r) => v \in Finite /\ r \in Finite /\ (v * r) % P = 1
<1>1. CASE v = NonFin
  BY <1>1, NonFinIs, PIs, FiniteIs DEF Recips
<1>2. CASE v # NonFin /\ v = 0
  BY <1>2, NonFinIs, PIs DEF Recips
<1>3. CASE v # NonFin /\ v # 0
  <2>1. r \in Finite /\ (v * r) % P = 1
    BY <1>3 DEF Recips
  <2> QED  BY <1>3, <2>1, NonFinIs, FiniteIs
<1> QED  BY <1>1, <1>2, <1>3

SolvedUpTo(v, out, k) ==
  (\A x \in Idx : IsFinite(v[x])) =>
    /\ \A x \in Idx : IsFinite(out[x])
    /\ \A j \in 0..(k-1) : Total(v, out, TermsInto[path][j]) = IF j = 0 THEN 1 ELSE 0
SpoiltUpTo(v, out, k) ==
  \A x \in Idx \ {0}, j \in 1..(k-1) : ~IsFinite(v[x]) /\ Reaches(x, j) => ~IsFinite(out[j])

(* Every coefficient solved is what the earlier ones leave for it.         *)
Contributed(v, out, j) == Total(v, out, TermsInto[path][j] \ {<<0, j>>})
FollowsUpTo(v, out, r, k) ==
  out[0] = r /\ \A j \in 1..(k-1) : out[j] = Over(Minus(Contributed(v, out, j)), r)

LEMMA FirstSolved ==
  ASSUME path \in Paths, NEW v \in Jet, NEW r \in Recips(v[0]), IsFinite(r)
  PROVE  /\ Lift(r) \in Jet /\ SolvedUpTo(v, Lift(r), 1) /\ SpoiltUpTo(v, Lift(r), 1)
         /\ FollowsUpTo(v, Lift(r), r, 1)
<1>1. 0 \in Idx /\ v[0] \in Coeff
  BY RealPart DEF Jet
<1>2. r \in Coeff
  BY <1>1, RecipIs
<1>3. Lift(r) \in Jet
  BY <1>1, <1>2, LinearIn, RealPart
<1>4. Lift(r)[0] = r /\ \A x \in Idx : x # 0 => Lift(r)[x] = 0
  BY <1>1 DEF Lift
<1>5. SpoiltUpTo(v, Lift(r), 1)
  BY DEF SpoiltUpTo
<1>6. ASSUME \A x \in Idx : IsFinite(v[x])
      PROVE  /\ \A x \in Idx : IsFinite(Lift(r)[x])
             /\ Total(v, Lift(r), TermsInto[path][0]) = 1
  <2>1. \A x \in Idx : IsFinite(Lift(r)[x])
    BY <1>4, PIs DEF IsFinite
  <2> DEFINE T == TermsInto[path][0]
             t0 == <<0, 0>>
  <2>2. T = {t0}
    <3>1. T \in SUBSET (Idx \X Idx) /\ t0 \in T /\ \A t \in T : t # t0 => t[2] < 0
      BY <1>1, TermsRead
    <3>2. \A t \in T : t[2] \in Idx
      BY <3>1
    <3>3. \A x \in Idx : ~(x < 0)
      BY ShapeIs DEF Idx
    <3> QED  BY <3>1, <3>2, <3>3
  <2>3. T \in SUBSET (Idx \X Idx)
    BY <1>1, TermsRead
  <2> DEFINE c == Contributions(v, Lift(r), T)
  <2>4. c[t0] = Times(v[0], r) /\ Times(v[0], r) \in Coeff
    BY <1>1, <1>2, <1>4, <2>2, PlusTimes DEF Contributions, TermProduct
  <2>5. Products!Fold(c, {t0}) = c[t0]
    <3> HIDE DEF c, t0
    <3> QED  BY <2>4, SumLaws, Products!FoldSingleton
  <2>6. Total(v, Lift(r), T) = Times(v[0], r)
    <3> HIDE DEF t0
    <3> QED  BY <2>2, <2>4, <2>5 DEF Total
  <2>7. Times(v[0], r) = 1
    BY <1>1, <1>6, RecipIs DEF Times
  <2> QED  BY <2>1, <2>6, <2>7
<1>7. SolvedUpTo(v, Lift(r), 1)
  BY <1>6 DEF SolvedUpTo
<1>8. FollowsUpTo(v, Lift(r), r, 1)
  <2>1. 1..(1-1) = {}
    OBVIOUS
  <2> QED  BY <1>4, <2>1 DEF FollowsUpTo
<1> QED  BY <1>3, <1>5, <1>7, <1>8

LEMMA NextSolved ==
  ASSUME path \in Paths, NEW v \in Jet, NEW out \in Jet, NEW k \in Idx \ {0},
         NEW r \in Finite, r \in Recips(v[0]), NEW s, NEW new,
         s = Over(Minus(Total(v, out, TermsInto[path][k] \ {<<0, k>>})), r),
         new = [out EXCEPT ![k] = s]
  PROVE  /\ new \in Jet
         /\ SolvedUpTo(v, out, k) => SolvedUpTo(v, new, k + 1)
         /\ SpoiltUpTo(v, out, k) => SpoiltUpTo(v, new, k + 1)
         /\ FollowsUpTo(v, out, r, k) => FollowsUpTo(v, new, r, k + 1)
<1> DEFINE T(j) == TermsInto[path][j]
           x0 == <<0, k>>
           R == T(k) \ {x0}
           K == Total(v, out, R)
<1>1. 0 \in Idx /\ v[0] \in Coeff /\ k \in Idx /\ k \in Nat /\ k # 0 /\ Idx \subseteq Nat
  BY RealPart, ShapeIs DEF Jet, Idx
<1>2. \A j \in Idx : /\ T(j) \in SUBSET (Idx \X Idx) /\ IsFiniteSet(T(j)) /\ <<0, j>> \in T(j)
                     /\ \A t \in T(j) : t # <<0, j>> => t[2] < j
  BY TermsRead
<1> HIDE DEF T
<1>3. R \in SUBSET (Idx \X Idx) /\ IsFiniteSet(R) /\ \A t \in R : t[2] < k /\ t[2] \in Idx
  BY <1>1, <1>2, FS_RemoveElement
<1> HIDE DEF R
<1>4. K \in Coeff
  BY <1>3, AccumulatedIs, PIs, FiniteIs
<1>5. Minus(K) \in Coeff /\ s \in Coeff /\ (IsFinite(s) <=> IsFinite(K))
  <2>1. P - 1 \in Coeff /\ r \in Coeff /\ IsFinite(P - 1) /\ IsFinite(r)
    BY PIs, FiniteIs
  <2>2. s = Over(Minus(K), r)
    BY DEF K, R, T, x0
  <2> HIDE DEF K
  <2> QED  BY <1>4, <2>1, <2>2, PlusTimes DEF Minus, Over
<1>6. new \in Jet /\ new[k] = s /\ \A x \in Idx : x # k => new[x] = out[x]
  BY <1>1, <1>5 DEF Jet
<1>7. K = Total(v, new, R)
  <2>1. \A t \in R : out[t[2]] = new[t[2]]
    BY <1>1, <1>3, <1>6
  <2>2. v \in Jet /\ out \in Jet /\ new \in Jet
    BY <1>6
  <2>3. Total(v, out, R) = Total(v, new, R)
    BY ONLY <1>3, <2>1, <2>2, TotalSame
  <2> QED  BY <2>3 DEF K
<1>8. ASSUME SolvedUpTo(v, out, k) PROVE SolvedUpTo(v, new, k + 1)
  <2>0. (k + 1) - 1 = k
    BY <1>1
  <2> SUFFICES ASSUME \A x \in Idx : IsFinite(v[x])
               PROVE  /\ \A x \in Idx : IsFinite(new[x])
                      /\ \A j \in 0..k : Total(v, new, T(j)) = IF j = 0 THEN 1 ELSE 0
    BY <2>0, Zenon DEF SolvedUpTo, T
  <2>1. /\ \A x \in Idx : IsFinite(out[x])
        /\ \A j \in 0..(k-1) : Total(v, out, T(j)) = IF j = 0 THEN 1 ELSE 0
    BY <1>8 DEF SolvedUpTo, T
  <2>2. IsFinite(K)
    <3>1. \A t \in R : IsFinite(TermProduct(v, out, t))
      <4> TAKE t \in R
      <4>1. t \in Idx \X Idx
        BY <1>3
      <4>2. t[1] \in Idx /\ t[2] \in Idx
        BY <4>1
      <4>3. v[t[1]] \in Coeff /\ out[t[2]] \in Coeff
        BY <4>2 DEF Jet
      <4> QED  BY <2>1, <4>2, <4>3, PlusTimes DEF TermProduct
    <3> QED  BY <1>3, <3>1, TotalFinite
  <2>3. \A x \in Idx : IsFinite(new[x])
    BY <1>5, <1>6, <2>1, <2>2
  <2>4. Total(v, new, T(k)) = 0
    <3>1. Total(v, new, T(k)) = Plus(TermProduct(v, new, x0), Total(v, new, R))
      BY <1>1, <1>2, <1>6, TotalTake DEF R
    <3>2. TermProduct(v, new, x0) = Times(v[0], s)
      BY <1>6 DEF TermProduct
    <3>3. s = Over(Minus(K), r)
      BY DEF K, R, T, x0
    <3>4. K \in Finite /\ v[0] \in Finite /\ (v[0] * r) % P = 1
      <4>1. IsFinite(v[0]) /\ IsFinite(r)
        BY <1>1, FiniteIs
      <4> QED  BY <1>1, <1>4, <2>2, <4>1, NonFinIs, RecipIs
    <3> HIDE DEF K
    <3>5. Plus(Times(v[0], s), K) = 0
      BY <3>3, <3>4, SolvesOne
    <3> QED  BY <1>7, <3>1, <3>2, <3>5
  <2>5. ASSUME NEW j \in 0..(k-1) PROVE Total(v, new, T(j)) = IF j = 0 THEN 1 ELSE 0
    <3>1. j \in Idx /\ j < k
      BY <1>1, ShapeIs DEF Idx
    <3>2. \A t \in T(j) : t[2] \in Idx /\ t[2] # k
      <4> TAKE t \in T(j)
      <4>1. t \in Idx \X Idx
        BY <1>2, <3>1
      <4>2. CASE t = <<0, j>>
        BY <3>1, <1>1, <4>2
      <4>3. CASE t # <<0, j>>
        <5>1. t[2] < j /\ t[2] \in Idx
          BY <1>2, <3>1, <4>1, <4>3
        <5> QED  BY <1>1, <3>1, <5>1
      <4> QED  BY <4>2, <4>3
    <3>3. \A t \in T(j) : out[t[2]] = new[t[2]]
      BY <1>6, <3>2
    <3>4. Total(v, out, T(j)) = Total(v, new, T(j))
      <4>1. T(j) \in SUBSET (Idx \X Idx) /\ IsFiniteSet(T(j))
        BY <1>2, <3>1
      <4>2. v \in Jet /\ out \in Jet /\ new \in Jet
        BY <1>6
      <4> QED  BY ONLY <3>3, <4>1, <4>2, TotalSame
    <3> QED  BY <2>1, <3>4
  <2>6. \A j \in 0..k : j = k \/ j \in 0..(k-1)
    BY <1>1
  <2> QED  BY <1>1, <2>3, <2>4, <2>5, <2>6
<1>9. ASSUME SpoiltUpTo(v, out, k) PROVE SpoiltUpTo(v, new, k + 1)
  <2>0. (k + 1) - 1 = k
    BY <1>1
  <2> SUFFICES ASSUME NEW x \in Idx \ {0}, NEW j \in 1..k, ~IsFinite(v[x]), Reaches(x, j)
               PROVE  ~IsFinite(new[j])
    BY <2>0, Zenon DEF SpoiltUpTo
  <2>1. CASE j = k
    <3>1. PICK y \in Idx : <<x, y>> \in T(k)
      BY <1>1, <2>1, TermsReach DEF T
    <3>2. <<x, y>> \in R
      BY <3>1 DEF R, x0
    <3>3. ~IsFinite(TermProduct(v, out, <<x, y>>))
      <4>1. v[x] \in Coeff /\ out[y] \in Coeff
        BY DEF Jet
      <4> QED  BY <4>1, PlusTimes DEF TermProduct
    <3>4. ~IsFinite(K)
      BY <1>3, <3>2, <3>3, TotalFinite
    <3> QED  BY <1>5, <1>6, <2>1, <3>4
  <2>2. CASE j # k
    <3>1. j \in 1..(k-1) /\ j \in Idx
      BY <1>1, <2>2, ShapeIs DEF Idx
    <3>2. ~IsFinite(out[j])
      BY <1>9, <3>1 DEF SpoiltUpTo
    <3> QED  BY <1>6, <2>2, <3>1, <3>2
  <2> QED  BY <2>1, <2>2
<1>10. ASSUME FollowsUpTo(v, out, r, k) PROVE FollowsUpTo(v, new, r, k + 1)
  <2>0. (k + 1) - 1 = k
    BY <1>1
  <2>1. new[0] = r
    BY <1>1, <1>6, <1>10 DEF FollowsUpTo
  <2>2. ASSUME NEW j \in 1..k PROVE new[j] = Over(Minus(Contributed(v, new, j)), r)
    <3> DEFINE Q == T(j) \ {<<0, j>>}
    <3>1. j \in Idx /\ j <= k
      BY <1>1, ShapeIs DEF Idx
    <3>2. Q \in SUBSET (Idx \X Idx) /\ IsFiniteSet(Q) /\ \A t \in Q : t[2] < j /\ t[2] \in Idx
      BY <1>2, <3>1, FS_RemoveElement
    <3> HIDE DEF Q
    <3>3. \A t \in Q : out[t[2]] = new[t[2]]
      <4>1. \A t \in Q : t[2] # k /\ t[2] \in Idx
        BY <1>1, <3>1, <3>2
      <4> QED  BY <1>6, <4>1
    <3>4. Total(v, out, Q) = Total(v, new, Q)
      <4>1. v \in Jet /\ out \in Jet /\ new \in Jet
        BY <1>6
      <4> QED  BY ONLY <3>2, <3>3, <4>1, TotalSame
    <3>5. Contributed(v, out, j) = Contributed(v, new, j)
      BY <3>4 DEF Contributed, Q, T
    <3>6. CASE j = k
      <4>1. s = Over(Minus(Contributed(v, out, j)), r)
        BY <3>6 DEF Contributed
      <4> QED  BY <1>6, <3>5, <3>6, <4>1
    <3>7. CASE j # k
      <4>1. j \in 1..(k-1)
        BY <1>1, <3>7
      <4>2. out[j] = Over(Minus(Contributed(v, out, j)), r)
        BY <1>10, <4>1 DEF FollowsUpTo
      <4> QED  BY <1>6, <3>1, <3>5, <3>7, <4>2
    <3> QED  BY <3>6, <3>7
  <2> HIDE DEF T, R, K, x0
  <2> QED  BY <2>0, <2>1, <2>2 DEF FollowsUpTo
<1> QED  BY <1>6, <1>8, <1>9, <1>10

LEMMA FromInverseIn ==
  ASSUME regs \in [Regs -> Jet], path \in Paths, NEW c \in Calls, c.op \in Inverting
  PROVE  /\ Inverted(c) \in Jet
         /\ \A out \in Jet : FromInverse(c, out) \in Jet
<1>1. c.op \in {"inv", "div", "scalar_div"}
  BY DEF Inverting
<1>2. /\ c.a \in Regs /\ regs[c.a] \in Jet
      /\ c.op = "div" => c.b \in Regs /\ regs[c.b] \in Jet
      /\ c.op = "scalar_div" => c.s \in Coeff
  BY <1>1, CallIs, ScalarsAssumption DEF WithTwo, WithScalar
<1>3. Inverted(c) \in Jet
  BY <1>1, <1>2 DEF Inverted
<1>4. ASSUME NEW out \in Jet PROVE FromInverse(c, out) \in Jet
  <2>1. c.op = "inv" => FromInverse(c, out) = out
    BY DEF FromInverse
  <2>2. c.op = "div" => FromInverse(c, out) = Mul(regs[c.a], out)
    BY DEF FromInverse
  <2>3. c.op = "scalar_div" => FromInverse(c, out) = Mul(Lift(c.s), out)
    BY DEF FromInverse
  <2>4. Mul(regs[c.a], out) \in Jet
    BY <1>2, ShapeIs, ProductsIn
  <2>5. c.op = "scalar_div" => Mul(Lift(c.s), out) \in Jet
    <3>1. c.op = "scalar_div" => Lift(c.s) \in Jet
      BY <1>2, LinearIn
    <3> QED  BY <3>1, ShapeIs, ProductsIn
  <2> QED  BY <1>1, <2>1, <2>2, <2>3, <2>4, <2>5
<1> QED  BY <1>3, <1>4

(* The inverse being solved: the prefix solved makes the product with the  *)
(* operand 1, and holds a non-finite value wherever a derivative of the    *)
(* operand that is not finite contributes.                                 *)
Jobs == [call : Calls, value : Jet, recip : Finite, k : Idx \ {0}, out : Jet]
JobOK ==
  job # NoJob =>
    /\ job \in Jobs /\ job.call.op \in Inverting
    /\ job.value = Inverted(job.call) /\ job.recip \in Recips(job.value[0])
    /\ SolvedUpTo(job.value, job.out, job.k)
    /\ SpoiltUpTo(job.value, job.out, job.k)
    /\ FollowsUpTo(job.value, job.out, job.recip, job.k)

IInv == TypeOK /\ JobOK

LEMMA Starts == Init => IInv
BY SeedsAssumption, MaxCallsAssumption DEF Init, IInv, TypeOK, JobOK, NoJob

LEMMA Stored ==
  ASSUME TypeOK, NEW c \in Calls, NEW jet \in Jet, Store(c, jet)
  PROVE  regs' \in [Regs -> Jet] /\ last' \in Calls \cup {NoCall} /\ regs'[c.y] = jet
<1>1. c.y \in Regs
  BY CallIs
<1> QED  BY <1>1 DEF TypeOK, Store

LEMMA Counted ==
  ASSUME TypeOK, NEW c, MayCall(c)
  PROVE  calls' \in 0..MaxCalls /\ job = NoJob
BY MaxCallsAssumption DEF TypeOK, MayCall

LEMMA CallKeeps ==
  ASSUME InputsFit, IInv, NEW c \in Calls, Call(c)
  PROVE  IInv'
<1>1. TypeOK /\ regs \in [Regs -> Jet] /\ path \in Paths
  BY DEF IInv, TypeOK
<1>2. Value(c) \in Jet
  BY <1>1, ValueIn DEF Call
<1>3. regs' \in [Regs -> Jet] /\ last' \in Calls \cup {NoCall}
  BY <1>1, <1>2, Stored DEF Call
<1>4. calls' \in 0..MaxCalls /\ job' = NoJob /\ path' = path
  BY <1>1, Counted DEF Call
<1> QED  BY <1>1, <1>3, <1>4 DEF IInv, TypeOK, JobOK

LEMMA CallDivScalarKeeps ==
  ASSUME IInv, NEW c \in Calls, CallDivScalar(c)
  PROVE  IInv'
<1>1. TypeOK /\ regs \in [Regs -> Jet] /\ path \in Paths
  BY DEF IInv, TypeOK
<1>2. c.s \in Coeff /\ c.a \in Regs
  BY CallIs, ScalarsAssumption DEF CallDivScalar, WithScalar
<1>3. PICK recip \in Recips(c.s) : Store(c, ScalarQuotient(regs[c.a], recip))
  BY DEF CallDivScalar
<1>4. ScalarQuotient(regs[c.a], recip) \in Jet
  <2>1. recip \in Coeff /\ regs[c.a] \in Jet
    BY <1>1, <1>2, RecipIs
  <2> QED  BY <2>1, LinearIn
<1>5. regs' \in [Regs -> Jet] /\ last' \in Calls \cup {NoCall}
  BY <1>1, <1>3, <1>4, Stored
<1>6. calls' \in 0..MaxCalls /\ job' = NoJob /\ path' = path
  BY <1>1, Counted DEF CallDivScalar
<1> QED  BY <1>1, <1>5, <1>6 DEF IInv, TypeOK, JobOK

LEMMA CallInverseKeeps ==
  ASSUME IInv, NEW c \in Calls, CallInverse(c)
  PROVE  IInv'
<1>1. TypeOK /\ regs \in [Regs -> Jet] /\ path \in Paths /\ last \in Calls \cup {NoCall}
  BY DEF IInv, TypeOK
<1> DEFINE v == Inverted(c)
<1>2. c.op \in Inverting /\ v \in Jet /\ \A out \in Jet : FromInverse(c, out) \in Jet
  BY <1>1, FromInverseIn DEF CallInverse
<1>3. v[0] \in Coeff
  BY <1>2, RealPart DEF Jet
<1>4. calls' \in 0..MaxCalls /\ job = NoJob /\ path' = path
  BY <1>1, Counted DEF CallInverse
<1>5. PICK recip \in Recips(v[0]) :
        IF N = 0 \/ ~IsFinite(recip)
        THEN Store(c, FromInverse(c, [x \in Idx |-> recip])) /\ UNCHANGED job
        ELSE /\ job' = [call |-> c, value |-> v, recip |-> recip, k |-> 1, out |-> Lift(recip)]
             /\ UNCHANGED <<regs, last>>
  BY DEF CallInverse
<1> HIDE DEF v
<1>6. recip \in Coeff
  BY <1>3, RecipIs
<1>7. CASE N = 0 \/ ~IsFinite(recip)
  <2>1. [x \in Idx |-> recip] \in Jet
    BY <1>6 DEF Jet
  <2>2. Store(c, FromInverse(c, [x \in Idx |-> recip])) /\ job' = NoJob
    BY <1>4, <1>5, <1>7
  <2>3. regs' \in [Regs -> Jet] /\ last' \in Calls \cup {NoCall}
    BY <1>1, <1>2, <2>1, <2>2, Stored
  <2> QED  BY <1>1, <1>4, <2>2, <2>3 DEF IInv, TypeOK, JobOK
<1>8. CASE ~(N = 0 \/ ~IsFinite(recip))
  <2>1. /\ job' = [call |-> c, value |-> v, recip |-> recip, k |-> 1, out |-> Lift(recip)]
        /\ regs' = regs /\ last' = last
    BY <1>5, <1>8
  <2>2. 1 \in Idx \ {0}
    <3>1. 0 \in 0..(M-1) /\ N > 0
      BY <1>8, ShapeIs
    <3>2. Rank(M, N, Unit(0)) \in Idx \ {0}
      BY <3>1, UnitRanks
    <3> DEFINE n == Rank(M, N, Unit(0))
    <3> HIDE DEF n
    <3>3. n \in Idx \ {0}
      BY <3>2 DEF n
    <3> QED  BY <3>3, ShapeIs DEF Idx
  <2>3. recip \in Finite
    BY <1>6, <1>8, NonFinIs
  <2>4. /\ Lift(recip) \in Jet /\ SolvedUpTo(v, Lift(recip), 1) /\ SpoiltUpTo(v, Lift(recip), 1)
        /\ FollowsUpTo(v, Lift(recip), recip, 1)
    BY <1>1, <1>2, <1>8, FirstSolved
  <2>5. job' \in Jobs
    BY <1>2, <2>1, <2>2, <2>3, <2>4 DEF Jobs
  <2>6. /\ job'.call = c /\ job'.value = v /\ job'.recip = recip /\ job'.k = 1
        /\ job'.out = Lift(recip)
    BY <2>1
  <2>7. Inverted(c)' = v
    BY <2>1 DEF Inverted, v
  <2>8. /\ (SolvedUpTo(job.value, job.out, job.k))' /\ (SpoiltUpTo(job.value, job.out, job.k))'
        /\ (FollowsUpTo(job.value, job.out, job.recip, job.k))'
    <3>1. (SolvedUpTo(job.value, job.out, job.k))'
      BY <1>4, <2>4, <2>6 DEF SolvedUpTo
    <3>2. (SpoiltUpTo(job.value, job.out, job.k))'
      BY <1>4, <2>4, <2>6 DEF SpoiltUpTo
    <3>3. (FollowsUpTo(job.value, job.out, job.recip, job.k))'
      BY <1>4, <2>4, <2>6 DEF FollowsUpTo, Contributed
    <3> QED  BY <3>1, <3>2, <3>3
  <2>9. TypeOK'
    BY <1>1, <1>4, <2>1, <2>5 DEF TypeOK, Jobs
  <2>10. JobOK'
    <3>1. job'.call.op \in Inverting /\ job'.value = Inverted(job.call)'
      BY <1>2, <2>6, <2>7
    <3>2. job'.recip \in Recips(job'.value[0])
      BY <2>6
    <3> QED  BY <2>5, <2>8, <3>1, <3>2 DEF JobOK
  <2> QED  BY <2>9, <2>10 DEF IInv
<1> QED  BY <1>7, <1>8

LEMMA KnownSumIs ==
  ASSUME path \in Paths, job.value \in Jet, job.out \in Jet, NEW k \in Idx
  PROVE  KnownSum(k) = Total(job.value, job.out, TermsInto[path][k] \ {<<0, k>>})
<1> DEFINE R == TermsInto[path][k] \ {<<0, k>>}
<1>1. R \in SUBSET (Idx \X Idx) /\ IsFiniteSet(R)
  BY TermsRead, FS_RemoveElement
<1>2. KnownSum(k) = Accumulated(0, job.value, job.out, R)
  BY DEF KnownSum, MapThenFoldSet, Accumulated, AddsUp
<1> HIDE DEF R
<1>3. 0 \in Coeff
  BY PIs, FiniteIs
<1>4. /\ Accumulated(0, job.value, job.out, R) = Plus(0, Total(job.value, job.out, R))
      /\ Total(job.value, job.out, R) \in Coeff
  BY <1>1, <1>3, AccumulatedIs
<1> QED  BY <1>2, <1>4, SumLaws DEF R, Products!Neutral

(* One turn of the loop, for the coefficient at job.k.                     *)
SolvedOut == [job.out EXCEPT ![job.k] = Solved(job.k)]

LEMMA SolvedOutIs ==
  ASSUME IInv, job # NoJob
  PROVE  /\ SolvedOut \in Jet
         /\ SolvedUpTo(job.value, SolvedOut, job.k + 1)
         /\ SpoiltUpTo(job.value, SolvedOut, job.k + 1)
         /\ FollowsUpTo(job.value, SolvedOut, job.recip, job.k + 1)
<1> DEFINE v == job.value
           out == job.out
           k == job.k
           r == job.recip
           s == Solved(k)
<1>1. /\ path \in Paths /\ v \in Jet /\ out \in Jet /\ k \in Idx \ {0} /\ r \in Finite
      /\ r \in Recips(v[0]) /\ SolvedUpTo(v, out, k) /\ SpoiltUpTo(v, out, k)
      /\ FollowsUpTo(v, out, r, k)
  BY DEF IInv, TypeOK, JobOK, Jobs
<1>2. k \in Idx /\ KnownSum(k) = Total(v, out, TermsInto[path][k] \ {<<0, k>>})
  BY <1>1, KnownSumIs
<1>3. s = Over(Minus(Total(v, out, TermsInto[path][k] \ {<<0, k>>})), r)
  BY <1>2 DEF Solved
<1>4. SolvedOut = [out EXCEPT ![k] = s]
  BY DEF SolvedOut
<1> HIDE DEF v, out, k, r, s
<1>5. /\ SolvedOut \in Jet
      /\ SolvedUpTo(v, out, k) => SolvedUpTo(v, SolvedOut, k + 1)
      /\ SpoiltUpTo(v, out, k) => SpoiltUpTo(v, SolvedOut, k + 1)
      /\ FollowsUpTo(v, out, r, k) => FollowsUpTo(v, SolvedOut, r, k + 1)
  BY <1>1, <1>3, <1>4, NextSolved
<1> QED  BY <1>1, <1>5 DEF v, k, r

LEMMA SolveKeeps ==
  ASSUME IInv, SolveNext
  PROVE  IInv'
<1>1. job # NoJob /\ path' = path /\ calls' = calls
  BY DEF SolveNext
<1>2. /\ TypeOK /\ path \in Paths /\ regs \in [Regs -> Jet] /\ calls \in 0..MaxCalls
      /\ last \in Calls \cup {NoCall}
      /\ job \in Jobs /\ job.call.op \in Inverting /\ job.call \in Calls
      /\ job.value = Inverted(job.call) /\ job.recip \in Recips(job.value[0])
  BY <1>1 DEF IInv, TypeOK, JobOK, Jobs
<1>3. /\ SolvedOut \in Jet /\ SolvedUpTo(job.value, SolvedOut, job.k + 1)
      /\ SpoiltUpTo(job.value, SolvedOut, job.k + 1)
      /\ FollowsUpTo(job.value, SolvedOut, job.recip, job.k + 1)
  BY <1>1, SolvedOutIs
<1>4. CASE job.k + 1 < NC
  <2>1. job' = [job EXCEPT !.out = SolvedOut, !.k = job.k + 1] /\ regs' = regs /\ last' = last
    BY <1>4 DEF SolveNext, SolvedOut
  <2>2. job.k + 1 \in Idx \ {0}
    BY <1>2, <1>4, ShapeIs DEF Jobs, Idx
  <2>3. job' \in Jobs
    BY <1>2, <1>3, <2>1, <2>2 DEF Jobs
  <2>4. /\ job'.call = job.call /\ job'.value = job.value /\ job'.recip = job.recip
        /\ job'.k = job.k + 1 /\ job'.out = SolvedOut
    BY <1>2, <2>1 DEF Jobs
  <2>5. Inverted(job.call)' = Inverted(job.call)
    BY <2>1, <2>4 DEF Inverted
  <2>6. (SolvedUpTo(job.value, job.out, job.k))'
    BY <1>1, <1>3, <2>4 DEF SolvedUpTo
  <2>7. (SpoiltUpTo(job.value, job.out, job.k))'
    BY <1>1, <1>3, <2>4 DEF SpoiltUpTo
  <2>10. (FollowsUpTo(job.value, job.out, job.recip, job.k))'
    BY <1>1, <1>3, <2>4 DEF FollowsUpTo, Contributed
  <2>8. JobOK'
    <3>1. job'.call.op \in Inverting /\ job'.value = Inverted(job.call)'
      BY <1>2, <2>4, <2>5
    <3>2. job'.recip \in Recips(job'.value[0])
      BY <1>2, <2>4
    <3> QED  BY <2>3, <2>6, <2>7, <2>10, <3>1, <3>2 DEF JobOK
  <2>9. TypeOK'
    BY <1>1, <1>2, <2>1, <2>3 DEF TypeOK, Jobs
  <2> QED  BY <2>8, <2>9 DEF IInv
<1>5. CASE ~(job.k + 1 < NC)
  <2>1. job' = NoJob /\ Store(job.call, FromInverse(job.call, SolvedOut))
    BY <1>5 DEF SolveNext, SolvedOut
  <2>2. FromInverse(job.call, SolvedOut) \in Jet
    BY <1>2, <1>3, FromInverseIn
  <2>3. regs' \in [Regs -> Jet] /\ last' \in Calls \cup {NoCall}
    BY <1>2, <2>1, <2>2, Stored
  <2> QED  BY <1>1, <1>2, <2>1, <2>3 DEF IInv, TypeOK, JobOK
<1> QED  BY <1>4, <1>5

LEMMA Keeps ==
  ASSUME InputsFit, IInv, [Next]_vars
  PROVE  IInv'
<1>1. ASSUME NEW c \in Calls, Call(c) PROVE IInv'
  BY <1>1, CallKeeps
<1>2. ASSUME NEW c \in Calls, CallDivScalar(c) PROVE IInv'
  BY <1>2, CallDivScalarKeeps
<1>3. ASSUME NEW c \in Calls, CallInverse(c) PROVE IInv'
  BY <1>3, CallInverseKeeps
<1>4. ASSUME SolveNext PROVE IInv'
  BY <1>4, SolveKeeps
<1>5. ASSUME UNCHANGED vars PROVE IInv'
  <2>1. regs' = regs /\ path' = path /\ last' = last /\ job' = job /\ calls' = calls
    BY <1>5 DEF vars
  <2>2. TypeOK'
    BY <2>1 DEF IInv, TypeOK
  <2>3. JobOK'
    <3>1. Inverted(job.call)' = Inverted(job.call)
      BY <2>1 DEF Inverted
    <3>2. (SolvedUpTo(job.value, job.out, job.k))' <=> SolvedUpTo(job.value, job.out, job.k)
      BY <2>1 DEF SolvedUpTo
    <3>3. (SpoiltUpTo(job.value, job.out, job.k))' <=> SpoiltUpTo(job.value, job.out, job.k)
      BY <2>1 DEF SpoiltUpTo
    <3>4. (FollowsUpTo(job.value, job.out, job.recip, job.k))' <=> FollowsUpTo(job.value, job.out, job.recip, job.k)
      BY <2>1 DEF FollowsUpTo, Contributed
    <3> QED  BY <2>1, <3>1, <3>2, <3>3, <3>4 DEF IInv, JobOK
  <2> QED  BY <2>2, <2>3 DEF IInv
<1> QED  BY <1>1, <1>2, <1>3, <1>4, <1>5 DEF Next, Finished

LEMMA PrefixSolved == IInv => SolvedPrefix
<1> SUFFICES ASSUME IInv, job # NoJob, \A x \in Idx : IsFinite(job.value[x]), NEW k \in 0..(job.k - 1)
             PROVE  Mul(job.value, job.out)[k] = IF k = 0 THEN 1 ELSE 0
  BY DEF SolvedPrefix
<1> DEFINE v == job.value
           out == job.out
<1>1. path \in Paths /\ v \in Jet /\ out \in Jet /\ job.k \in Idx /\ SolvedUpTo(v, out, job.k)
  BY DEF IInv, TypeOK, JobOK, Jobs
<1>2. k \in Idx
  BY <1>1, ShapeIs DEF Idx
<1>3. Total(v, out, TermsInto[path][k]) = IF k = 0 THEN 1 ELSE 0
  BY <1>1 DEF SolvedUpTo
<1>4. ~(OrderAt[k] > N)
  BY <1>2, IndexAt, ShapeIs
<1>5. 0 \in Coeff /\ 1 \in Coeff
  BY PIs, FiniteIs
<1>6. Lift(0) \in Jet /\ Lift(0)[k] = 0
  <2>1. Lift(0)[k] = 0
    BY <1>2 DEF Lift
  <2> QED  BY <1>1, <1>5, <2>1, LinearIn
<1> HIDE DEF v, out
<1>7. Mul(v, out)[k] = Plus(0, Total(v, out, TermsInto[path][k]))
  BY <1>1, <1>2, <1>4, <1>6, MulIntoIs DEF Mul
<1>8. Mul(v, out)[k] = Total(v, out, TermsInto[path][k])
  BY <1>3, <1>5, <1>7, SumLaws DEF Products!Neutral
<1> QED  BY <1>3, <1>8 DEF v, out

-----------------------------------------------------------------------------
(* No accessor and no kernel writes outside an array, and every call leaves*)
(* coefficients in it: core.hpp indexes c_ unchecked, so this is what rank *)
(* and the tables owe it.  The requests made are multi-indices whose total *)
(* order is an int.                                                        *)
THEOREM TypeCorrect ==
  ASSUME InputsFit
  PROVE  Spec => []TypeOK
<1>1. IInv /\ [Next]_vars => IInv'
  BY Keeps
<1>2. IInv => TypeOK
  BY DEF IInv
<1> QED  BY Starts, <1>1, <1>2, PTL DEF Spec

(* inv_solve: the coefficients solved so far already make the product with *)
(* the operand 1, on every path.                                           *)
THEOREM SolvedPrefixHolds ==
  ASSUME InputsFit
  PROVE  Spec => []SolvedPrefix
<1>1. IInv /\ [Next]_vars => IInv'
  BY Keeps
<1> QED  BY Starts, <1>1, PrefixSolved, PTL DEF Spec

LEMMA IgnoresStep ==
  ASSUME InputsFit, IInv, [Next]_vars, calls' # calls, last'.op \in Setting, last'.alpha \notin Alphas
  PROVE  regs' = regs
<1>1. TypeOK /\ regs \in [Regs -> Jet]
  BY DEF IInv, TypeOK
<1>2. ASSUME NEW c \in Calls, Call(c) PROVE regs' = regs
  <2>1. last' = c /\ regs' = [regs EXCEPT ![c.y] = Value(c)]
    BY <1>2 DEF Call, Store
  <2>2. c.op \in Setting /\ c.alpha \notin Alphas /\ c.alpha \in DenseInputs /\ c.y \in Regs
    BY <2>1, CallIs
  <2>3. Rank(M, N, c.alpha) = -1
    <3>1. Fits(c.alpha)
      BY <2>2 DEF InputsFit
    <3> QED  BY <2>2, <3>1, RequestRanks
  <2>4. Value(c) = regs[c.y]
    <3>1. ~(-1 >= 0)
      OBVIOUS
    <3>2. \A v : PutRanked(regs[c.y], -1, v) = regs[c.y]
      BY <3>1 DEF PutRanked
    <3>3. c.op = "set_coeff" => Value(c) = PutRanked(regs[c.y], Rank(M, N, c.alpha), c.s)
      BY ValueIs
    <3>4. c.op = "set_partial" =>
            Value(c) = PutRanked(regs[c.y], Rank(M, N, c.alpha), NormalizedPartial(Rank(M, N, c.alpha), c.s))
      BY ValueIs
    <3> QED  BY <2>2, <2>3, <3>2, <3>3, <3>4 DEF Setting
  <2> QED  BY <1>1, <2>1, <2>2, <2>4
<1>3. ASSUME NEW c \in Calls, CallDivScalar(c) PROVE FALSE
  <2>1. last' = c /\ c.op = "div_scalar"
    BY <1>3 DEF CallDivScalar, Store
  <2> QED  BY <2>1 DEF Setting
<1>4. ASSUME NEW c \in Calls, CallInverse(c) PROVE regs' = regs
  <2>1. c.op \in Inverting /\ (last' = c \/ regs' = regs)
    BY <1>4 DEF CallInverse, Store
  <2> QED  BY <2>1 DEF Inverting, Setting
<1>5. SolveNext => FALSE
  BY DEF SolveNext
<1>6. UNCHANGED vars => FALSE
  BY DEF vars
<1> QED  BY <1>2, <1>3, <1>4, <1>5, <1>6 DEF Next, Finished

(* set_coeff and set_partial leave every object as it is when the request  *)
(* is outside the truncation order.  Requests whose total order is no int  *)
(* are excluded: those do write.                                           *)
THEOREM OutsideOrderIgnoredHolds ==
  ASSUME InputsFit
  PROVE  Spec => OutsideOrderIgnored
<1>1. IInv /\ [Next]_vars => IInv'
  BY Keeps
<1>2. IInv /\ [Next]_vars =>
        [calls' # calls /\ last'.op \in {"set_coeff", "set_partial"} /\ last'.alpha \notin Alphas
           => regs' = regs]_vars
  BY IgnoresStep DEF Setting
<1> QED  BY Starts, <1>1, <1>2, PTL DEF Spec, OutsideOrderIgnored

-----------------------------------------------------------------------------
(* Non-finite derivatives.                                                 *)
LEMMA ReachesSelf == \A k \in Idx : Reaches(k, k)
<1> SUFFICES ASSUME NEW k \in Idx PROVE Reaches(k, k)
  OBVIOUS
<1>1. \A p \in 0..(M-1) : AlphaAt[k][p] \in Nat
  BY IndexAt DEF DenseIndices
<1> QED  BY <1>1 DEF Reaches

LEMMA ReachesLater ==
  ASSUME NEW x \in Idx \ {0}, NEW k \in Idx, Reaches(x, k)
  PROVE  k # 0 /\ N # 0
<1> DEFINE a == AlphaAt[x]
<1>1. M \in Nat \ {0} /\ N \in Nat
  BY ShapeIs
<1>2. a \in DenseIndices(M) /\ PlaceOf(M, a) = x /\ Summed(a, M) <= N /\ Summed(a, M) \in Nat
  BY <1>1, IndexAt, PlaceBand
<1>3. a # Nowhere(M) /\ Summed(a, M) # 0
  BY <1>1, <1>2, NowhereIs
<1>4. k # 0
  <2> SUFFICES ASSUME k = 0 PROVE a = Nowhere(M)
    BY <1>3
  <2>1. \A p \in 0..(M-1) : a[p] <= Nowhere(M)[p] /\ Nowhere(M)[p] = 0
    BY RealPart DEF Reaches, Nowhere
  <2>2. \A p \in 0..(M-1) : a[p] = Nowhere(M)[p]
    <3> TAKE p \in 0..(M-1)
    <3>1. a[p] \in Nat
      BY <1>2 DEF DenseIndices
    <3> HIDE DEF a
    <3> QED  BY <2>1, <3>1
  <2> QED  BY <1>1, <1>2, <2>2, NowhereIs, SameIndex
<1> QED  BY <1>1, <1>2, <1>3, <1>4

LEMMA ProductSpoils ==
  ASSUME path \in Paths, NEW seed \in Jet, NEW a \in Jet, NEW b \in Jet, NEW x \in Idx, NEW k \in Idx,
         \/ ~IsFinite(seed[k])
         \/ Reaches(x, k) /\ (~IsFinite(a[x]) \/ ~IsFinite(b[x]))
  PROVE  ~IsFinite(MulInto(seed, a, b, N)[k])
<1> DEFINE T == TermsInto[path][k]
<1>1. T \in SUBSET (Idx \X Idx) /\ IsFiniteSet(T)
  BY TermsRead
<1>2. MulInto(seed, a, b, N)[k] = Plus(seed[k], Total(a, b, T)) /\ Total(a, b, T) \in Coeff
      /\ seed[k] \in Coeff
  <2>1. ~(OrderAt[k] > N)
    BY IndexAt, ShapeIs
  <2>2. seed[k] \in Coeff
    BY DEF Jet
  <2>3. Total(a, b, T) \in Coeff
    BY <1>1, <2>2, AccumulatedIs
  <2> QED  BY <2>1, <2>2, <2>3, MulIntoIs
<1>3. CASE ~IsFinite(seed[k])
  BY <1>2, <1>3, PlusTimes
<1>4. CASE Reaches(x, k) /\ (~IsFinite(a[x]) \/ ~IsFinite(b[x]))
  <2>1. PICK y \in Idx : <<x, y>> \in T /\ <<y, x>> \in T
    BY <1>4, TermsReach
  <2>2. a[x] \in Coeff /\ a[y] \in Coeff /\ b[x] \in Coeff /\ b[y] \in Coeff
    BY DEF Jet
  <2>3. ~IsFinite(TermProduct(a, b, <<x, y>>)) \/ ~IsFinite(TermProduct(a, b, <<y, x>>))
    BY <1>4, <2>2, PlusTimes DEF TermProduct
  <2> HIDE DEF T
  <2>4. ~IsFinite(Total(a, b, T))
    BY <1>1, <2>1, <2>3, TotalFinite
  <2> QED  BY <1>2, <2>4, PlusTimes
<1> QED  BY <1>3, <1>4

(* A product whatever it is accumulated on.                                *)
LEMMA MulSpoils ==
  ASSUME path \in Paths, NEW a \in Jet, NEW b \in Jet, NEW x \in Idx, NEW k \in Idx,
         Reaches(x, k), ~IsFinite(a[x]) \/ ~IsFinite(b[x])
  PROVE  ~IsFinite(Mul(a, b)[k])
<1>1. Lift(0) \in Jet
  BY LinearIn, PIs, FiniteIs
<1> QED  BY <1>1, ProductSpoils DEF Mul

LEMMA LinearSpoils ==
  ASSUME NEW a \in Jet, NEW b \in Jet, NEW s \in Coeff, NEW x \in Idx, ~IsFinite(a[x])
  PROVE  /\ ~IsFinite(Added(a, b)[x]) /\ ~IsFinite(Added(b, a)[x])
         /\ ~IsFinite(Subtracted(a, b)[x]) /\ ~IsFinite(Subtracted(b, a)[x])
         /\ ~IsFinite(AddedReal(a, s)[x]) /\ ~IsFinite(Scaled(a, s)[x])
         /\ ~IsFinite(ScalarQuotient(a, s)[x])
         /\ ~IsFinite(Axpy(a, s, b)[x]) /\ ~IsFinite(Axpy(b, s, a)[x])
<1>1. \A y \in Idx : a[y] \in Coeff /\ b[y] \in Coeff
  BY DEF Jet
<1>2. P - 1 \in Coeff
  BY PIs, FiniteIs
<1>3. /\ Minus(b[x]) \in Coeff /\ Minus(a[x]) \in Coeff /\ ~IsFinite(Minus(a[x]))
      /\ Over(a[x], s) \in Coeff /\ ~IsFinite(Over(a[x], s))
      /\ Times(s, b[x]) \in Coeff /\ Times(s, a[x]) \in Coeff /\ ~IsFinite(Times(s, a[x]))
  BY <1>1, <1>2, PlusTimes DEF Minus, Over
<1>4. ~IsFinite(Added(a, b)[x]) /\ ~IsFinite(Added(b, a)[x])
  BY <1>1, PlusTimes DEF Added
<1>5. ~IsFinite(Subtracted(a, b)[x]) /\ ~IsFinite(Subtracted(b, a)[x])
  BY <1>1, <1>3, PlusTimes DEF Subtracted
<1>6. ~IsFinite(AddedReal(a, s)[x])
  <2>1. AddedReal(a, s)[x] = IF x = 0 THEN Plus(a[0], s) ELSE a[x]
    BY DEF AddedReal, Jet
  <2> QED  BY <1>1, <2>1, PlusTimes
<1>7. ~IsFinite(Scaled(a, s)[x])
  BY <1>1, PlusTimes DEF Scaled
<1>8. ~IsFinite(ScalarQuotient(a, s)[x])
  <2>1. CASE N > 0 /\ ~IsFinite(s)
    BY <2>1, NonFinIs DEF ScalarQuotient
  <2>2. CASE ~(N > 0 /\ ~IsFinite(s))
    BY <1>3, <2>2 DEF ScalarQuotient
  <2> QED  BY <2>1, <2>2
<1>9. ~IsFinite(Axpy(a, s, b)[x]) /\ ~IsFinite(Axpy(b, s, a)[x])
  BY <1>1, <1>3, PlusTimes DEF Axpy
<1> QED  BY <1>4, <1>5, <1>6, <1>7, <1>8, <1>9

LEMMA KeptIs ==
  ASSUME NEW c \in Calls, NEW z \in Kept(c)
  PROVE  \/ c.op \in {"neg", "add_scalar", "sub_scalar", "mul_scalar", "div_scalar", "scalar_sub"} /\ z = c.a
         \/ c.op \in {"add", "sub", "scale_add"} /\ (z = c.a \/ z = c.b)
         \/ c.op = "axpy" /\ (z = c.a \/ z = c.y)
         \/ c.op = "fma_into" /\ z = c.y
         \/ c.op = "gem" /\ z = c.c
BY DEF Kept

LEMMA MultipliedIs ==
  ASSUME NEW c \in Calls, NEW z \in Multiplied(c)
  PROVE  \/ c.op \in {"mul", "fma_into", "gem"} /\ (z = c.a \/ z = c.b)
         \/ c.op = "div" /\ z = c.a
BY DEF Multiplied

LEMMA DividedIs ==
  ASSUME NEW c \in Calls, NEW z \in Divided(c)
  PROVE  \/ c.op \in {"inv", "scalar_div"} /\ z = c.a
         \/ c.op = "div" /\ z = c.b
BY DEF Divided

(* What a call leaves, from operands that are not finite.                  *)
KeepsNonFinite(c, jet) ==
  /\ \A z \in Kept(c), x \in Idx : ~IsFinite(regs[z][x]) => ~IsFinite(jet[x])
  /\ \A z \in Multiplied(c), x \in Idx :
       ~IsFinite(regs[z][x]) => \A k \in Idx : Reaches(x, k) => ~IsFinite(jet[k])
  /\ \A z \in Divided(c), x \in Idx \ {0} :
       ~IsFinite(regs[z][x]) => \A k \in Idx : Reaches(x, k) => ~IsFinite(jet[k])

LEMMA ValueSticks ==
  ASSUME regs \in [Regs -> Jet], path \in Paths,
         NEW c \in Calls, c.op \notin Inverting \cup {"div_scalar"}
  PROVE  KeepsNonFinite(c, Value(c))
<1> DEFINE a == regs[c.a]
           b == regs[c.b]
           y == regs[c.y]
           s == c.s
<1>1. y \in Jet /\ P - 1 \in Coeff
  BY CallIs, PIs, FiniteIs
<1>2. ASSUME NEW z \in Kept(c), NEW x \in Idx, ~IsFinite(regs[z][x])
      PROVE  ~IsFinite(Value(c)[x])
  <2>1. CASE c.op = "neg" /\ z = c.a
    <3>1. a \in Jet /\ Value(c) = Scaled(a, P - 1)
      BY <2>1, CallIs, ValueIs
    <3> QED  BY <1>1, <1>2, <2>1, <3>1, LinearSpoils
  <2>2. CASE c.op \in {"add_scalar", "sub_scalar", "mul_scalar", "scalar_sub"} /\ z = c.a
    <3>1. a \in Jet /\ s \in Coeff /\ ~IsFinite(a[x])
      BY <1>2, <2>2, CallIs, ScalarsAssumption DEF WithScalar
    <3>2. Minus(s) \in Coeff
      BY <1>1, <3>1, PlusTimes DEF Minus
    <3>3. /\ c.op = "add_scalar" => Value(c) = AddedReal(a, s)
          /\ c.op = "sub_scalar" => Value(c) = AddedReal(a, Minus(s))
          /\ c.op = "mul_scalar" => Value(c) = Scaled(a, s)
          /\ c.op = "scalar_sub" => Value(c) = AddedReal(Scaled(a, P - 1), s)
      BY ValueIs
    <3> HIDE DEF a, s
    <3>4. /\ ~IsFinite(AddedReal(a, s)[x]) /\ ~IsFinite(AddedReal(a, Minus(s))[x])
          /\ ~IsFinite(Scaled(a, s)[x])
      BY <3>1, <3>2, LinearSpoils
    <3>5. ~IsFinite(AddedReal(Scaled(a, P - 1), s)[x])
      <4>1. Scaled(a, P - 1) \in Jet /\ ~IsFinite(Scaled(a, P - 1)[x])
        BY <1>1, <3>1, LinearIn, LinearSpoils
      <4> QED  BY <3>1, <4>1, LinearSpoils
    <3> QED  BY <2>2, <3>3, <3>4, <3>5
  <2>3. CASE c.op \in {"add", "sub", "scale_add"} /\ (z = c.a \/ z = c.b)
    <3>1. a \in Jet /\ b \in Jet /\ (~IsFinite(a[x]) \/ ~IsFinite(b[x]))
      BY <1>2, <2>3, CallIs DEF WithTwo
    <3>2. c.op = "scale_add" => s \in Coeff
      BY CallIs, ScalarsAssumption
    <3>3. /\ c.op = "add" => Value(c) = Added(a, b)
          /\ c.op = "sub" => Value(c) = Subtracted(a, b)
          /\ c.op = "scale_add" => Value(c) = Axpy(a, s, b)
      BY ValueIs
    <3> HIDE DEF a, b, s
    <3>4. ~IsFinite(Added(a, b)[x]) /\ ~IsFinite(Subtracted(a, b)[x])
      BY <1>1, <3>1, LinearSpoils
    <3>5. c.op = "scale_add" => ~IsFinite(Axpy(a, s, b)[x])
      BY <3>1, <3>2, LinearSpoils
    <3> QED  BY <2>3, <3>3, <3>4, <3>5
  <2>4. CASE c.op = "axpy" /\ (z = c.a \/ z = c.y)
    <3>1. a \in Jet /\ s \in Coeff /\ (~IsFinite(a[x]) \/ ~IsFinite(y[x]))
      BY <1>2, <2>4, CallIs, ScalarsAssumption DEF WithScalar
    <3>2. Value(c) = Axpy(y, s, a)
      BY <2>4, ValueIs
    <3> HIDE DEF a, y, s
    <3> QED  BY <1>1, <3>1, <3>2, LinearSpoils
  <2>5. CASE c.op = "fma_into" /\ z = c.y
    <3>1. a \in Jet /\ b \in Jet /\ ~IsFinite(y[x])
      BY <1>2, <2>5, CallIs DEF WithTwo
    <3>2. Value(c) = MulInto(y, a, b, N)
      BY <2>5, ValueIs
    <3> HIDE DEF a, b, y
    <3> QED  BY <1>1, <3>1, <3>2, ProductSpoils
  <2>6. CASE c.op = "gem" /\ z = c.c
    <3>1. a \in Jet /\ b \in Jet /\ regs[c.c] \in Jet /\ ~IsFinite(regs[c.c][x])
      BY <1>2, <2>6, CallIs
    <3>2. Value(c) = Added(Mul(a, b), regs[c.c])
      BY <2>6, ValueIs
    <3>3. Mul(a, b) \in Jet
      BY <3>1, ProductsIn, ShapeIs
    <3> QED  BY <1>1, <3>1, <3>2, <3>3, LinearSpoils
  <2>7. c.op # "div_scalar"
    OBVIOUS
  <2> QED  BY <2>1, <2>2, <2>3, <2>4, <2>5, <2>6, <2>7, KeptIs
<1>3. ASSUME NEW z \in Multiplied(c), NEW x \in Idx, ~IsFinite(regs[z][x]),
             NEW k \in Idx, Reaches(x, k)
      PROVE  ~IsFinite(Value(c)[k])
  <2>1. c.op \in {"mul", "fma_into", "gem"} /\ (z = c.a \/ z = c.b)
    BY MultipliedIs DEF Inverting
  <2>2. a \in Jet /\ b \in Jet /\ (~IsFinite(a[x]) \/ ~IsFinite(b[x])) /\ x \in Idx
    BY <1>3, <2>1, CallIs DEF WithTwo
  <2>3. /\ c.op = "mul" => Value(c) = Mul(a, b)
        /\ c.op = "fma_into" => Value(c) = MulInto(y, a, b, N)
        /\ c.op = "gem" => Value(c) = Added(Mul(a, b), regs[c.c]) /\ regs[c.c] \in Jet
    BY CallIs, ValueIs
  <2> HIDE DEF a, b, y
  <2>4. ~IsFinite(Mul(a, b)[k])
    BY <1>3, <2>2, MulSpoils
  <2>5. ~IsFinite(MulInto(y, a, b, N)[k])
    BY <1>1, <1>3, <2>2, ProductSpoils
  <2>6. c.op = "gem" => ~IsFinite(Added(Mul(a, b), regs[c.c])[k])
    <3>1. Mul(a, b) \in Jet
      BY <2>2, ProductsIn, ShapeIs
    <3> QED  BY <1>1, <2>3, <2>4, <3>1, LinearSpoils
  <2> QED  BY <2>1, <2>3, <2>4, <2>5, <2>6
<1>4. Divided(c) = {}
  BY DEF Divided, Inverting
<1> QED  BY <1>2, <1>3, <1>4 DEF KeepsNonFinite

LEMMA InverseSticks ==
  ASSUME regs \in [Regs -> Jet], path \in Paths, NEW c \in Calls, c.op \in Inverting, NEW out \in Jet,
         \A x \in Idx \ {0}, k \in Idx :
           ~IsFinite(Inverted(c)[x]) /\ Reaches(x, k) => ~IsFinite(out[k])
  PROVE  KeepsNonFinite(c, FromInverse(c, out))
<1>1. c.op \in {"inv", "div", "scalar_div"}
  BY DEF Inverting
<1>2. Kept(c) = {}
  BY <1>1 DEF Kept
<1>3. ASSUME NEW z \in Divided(c), NEW x \in Idx \ {0}, ~IsFinite(regs[z][x]),
             NEW k \in Idx, Reaches(x, k)
      PROVE  ~IsFinite(FromInverse(c, out)[k])
  <2>1. CASE c.op = "inv" /\ z = c.a
    <3>1. FromInverse(c, out) = out /\ Inverted(c) = regs[z]
      BY <2>1 DEF FromInverse, Inverted
    <3> QED  BY <1>3, <3>1
  <2>2. CASE c.op = "scalar_div" /\ z = c.a
    <3>1. FromInverse(c, out) = Mul(Lift(c.s), out) /\ Inverted(c) = regs[z]
      BY <2>2 DEF FromInverse, Inverted
    <3>2. ~IsFinite(out[k])
      BY <1>3, <3>1
    <3>3. Lift(c.s) \in Jet
      <4>1. c.s \in Coeff /\ out \in Jet
        BY <2>2, CallIs, ScalarsAssumption DEF WithScalar
      <4> QED  BY <4>1, LinearIn
    <3> QED  BY <3>1, <3>2, <3>3, ReachesSelf, MulSpoils
  <2>3. CASE c.op = "div" /\ z = c.b
    <3>1. FromInverse(c, out) = Mul(regs[c.a], out) /\ Inverted(c) = regs[z]
      BY <2>3 DEF FromInverse, Inverted
    <3>2. ~IsFinite(out[k])
      BY <1>3, <3>1
    <3>3. regs[c.a] \in Jet
      BY <2>3, CallIs DEF WithTwo
    <3> QED  BY <3>1, <3>2, <3>3, ReachesSelf, MulSpoils
  <2> QED  BY <1>1, <2>1, <2>2, <2>3, DividedIs
<1>4. ASSUME NEW z \in Multiplied(c), NEW x \in Idx, ~IsFinite(regs[z][x]),
             NEW k \in Idx, Reaches(x, k)
      PROVE  ~IsFinite(FromInverse(c, out)[k])
  <2>1. c.op = "div" /\ z = c.a
    BY <1>1, <1>4, MultipliedIs
  <2>2. FromInverse(c, out) = Mul(regs[z], out)
    BY <2>1 DEF FromInverse
  <2>3. regs[z] \in Jet
    BY <2>1, CallIs DEF WithTwo
  <2> QED  BY <1>4, <2>2, <2>3, MulSpoils
<1> QED  BY <1>2, <1>3, <1>4 DEF KeepsNonFinite

SticksNow == \E jet \in Jet : last' \in Calls /\ regs'[last'.y] = jet /\ KeepsNonFinite(last', jet)

LEMMA SticksStep ==
  ASSUME InputsFit, IInv, [Next]_vars, regs' # regs
  PROVE  SticksNow
<1>1. TypeOK /\ regs \in [Regs -> Jet] /\ path \in Paths
  BY DEF IInv, TypeOK
<1>2. ASSUME NEW c \in Calls, NEW jet \in Jet, Store(c, jet), KeepsNonFinite(c, jet)
      PROVE  SticksNow
  <2>1. regs'[c.y] = jet /\ last' = c
    BY <1>1, <1>2, Stored DEF Store
  <2> QED  BY <1>2, <2>1 DEF SticksNow
<1>3. ASSUME NEW c \in Calls, Call(c) PROVE SticksNow
  <2>1. Store(c, Value(c)) /\ c.op \notin Inverting \cup {"div_scalar"}
    BY <1>3 DEF Call
  <2>2. KeepsNonFinite(c, Value(c)) /\ Value(c) \in Jet
    BY <1>1, <2>1, ValueSticks, ValueIn
  <2> QED  BY <1>2, <2>1, <2>2
<1>4. ASSUME NEW c \in Calls, CallDivScalar(c) PROVE SticksNow
  <2>1. PICK recip \in Recips(c.s) : Store(c, ScalarQuotient(regs[c.a], recip))
    BY <1>4 DEF CallDivScalar
  <2>2. c.op = "div_scalar" /\ c.s \in Coeff /\ c.a \in Regs
    BY <1>4, CallIs, ScalarsAssumption DEF CallDivScalar, WithScalar
  <2>3. recip \in Coeff /\ regs[c.a] \in Jet
    BY <1>1, <2>2, RecipIs
  <2> DEFINE jet == ScalarQuotient(regs[c.a], recip)
  <2>4. jet \in Jet /\ \A x \in Idx : ~IsFinite(regs[c.a][x]) => ~IsFinite(jet[x])
    BY <2>3, LinearIn, LinearSpoils
  <2> HIDE DEF jet
  <2>5. Kept(c) = {c.a} /\ Multiplied(c) = {} /\ Divided(c) = {}
    BY <2>2 DEF Kept, Multiplied, Divided
  <2>6. KeepsNonFinite(c, jet)
    BY <2>4, <2>5 DEF KeepsNonFinite
  <2> QED  BY <1>2, <2>1, <2>4, <2>6 DEF jet
<1>5. ASSUME NEW c \in Calls, CallInverse(c) PROVE SticksNow
  <2>1. PICK recip \in Recips(Inverted(c)[0]) :
          (N = 0 \/ ~IsFinite(recip)) /\ Store(c, FromInverse(c, [x \in Idx |-> recip]))
    BY <1>5 DEF CallInverse
  <2>2. c.op \in Inverting /\ Inverted(c) \in Jet /\ \A out \in Jet : FromInverse(c, out) \in Jet
    BY <1>1, <1>5, FromInverseIn DEF CallInverse
  <2> DEFINE out == [x \in Idx |-> recip]
  <2>3. out \in Jet
    <3>1. Inverted(c)[0] \in Coeff
      BY <2>2, RealPart DEF Jet
    <3>2. recip \in Coeff
      BY <3>1, RecipIs
    <3> QED  BY <3>2 DEF Jet
  <2>4. \A x \in Idx \ {0}, k \in Idx : Reaches(x, k) => ~IsFinite(out[k])
    BY <2>1, ReachesLater
  <2>5. Store(c, FromInverse(c, out))
    BY <2>1
  <2> HIDE DEF out
  <2>6. KeepsNonFinite(c, FromInverse(c, out))
    BY <1>1, <2>2, <2>3, <2>4, InverseSticks
  <2>7. FromInverse(c, out) \in Jet
    BY <2>2, <2>3
  <2> QED  BY <1>2, <2>5, <2>6, <2>7
<1>6. ASSUME SolveNext PROVE SticksNow
  <2>1. job # NoJob
    BY <1>6 DEF SolveNext
  <2>2. ~(job.k + 1 < NC) /\ Store(job.call, FromInverse(job.call, SolvedOut))
    BY <1>6 DEF SolveNext, SolvedOut
  <2>3. /\ job \in Jobs /\ job.call \in Calls /\ job.call.op \in Inverting /\ job.k \in Idx \ {0}
        /\ job.value = Inverted(job.call)
    BY <2>1 DEF IInv, JobOK, Jobs
  <2>4. SolvedOut \in Jet /\ SpoiltUpTo(job.value, SolvedOut, job.k + 1)
    BY <2>1, SolvedOutIs
  <2>5. ASSUME NEW x \in Idx \ {0}, NEW k \in Idx, ~IsFinite(Inverted(job.call)[x]), Reaches(x, k)
        PROVE  ~IsFinite(SolvedOut[k])
    <3>1. k # 0
      BY <2>5, ReachesLater
    <3>2. k \in 1..((job.k + 1) - 1)
      BY <2>2, <2>3, <3>1, ShapeIs DEF Idx
    <3> QED  BY <2>3, <2>4, <2>5, <3>2 DEF SpoiltUpTo
  <2>6. KeepsNonFinite(job.call, FromInverse(job.call, SolvedOut))
    BY <1>1, <2>3, <2>4, <2>5, InverseSticks
  <2>7. FromInverse(job.call, SolvedOut) \in Jet
    BY <1>1, <2>3, <2>4, FromInverseIn
  <2> QED  BY <1>2, <2>2, <2>3, <2>6, <2>7
<1>7. UNCHANGED vars => FALSE
  BY DEF vars
<1> QED  BY <1>3, <1>4, <1>5, <1>6, <1>7 DEF Next, Finished

(* A coefficient that is not finite stays so in every linear operation, in *)
(* a factor of a product it spoils every coefficient it contributes to, all*)
(* of them when it is the real part, and a derivative of a divisor does so *)
(* in a quotient: also when the other factor is zero there, at a pole, and *)
(* when the result object is an operand.                                   *)
THEOREM NonFiniteSticksHolds ==
  ASSUME InputsFit
  PROVE  Spec => NonFiniteSticks
<1>1. IInv /\ [Next]_vars => IInv'
  BY Keeps
<1>2. IInv /\ [Next]_vars =>
        [regs' # regs =>
           /\ \A z \in Kept(last'), x \in Idx :
                ~IsFinite(regs[z][x]) => ~IsFinite(regs'[last'.y][x])
           /\ \A z \in Multiplied(last'), x \in Idx : Spoils(z, x)
           /\ \A z \in Divided(last'), x \in Idx \ {0} : Spoils(z, x)]_vars
  <2> SUFFICES ASSUME IInv, [Next]_vars, regs' # regs
               PROVE  /\ \A z \in Kept(last'), x \in Idx :
                           ~IsFinite(regs[z][x]) => ~IsFinite(regs'[last'.y][x])
                      /\ \A z \in Multiplied(last'), x \in Idx : Spoils(z, x)
                      /\ \A z \in Divided(last'), x \in Idx \ {0} : Spoils(z, x)
    OBVIOUS
  <2>1. SticksNow
    BY SticksStep
  <2> QED  BY <2>1 DEF SticksNow, KeepsNonFinite, Spoils
<1> QED  BY Starts, <1>1, <1>2, PTL DEF Spec, NonFiniteSticks

-----------------------------------------------------------------------------
(* The polynomial an array stands for holds its coefficients, each at its  *)
(* multi-index.                                                            *)
LEMMA PolyAt ==
  ASSUME NEW jet
  PROVE  /\ \A x \in Idx : PolyOf(jet)[AlphaAt[x]] = jet[x]
         /\ \A alpha \in Alphas : /\ PlaceOf(M, alpha) \in Idx /\ AlphaAt[PlaceOf(M, alpha)] = alpha
                                  /\ PolyOf(jet)[alpha] = jet[PlaceOf(M, alpha)]
<1>1. \A alpha \in Alphas : PlaceOf(M, alpha) \in Idx /\ AlphaAt[PlaceOf(M, alpha)] = alpha
  BY AlphasAre, PlaceIs
<1>2. \A x \in Idx : AlphaAt[x] \in Alphas /\ PlaceOf(M, AlphaAt[x]) = x
  BY IndexAt
<1>3. \A x, z \in Idx : AlphaAt[z] = AlphaAt[x] => z = x
  BY <1>2
<1>4. ASSUME NEW x \in Idx PROVE PolyOf(jet)[AlphaAt[x]] = jet[x]
  <2>1. (CHOOSE z \in Idx : AlphaAt[z] = AlphaAt[x]) = x
    BY <1>3
  <2>2. PolyOf(jet)[AlphaAt[x]] = jet[CHOOSE z \in Idx : AlphaAt[z] = AlphaAt[x]]
    BY <1>2 DEF PolyOf
  <2> QED  BY <2>1, <2>2
<1>5. ASSUME NEW alpha \in Alphas PROVE PolyOf(jet)[alpha] = jet[PlaceOf(M, alpha)]
  BY <1>1, <1>4
<1> QED  BY <1>1, <1>4, <1>5

LEMMA PolyIn ==
  ASSUME NEW jet \in Jet
  PROVE  PolyOf(jet) \in Poly
<1>1. \A alpha \in Alphas : PolyOf(jet)[alpha] \in Coeff
  BY PolyAt DEF Jet
<1>2. PolyOf(jet) = [alpha \in Alphas |-> PolyOf(jet)[alpha]]
  BY DEF PolyOf
<1> QED  BY <1>1, <1>2 DEF Poly

(* What an array stands for is a polynomial when it has its coefficients.  *)
LEMMA PolyIs ==
  ASSUME NEW jet, NEW f, f = [alpha \in Alphas |-> f[alpha]],
         \A x \in Idx : jet[x] = f[AlphaAt[x]]
  PROVE  PolyOf(jet) = f
<1>1. \A alpha \in Alphas : PolyOf(jet)[alpha] = f[alpha]
  BY PolyAt
<1>2. PolyOf(jet) = [alpha \in Alphas |-> PolyOf(jet)[alpha]]
  BY DEF PolyOf
<1> HIDE DEF Alphas
<1> QED  BY <1>1, <1>2

-----------------------------------------------------------------------------
(* The product of the polynomials.                                         *)
Under(gamma) == {beta \in Alphas : Leq(beta, gamma)}
Convolved(f, g, gamma) == [alpha \in Under(gamma) |-> Times(f[alpha], g[Difference(gamma, alpha)])]

LEMMA ProductIs ==
  ASSUME NEW f, NEW g
  PROVE  /\ Product(f, g) = [gamma \in Alphas |-> Product(f, g)[gamma]]
         /\ \A gamma \in Alphas : Product(f, g)[gamma] = Products!Fold(Convolved(f, g, gamma), Under(gamma))
<1>1. ASSUME NEW gamma \in Alphas
      PROVE  Product(f, g)[gamma] = Products!Fold(Convolved(f, g, gamma), Under(gamma))
  BY DEF Product, Convolved, Under, FoldFunction, FoldFunctionOnSet, MapThenFoldSet,
         Products!Fold, Products!FoldFunctionOnSet, Products!MapThenFoldSet
<1> QED  BY <1>1 DEF Product

(* What is left of a multi-index below another.                            *)
LEMMA DifferenceIs ==
  ASSUME NEW gamma \in Alphas, NEW alpha \in Under(gamma)
  PROVE  /\ alpha \in Alphas /\ Difference(gamma, alpha) \in Under(gamma)
         /\ Together(M, alpha, Difference(gamma, alpha)) = gamma
         /\ Summed(gamma, M) = Summed(alpha, M) + Summed(Difference(gamma, alpha), M)
         /\ Summed(alpha, M) \in Nat /\ Summed(Difference(gamma, alpha), M) \in Nat
<1> DEFINE delta == Difference(gamma, alpha)
<1>1. gamma \in DenseIndices(M) /\ alpha \in DenseIndices(M) /\ alpha \in Alphas /\ Summed(gamma, M) <= N
  BY AlphasAre DEF Under
<1>2. \A p \in 0..(M-1) : gamma[p] \in Nat /\ alpha[p] \in Nat /\ alpha[p] <= gamma[p]
  BY <1>1 DEF DenseIndices, Under, Leq
<1>3. \A p \in 0..(M-1) : delta[p] = gamma[p] - alpha[p] /\ delta[p] \in Nat /\ delta[p] <= gamma[p]
                          /\ alpha[p] + delta[p] = gamma[p]
  BY <1>2 DEF Difference
<1>4. delta \in DenseIndices(M)
  BY <1>3 DEF DenseIndices, Difference
<1>5. Together(M, alpha, delta) = gamma
  <2>1. gamma = [p \in 0..(M-1) |-> gamma[p]]
    BY <1>1 DEF DenseIndices
  <2> HIDE DEF delta
  <2> QED  BY <1>3, <2>1 DEF Together
<1>6. M \in Nat /\ M \in 0..M
  BY ShapeIs
<1> HIDE DEF delta
<1>7. Summed(gamma, M) = Summed(alpha, M) + Summed(delta, M)
  BY <1>1, <1>4, <1>5, <1>6, TogetherIs
<1>8. Summed(alpha, M) \in Nat /\ Summed(delta, M) \in Nat
  BY <1>1, <1>4, <1>6, SummedStep
<1>9. Summed(delta, M) <= N
  BY <1>1, <1>7, <1>8, ShapeIs
<1>10. delta \in Under(gamma)
  BY <1>3, <1>4, <1>9, AlphasAre DEF Under, Leq
<1> QED  BY <1>1, <1>5, <1>7, <1>8, <1>10 DEF delta

LEMMA UnderFinite ==
  ASSUME NEW gamma \in Alphas
  PROVE  /\ Under(gamma) \in SUBSET Alphas /\ IsFiniteSet(Under(gamma)) /\ Zero \in Under(gamma)
         /\ Products!IsFiniteSet(Under(gamma)) /\ Products!IsFiniteSet(Under(gamma) \ {Zero})
<1>1. IsFiniteSet(Alphas)
  <2>1. AlphaAt \in [Idx -> Alphas] /\ \A alpha \in Alphas : \E x \in Idx : AlphaAt[x] = alpha
    <3>1. \A x \in Idx : AlphaAt[x] \in Alphas
      BY IndexAt
    <3>2. AlphaAt = [x \in Idx |-> AlphaAt[x]]
      BY DEF AlphaAt
    <3>3. \A alpha \in Alphas : PlaceOf(M, alpha) \in Idx /\ AlphaAt[PlaceOf(M, alpha)] = alpha
      BY AlphasAre, PlaceIs
    <3> QED  BY <3>1, <3>2, <3>3
  <2>2. AlphaAt \in Surjection(Idx, Alphas)
    BY <2>1 DEF Surjection
  <2>3. IsFiniteSet(Idx)
    <3>1. 0 \in Int /\ NC - 1 \in Int
      BY ShapeIs
    <3> QED  BY <3>1, FS_Interval DEF Idx
  <2> QED  BY <2>2, <2>3, FS_Surjection
<1>2. Under(gamma) \in SUBSET Alphas
  BY DEF Under
<1>3. IsFiniteSet(Under(gamma)) /\ IsFiniteSet(Under(gamma) \ {Zero})
  BY <1>1, <1>2, FS_Subset
<1>4. Zero \in Under(gamma)
  <2>1. Zero \in Alphas
    BY RealPart, IndexAt
  <2>2. gamma \in DenseIndices(M)
    BY AlphasAre
  <2>3. \A p \in 0..(M-1) : gamma[p] \in Nat
    BY <2>2 DEF DenseIndices
  <2>4. \A p \in 0..(M-1) : Zero[p] = 0
    BY DEF Zero
  <2>5. Leq(Zero, gamma)
    BY <2>3, <2>4 DEF Leq
  <2> QED  BY <2>1, <2>5 DEF Under
<1> QED  BY <1>2, <1>3, <1>4, FiniteForProducts

LEMMA ConvolvedIn ==
  ASSUME NEW f \in Poly, NEW g \in Poly, NEW gamma \in Alphas
  PROVE  /\ \A alpha \in Under(gamma) :
              /\ f[alpha] \in Coeff /\ g[Difference(gamma, alpha)] \in Coeff
              /\ Convolved(f, g, gamma)[alpha] = Times(f[alpha], g[Difference(gamma, alpha)])
         /\ \A T \in SUBSET Under(gamma) : Products!ValuesOn(Convolved(f, g, gamma), T)
<1>1. ASSUME NEW alpha \in Under(gamma)
      PROVE  /\ f[alpha] \in Coeff /\ g[Difference(gamma, alpha)] \in Coeff
             /\ Convolved(f, g, gamma)[alpha] = Times(f[alpha], g[Difference(gamma, alpha)])
  <2>1. alpha \in Alphas /\ Difference(gamma, alpha) \in Alphas
    BY DifferenceIs DEF Under
  <2> QED  BY <2>1 DEF Poly, Convolved
<1>2. \A alpha \in Under(gamma) : Convolved(f, g, gamma)[alpha] \in Coeff
  BY <1>1, PlusTimes
<1> QED  BY <1>1, <1>2 DEF Products!ValuesOn

(* On every path the terms of an output are the convolution at its index,  *)
(* and without that of the operand's real part the one without Zero.       *)
LEMMA ConvolutionIs ==
  ASSUME NEW q \in Paths, NEW k \in Idx, NEW a \in Jet, NEW b \in Jet,
         NEW S, S \in {TermsInto[q][k], TermsInto[q][k] \ {<<0, k>>}},
         NEW B, B = IF S = TermsInto[q][k] THEN Under(AlphaAt[k]) ELSE Under(AlphaAt[k]) \ {Zero}
  PROVE  Total(a, b, S) = Products!Fold(Convolved(PolyOf(a), PolyOf(b), AlphaAt[k]), B)
<1> DEFINE gamma == AlphaAt[k]
           fun == Contributions(a, b, S)
           gun == Convolved(PolyOf(a), PolyOf(b), gamma)
           to == [t \in S |-> AlphaAt[t[1]]]
<1>1. /\ S \in SUBSET (Idx \X Idx) /\ IsFiniteSet(S) /\ <<0, k>> \in TermsInto[q][k]
  <2>1. TermsInto[q][k] \in SUBSET (Idx \X Idx) /\ IsFiniteSet(TermsInto[q][k]) /\ <<0, k>> \in TermsInto[q][k]
    BY TermsRead
  <2> HIDE DEF Idx
  <2>2. IsFiniteSet(TermsInto[q][k] \ {<<0, k>>})
    BY <2>1, FS_Subset
  <2> QED  BY <2>1, <2>2
<1>2. gamma \in Alphas /\ PolyOf(a) \in Poly /\ PolyOf(b) \in Poly /\ PlaceOf(M, gamma) = k
  BY IndexAt, PolyIn
<1>3. ASSUME NEW t \in TermsInto[q][k]
      PROVE  /\ t[1] \in Idx /\ t[2] \in Idx /\ t = <<t[1], t[2]>>
             /\ AlphaAt[t[1]] \in Under(gamma) /\ AlphaAt[t[2]] = Difference(gamma, AlphaAt[t[1]])
  <2>1. t \in Idx \X Idx /\ PlaceOf(M, SumOf(t)) = k
    BY TermsAre
  <2>2. t[1] \in Idx /\ t[2] \in Idx /\ t = <<t[1], t[2]>>
    BY <2>1
  <2>3. /\ AlphaAt[t[1]] \in Alphas /\ AlphaAt[t[1]] \in DenseIndices(M)
        /\ AlphaAt[t[2]] \in Alphas /\ AlphaAt[t[2]] \in DenseIndices(M)
    BY <2>2, IndexAt
  <2>4. SumOf(t) \in DenseIndices(M)
    BY <2>3, TogetherIs, ShapeIs DEF SumOf
  <2>5. SumOf(t) = gamma
    <3>1. SumOf(t) \in Alphas
      BY <2>1, <2>4, PlaceIs
    <3>2. AlphaAt[PlaceOf(M, SumOf(t))] = SumOf(t)
      BY <2>4, <3>1, PlaceIs
    <3> QED  BY <2>1, <3>2
  <2> DEFINE alpha == AlphaAt[t[1]]
             beta == AlphaAt[t[2]]
  <2>6. gamma = [p \in 0..(M-1) |-> alpha[p] + beta[p]]
    BY <2>5 DEF SumOf, Together
  <2> HIDE DEF alpha, beta, gamma
  <2>7. \A p \in 0..(M-1) : alpha[p] \in Nat /\ beta[p] \in Nat /\ gamma[p] = alpha[p] + beta[p]
    BY <2>3, <2>6 DEF DenseIndices, alpha, beta
  <2>8. beta = [p \in 0..(M-1) |-> beta[p]]
    BY <2>3 DEF DenseIndices, beta
  <2>9. \A p \in 0..(M-1) : gamma[p] - alpha[p] = beta[p] /\ alpha[p] <= gamma[p]
    BY <2>7
  <2>10. beta = Difference(gamma, alpha) /\ Leq(alpha, gamma)
    BY <2>8, <2>9 DEF Difference, Leq
  <2> QED  BY <2>2, <2>3, <2>10 DEF alpha, beta, Under
<1>4. \A t \in S : t \in TermsInto[q][k]
  OBVIOUS
<1>5. ASSUME NEW t \in S PROVE fun[t] = gun[to[t]]
  <2>1. fun[t] = Times(a[t[1]], b[t[2]])
    BY <1>1, ContributionsIn DEF TermProduct
  <2>2. gun[to[t]] = Times(PolyOf(a)[AlphaAt[t[1]]], PolyOf(b)[AlphaAt[t[2]]])
    BY <1>2, <1>3, <1>4, ConvolvedIn
  <2>3. PolyOf(a)[AlphaAt[t[1]]] = a[t[1]] /\ PolyOf(b)[AlphaAt[t[2]]] = b[t[2]]
    BY <1>3, <1>4, PolyAt
  <2> QED  BY <2>1, <2>2, <2>3
<1>6. ASSUME NEW s \in S, NEW t \in S, to[s] = to[t] PROVE s = t
  <2>1. AlphaAt[s[1]] = AlphaAt[t[1]]
    BY <1>6
  <2>2. AlphaAt[s[2]] = AlphaAt[t[2]]
    BY <1>3, <1>4, <2>1
  <2>3. s[1] = t[1] /\ s[2] = t[2]
    BY <1>3, <1>4, <2>1, <2>2, IndexAt
  <2> QED  BY <1>3, <1>4, <2>3
<1>7. ASSUME NEW alpha \in Under(gamma)
      PROVE  \E t \in TermsInto[q][k] : AlphaAt[t[1]] = alpha
  <2> DEFINE delta == Difference(gamma, alpha)
             x == PlaceOf(M, alpha)
             y == PlaceOf(M, delta)
             t == <<x, y>>
  <2>1. alpha \in Alphas /\ delta \in Alphas /\ Together(M, alpha, delta) = gamma
    BY <1>2, DifferenceIs DEF Under
  <2>2. x \in Idx /\ y \in Idx /\ AlphaAt[x] = alpha /\ AlphaAt[y] = delta
    BY <2>1, PolyAt
  <2> HIDE DEF delta, x, y
  <2>3. t \in Idx \X Idx /\ t[1] = x /\ t[2] = y
    BY <2>2
  <2>4. SumOf(t) = gamma
    BY <2>1, <2>2, <2>3 DEF SumOf
  <2>5. t \in TermsInto[q][k]
    BY <1>2, <2>3, <2>4, TermsAre
  <2> QED  BY <2>2, <2>3, <2>5
<1>8. ASSUME NEW t \in TermsInto[q][k] PROVE AlphaAt[t[1]] = Zero <=> t = <<0, k>>
  <2>1. AlphaAt[0] = Zero /\ 0 \in Idx
    BY RealPart
  <2>2. ASSUME AlphaAt[t[1]] = Zero PROVE t = <<0, k>>
    <3>1. t[1] = 0
      BY <1>3, <2>1, <2>2, IndexAt
    <3>2. AlphaAt[t[2]] = Difference(gamma, Zero)
      BY <1>3, <2>2
    <3>3. gamma \in DenseIndices(M)
      BY IndexAt
    <3>4. gamma = [p \in 0..(M-1) |-> gamma[p]] /\ \A p \in 0..(M-1) : gamma[p] \in Nat
      BY <3>3 DEF DenseIndices
    <3> HIDE DEF gamma
    <3>5. \A p \in 0..(M-1) : gamma[p] - Zero[p] = gamma[p]
      BY <3>4 DEF Zero
    <3>6. Difference(gamma, Zero) = gamma
      BY <3>4, <3>5 DEF Difference
    <3>7. t[2] = k
      BY <1>3, <3>2, <3>6, IndexAt DEF gamma
    <3> QED  BY <1>3, <3>1, <3>7
  <2>3. ASSUME t = <<0, k>> PROVE AlphaAt[t[1]] = Zero
    BY <2>1, <2>3
  <2> QED  BY <2>2, <2>3
<1>9. to \in [S -> B]
  <2>1. \A t \in S : AlphaAt[t[1]] \in Under(gamma)
    BY <1>3, <1>4
  <2>2. S # TermsInto[q][k] => \A t \in S : AlphaAt[t[1]] # Zero
    BY <1>8
  <2>3. \A t \in S : AlphaAt[t[1]] \in B
    BY <2>1, <2>2
  <2> QED  BY <2>3
<1>10. \A alpha \in B : \E t \in S : to[t] = alpha
  <2> TAKE alpha \in B
  <2>1. PICK t \in TermsInto[q][k] : AlphaAt[t[1]] = alpha
    BY <1>7
  <2>2. S # TermsInto[q][k] => t # <<0, k>>
    <3> SUFFICES ASSUME S # TermsInto[q][k] PROVE alpha # Zero
      BY <1>8, <2>1
    <3> QED OBVIOUS
  <2>3. t \in S
    BY <2>2
  <2> QED  BY <2>1, <2>3
<1>11. Products!ValuesOn(gun, B)
  <2>1. B \in SUBSET Under(gamma)
    OBVIOUS
  <2> QED  BY <1>2, <2>1, ConvolvedIn
<1>12. Products!IsFiniteSet(S) /\ Products!Closed /\ Products!Commutes
  BY <1>1, FiniteForProducts, SumLaws
<1> HIDE DEF fun, gun, to, gamma
<1>13. Products!Fold(fun, S) = Products!Fold(gun, B)
  BY <1>5, <1>6, <1>9, <1>10, <1>11, <1>12, Products!FoldMoved
<1> QED  BY <1>13 DEF fun, gun, gamma, Total

-----------------------------------------------------------------------------
(* The coefficients are a ring, except that 0 * NonFin is not 0.           *)
LEMMA RingLaws ==
  ASSUME NEW x \in Coeff, NEW y \in Coeff, NEW z \in Coeff
  PROVE  /\ Times(x, y) = Times(y, x)
         /\ Times(x, Times(y, z)) = Times(Times(x, y), z)
         /\ Times(x, Plus(y, z)) = Plus(Times(x, y), Times(x, z))
         /\ Times(x, 1) = x
<1>1. Times(x, y) = Times(y, x)
  <2>1. CASE IsFinite(x) /\ IsFinite(y)
    <3>1. x \in Int /\ y \in Int
      BY <2>1, NonFinIs, FiniteIs
    <3>2. x * y = y * x
      BY <3>1
    <3> QED  BY <3>2 DEF Times
  <2>2. CASE ~(IsFinite(x) /\ IsFinite(y))
    BY <2>2 DEF Times
  <2> QED  BY <2>1, <2>2
<1>2. Times(x, 1) = x
  <2>1. IsFinite(1) /\ 1 \in Finite
    BY PIs, FiniteIs
  <2>2. CASE IsFinite(x)
    <3>1. x \in Finite /\ x \in Int
      BY <2>2, NonFinIs, FiniteIs
    <3>2. x * 1 = x
      BY <3>1
    <3> QED  BY <2>1, <2>2, <3>1, <3>2, OwnResidue DEF Times
  <2>3. CASE ~IsFinite(x)
    BY <2>3 DEF Times, IsFinite
  <2> QED  BY <2>2, <2>3
<1>3. CASE IsFinite(x) /\ IsFinite(y) /\ IsFinite(z)
  <2>1. x \in Int /\ y \in Int /\ z \in Int /\ P \in Int
    BY <1>3, NonFinIs, FiniteIs, PIs
  <2>4. x * y \in Int /\ x * z \in Int /\ y * z \in Int /\ y + z \in Int
    BY <2>1
  <2>2. Times(x, Times(y, z)) = Times(Times(x, y), z)
    <3> DEFINE yz == (y * z) % P
               xy == (x * y) % P
    <3>1. yz \in Finite /\ xy \in Finite
      BY <2>4, Residue
    <3>2. PICK q \in Int : y * z = P * q + yz
      BY <2>4, Residue
    <3>3. PICK r \in Int : x * y = P * r + xy
      BY <2>4, Residue
    <3>4. Times(y, z) = yz /\ Times(x, y) = xy
      BY <1>3 DEF Times
    <3> HIDE DEF yz, xy
    <3>5. Times(x, yz) = (x * yz) % P /\ Times(xy, z) = (xy * z) % P
      BY <1>3, <3>1, FiniteIs DEF Times
    <3>6. xy \in Int /\ yz \in Int
      BY <3>1, FiniteIs
    <3>7. x * yz = xy * z + P * (r * z - x * q)
      <4>1. yz = y * z - P * q /\ xy = x * y - P * r
        BY <2>1, <3>2, <3>3, <3>6
      <4>2. x * (y * z - P * q) = (x * y - P * r) * z + P * (r * z - x * q)
        BY <2>1
      <4> QED  BY <4>1, <4>2
    <3>8. x * yz \in Int /\ xy * z \in Int /\ r * z - x * q \in Int
      BY <2>1, <3>6
    <3>9. (x * yz) % P = (xy * z) % P
      BY <3>7, <3>8, SameResidue
    <3> QED  BY <3>4, <3>5, <3>9
  <2>3. Times(x, Plus(y, z)) = Plus(Times(x, y), Times(x, z))
    <3> DEFINE s == (y + z) % P
               xy == (x * y) % P
               xz == (x * z) % P
    <3>1. s \in Finite /\ xy \in Finite /\ xz \in Finite
      BY <2>4, Residue
    <3>2. PICK q \in Int : y + z = P * q + s
      BY <2>4, Residue
    <3>3. PICK r \in Int : x * y = P * r + xy
      BY <2>4, Residue
    <3>4. PICK t \in Int : x * z = P * t + xz
      BY <2>4, Residue
    <3>5. Plus(y, z) = s /\ Times(x, y) = xy /\ Times(x, z) = xz
      BY <1>3 DEF Times, Plus
    <3> HIDE DEF s, xy, xz
    <3>6. Times(x, s) = (x * s) % P /\ Plus(xy, xz) = (xy + xz) % P
      BY <1>3, <3>1, FiniteIs DEF Times, Plus
    <3>7. s \in Int /\ xy \in Int /\ xz \in Int
      BY <3>1, FiniteIs
    <3>8. x * s = (xy + xz) + P * (r + t - x * q)
      <4>1. s = y + z - P * q /\ xy = x * y - P * r /\ xz = x * z - P * t
        BY <2>1, <3>2, <3>3, <3>4, <3>7
      <4>2. x * (y + z - P * q) = ((x * y - P * r) + (x * z - P * t)) + P * (r + t - x * q)
        BY <2>1
      <4> QED  BY <4>1, <4>2
    <3>9. x * s \in Int /\ xy + xz \in Int /\ r + t - x * q \in Int
      BY <2>1, <3>7
    <3>10. (x * s) % P = (xy + xz) % P
      BY <3>8, <3>9, SameResidue
    <3> QED  BY <3>5, <3>6, <3>10
  <2> QED  BY <1>1, <1>2, <2>2, <2>3
<1>4. CASE ~(IsFinite(x) /\ IsFinite(y) /\ IsFinite(z))
  <2>1. /\ Times(x, Times(y, z)) \in Coeff /\ Times(Times(x, y), z) \in Coeff
        /\ Times(x, Plus(y, z)) \in Coeff /\ Plus(Times(x, y), Times(x, z)) \in Coeff
        /\ ~IsFinite(Times(x, Times(y, z))) /\ ~IsFinite(Times(Times(x, y), z))
        /\ ~IsFinite(Times(x, Plus(y, z))) /\ ~IsFinite(Plus(Times(x, y), Times(x, z)))
    <3>1. /\ Times(x, y) \in Coeff /\ Times(x, z) \in Coeff /\ Times(y, z) \in Coeff /\ Plus(y, z) \in Coeff
          /\ IsFinite(Times(x, y)) <=> IsFinite(x) /\ IsFinite(y)
          /\ IsFinite(Times(x, z)) <=> IsFinite(x) /\ IsFinite(z)
          /\ IsFinite(Times(y, z)) <=> IsFinite(y) /\ IsFinite(z)
          /\ IsFinite(Plus(y, z)) <=> IsFinite(y) /\ IsFinite(z)
      BY PlusTimes
    <3> QED  BY <1>4, <3>1, PlusTimes
  <2> QED  BY <1>1, <1>2, <2>1 DEF IsFinite
<1> QED  BY <1>3, <1>4

(* A finite factor is taken out of a sum.                                  *)
LEMMA FoldTimes ==
  ASSUME NEW S, IsFiniteSet(S), NEW fun, NEW gun, NEW c \in Finite, Products!ValuesOn(fun, S),
         \A x \in S : gun[x] = Times(c, fun[x])
  PROVE  Products!Fold(gun, S) = Times(c, Products!Fold(fun, S))
<1> DEFINE F == {T \in SUBSET S : Products!Fold(gun, T) = Times(c, Products!Fold(fun, T))}
<1>1. Products!ValuesOn(gun, S) /\ c \in Coeff
  BY PlusTimes, FiniteIs DEF Products!ValuesOn
<1>2. {} \in F
  <2>1. Products!Fold(gun, {}) = 0 /\ Products!Fold(fun, {}) = 0
    BY Products!FoldEmpty, SumLaws
  <2> QED  BY <2>1, TimesZero
<1>3. ASSUME NEW T \in SUBSET S, NEW x \in S \ T, T \in F
      PROVE  T \cup {x} \in F
  <2>1. Products!IsFiniteSet(T)
    BY FS_Subset, FiniteForProducts
  <2>2. /\ Products!ValuesOn(fun, T \cup {x}) /\ Products!ValuesOn(gun, T \cup {x})
        /\ Products!ValuesOn(fun, T) /\ fun[x] \in Coeff
    BY <1>1 DEF Products!ValuesOn
  <2>3. Products!Fold(fun, T \cup {x}) = Plus(fun[x], Products!Fold(fun, T))
    BY <2>1, <2>2, SumLaws, Products!FoldAdd
  <2>4. Products!Fold(gun, T \cup {x}) = Plus(gun[x], Products!Fold(gun, T))
    BY <2>1, <2>2, SumLaws, Products!FoldAdd
  <2>5. Products!Fold(fun, T) \in Coeff
    BY <2>1, <2>2, SumLaws, Products!FoldType
  <2>6. Times(c, Plus(fun[x], Products!Fold(fun, T))) = Plus(Times(c, fun[x]), Times(c, Products!Fold(fun, T)))
    BY <1>1, <2>2, <2>5, RingLaws
  <2> QED  BY <1>3, <2>3, <2>4, <2>6
<1> HIDE DEF F
<1>4. SUBSET S \subseteq F
  BY <1>2, <1>3, FiniteForProducts, Products!SetInductionOn
<1>5. S \in F
  BY <1>4
<1> QED  BY <1>5 DEF F

(* A sum is finite when its terms are, and only then.                      *)
LEMMA FoldFinite ==
  ASSUME NEW S, IsFiniteSet(S), NEW fun, Products!ValuesOn(fun, S)
  PROVE  IsFinite(Products!Fold(fun, S)) <=> \A x \in S : IsFinite(fun[x])
<1> DEFINE F == {T \in SUBSET S : IsFinite(Products!Fold(fun, T)) <=> \A x \in T : IsFinite(fun[x])}
<1>1. {} \in F
  <2>1. Products!Fold(fun, {}) = 0
    BY Products!FoldEmpty, SumLaws
  <2> QED  BY <2>1, PIs DEF IsFinite
<1>2. ASSUME NEW T \in SUBSET S, NEW x \in S \ T, T \in F
      PROVE  T \cup {x} \in F
  <2>1. Products!IsFiniteSet(T)
    BY FS_Subset, FiniteForProducts
  <2>2. Products!ValuesOn(fun, T \cup {x}) /\ Products!ValuesOn(fun, T) /\ fun[x] \in Coeff
    BY DEF Products!ValuesOn
  <2>3. Products!Fold(fun, T \cup {x}) = Plus(fun[x], Products!Fold(fun, T))
    BY <2>1, <2>2, SumLaws, Products!FoldAdd
  <2>4. Products!Fold(fun, T) \in Coeff
    BY <2>1, <2>2, SumLaws, Products!FoldType
  <2>5. IsFinite(Products!Fold(fun, T \cup {x})) <=> IsFinite(fun[x]) /\ IsFinite(Products!Fold(fun, T))
    BY <2>2, <2>3, <2>4, PlusTimes
  <2> QED  BY <1>2, <2>5
<1> HIDE DEF F
<1>3. SUBSET S \subseteq F
  BY <1>1, <1>2, FiniteForProducts, Products!SetInductionOn
<1>4. S \in F
  BY <1>3
<1> QED  BY <1>4 DEF F

-----------------------------------------------------------------------------
(* The product, the term of the left factor's real part apart.             *)
Rest(f, g, gamma) == Products!Fold(Convolved(f, g, gamma), Under(gamma) \ {Zero})

LEMMA ZeroIs ==
  /\ Zero \in Alphas
  /\ \A gamma \in Alphas : Difference(gamma, Zero) = gamma /\ (gamma # Zero => Summed(gamma, M) > 0)
  /\ Under(Zero) \ {Zero} = {} /\ Summed(Zero, M) = 0
<1>1. Zero \in Alphas /\ Zero = Nowhere(M)
  BY RealPart, IndexAt
<1>2. ASSUME NEW gamma \in Alphas
      PROVE  Difference(gamma, Zero) = gamma /\ (gamma # Zero => Summed(gamma, M) > 0)
  <2>1. gamma \in DenseIndices(M)
    BY AlphasAre
  <2>2. gamma = [p \in 0..(M-1) |-> gamma[p]] /\ \A p \in 0..(M-1) : gamma[p] \in Nat
    BY <2>1 DEF DenseIndices
  <2>3. \A p \in 0..(M-1) : gamma[p] - Zero[p] = gamma[p]
    BY <2>2 DEF Zero
  <2>4. Difference(gamma, Zero) = gamma
    BY <2>2, <2>3 DEF Difference
  <2>5. gamma # Zero => Summed(gamma, M) > 0
    <3>1. M \in Nat \ {0} /\ M \in 0..M /\ M \in Nat
      BY ShapeIs
    <3>2. Summed(gamma, M) \in Nat
      BY <2>1, <3>1, SummedStep
    <3>3. Summed(gamma, M) = 0 => gamma = Zero
      BY <1>1, <2>1, <3>1, NowhereIs
    <3> QED  BY <3>2, <3>3
  <2> QED  BY <2>4, <2>5
<1>3. ASSUME NEW alpha \in Under(Zero) PROVE alpha = Zero
  <2>1. alpha \in DenseIndices(M)
    BY <1>3, AlphasAre DEF Under
  <2>2. \A p \in 0..(M-1) : alpha[p] \in Nat /\ alpha[p] <= Zero[p] /\ Zero[p] = 0
    BY <1>3, <2>1 DEF Under, Leq, Zero, DenseIndices
  <2>3. \A p \in 0..(M-1) : alpha[p] = 0
    BY <2>2
  <2> QED  BY <2>1, <2>3 DEF DenseIndices, Zero
<1>4. Summed(Zero, M) = 0
  BY <1>1, NowhereIs, ShapeIs
<1> QED  BY <1>1, <1>2, <1>3, <1>4

LEMMA ProductTakes ==
  ASSUME NEW f \in Poly, NEW g \in Poly
  PROVE  /\ Product(f, g) \in Poly
         /\ \A gamma \in Alphas :
              /\ Product(f, g)[gamma] = Plus(Times(f[Zero], g[gamma]), Rest(f, g, gamma))
              /\ Rest(f, g, gamma) \in Coeff
              /\ IsFinite(Rest(f, g, gamma)) <=>
                   \A alpha \in Under(gamma) \ {Zero} :
                     IsFinite(f[alpha]) /\ IsFinite(g[Difference(gamma, alpha)])
<1>1. ASSUME NEW gamma \in Alphas
      PROVE  /\ Product(f, g)[gamma] \in Coeff
             /\ Product(f, g)[gamma] = Plus(Times(f[Zero], g[gamma]), Rest(f, g, gamma))
             /\ Rest(f, g, gamma) \in Coeff
             /\ IsFinite(Rest(f, g, gamma)) <=>
                  \A alpha \in Under(gamma) \ {Zero} :
                    IsFinite(f[alpha]) /\ IsFinite(g[Difference(gamma, alpha)])
  <2> DEFINE fun == Convolved(f, g, gamma)
             S == Under(gamma)
             B == S \ {Zero}
  <2>1. /\ Products!IsFiniteSet(S) /\ Products!IsFiniteSet(B) /\ IsFiniteSet(B) /\ Zero \in S
    <3>1. IsFiniteSet(S) /\ Products!IsFiniteSet(S) /\ Products!IsFiniteSet(B) /\ Zero \in S
      BY UnderFinite
    <3>2. IsFiniteSet(B)
      BY <3>1, FS_Subset
    <3> QED  BY <3>1, <3>2
  <2>2. /\ Products!ValuesOn(fun, S) /\ Products!ValuesOn(fun, B)
        /\ \A alpha \in S : /\ f[alpha] \in Coeff /\ g[Difference(gamma, alpha)] \in Coeff
                            /\ fun[alpha] = Times(f[alpha], g[Difference(gamma, alpha)])
    BY ConvolvedIn
  <2>3. fun[Zero] = Times(f[Zero], g[gamma])
    BY <2>1, <2>2, ZeroIs
  <2>4. Product(f, g)[gamma] = Products!Fold(fun, S)
    BY ProductIs
  <2> HIDE DEF fun, S
  <2>5. Products!Fold(fun, S) = Plus(fun[Zero], Products!Fold(fun, B))
    BY <2>1, <2>2, SumLaws, Products!FoldTake
  <2>6. Products!Fold(fun, S) \in Coeff /\ Products!Fold(fun, B) \in Coeff
    BY <2>1, <2>2, SumLaws, Products!FoldType
  <2>7. IsFinite(Products!Fold(fun, B)) <=> \A alpha \in B : IsFinite(fun[alpha])
    BY <2>1, <2>2, FoldFinite
  <2>8. \A alpha \in B : IsFinite(fun[alpha]) <=> IsFinite(f[alpha]) /\ IsFinite(g[Difference(gamma, alpha)])
    BY <2>2, PlusTimes
  <2>9. Rest(f, g, gamma) = Products!Fold(fun, B)
    BY DEF Rest, fun, S
  <2> QED  BY <2>3, <2>4, <2>5, <2>6, <2>7, <2>8, <2>9 DEF S
<1>2. Product(f, g) \in Poly
  BY <1>1, ProductIs DEF Poly
<1> QED  BY <1>1, <1>2

-----------------------------------------------------------------------------
(* The geometric series of the reciprocal.                                 *)
Nilpotent(f, r) == Scale(Times(P - 1, r), [f EXCEPT ![Zero] = 0])
IsSeries(s, h) ==
  s = [k \in 0..N |-> IF k = 0 THEN Constant(1) ELSE Sum(Constant(1), Product(h, s[k-1]))]

LEMMA ConstantIn ==
  ASSUME NEW s \in Coeff
  PROVE  /\ Constant(s) \in Poly /\ Constant(s)[Zero] = s
         /\ \A gamma \in Alphas \ {Zero} : Constant(s)[gamma] = 0
BY PIs, FiniteIs, ZeroIs DEF Constant, Poly

LEMMA SumIn ==
  ASSUME NEW f \in Poly, NEW g \in Poly
  PROVE  Sum(f, g) \in Poly /\ \A gamma \in Alphas : Sum(f, g)[gamma] = Plus(f[gamma], g[gamma])
BY PlusTimes DEF Poly, Sum

LEMMA ScaleIn ==
  ASSUME NEW f \in Poly, NEW s \in Coeff
  PROVE  Scale(s, f) \in Poly /\ \A gamma \in Alphas : Scale(s, f)[gamma] = Times(s, f[gamma])
BY PlusTimes DEF Poly, Scale

LEMMA NilpotentIs ==
  ASSUME NEW f \in Poly, NEW r \in Finite
  PROVE  /\ Nilpotent(f, r) \in Poly /\ Nilpotent(f, r)[Zero] = 0 /\ Times(P - 1, r) \in Finite
         /\ \A alpha \in Alphas \ {Zero} : Nilpotent(f, r)[alpha] = Times(Times(P - 1, r), f[alpha])
<1> DEFINE g == [f EXCEPT ![Zero] = 0]
<1>1. 0 \in Coeff /\ Times(P - 1, r) \in Finite /\ Times(P - 1, r) \in Coeff
  <2>1. P - 1 \in Coeff /\ r \in Coeff /\ IsFinite(P - 1) /\ IsFinite(r) /\ 0 \in Coeff
    BY PIs, FiniteIs
  <2>2. Times(P - 1, r) \in Finite
    BY <2>1, PlusTimes
  <2> QED  BY <2>1, <2>2, FiniteIs
<1>2. g \in Poly /\ g[Zero] = 0 /\ \A alpha \in Alphas \ {Zero} : g[alpha] = f[alpha]
  BY <1>1, ZeroIs DEF Poly
<1> HIDE DEF g
<1>3. Scale(Times(P - 1, r), g) \in Poly
      /\ \A gamma \in Alphas : Scale(Times(P - 1, r), g)[gamma] = Times(Times(P - 1, r), g[gamma])
  BY <1>1, <1>2, ScaleIn
<1>4. Times(Times(P - 1, r), 0) = 0
  BY <1>1, TimesZero
<1>5. Nilpotent(f, r) = Scale(Times(P - 1, r), g)
  BY DEF Nilpotent, g
<1> QED  BY <1>1, <1>2, <1>3, <1>4, <1>5, ZeroIs

LEMMA SeriesExists ==
  ASSUME NEW h \in Poly
  PROVE  \E s \in [0..N -> Poly] : IsSeries(s, h)
<1> DEFINE step == [e \in (1..N) \X Poly |-> Sum(Constant(1), Product(h, e[2]))]
<1>1. Constant(1) \in Poly
  BY ConstantIn, PIs, FiniteIs
<1>2. step \in [(1..N) \X Poly -> Poly]
  <2> SUFFICES ASSUME NEW e \in (1..N) \X Poly PROVE Sum(Constant(1), Product(h, e[2])) \in Poly
    OBVIOUS
  <2>1. e[2] \in Poly
    OBVIOUS
  <2>2. Product(h, e[2]) \in Poly
    BY <2>1, ProductTakes
  <2> QED  BY <1>1, <2>2, SumIn
<1>3. N \in Nat
  BY ShapeIs
<1> HIDE DEF step
<1>4. PICK s \in [0..N -> Poly] : Products!Recursive(s, N, Constant(1), step)
  BY <1>1, <1>2, <1>3, Products!RecursionExists
<1>5. s = [k \in 0..N |-> IF k = 0 THEN Constant(1) ELSE step[<<k, s[k-1]>>]]
  BY <1>4 DEF Products!Recursive
<1>6. ASSUME NEW k \in 0..N, k # 0 PROVE step[<<k, s[k-1]>>] = Sum(Constant(1), Product(h, s[k-1]))
  <2>1. k - 1 \in 0..N /\ k \in 1..N
    BY <1>3, <1>6
  <2>2. <<k, s[k-1]>> \in (1..N) \X Poly
    BY <1>4, <2>1
  <2> QED  BY <2>2 DEF step
<1>7. s = [k \in 0..N |-> IF k = 0 THEN Constant(1) ELSE Sum(Constant(1), Product(h, s[k-1]))]
  BY <1>5, <1>6
<1> QED  BY <1>4, <1>7 DEF IsSeries

LEMMA SeriesIs ==
  ASSUME NEW h \in Poly, NEW s, IsSeries(s, h)
  PROVE  /\ s[0] = Constant(1)
         /\ \A k \in 0..N : s[k] \in Poly
         /\ \A k \in 0..N : k + 1 \in 0..N => s[k+1] = Sum(Constant(1), Product(h, s[k]))
<1>1. N \in Nat
  BY ShapeIs
<1>2. s[0] = Constant(1)
  BY <1>1 DEF IsSeries
<1>3. ASSUME NEW k \in 0..N, k + 1 \in 0..N PROVE s[k+1] = Sum(Constant(1), Product(h, s[k]))
  <2>1. k + 1 # 0 /\ (k + 1) - 1 = k
    OBVIOUS
  <2>2. s[k+1] = IF k + 1 = 0 THEN Constant(1) ELSE Sum(Constant(1), Product(h, s[(k + 1) - 1]))
    BY <1>3 DEF IsSeries
  <2> QED  BY <2>1, <2>2
<1> DEFINE T == {k \in Nat : k <= N => s[k] \in Poly}
<1>4. 0 \in T
  BY <1>2, ConstantIn, PIs, FiniteIs
<1>5. ASSUME NEW k \in Nat, k \in T PROVE k + 1 \in T
  <2> SUFFICES ASSUME k + 1 <= N PROVE s[k+1] \in Poly
    OBVIOUS
  <2>1. k \in 0..N /\ k + 1 \in 0..N /\ s[k] \in Poly
    BY <1>1, <1>5
  <2>2. Product(h, s[k]) \in Poly /\ Constant(1) \in Poly
    BY <2>1, ProductTakes, ConstantIn, PIs, FiniteIs
  <2> QED  BY <1>3, <2>1, <2>2, SumIn
<1> HIDE DEF T
<1>6. Nat \subseteq T
  BY <1>4, <1>5, Sums!NatInductionOn
<1>7. \A k \in 0..N : s[k] \in Poly
  BY <1>1, <1>6 DEF T
<1> QED  BY <1>2, <1>3, <1>7

(* A coefficient of the series is finite where the derivatives that enter  *)
(* it are.                                                                 *)
LEMMA SeriesFinite ==
  ASSUME NEW h \in Poly, h[Zero] = 0, NEW s, IsSeries(s, h)
  PROVE  \A k \in 0..N, gamma \in Alphas :
           (\A alpha \in Under(gamma) \ {Zero} : IsFinite(h[alpha])) => IsFinite(s[k][gamma])
<1> DEFINE Clean(gamma) == \A alpha \in Under(gamma) \ {Zero} : IsFinite(h[alpha])
           T == {k \in Nat : k <= N => \A gamma \in Alphas : Clean(gamma) => IsFinite(s[k][gamma])}
<1>1. N \in Nat /\ IsFinite(0) /\ IsFinite(1) /\ 1 \in Coeff /\ 0 \in Coeff
  BY ShapeIs, PIs, FiniteIs
<1>2. 0 \in T
  <2>1. s[0] = Constant(1)
    BY SeriesIs
  <2>2. \A gamma \in Alphas : IsFinite(Constant(1)[gamma])
    BY <1>1, ConstantIn
  <2> QED  BY <2>1, <2>2
<1>3. ASSUME NEW k \in Nat, k \in T PROVE k + 1 \in T
  <2> SUFFICES ASSUME k + 1 <= N, NEW gamma \in Alphas, Clean(gamma) PROVE IsFinite(s[k+1][gamma])
    OBVIOUS
  <2>1. k \in 0..N /\ k + 1 \in 0..N
    BY <1>1
  <2>2. s[k] \in Poly /\ s[k+1] = Sum(Constant(1), Product(h, s[k]))
    BY <2>1, SeriesIs
  <2>3. ASSUME NEW alpha \in Under(gamma) PROVE IsFinite(s[k][Difference(gamma, alpha)])
    <3> DEFINE delta == Difference(gamma, alpha)
    <3>1. delta \in Under(gamma) /\ delta \in Alphas
      BY DifferenceIs DEF Under
    <3>2. ASSUME NEW beta \in Under(delta) PROVE beta \in Under(gamma)
      <4>1. beta \in Alphas /\ Leq(beta, delta) /\ Leq(delta, gamma)
        BY <3>1, <3>2 DEF Under
      <4>2. beta \in DenseIndices(M) /\ delta \in DenseIndices(M) /\ gamma \in DenseIndices(M)
        BY <3>1, <4>1, AlphasAre
      <4> HIDE DEF delta
      <4>3. \A p \in 0..(M-1) : /\ beta[p] \in Nat /\ delta[p] \in Nat /\ gamma[p] \in Nat
                                /\ beta[p] <= delta[p] /\ delta[p] <= gamma[p]
        BY <4>1, <4>2 DEF Leq, DenseIndices
      <4>4. Leq(beta, gamma)
        BY <4>3 DEF Leq
      <4> QED  BY <4>1, <4>4 DEF Under
    <3>3. Clean(delta)
      BY <3>2
    <3> HIDE DEF delta
    <3>4. k <= N => (Clean(delta) => IsFinite(s[k][delta]))
      BY <1>3, <3>1
    <3> QED  BY <2>1, <3>3, <3>4 DEF delta
  <2>4. Product(h, s[k])[gamma] = Plus(Times(h[Zero], s[k][gamma]), Rest(h, s[k], gamma))
        /\ Rest(h, s[k], gamma) \in Coeff /\ IsFinite(Rest(h, s[k], gamma))
        /\ Product(h, s[k]) \in Poly
    BY <2>2, <2>3, ProductTakes
  <2>5. IsFinite(s[k][gamma]) /\ s[k][gamma] \in Coeff
    <3>1. Zero \in Under(gamma) /\ Difference(gamma, Zero) = gamma
      BY UnderFinite, ZeroIs
    <3> QED  BY <2>2, <2>3, <3>1 DEF Poly
  <2>6. Times(h[Zero], s[k][gamma]) \in Coeff /\ IsFinite(Times(h[Zero], s[k][gamma]))
    BY <1>1, <2>5, PlusTimes
  <2>7. Product(h, s[k])[gamma] \in Coeff /\ IsFinite(Product(h, s[k])[gamma])
    BY <2>4, <2>6, PlusTimes
  <2>8. Constant(1) \in Poly /\ Constant(1)[gamma] \in Coeff /\ IsFinite(Constant(1)[gamma])
    BY <1>1, ConstantIn
  <2>9. s[k+1][gamma] = Plus(Constant(1)[gamma], Product(h, s[k])[gamma])
    BY <2>2, <2>4, <2>8, SumIn
  <2> QED  BY <2>7, <2>8, <2>9, PlusTimes
<1> HIDE DEF T
<1>4. Nat \subseteq T
  BY <1>2, <1>3, Sums!NatInductionOn
<1> QED  BY <1>1, <1>4 DEF T

(* What the inverse is solved from: the coefficients in terms of those of  *)
(* lower indices.                                                          *)
SolvesFor(f, o, r) ==
  /\ o[Zero] = r
  /\ \A gamma \in Alphas \ {Zero} : o[gamma] = Over(Minus(Rest(f, o, gamma)), r)

(* One term of the series, and what the recurrence solves from it.         *)
LEMMA TermsAgree ==
  ASSUME NEW f \in Poly, NEW r \in Finite, NEW o \in Poly, NEW g \in Poly, NEW gamma \in Alphas,
         \A alpha \in Under(gamma) \ {Zero} :
           Times(r, g[Difference(gamma, alpha)]) = o[Difference(gamma, alpha)]
  PROVE  Times(r, Rest(Nilpotent(f, r), g, gamma)) = Over(Minus(Rest(f, o, gamma)), r)
<1> DEFINE h == Nilpotent(f, r)
           c == Times(P - 1, r)
           B == Under(gamma) \ {Zero}
           fun == Convolved(h, g, gamma)
           gun == Convolved(f, o, gamma)
           mid == [alpha \in B |-> Times(r, fun[alpha])]
<1>1. c \in Finite /\ c \in Coeff /\ r \in Coeff /\ P - 1 \in Coeff /\ h \in Poly
  BY NilpotentIs, FiniteIs, PIs
<1>2. IsFiniteSet(B) /\ Products!IsFiniteSet(B) /\ B \in SUBSET Under(gamma)
  <2>1. IsFiniteSet(Under(gamma)) /\ Products!IsFiniteSet(B)
    BY UnderFinite
  <2> HIDE DEF Under
  <2>2. IsFiniteSet(B)
    BY <2>1, FS_Subset
  <2> QED  BY <2>1, <2>2
<1>3. Products!ValuesOn(fun, B) /\ Products!ValuesOn(gun, B)
  BY <1>1, <1>2, ConvolvedIn
<1>4. ASSUME NEW alpha \in B PROVE mid[alpha] = Times(c, gun[alpha])
  <2> DEFINE delta == Difference(gamma, alpha)
             x == f[alpha]
             y == g[delta]
  <2>1. alpha \in Under(gamma) /\ alpha \in Alphas \ {Zero}
    BY DEF Under
  <2>2. /\ fun[alpha] = Times(h[alpha], y) /\ gun[alpha] = Times(x, o[delta])
        /\ x \in Coeff /\ y \in Coeff
    BY <1>1, <2>1, ConvolvedIn
  <2>3. h[alpha] = Times(c, x)
    BY <2>1, NilpotentIs
  <2>4. o[delta] = Times(r, y)
    OBVIOUS
  <2>5. mid[alpha] = Times(r, Times(Times(c, x), y)) /\ gun[alpha] = Times(x, Times(r, y))
    BY <2>2, <2>3, <2>4
  <2> HIDE DEF c, mid, gun, delta, x, y
  <2>6. Times(r, Times(Times(c, x), y)) = Times(c, Times(x, Times(r, y)))
    <3>1. /\ Times(c, x) \in Coeff /\ Times(x, y) \in Coeff /\ Times(r, y) \in Coeff /\ Times(r, c) \in Coeff
          /\ Times(c, r) \in Coeff /\ Times(x, r) \in Coeff
      BY <1>1, <2>2, PlusTimes
    <3>2. Times(Times(c, x), y) = Times(c, Times(x, y))
      BY <1>1, <2>2, RingLaws
    <3>3. Times(r, Times(c, Times(x, y))) = Times(Times(r, c), Times(x, y))
      BY <1>1, <3>1, RingLaws
    <3>4. Times(r, c) = Times(c, r)
      BY <1>1, RingLaws
    <3>5. Times(Times(c, r), Times(x, y)) = Times(c, Times(r, Times(x, y)))
      BY <1>1, <3>1, RingLaws
    <3>6. Times(r, Times(x, y)) = Times(Times(r, x), y)
      BY <1>1, <2>2, RingLaws
    <3>7. Times(r, x) = Times(x, r)
      BY <1>1, <2>2, RingLaws
    <3>8. Times(Times(x, r), y) = Times(x, Times(r, y))
      BY <1>1, <2>2, RingLaws
    <3> QED  BY <3>2, <3>3, <3>4, <3>5, <3>6, <3>7, <3>8
  <2> QED  BY <2>5, <2>6
<1>5. \A alpha \in B : mid[alpha] = Times(r, fun[alpha])
  OBVIOUS
<1>6. Rest(h, g, gamma) = Products!Fold(fun, B) /\ Rest(f, o, gamma) = Products!Fold(gun, B)
  BY DEF Rest
<1> HIDE DEF fun, gun, mid, B, c
<1>7. Products!Fold(mid, B) = Times(r, Products!Fold(fun, B))
  BY <1>2, <1>3, <1>5, FoldTimes
<1>8. Products!Fold(mid, B) = Times(c, Products!Fold(gun, B))
  BY <1>1, <1>2, <1>3, <1>4, FoldTimes
<1> DEFINE K == Products!Fold(gun, B)
<1>9. K \in Coeff
  BY <1>2, <1>3, SumLaws, Products!FoldType
<1> HIDE DEF K
<1>10. Over(Minus(K), r) = Times(c, K)
  <2>1. Over(Minus(K), r) = Times(Times(P - 1, K), r) /\ Times(P - 1, K) \in Coeff
    BY <1>1, <1>9, PlusTimes DEF Over, Minus
  <2>2. Times(Times(P - 1, K), r) = Times(P - 1, Times(K, r))
    BY <1>1, <1>9, RingLaws
  <2>3. Times(K, r) = Times(r, K)
    BY <1>1, <1>9, RingLaws
  <2>4. Times(P - 1, Times(r, K)) = Times(Times(P - 1, r), K)
    BY <1>1, <1>9, RingLaws
  <2> QED  BY <2>1, <2>2, <2>3, <2>4 DEF c
<1> QED  BY <1>6, <1>7, <1>8, <1>10 DEF K

LEMMA SeriesSolves ==
  ASSUME NEW f \in Poly, NEW r \in Finite, NEW o \in Poly, SolvesFor(f, o, r),
         NEW s, IsSeries(s, Nilpotent(f, r))
  PROVE  \A k \in 0..N, gamma \in Alphas : Summed(gamma, M) <= k => Times(r, s[k][gamma]) = o[gamma]
<1> DEFINE h == Nilpotent(f, r)
           T == {k \in Nat : k <= N => \A gamma \in Alphas :
                               Summed(gamma, M) <= k => Times(r, s[k][gamma]) = o[gamma]}
<1>1. /\ N \in Nat /\ IsFinite(0) /\ IsFinite(1) /\ 1 \in Coeff /\ 0 \in Coeff /\ r \in Coeff /\ IsFinite(r)
      /\ 0 \in Finite /\ 1 \in Finite
  BY ShapeIs, PIs, FiniteIs
<1>2. h \in Poly /\ h[Zero] = 0
  BY NilpotentIs
<1>3. \A gamma \in Alphas : Summed(gamma, M) \in Nat /\ (gamma # Zero => Summed(gamma, M) > 0)
  BY AlphasAre, ZeroIs, SummedStep, ShapeIs
<1>4. Times(r, 1) = r
  BY <1>1, RingLaws
<1>5. 0 \in T
  <2>1. s[0] = Constant(1)
    BY <1>2, SeriesIs
  <2>2. \A gamma \in Alphas : Summed(gamma, M) <= 0 => gamma = Zero
    BY <1>3
  <2>3. Times(r, Constant(1)[Zero]) = o[Zero]
    BY <1>1, <1>4, ConstantIn DEF SolvesFor
  <2> QED  BY <2>1, <2>2, <2>3
<1>6. ASSUME NEW k \in Nat, k \in T PROVE k + 1 \in T
  <2> SUFFICES ASSUME k + 1 <= N, NEW gamma \in Alphas, Summed(gamma, M) <= k + 1
               PROVE  Times(r, s[k+1][gamma]) = o[gamma]
    OBVIOUS
  <2>1. k \in 0..N /\ k + 1 \in 0..N
    BY <1>1
  <2> DEFINE g == s[k]
  <2>2. g \in Poly /\ s[k+1] = Sum(Constant(1), Product(h, g))
    BY <1>2, <2>1, SeriesIs
  <2>3. (\A alpha \in Under(gamma) \ {Zero} : IsFinite(h[alpha])) => IsFinite(g[gamma])
    BY <1>2, <2>1, SeriesFinite
  <2>4. \A delta \in Alphas : Summed(delta, M) <= k => Times(r, g[delta]) = o[delta]
    BY <1>6, <2>1
  <2> HIDE DEF g, h, T
  <2>5. /\ Product(h, g) \in Poly /\ Product(h, g)[gamma] = Plus(Times(0, g[gamma]), Rest(h, g, gamma))
        /\ Rest(h, g, gamma) \in Coeff
        /\ IsFinite(Rest(h, g, gamma)) <=>
             \A alpha \in Under(gamma) \ {Zero} : IsFinite(h[alpha]) /\ IsFinite(g[Difference(gamma, alpha)])
    BY <1>2, <2>2, ProductTakes
  <2>6. g[gamma] \in Coeff
    BY <2>2 DEF Poly
  <2>7. Plus(Times(0, g[gamma]), Rest(h, g, gamma)) = Rest(h, g, gamma)
    <3>1. CASE IsFinite(g[gamma])
      <4>1. Times(0, g[gamma]) = Times(g[gamma], 0) /\ g[gamma] \in Finite
        BY <1>1, <2>6, <3>1, RingLaws, NonFinIs
      <4>2. Times(0, g[gamma]) = 0
        BY <4>1, TimesZero
      <4> QED  BY <2>5, <4>2, SumLaws DEF Products!Neutral
    <3>2. CASE ~IsFinite(g[gamma])
      <4>1. ~IsFinite(Rest(h, g, gamma))
        BY <2>3, <2>5, <3>2
      <4> QED  BY <4>1 DEF Plus, IsFinite
    <3> QED  BY <3>1, <3>2
  <2>8. s[k+1][gamma] = Plus(Constant(1)[gamma], Rest(h, g, gamma))
    <3>1. Constant(1) \in Poly
      BY <1>1, ConstantIn
    <3> QED  BY <2>2, <2>5, <2>7, <3>1, SumIn
  <2>9. CASE gamma = Zero
    <3>1. Rest(h, g, gamma) = 0
      <4>1. Under(gamma) \ {Zero} = {}
        BY <2>9, ZeroIs
      <4>2. Rest(h, g, gamma) = Products!Fold(Convolved(h, g, gamma), {})
        BY <4>1 DEF Rest
      <4> QED  BY <4>2, SumLaws, Products!FoldEmpty
    <3>2. Plus(1, 0) = 1
      <4>1. Plus(1, 0) = Plus(0, 1) /\ Plus(0, 1) = 1
        BY <1>1, SumLaws DEF Products!Neutral, Products!Commutes
      <4> QED  BY <4>1
    <3>3. s[k+1][gamma] = 1
      BY <1>1, <2>8, <2>9, <3>1, <3>2, ConstantIn
    <3> QED  BY <1>4, <2>9, <3>3 DEF SolvesFor
  <2>10. CASE gamma # Zero
    <3>1. s[k+1][gamma] = Rest(h, g, gamma)
      <4>1. Constant(1)[gamma] = 0
        BY <1>1, <2>10, ConstantIn
      <4> QED  BY <2>5, <2>8, <4>1, SumLaws DEF Products!Neutral
    <3>2. ASSUME NEW alpha \in Under(gamma) \ {Zero}
          PROVE  Times(r, g[Difference(gamma, alpha)]) = o[Difference(gamma, alpha)]
      <4> DEFINE delta == Difference(gamma, alpha)
      <4>1. /\ alpha \in Alphas /\ delta \in Alphas /\ Summed(gamma, M) = Summed(alpha, M) + Summed(delta, M)
            /\ Summed(delta, M) \in Nat /\ Summed(alpha, M) \in Nat
        BY DifferenceIs DEF Under
      <4> HIDE DEF delta
      <4>2. Summed(alpha, M) > 0
        BY <1>3, <4>1
      <4>3. Summed(delta, M) <= k
        BY <4>1, <4>2
      <4> QED  BY <2>4, <4>1, <4>3 DEF delta
    <3>3. Times(r, Rest(h, g, gamma)) = Over(Minus(Rest(f, o, gamma)), r)
      BY <2>2, <3>2, TermsAgree DEF h
    <3> QED  BY <2>10, <3>1, <3>3 DEF SolvesFor
  <2> QED  BY <2>9, <2>10
<1> HIDE DEF T
<1>7. Nat \subseteq T
  BY <1>5, <1>6, Sums!NatInductionOn
<1> QED  BY <1>1, <1>7 DEF T

(* So the recurrence has the reciprocal for its solution; where 1 / f(0)   *)
(* is not finite, no coefficient of the reciprocal is.                     *)
LEMMA ReciprocalIs ==
  ASSUME NEW f \in Poly, NEW r \in Coeff
  PROVE  /\ Reciprocal(f, r) = [gamma \in Alphas |-> Reciprocal(f, r)[gamma]]
         /\ ~IsFinite(r) => \A gamma \in Alphas : Reciprocal(f, r)[gamma] = NonFin
         /\ \A o \in Poly : IsFinite(r) /\ SolvesFor(f, o, r) => Reciprocal(f, r) = o
<1> DEFINE s == CHOOSE g : IsSeries(g, Nilpotent(f, r))
<1>1. Reciprocal(f, r) = Scale(r, s[N])
  BY DEF Reciprocal, Nilpotent, IsSeries
<1>2. Reciprocal(f, r) = [gamma \in Alphas |-> Times(r, s[N][gamma])]
  BY <1>1 DEF Scale
<1>3. ~IsFinite(r) => \A gamma \in Alphas : Reciprocal(f, r)[gamma] = NonFin
  <2> HIDE DEF s
  <2> QED  BY <1>2 DEF Times
<1>4. ASSUME NEW o \in Poly, IsFinite(r), SolvesFor(f, o, r)
      PROVE  Reciprocal(f, r) = o
  <2>1. r \in Finite /\ N \in Nat
    BY <1>4, NonFinIs, ShapeIs
  <2>2. IsSeries(s, Nilpotent(f, r))
    BY <2>1, NilpotentIs, SeriesExists
  <2> HIDE DEF s
  <2>3. \A gamma \in Alphas : Times(r, s[N][gamma]) = o[gamma]
    <3>1. \A gamma \in Alphas : Summed(gamma, M) <= N
      BY AlphasAre
    <3> QED  BY <1>4, <2>1, <2>2, <3>1, SeriesSolves
  <2>4. o = [gamma \in Alphas |-> o[gamma]]
    BY DEF Poly
  <2> QED  BY <1>2, <2>3, <2>4
<1> QED  BY <1>2, <1>3, <1>4

-----------------------------------------------------------------------------
(* The operators of the algebra's instance are those of this module.       *)
LEMMA AlgebraArithmetic ==
  /\ \A x, y : Algebra!Times(x, y) = Times(x, y) /\ Algebra!Plus(x, y) = Plus(x, y)
  /\ \A x : Algebra!Minus(x) = Minus(x) /\ Algebra!Recips(x) = Recips(x)
  /\ Algebra!Coeff = Coeff
BY DEF Algebra!Times, Times, Algebra!Plus, Plus, Algebra!Minus, Minus, Algebra!Recips, Recips,
       Algebra!Coeff, Coeff, Algebra!Finite, Finite, Algebra!IsFinite, IsFinite

LEMMA AlgebraIndices ==
  /\ Algebra!Alphas = Alphas /\ Algebra!Zero = Zero
  /\ \A v : Algebra!Unit(v) = Unit(v)
  /\ \A a : Algebra!OrderIn(a) = OrderIn(a)
  /\ \A a, b : Algebra!Leq(a, b) = Leq(a, b)
  /\ \A a, b : Algebra!Difference(a, b) = Difference(a, b)
  /\ \A a : Algebra!FactorialOf(a) = FactorialOf(a)
<1>1. Algebra!Alphas = Alphas
  BY DEF Algebra!Alphas, Alphas, Algebra!AlphaSet, AlphaSet, Algebra!MapThenSumSet, MapThenSumSet,
         Algebra!MapThenFoldSet, MapThenFoldSet
<1>2. Algebra!Zero = Zero
  BY DEF Algebra!Zero, Zero
<1>3. \A v : Algebra!Unit(v) = Unit(v)
  BY DEF Algebra!Unit, Unit, Algebra!Zero, Zero
<1>4. \A a : Algebra!OrderIn(a) = OrderIn(a)
  BY DEF Algebra!OrderIn, OrderIn, Algebra!MapThenSumSet, MapThenSumSet, Algebra!MapThenFoldSet, MapThenFoldSet
<1>5. \A a, b : Algebra!Leq(a, b) = Leq(a, b)
  BY DEF Algebra!Leq, Leq
<1>6. \A a, b : Algebra!Difference(a, b) = Difference(a, b)
  BY DEF Algebra!Difference, Difference
<1>7. \A a : Algebra!FactorialOf(a) = FactorialOf(a)
  BY DEF Algebra!FactorialOf, FactorialOf, Algebra!Factorial, Factorial,
         Algebra!FoldFunction, FoldFunction, Algebra!FoldFunctionOnSet, FoldFunctionOnSet,
         Algebra!MapThenFoldSet, MapThenFoldSet
<1> QED  BY <1>1, <1>2, <1>3, <1>4, <1>5, <1>6, <1>7

LEMMA AlgebraPolynomials ==
  /\ \A s : Algebra!Constant(s) = Constant(s)
  /\ \A f, g : Algebra!Sum(f, g) = Sum(f, g)
  /\ \A s, f : Algebra!Scale(s, f) = Scale(s, f)
  /\ \A f, g : Algebra!Product(f, g) = Product(f, g)
  /\ \A f, m : Algebra!Truncate(f, m) = Truncate(f, m)
  /\ \A f, r : Algebra!Reciprocal(f, r) = Reciprocal(f, r)
<1>1. \A s : Algebra!Constant(s) = Constant(s)
  BY AlgebraIndices DEF Algebra!Constant, Constant
<1>2. \A f, g : Algebra!Sum(f, g) = Sum(f, g)
  BY AlgebraIndices, AlgebraArithmetic DEF Algebra!Sum, Sum
<1>3. \A s, f : Algebra!Scale(s, f) = Scale(s, f)
  BY AlgebraIndices, AlgebraArithmetic DEF Algebra!Scale, Scale
<1>4. \A f, g : Algebra!Product(f, g) = Product(f, g)
  BY AlgebraIndices DEF Algebra!Product, Product, Algebra!Times, Times, Algebra!Plus, Plus,
    Algebra!IsFinite, IsFinite, Algebra!Leq, Leq, Algebra!Difference, Difference,
    Algebra!FoldFunction, FoldFunction, Algebra!FoldFunctionOnSet, FoldFunctionOnSet,
    Algebra!MapThenFoldSet, MapThenFoldSet
<1>5. \A f, m : Algebra!Truncate(f, m) = Truncate(f, m)
  BY AlgebraIndices DEF Algebra!Truncate, Truncate
<1>6. ASSUME NEW f, NEW r PROVE Algebra!Reciprocal(f, r) = Reciprocal(f, r)
  BY <1>1, <1>2, <1>3, <1>4, AlgebraIndices, AlgebraArithmetic DEF Algebra!Reciprocal, Reciprocal
<1> QED  BY <1>1, <1>2, <1>3, <1>4, <1>5, <1>6

-----------------------------------------------------------------------------
(* The polynomials of the objects.                                         *)
Held(z) == PolyOf(regs[z])

LEMMA AssignedIs ==
  ASSUME NEW f, NEW alpha, NEW s
  PROVE  /\ Algebra!Assigned(f, alpha, s) = IF alpha \in Alphas THEN [f EXCEPT ![alpha] = s] ELSE f
         /\ Algebra!AssignedPartial(f, alpha, s) =
              IF alpha \in Alphas
              THEN [f EXCEPT ![alpha] = CHOOSE x \in Coeff : Times(FactorialOf(alpha) % P, x) = s]
              ELSE f
<1>1. Algebra!Assigned(f, alpha, s) = IF alpha \in Alphas THEN [f EXCEPT ![alpha] = s] ELSE f
  BY AlgebraIndices DEF Algebra!Assigned
<1>2. Algebra!AssignedPartial(f, alpha, s) =
              IF alpha \in Alphas
              THEN [f EXCEPT ![alpha] = CHOOSE x \in Coeff : Times(FactorialOf(alpha) % P, x) = s]
              ELSE f
  BY AlgebraIndices DEF Algebra!AssignedPartial, Algebra!Times, Times, Algebra!IsFinite, IsFinite,
     Algebra!Coeff, Coeff, Algebra!Finite, Finite, Algebra!FactorialOf, FactorialOf, Algebra!Factorial, Factorial,
     Algebra!FoldFunction, FoldFunction, Algebra!FoldFunctionOnSet, FoldFunctionOnSet,
     Algebra!MapThenFoldSet, MapThenFoldSet
<1> QED  BY <1>1, <1>2

(* What the algebra says of a call, call by call.                          *)
LEMMA ResultsAre ==
  ASSUME NEW c \in Calls
  PROVE  /\ c.op = "assign" => Algebra!Results(c) = {Constant(c.s)}
         /\ c.op = "variable" => Algebra!Results(c) = {Algebra!Assigned(Constant(c.s), Unit(c.v), 1)}
         /\ c.op = "set_coeff" => Algebra!Results(c) = {Algebra!Assigned(Held(c.y), c.alpha, c.s)}
         /\ c.op = "set_partial" => Algebra!Results(c) = {Algebra!AssignedPartial(Held(c.y), c.alpha, c.s)}
         /\ c.op = "set_coeff_sparse" =>
              Algebra!Results(c) = {IF Algebra!ValidSparse(c.list)
                                    THEN Algebra!Assigned(Held(c.y), Algebra!SparseSum(c.list), c.s)
                                    ELSE Held(c.y)}
         /\ c.op = "set_partial_sparse" =>
              Algebra!Results(c) = {IF Algebra!ValidSparse(c.list)
                                    THEN Algebra!AssignedPartial(Held(c.y), Algebra!SparseSum(c.list), c.s)
                                    ELSE Held(c.y)}
         /\ c.op = "neg" => Algebra!Results(c) = {Scale(P - 1, Held(c.a))}
         /\ c.op = "inv" =>
              Algebra!Results(c) = {Reciprocal(Held(c.a), r) : r \in Recips(Held(c.a)[Zero])}
         /\ c.op = "add" => Algebra!Results(c) = {Sum(Held(c.a), Held(c.b))}
         /\ c.op = "sub" => Algebra!Results(c) = {Sum(Held(c.a), Scale(P - 1, Held(c.b)))}
         /\ c.op = "mul" => Algebra!Results(c) = {Product(Held(c.a), Held(c.b))}
         /\ c.op = "div" =>
              Algebra!Results(c) = {Product(Held(c.a), Reciprocal(Held(c.b), r)) : r \in Recips(Held(c.b)[Zero])}
         /\ c.op = "fma_into" => Algebra!Results(c) = {Sum(Held(c.y), Product(Held(c.a), Held(c.b)))}
         /\ c.op = "add_scalar" => Algebra!Results(c) = {Sum(Held(c.a), Constant(c.s))}
         /\ c.op = "sub_scalar" => Algebra!Results(c) = {Sum(Held(c.a), Constant(Minus(c.s)))}
         /\ c.op = "mul_scalar" => Algebra!Results(c) = {Scale(c.s, Held(c.a))}
         /\ c.op = "div_scalar" => Algebra!Results(c) = {Scale(r, Held(c.a)) : r \in Recips(c.s)}
         /\ c.op = "scalar_sub" => Algebra!Results(c) = {Sum(Constant(c.s), Scale(P - 1, Held(c.a)))}
         /\ c.op = "scalar_div" =>
              Algebra!Results(c) =
                {Product(Constant(c.s), Reciprocal(Held(c.a), r)) : r \in Recips(Held(c.a)[Zero])}
         /\ c.op = "axpy" => Algebra!Results(c) = {Sum(Held(c.y), Scale(c.s, Held(c.a)))}
         /\ c.op = "scale_add" => Algebra!Results(c) = {Sum(Held(c.a), Scale(c.s, Held(c.b)))}
         /\ c.op = "trunc_mul" => Algebra!Results(c) = {Truncate(Product(Held(c.a), Held(c.b)), c.max)}
         /\ c.op = "trunc_add" => Algebra!Results(c) = {Truncate(Sum(Held(c.a), Held(c.b)), c.max)}
         /\ c.op = "gem" => Algebra!Results(c) = {Sum(Product(Held(c.a), Held(c.b)), Held(c.c))}
<1> DEFINE poly == [y \in Regs |-> PolyOf(regs[y])]
<1>1. \A z \in Regs : poly[z] = Held(z)
  BY DEF Held
<1>2. c.y \in Regs /\ poly[c.y] = Held(c.y)
  BY <1>1, CallIs
<1>3. c.op \in {"neg", "inv", "scale_add", "gem"} \cup WithTwo \cup WithScalar \cup Truncating
        => poly[c.a] = Held(c.a)
  BY <1>1, CallIs
<1>4. c.op \in {"scale_add", "gem"} \cup WithTwo \cup Truncating => poly[c.b] = Held(c.b)
  BY <1>1, CallIs
<1>5. c.op = "gem" => poly[c.c] = Held(c.c)
  BY <1>1, CallIs
<1> USE AlgebraPolynomials, AlgebraIndices, AlgebraArithmetic DEF WithTwo, WithScalar, Truncating
<1>6. /\ c.op = "assign" => Algebra!Results(c) = {Constant(c.s)}
      /\ c.op = "variable" => Algebra!Results(c) = {Algebra!Assigned(Constant(c.s), Unit(c.v), 1)}
  BY DEF Algebra!Results
<1>7. /\ c.op = "set_coeff" => Algebra!Results(c) = {Algebra!Assigned(Held(c.y), c.alpha, c.s)}
      /\ c.op = "set_partial" => Algebra!Results(c) = {Algebra!AssignedPartial(Held(c.y), c.alpha, c.s)}
  BY <1>2 DEF Algebra!Results
<1>8. /\ c.op = "set_coeff_sparse" =>
              Algebra!Results(c) = {IF Algebra!ValidSparse(c.list)
                                    THEN Algebra!Assigned(Held(c.y), Algebra!SparseSum(c.list), c.s)
                                    ELSE Held(c.y)}
      /\ c.op = "set_partial_sparse" =>
              Algebra!Results(c) = {IF Algebra!ValidSparse(c.list)
                                    THEN Algebra!AssignedPartial(Held(c.y), Algebra!SparseSum(c.list), c.s)
                                    ELSE Held(c.y)}
  BY <1>2 DEF Algebra!Results
<1>9. /\ c.op = "neg" => Algebra!Results(c) = {Scale(P - 1, Held(c.a))}
      /\ c.op = "inv" => Algebra!Results(c) = {Reciprocal(Held(c.a), r) : r \in Recips(Held(c.a)[Zero])}
  BY <1>3 DEF Algebra!Results
<1>10. /\ c.op = "add" => Algebra!Results(c) = {Sum(Held(c.a), Held(c.b))}
       /\ c.op = "sub" => Algebra!Results(c) = {Sum(Held(c.a), Scale(P - 1, Held(c.b)))}
       /\ c.op = "mul" => Algebra!Results(c) = {Product(Held(c.a), Held(c.b))}
  BY <1>3, <1>4 DEF Algebra!Results
<1>11. /\ c.op = "div" =>
               Algebra!Results(c) = {Product(Held(c.a), Reciprocal(Held(c.b), r)) : r \in Recips(Held(c.b)[Zero])}
       /\ c.op = "fma_into" => Algebra!Results(c) = {Sum(Held(c.y), Product(Held(c.a), Held(c.b)))}
  BY <1>2, <1>3, <1>4 DEF Algebra!Results
<1>12. /\ c.op = "add_scalar" => Algebra!Results(c) = {Sum(Held(c.a), Constant(c.s))}
       /\ c.op = "sub_scalar" => Algebra!Results(c) = {Sum(Held(c.a), Constant(Minus(c.s)))}
       /\ c.op = "mul_scalar" => Algebra!Results(c) = {Scale(c.s, Held(c.a))}
  BY <1>3 DEF Algebra!Results
<1>13. /\ c.op = "div_scalar" => Algebra!Results(c) = {Scale(r, Held(c.a)) : r \in Recips(c.s)}
       /\ c.op = "scalar_sub" => Algebra!Results(c) = {Sum(Constant(c.s), Scale(P - 1, Held(c.a)))}
       /\ c.op = "scalar_div" =>
               Algebra!Results(c) = {Product(Constant(c.s), Reciprocal(Held(c.a), r)) : r \in Recips(Held(c.a)[Zero])}
  BY <1>3 DEF Algebra!Results, Algebra!DivideBy
<1>14. /\ c.op = "axpy" => Algebra!Results(c) = {Sum(Held(c.y), Scale(c.s, Held(c.a)))}
       /\ c.op = "scale_add" => Algebra!Results(c) = {Sum(Held(c.a), Scale(c.s, Held(c.b)))}
  BY <1>2, <1>3, <1>4 DEF Algebra!Results
<1>15. /\ c.op = "trunc_mul" => Algebra!Results(c) = {Truncate(Product(Held(c.a), Held(c.b)), c.max)}
       /\ c.op = "trunc_add" => Algebra!Results(c) = {Truncate(Sum(Held(c.a), Held(c.b)), c.max)}
  BY <1>3, <1>4 DEF Algebra!Results
<1>16. /\ c.op = "gem" => Algebra!Results(c) = {Sum(Product(Held(c.a), Held(c.b)), Held(c.c))}
  BY <1>3, <1>4, <1>5 DEF Algebra!Results
<1> QED  BY ONLY <1>6, <1>7, <1>8, <1>9, <1>10, <1>11, <1>12, <1>13, <1>14, <1>15, <1>16

-----------------------------------------------------------------------------
(* The operations, one by one, in the terms of the algebra.                *)
LEMMA RingZero ==
  ASSUME NEW x \in Coeff
  PROVE  Plus(0, x) = x /\ Plus(x, 0) = x
BY SumLaws, PIs, FiniteIs DEF Products!Neutral, Products!Commutes

LEMMA LinearPoly ==
  ASSUME NEW a \in Jet, NEW b \in Jet, NEW s \in Coeff
  PROVE  /\ PolyOf(Lift(s)) = Constant(s)
         /\ PolyOf(Added(a, b)) = Sum(PolyOf(a), PolyOf(b))
         /\ PolyOf(Subtracted(a, b)) = Sum(PolyOf(a), Scale(P - 1, PolyOf(b)))
         /\ PolyOf(AddedReal(a, s)) = Sum(PolyOf(a), Constant(s))
         /\ PolyOf(AddedReal(a, s)) = Sum(Constant(s), PolyOf(a))
         /\ PolyOf(Scaled(a, s)) = Scale(s, PolyOf(a))
         /\ PolyOf(Axpy(a, s, b)) = Sum(PolyOf(a), Scale(s, PolyOf(b)))
         /\ PolyOf(ScalarQuotient(a, s)) = Scale(s, PolyOf(a))
<1> DEFINE f == PolyOf(a)
           g == PolyOf(b)
<1>1. P - 1 \in Coeff /\ 0 \in Coeff
  BY PIs, FiniteIs
<1>2. /\ f \in Poly /\ g \in Poly /\ Constant(s) \in Poly
  BY PolyIn, ConstantIn
<1>3. /\ Scale(P - 1, g) \in Poly /\ Scale(s, g) \in Poly /\ Scale(s, f) \in Poly
      /\ \A gamma \in Alphas : /\ Scale(P - 1, g)[gamma] = Times(P - 1, g[gamma])
                               /\ Scale(s, g)[gamma] = Times(s, g[gamma])
                               /\ Scale(s, f)[gamma] = Times(s, f[gamma])
  BY <1>1, <1>2, ScaleIn
<1>4. /\ Sum(f, g) \in Poly /\ Sum(f, Scale(P - 1, g)) \in Poly /\ Sum(f, Constant(s)) \in Poly
      /\ Sum(Constant(s), f) \in Poly /\ Sum(f, Scale(s, g)) \in Poly
      /\ \A gamma \in Alphas : /\ Sum(f, g)[gamma] = Plus(f[gamma], g[gamma])
                               /\ Sum(f, Scale(P - 1, g))[gamma] = Plus(f[gamma], Times(P - 1, g[gamma]))
                               /\ Sum(f, Constant(s))[gamma] = Plus(f[gamma], Constant(s)[gamma])
                               /\ Sum(Constant(s), f)[gamma] = Plus(Constant(s)[gamma], f[gamma])
                               /\ Sum(f, Scale(s, g))[gamma] = Plus(f[gamma], Times(s, g[gamma]))
  BY <1>2, <1>3, SumIn
<1>5. ASSUME NEW x \in Idx
      PROVE  /\ AlphaAt[x] \in Alphas /\ f[AlphaAt[x]] = a[x] /\ g[AlphaAt[x]] = b[x]
             /\ a[x] \in Coeff /\ b[x] \in Coeff
             /\ Constant(s)[AlphaAt[x]] = IF x = 0 THEN s ELSE 0
  <2>1. AlphaAt[x] \in Alphas /\ f[AlphaAt[x]] = a[x] /\ g[AlphaAt[x]] = b[x]
    BY PolyAt, IndexAt
  <2>2. a[x] \in Coeff /\ b[x] \in Coeff
    BY DEF Jet
  <2>3. AlphaAt[x] = Zero <=> x = 0
    BY IndexAt, RealPart
  <2>4. Constant(s)[AlphaAt[x]] = IF x = 0 THEN s ELSE 0
    BY <2>1, <2>3 DEF Constant
  <2> QED  BY <2>1, <2>2, <2>4
<1>6. \A h \in Poly : h = [alpha \in Alphas |-> h[alpha]]
  BY DEF Poly
<1>7. PolyOf(Lift(s)) = Constant(s)
  <2>1. \A x \in Idx : Lift(s)[x] = Constant(s)[AlphaAt[x]]
    BY <1>5 DEF Lift
  <2> QED  BY <1>2, <1>6, <2>1, PolyIs
<1>8. PolyOf(Added(a, b)) = Sum(f, g)
  <2>1. \A x \in Idx : Added(a, b)[x] = Sum(f, g)[AlphaAt[x]]
    BY <1>4, <1>5 DEF Added
  <2> QED  BY <1>4, <1>6, <2>1, PolyIs
<1>9. PolyOf(Subtracted(a, b)) = Sum(f, Scale(P - 1, g))
  <2>1. \A x \in Idx : Subtracted(a, b)[x] = Sum(f, Scale(P - 1, g))[AlphaAt[x]]
    BY <1>4, <1>5 DEF Subtracted, Minus
  <2> QED  BY <1>4, <1>6, <2>1, PolyIs
<1>10. \A x \in Idx : /\ AddedReal(a, s)[x] = Plus(a[x], Constant(s)[AlphaAt[x]])
                      /\ AddedReal(a, s)[x] = Plus(Constant(s)[AlphaAt[x]], a[x])
  <2> TAKE x \in Idx
  <2>1. AddedReal(a, s)[x] = IF x = 0 THEN Plus(a[0], s) ELSE a[x]
    BY DEF AddedReal, Jet
  <2>2. Plus(a[x], 0) = a[x] /\ Plus(0, a[x]) = a[x] /\ Plus(a[x], s) = Plus(s, a[x])
    BY <1>5, RingZero, SumLaws DEF Products!Commutes
  <2> QED  BY <1>5, <2>1, <2>2
<1>11. PolyOf(AddedReal(a, s)) = Sum(f, Constant(s))
  <2>1. \A x \in Idx : AddedReal(a, s)[x] = Sum(f, Constant(s))[AlphaAt[x]]
    BY <1>4, <1>5, <1>10
  <2> QED  BY <1>4, <1>6, <2>1, PolyIs
<1>12. PolyOf(AddedReal(a, s)) = Sum(Constant(s), f)
  <2>1. \A x \in Idx : AddedReal(a, s)[x] = Sum(Constant(s), f)[AlphaAt[x]]
    BY <1>4, <1>5, <1>10
  <2> QED  BY <1>4, <1>6, <2>1, PolyIs
<1>13. \A x \in Idx : Times(a[x], s) = Times(s, a[x])
  BY <1>5, RingLaws
<1>14. PolyOf(Scaled(a, s)) = Scale(s, f)
  <2>1. \A x \in Idx : Scaled(a, s)[x] = Scale(s, f)[AlphaAt[x]]
    BY <1>3, <1>5, <1>13 DEF Scaled
  <2> QED  BY <1>3, <1>6, <2>1, PolyIs
<1>15. PolyOf(Axpy(a, s, b)) = Sum(f, Scale(s, g))
  <2>1. \A x \in Idx : Axpy(a, s, b)[x] = Sum(f, Scale(s, g))[AlphaAt[x]]
    BY <1>4, <1>5 DEF Axpy
  <2> QED  BY <1>4, <1>6, <2>1, PolyIs
<1>16. PolyOf(ScalarQuotient(a, s)) = Scale(s, f)
  <2>1. \A x \in Idx : ScalarQuotient(a, s)[x] = Times(s, a[x])
    <3> TAKE x \in Idx
    <3>1. CASE N > 0 /\ ~IsFinite(s)
      BY <3>1 DEF ScalarQuotient, Times
    <3>2. CASE ~(N > 0 /\ ~IsFinite(s))
      BY <1>13, <3>2 DEF ScalarQuotient, Over
    <3> QED  BY <3>1, <3>2
  <2>2. \A x \in Idx : ScalarQuotient(a, s)[x] = Scale(s, f)[AlphaAt[x]]
    BY <1>3, <1>5, <2>1
  <2> QED  BY <1>3, <1>6, <2>2, PolyIs
<1> QED  BY <1>7, <1>8, <1>9, <1>11, <1>12, <1>14, <1>15, <1>16

LEMMA TruncateIs ==
  ASSUME NEW f \in Poly, NEW max \in Int
  PROVE  /\ Truncate(f, max) \in Poly
         /\ \A x \in Idx : Truncate(f, max)[AlphaAt[x]] = IF OrderAt[x] <= max THEN f[AlphaAt[x]] ELSE 0
<1>1. Truncate(f, max) \in Poly
  BY PIs, FiniteIs DEF Truncate, Poly
<1>2. ASSUME NEW x \in Idx
      PROVE  Truncate(f, max)[AlphaAt[x]] = IF OrderAt[x] <= max THEN f[AlphaAt[x]] ELSE 0
  <2>1. AlphaAt[x] \in Alphas /\ OrderAt[x] = OrderIn(AlphaAt[x])
    BY IndexAt DEF OrderAt
  <2> QED  BY <2>1 DEF Truncate
<1> QED  BY <1>1, <1>2

LEMMA ProductPoly ==
  ASSUME path \in Paths, NEW seed \in Jet, NEW a \in Jet, NEW b \in Jet, NEW max \in Int
  PROVE  /\ PolyOf(Mul(a, b)) = Product(PolyOf(a), PolyOf(b))
         /\ PolyOf(MulInto(seed, a, b, N)) = Sum(PolyOf(seed), Product(PolyOf(a), PolyOf(b)))
         /\ PolyOf(TruncMul(a, b, max)) = Truncate(Product(PolyOf(a), PolyOf(b)), max)
         /\ PolyOf(TruncAdd(a, b, max)) = Truncate(Sum(PolyOf(a), PolyOf(b)), max)
<1> DEFINE f == PolyOf(a)
           g == PolyOf(b)
           e == PolyOf(seed)
<1>1. /\ f \in Poly /\ g \in Poly /\ e \in Poly /\ Product(f, g) \in Poly /\ Sum(f, g) \in Poly
      /\ Sum(e, Product(f, g)) \in Poly
      /\ \A gamma \in Alphas : /\ Sum(f, g)[gamma] = Plus(f[gamma], g[gamma])
                               /\ Sum(e, Product(f, g))[gamma] = Plus(e[gamma], Product(f, g)[gamma])
  <2>1. f \in Poly /\ g \in Poly /\ e \in Poly
    BY PolyIn
  <2>2. Product(f, g) \in Poly
    BY <2>1, ProductTakes
  <2> QED  BY <2>1, <2>2, SumIn
<1>2. \A h \in Poly : h = [alpha \in Alphas |-> h[alpha]]
  BY DEF Poly
<1>3. ASSUME NEW x \in Idx
      PROVE  /\ AlphaAt[x] \in Alphas /\ f[AlphaAt[x]] = a[x] /\ g[AlphaAt[x]] = b[x] /\ e[AlphaAt[x]] = seed[x]
             /\ Product(f, g)[AlphaAt[x]] = Total(a, b, TermsInto[path][x])
             /\ Total(a, b, TermsInto[path][x]) \in Coeff
             /\ OrderAt[x] \in 0..N
  <2>1. /\ AlphaAt[x] \in Alphas /\ OrderAt[x] \in 0..N
        /\ f[AlphaAt[x]] = a[x] /\ g[AlphaAt[x]] = b[x] /\ e[AlphaAt[x]] = seed[x]
    BY PolyAt, IndexAt
  <2> DEFINE S == TermsInto[path][x]
             B == Under(AlphaAt[x])
  <2>2. Total(a, b, S) = Products!Fold(Convolved(f, g, AlphaAt[x]), B)
    <3>1. S \in {TermsInto[path][x], TermsInto[path][x] \ {<<0, x>>}}
      OBVIOUS
    <3>2. B = IF S = TermsInto[path][x] THEN Under(AlphaAt[x]) ELSE Under(AlphaAt[x]) \ {Zero}
      OBVIOUS
    <3> HIDE DEF S, B
    <3> QED  BY <3>1, <3>2, ConvolutionIs
  <2>3. Product(f, g)[AlphaAt[x]] = Products!Fold(Convolved(f, g, AlphaAt[x]), B)
    BY <2>1, ProductIs
  <2>4. Product(f, g)[AlphaAt[x]] \in Coeff
    BY <1>1, <2>1 DEF Poly
  <2> QED  BY <2>1, <2>2, <2>3, <2>4
<1> HIDE DEF f, g, e
<1>4. ASSUME NEW z \in Jet, NEW order
      PROVE  /\ MulInto(z, a, b, order) \in Jet
             /\ \A k \in Idx : MulInto(z, a, b, order)[k] =
                  IF OrderAt[k] > order THEN z[k] ELSE Plus(z[k], Product(f, g)[AlphaAt[k]])
  BY <1>3, MulIntoIs
<1>5. Lift(0) \in Jet /\ \A x \in Idx : Lift(0)[x] = 0
  <2>1. 0 \in Coeff
    BY PIs, FiniteIs
  <2> QED  BY <2>1, LinearIn DEF Lift
<1>6. \A x \in Idx : Product(f, g)[AlphaAt[x]] \in Coeff /\ ~(OrderAt[x] > N)
  BY <1>3, ShapeIs
<1>7. PolyOf(Mul(a, b)) = Product(f, g)
  <2>1. \A x \in Idx : Mul(a, b)[x] = Product(f, g)[AlphaAt[x]]
    BY <1>4, <1>5, <1>6, RingZero DEF Mul
  <2> QED  BY <1>1, <1>2, <2>1, PolyIs
<1>8. PolyOf(MulInto(seed, a, b, N)) = Sum(e, Product(f, g))
  <2>1. \A x \in Idx : MulInto(seed, a, b, N)[x] = Sum(e, Product(f, g))[AlphaAt[x]]
    BY <1>1, <1>3, <1>4, <1>6
  <2> QED  BY <1>1, <1>2, <2>1, PolyIs
<1>9. /\ Truncate(Product(f, g), max) \in Poly /\ Truncate(Sum(f, g), max) \in Poly
      /\ \A x \in Idx :
           /\ Truncate(Product(f, g), max)[AlphaAt[x]] = IF OrderAt[x] <= max THEN Product(f, g)[AlphaAt[x]] ELSE 0
           /\ Truncate(Sum(f, g), max)[AlphaAt[x]] = IF OrderAt[x] <= max THEN Sum(f, g)[AlphaAt[x]] ELSE 0
  BY <1>1, TruncateIs
<1>10. ASSUME NEW x \in Idx
       PROVE  /\ OrderAt[x] \in Nat /\ OrderAt[x] <= N
              /\ max < 0 => ~(OrderAt[x] <= max)
              /\ OrderAt[x] <= Min({max, N}) <=> OrderAt[x] <= max
              /\ OrderAt[x] > Min({max, N}) <=> ~(OrderAt[x] <= max)
  <2>1. OrderAt[x] \in Nat /\ OrderAt[x] <= N /\ N \in Nat
    BY <1>3, ShapeIs
  <2>2. Min({max, N}) \in Int /\ Min({max, N}) = IF max <= N THEN max ELSE N
    <3>1. \A m \in {max, N} : (\A d \in {max, N} : m <= d) => m = IF max <= N THEN max ELSE N
      BY <2>1
    <3>2. \E m \in {max, N} : \A d \in {max, N} : m <= d
      BY <2>1
    <3>3. Min({max, N}) = IF max <= N THEN max ELSE N
      BY <3>1, <3>2 DEF Min
    <3> QED  BY <2>1, <3>3
  <2> QED  BY <2>1, <2>2
<1>11. PolyOf(TruncMul(a, b, max)) = Truncate(Product(f, g), max)
  <2>1. \A x \in Idx : TruncMul(a, b, max)[x] = IF OrderAt[x] <= max THEN Product(f, g)[AlphaAt[x]] ELSE 0
    <3>1. CASE max < 0
      BY <1>5, <1>10, <3>1 DEF TruncMul
    <3>2. CASE ~(max < 0)
      <4> TAKE x \in Idx
      <4>1. TruncMul(a, b, max)[x] =
              IF OrderAt[x] > Min({max, N}) THEN 0 ELSE Plus(0, Product(f, g)[AlphaAt[x]])
        BY <1>4, <1>5, <3>2 DEF TruncMul
      <4>2. Plus(0, Product(f, g)[AlphaAt[x]]) = Product(f, g)[AlphaAt[x]]
        BY <1>6, RingZero
      <4> QED  BY <1>10, <4>1, <4>2
    <3> QED  BY <3>1, <3>2
  <2>2. \A x \in Idx : TruncMul(a, b, max)[x] = Truncate(Product(f, g), max)[AlphaAt[x]]
    BY <1>9, <2>1
  <2> QED  BY <1>2, <1>9, <2>2, PolyIs
<1>12. PolyOf(TruncAdd(a, b, max)) = Truncate(Sum(f, g), max)
  <2>1. \A x \in Idx : TruncAdd(a, b, max)[x] = IF OrderAt[x] <= max THEN Plus(a[x], b[x]) ELSE 0
    <3> TAKE x \in Idx
    <3>1. TruncAdd(a, b, max)[x] = IF max >= 0 /\ OrderAt[x] <= Min({max, N}) THEN Plus(a[x], b[x]) ELSE 0
      BY DEF TruncAdd
    <3>2. max >= 0 /\ OrderAt[x] <= Min({max, N}) <=> OrderAt[x] <= max
      BY <1>10
    <3> QED  BY <3>1, <3>2
  <2>2. \A x \in Idx : TruncAdd(a, b, max)[x] = Truncate(Sum(f, g), max)[AlphaAt[x]]
    BY <1>1, <1>3, <1>9, <2>1
  <2> QED  BY <1>2, <1>9, <2>2, PolyIs
<1> QED  BY <1>7, <1>8, <1>11, <1>12 DEF f, g, e

-----------------------------------------------------------------------------
(* Storing one coefficient stores one of the polynomial.                   *)
LEMMA PutPoly ==
  ASSUME NEW jet \in Jet, NEW v \in Coeff, NEW alpha, NEW idx,
         IF alpha \in Alphas THEN idx = PlaceOf(M, alpha) ELSE idx = -1
  PROVE  /\ PolyOf(PutRanked(jet, idx, v)) = Algebra!Assigned(PolyOf(jet), alpha, v)
         /\ PolyOf(PutRanked(jet, idx, NormalizedPartial(idx, v))) = Algebra!AssignedPartial(PolyOf(jet), alpha, v)
<1>1. CASE alpha \notin Alphas
  BY <1>1, AssignedIs DEF PutRanked
<1>2. CASE alpha \in Alphas
  <2>1. idx \in Idx /\ AlphaAt[idx] = alpha /\ idx >= 0 /\ idx = PlaceOf(M, alpha)
    <3>1. idx = PlaceOf(M, alpha) /\ idx \in Idx /\ AlphaAt[idx] = alpha
      BY <1>2, PolyAt
    <3> QED  BY <3>1, ShapeIs DEF Idx
  <2>2. ASSUME NEW w
        PROVE  PolyOf(PutRanked(jet, idx, w)) = [PolyOf(jet) EXCEPT ![alpha] = w]
    <3> DEFINE new == PutRanked(jet, idx, w)
               f == [PolyOf(jet) EXCEPT ![alpha] = w]
    <3>1. new = [x \in Idx |-> IF x = idx THEN w ELSE jet[x]]
      BY <2>1 DEF PutRanked, Put, Jet
    <3>2. PolyOf(jet) = [gamma \in Alphas |-> PolyOf(jet)[gamma]]
      BY PolyIn DEF Poly
    <3>3. f = [gamma \in Alphas |-> IF gamma = alpha THEN w ELSE PolyOf(jet)[gamma]]
      BY <3>2
    <3>4. ASSUME NEW x \in Idx
          PROVE  new[x] = f[AlphaAt[x]]
      <4>1. AlphaAt[x] \in Alphas /\ PlaceOf(M, AlphaAt[x]) = x
        BY IndexAt
      <4>2. AlphaAt[x] = alpha <=> x = idx
        BY <2>1, <4>1
      <4>3. PolyOf(jet)[AlphaAt[x]] = jet[x]
        BY PolyAt
      <4> QED  BY <3>1, <3>3, <4>1, <4>2, <4>3
    <3> HIDE DEF f, new
    <3>5. f = [gamma \in Alphas |-> f[gamma]]
      BY <3>3
    <3>6. PolyOf(new) = f
      BY <3>4, <3>5, PolyIs
    <3> QED  BY <3>6 DEF f, new
  <2>3. NormalizedPartial(idx, v) = CHOOSE x \in Coeff : Times(FactorialOf(alpha) % P, x) = v
    <3>1. FactorialAt[idx] = FactorialOf(alpha) % P
      BY <2>1 DEF FactorialAt
    <3> QED  BY <2>1, <3>1 DEF NormalizedPartial
  <2>4. PolyOf(PutRanked(jet, idx, v)) = Algebra!Assigned(PolyOf(jet), alpha, v)
    BY <1>2, <2>2, AssignedIs
  <2>5. PolyOf(PutRanked(jet, idx, NormalizedPartial(idx, v))) = Algebra!AssignedPartial(PolyOf(jet), alpha, v)
    <3> DEFINE w == NormalizedPartial(idx, v)
    <3>1. PolyOf(PutRanked(jet, idx, w)) = [PolyOf(jet) EXCEPT ![alpha] = w]
      BY <2>2
    <3>2. Algebra!AssignedPartial(PolyOf(jet), alpha, v) =
            [PolyOf(jet) EXCEPT ![alpha] = CHOOSE x \in Coeff : Times(FactorialOf(alpha) % P, x) = v]
      BY <1>2, AssignedIs
    <3>3. w = CHOOSE x \in Coeff : Times(FactorialOf(alpha) % P, x) = v
      BY <2>3
    <3> HIDE DEF w
    <3>4. [PolyOf(jet) EXCEPT ![alpha] = w] =
            [PolyOf(jet) EXCEPT ![alpha] = CHOOSE x \in Coeff : Times(FactorialOf(alpha) % P, x) = v]
      BY ONLY <3>3
    <3> QED  BY <3>1, <3>2, <3>4 DEF w
  <2> QED  BY <2>4, <2>5
<1> QED  BY <1>1, <1>2

(* A request that fits ranks where the layout places it.                   *)
LEMMA RequestPlace ==
  ASSUME NEW alpha, Fits(alpha)
  PROVE  IF alpha \in Alphas THEN Rank(M, N, alpha) = PlaceOf(M, alpha) ELSE Rank(M, N, alpha) = -1
<1>1. alpha \in Alphas => alpha \in DenseIndices(M)
  BY AlphasAre
<1> QED  BY <1>1, PlaceIs, RequestRanks

(* A spoilt list is one the algebra does not accept; the terms of another  *)
(* add up to its multi-index.                                              *)
LEMMA SparsePlace ==
  ASSUME InputsFit, NEW list \in SparseInputs
  PROVE  /\ Spoilt(list) <=> ~Algebra!ValidSparse(list)
         /\ Spoilt(list) => RankSparse(list) = -1
         /\ ~Spoilt(list) =>
              LET alpha == Algebra!SparseSum(list)
              IN  IF alpha \in Alphas THEN RankSparse(list) = PlaceOf(M, alpha) ELSE RankSparse(list) = -1
<1>1. list \in Seq([variable : Int, order : Int])
  BY SparseAssumption
<1>2. \A t \in DOMAIN list : list[t].variable \in Int /\ list[t].order \in Int
  <2> DEFINE Terms == [variable : Int, order : Int]
  <2>1. \A t \in DOMAIN list : list[t] \in Terms
    <3> HIDE DEF Terms
    <3>1. list \in Seq(Terms)
      BY <1>1 DEF Terms
    <3> QED  BY <3>1
  <2> QED  BY <2>1
<1>3. Spoilt(list) <=> ~Algebra!ValidSparse(list)
  BY <1>2, ShapeIs DEF Spoilt, Algebra!ValidSparse
<1>4. ASSUME ~Spoilt(list)
      PROVE  /\ Fits(Algebra!SparseSum(list))
             /\ RankSparse(list) = Rank(M, N, Algebra!SparseSum(list))
  <2>1. Fits(Algebra!SparseSum(list))
    BY <1>4 DEF InputsFit
  <2>2. Gathered(list) = Algebra!SparseSum(list)
    BY <1>1, <1>4, <2>1, GatheredIs
  <2> QED  BY <1>4, <2>1, <2>2 DEF RankSparse
<1>5. Spoilt(list) => RankSparse(list) = -1
  BY DEF RankSparse
<1> QED  BY <1>3, <1>4, <1>5, RequestPlace

(* What a call without an inverse stores is what the algebra says.         *)
LEMMA ValuePoly ==
  ASSUME InputsFit, regs \in [Regs -> Jet], path \in Paths,
         NEW c \in Calls, c.op \notin Inverting \cup {"div_scalar"}
  PROVE  PolyOf(Value(c)) \in Algebra!Results(c)
<1> DEFINE a == regs[c.a]
           b == regs[c.b]
           y == regs[c.y]
           s == c.s
<1>1. /\ y \in Jet /\ PolyOf(y) = Held(c.y)
      /\ c.op \in {"neg", "scale_add", "gem"} \cup WithTwo \cup WithScalar \cup Truncating
           => a \in Jet /\ PolyOf(a) = Held(c.a)
      /\ c.op \in {"scale_add", "gem"} \cup WithTwo \cup Truncating => b \in Jet /\ PolyOf(b) = Held(c.b)
      /\ c.op = "gem" => regs[c.c] \in Jet /\ PolyOf(regs[c.c]) = Held(c.c)
  BY CallIs DEF Held
<1>2. c.op \in {"assign", "variable", "scale_add"} \cup Setting \cup SettingSparse \cup WithScalar
        => s \in Coeff /\ Minus(s) \in Coeff
  <2>1. P - 1 \in Coeff
    BY PIs, FiniteIs
  <2>2. c.op \in {"assign", "variable", "scale_add"} \cup Setting \cup SettingSparse \cup WithScalar
        => s \in Coeff
    BY CallIs, ScalarsAssumption
  <2> QED  BY <2>1, <2>2, PlusTimes DEF Minus
<1>3. P - 1 \in Coeff /\ 1 \in Coeff /\ \A z \in Coeff : Lift(z) \in Jet
  <2>1. P - 1 \in Coeff /\ 1 \in Coeff
    BY PIs, FiniteIs
  <2>2. \A z \in Coeff : Lift(z) \in Jet
    BY <1>1, LinearIn
  <2> QED  BY <2>1, <2>2
<1> HIDE DEF a, b, y, s
<1>4. CASE c.op = "assign"
  BY <1>2, <1>4, <1>3, LinearPoly, ValueIs, ResultsAre DEF s
<1>5. CASE c.op = "variable"
  <2>1. s \in Coeff /\ Lift(s) \in Jet /\ PolyOf(Lift(s)) = Constant(s)
    BY <1>2, <1>3, <1>5, LinearPoly
  <2>2. Value(c) = IF N > 0 THEN Put(Lift(s), Rank(M, N, Unit(c.v)), 1) ELSE Lift(s)
    BY <1>5, ValueIs DEF s
  <2>3. c.v \in 0..(M-1)
    BY <1>5, CallIs
  <2>4. N > 0 => /\ Unit(c.v) \in Alphas /\ Rank(M, N, Unit(c.v)) = PlaceOf(M, Unit(c.v))
                 /\ Rank(M, N, Unit(c.v)) >= 0
    BY <2>3, UnitPlace, ShapeIs DEF Idx
  <2>5. N = 0 => Unit(c.v) \notin Alphas
    BY <2>3, UnitPlace
  <2>6. PolyOf(Value(c)) = Algebra!Assigned(Constant(s), Unit(c.v), 1)
    <3>1. CASE N > 0
      <4>1. Value(c) = PutRanked(Lift(s), Rank(M, N, Unit(c.v)), 1)
        BY <2>2, <2>4, <3>1 DEF PutRanked
      <4>2. PolyOf(PutRanked(Lift(s), Rank(M, N, Unit(c.v)), 1)) = Algebra!Assigned(PolyOf(Lift(s)), Unit(c.v), 1)
        BY <1>3, <2>1, <2>4, <3>1, PutPoly
      <4> QED  BY <2>1, <4>1, <4>2
    <3>2. CASE ~(N > 0)
      <4>1. N = 0
        BY <3>2, ShapeIs
      <4>2. Algebra!Assigned(Constant(s), Unit(c.v), 1) = Constant(s)
        BY <2>5, <4>1, AssignedIs
      <4> QED  BY <2>1, <2>2, <3>2, <4>2
    <3> QED  BY <3>1, <3>2
  <2> QED  BY <1>5, <2>6, ResultsAre DEF s
<1>6. CASE c.op = "set_coeff" \/ c.op = "set_partial"
  <2> DEFINE idx == Rank(M, N, c.alpha)
  <2>1. c.alpha \in DenseInputs /\ s \in Coeff
    BY <1>2, <1>6, CallIs DEF Setting
  <2>2. Fits(c.alpha)
    BY <2>1 DEF InputsFit
  <2>3. IF c.alpha \in Alphas THEN idx = PlaceOf(M, c.alpha) ELSE idx = -1
    BY <2>2, RequestPlace
  <2> HIDE DEF idx
  <2>4. /\ PolyOf(PutRanked(y, idx, s)) = Algebra!Assigned(PolyOf(y), c.alpha, s)
        /\ PolyOf(PutRanked(y, idx, NormalizedPartial(idx, s))) = Algebra!AssignedPartial(PolyOf(y), c.alpha, s)
    BY <1>1, <2>1, <2>3, PutPoly
  <2>5. /\ c.op = "set_coeff" => Value(c) = PutRanked(y, idx, s)
        /\ c.op = "set_partial" => Value(c) = PutRanked(y, idx, NormalizedPartial(idx, s))
    BY ValueIs DEF y, s, idx
  <2>6. /\ c.op = "set_coeff" => Algebra!Results(c) = {Algebra!Assigned(PolyOf(y), c.alpha, s)}
        /\ c.op = "set_partial" => Algebra!Results(c) = {Algebra!AssignedPartial(PolyOf(y), c.alpha, s)}
    BY <1>1, ResultsAre DEF s
  <2> QED  BY <1>6, <2>4, <2>5, <2>6
<1>7. CASE c.op = "set_coeff_sparse" \/ c.op = "set_partial_sparse"
  <2> DEFINE idx == RankSparse(c.list)
             alpha == Algebra!SparseSum(c.list)
  <2>1. c.list \in SparseInputs /\ s \in Coeff
    BY <1>2, <1>7, CallIs DEF SettingSparse
  <2>2. /\ Spoilt(c.list) <=> ~Algebra!ValidSparse(c.list)
        /\ Spoilt(c.list) => idx = -1
        /\ ~Spoilt(c.list) => IF alpha \in Alphas THEN idx = PlaceOf(M, alpha) ELSE idx = -1
    BY <2>1, SparsePlace
  <2>3. /\ c.op = "set_coeff_sparse" => Value(c) = PutRanked(y, idx, s)
        /\ c.op = "set_partial_sparse" => Value(c) = PutRanked(y, idx, NormalizedPartial(idx, s))
    BY ValueIs DEF y, s
  <2>4. /\ c.op = "set_coeff_sparse" =>
             Algebra!Results(c) = {IF Algebra!ValidSparse(c.list)
                                   THEN Algebra!Assigned(PolyOf(y), alpha, s) ELSE PolyOf(y)}
        /\ c.op = "set_partial_sparse" =>
             Algebra!Results(c) = {IF Algebra!ValidSparse(c.list)
                                   THEN Algebra!AssignedPartial(PolyOf(y), alpha, s) ELSE PolyOf(y)}
    BY <1>1, ResultsAre DEF s
  <2> HIDE DEF idx, alpha
  <2>5. CASE Spoilt(c.list)
    <3>1. /\ PutRanked(y, idx, s) = y
          /\ PutRanked(y, idx, NormalizedPartial(idx, s)) = y
      BY <2>2, <2>5 DEF PutRanked
    <3> QED  BY <1>7, <2>2, <2>3, <2>4, <2>5, <3>1
  <2>6. CASE ~Spoilt(c.list)
    <3>1. /\ PolyOf(PutRanked(y, idx, s)) = Algebra!Assigned(PolyOf(y), alpha, s)
          /\ PolyOf(PutRanked(y, idx, NormalizedPartial(idx, s))) = Algebra!AssignedPartial(PolyOf(y), alpha, s)
      BY <1>1, <2>1, <2>2, <2>6, PutPoly
    <3> QED  BY <1>7, <2>2, <2>3, <2>4, <2>6, <3>1
  <2> QED  BY <2>5, <2>6
<1>8. CASE c.op = "neg"
  <2>1. a \in Jet /\ PolyOf(a) = Held(c.a)
    BY <1>1, <1>8
  <2>2. PolyOf(Scaled(a, P - 1)) = Scale(P - 1, PolyOf(a))
    BY <1>3, <2>1, LinearPoly
  <2>3. Value(c) = Scaled(a, P - 1)
    BY <1>8, ValueIs DEF a
  <2> QED  BY <1>8, <2>1, <2>2, <2>3, ResultsAre
<1>9. CASE c.op = "add" \/ c.op = "sub"
  <2>1. a \in Jet /\ PolyOf(a) = Held(c.a) /\ b \in Jet /\ PolyOf(b) = Held(c.b)
    BY <1>1, <1>9 DEF WithTwo
  <2>2. /\ PolyOf(Added(a, b)) = Sum(PolyOf(a), PolyOf(b))
        /\ PolyOf(Subtracted(a, b)) = Sum(PolyOf(a), Scale(P - 1, PolyOf(b)))
    BY <1>3, <2>1, LinearPoly
  <2>3. /\ c.op = "add" => Value(c) = Added(a, b)
        /\ c.op = "sub" => Value(c) = Subtracted(a, b)
    BY ValueIs DEF a, b
  <2> QED  BY <1>9, <2>1, <2>2, <2>3, ResultsAre
<1>10. CASE c.op = "mul" \/ c.op = "fma_into"
  <2>1. a \in Jet /\ PolyOf(a) = Held(c.a) /\ b \in Jet /\ PolyOf(b) = Held(c.b)
    BY <1>1, <1>10 DEF WithTwo
  <2>2. N \in Int
    BY ShapeIs
  <2>3. /\ PolyOf(Mul(a, b)) = Product(PolyOf(a), PolyOf(b))
        /\ PolyOf(MulInto(y, a, b, N)) = Sum(PolyOf(y), Product(PolyOf(a), PolyOf(b)))
    BY <1>1, <2>1, <2>2, ProductPoly
  <2>4. /\ c.op = "mul" => Value(c) = Mul(a, b)
        /\ c.op = "fma_into" => Value(c) = MulInto(y, a, b, N)
    BY ValueIs DEF a, b, y
  <2> QED  BY <1>1, <1>10, <2>1, <2>3, <2>4, ResultsAre
<1>11. CASE c.op \in {"add_scalar", "sub_scalar", "mul_scalar"}
  <2>1. a \in Jet /\ PolyOf(a) = Held(c.a) /\ s \in Coeff /\ Minus(s) \in Coeff
    BY <1>1, <1>2, <1>11 DEF WithScalar
  <2>2. /\ PolyOf(AddedReal(a, s)) = Sum(PolyOf(a), Constant(s))
        /\ PolyOf(AddedReal(a, Minus(s))) = Sum(PolyOf(a), Constant(Minus(s)))
        /\ PolyOf(Scaled(a, s)) = Scale(s, PolyOf(a))
    BY <2>1, LinearPoly
  <2>3. /\ c.op = "add_scalar" => Value(c) = AddedReal(a, s)
        /\ c.op = "sub_scalar" => Value(c) = AddedReal(a, Minus(s))
        /\ c.op = "mul_scalar" => Value(c) = Scaled(a, s)
    BY ValueIs DEF a, s
  <2>4. /\ c.op = "add_scalar" => Algebra!Results(c) = {Sum(Held(c.a), Constant(s))}
        /\ c.op = "sub_scalar" => Algebra!Results(c) = {Sum(Held(c.a), Constant(Minus(s)))}
        /\ c.op = "mul_scalar" => Algebra!Results(c) = {Scale(s, Held(c.a))}
    BY ResultsAre DEF s
  <2> QED  BY <1>11, <2>1, <2>2, <2>3, <2>4
<1>12. CASE c.op = "scalar_sub"
  <2>1. a \in Jet /\ PolyOf(a) = Held(c.a) /\ s \in Coeff /\ Scaled(a, P - 1) \in Jet
    BY <1>1, <1>2, <1>3, <1>12, LinearIn DEF WithScalar
  <2>2. /\ PolyOf(AddedReal(Scaled(a, P - 1), s)) = Sum(Constant(s), PolyOf(Scaled(a, P - 1)))
        /\ PolyOf(Scaled(a, P - 1)) = Scale(P - 1, PolyOf(a))
    BY <1>3, <2>1, LinearPoly
  <2>3. Value(c) = AddedReal(Scaled(a, P - 1), s)
    BY <1>12, ValueIs DEF a, s
  <2>4. Algebra!Results(c) = {Sum(Constant(s), Scale(P - 1, Held(c.a)))}
    BY <1>12, ResultsAre DEF s
  <2> QED  BY <2>1, <2>2, <2>3, <2>4
<1>13. CASE c.op = "axpy"
  <2>1. a \in Jet /\ PolyOf(a) = Held(c.a) /\ s \in Coeff
    BY <1>1, <1>2, <1>13 DEF WithScalar
  <2>2. PolyOf(Axpy(y, s, a)) = Sum(PolyOf(y), Scale(s, PolyOf(a)))
    BY <1>1, <2>1, LinearPoly
  <2>3. Value(c) = Axpy(y, s, a) /\ Algebra!Results(c) = {Sum(Held(c.y), Scale(s, Held(c.a)))}
    BY <1>13, ValueIs, ResultsAre DEF a, s, y
  <2> QED  BY <1>1, <2>1, <2>2, <2>3
<1>14. CASE c.op = "scale_add"
  <2>1. a \in Jet /\ PolyOf(a) = Held(c.a) /\ b \in Jet /\ PolyOf(b) = Held(c.b) /\ s \in Coeff
    BY <1>1, <1>2, <1>14
  <2>2. PolyOf(Axpy(a, s, b)) = Sum(PolyOf(a), Scale(s, PolyOf(b)))
    BY <2>1, LinearPoly
  <2>3. Value(c) = Axpy(a, s, b) /\ Algebra!Results(c) = {Sum(Held(c.a), Scale(s, Held(c.b)))}
    BY <1>14, ValueIs, ResultsAre DEF a, s, b
  <2> QED  BY <2>1, <2>2, <2>3
<1>15. CASE c.op = "trunc_mul" \/ c.op = "trunc_add"
  <2>1. a \in Jet /\ PolyOf(a) = Held(c.a) /\ b \in Jet /\ PolyOf(b) = Held(c.b)
    BY <1>1, <1>15 DEF Truncating
  <2>2. c.max \in Int
    <3>1. c.max \in -1..(N + 1)
      BY <1>15, CallIs DEF Truncating
    <3> QED  BY <3>1
  <2>3. /\ PolyOf(TruncMul(a, b, c.max)) = Truncate(Product(PolyOf(a), PolyOf(b)), c.max)
        /\ PolyOf(TruncAdd(a, b, c.max)) = Truncate(Sum(PolyOf(a), PolyOf(b)), c.max)
    BY <2>1, <2>2, ProductPoly
  <2>4. /\ c.op = "trunc_mul" => Value(c) = TruncMul(a, b, c.max)
        /\ c.op = "trunc_add" => Value(c) = TruncAdd(a, b, c.max)
    BY ValueIs DEF a, b
  <2> QED  BY <1>15, <2>1, <2>3, <2>4, ResultsAre
<1>16. CASE c.op = "gem"
  <2>1. /\ a \in Jet /\ PolyOf(a) = Held(c.a) /\ b \in Jet /\ PolyOf(b) = Held(c.b)
        /\ regs[c.c] \in Jet /\ PolyOf(regs[c.c]) = Held(c.c)
    BY <1>1, <1>16
  <2>2. Mul(a, b) \in Jet /\ PolyOf(Mul(a, b)) = Product(PolyOf(a), PolyOf(b))
    BY <2>1, ShapeIs, ProductsIn, ProductPoly
  <2>3. PolyOf(Added(Mul(a, b), regs[c.c])) = Sum(PolyOf(Mul(a, b)), PolyOf(regs[c.c]))
    BY <1>3, <2>1, <2>2, LinearPoly
  <2>4. Value(c) = Added(Mul(a, b), regs[c.c])
    BY <1>16, ValueIs DEF a, b
  <2> QED  BY <1>16, <2>1, <2>2, <2>3, <2>4, ResultsAre
<1> QED
  <2>1. c.op \in {"assign", "variable", "neg", "inv", "scale_add", "gem"} \cup Setting
                       \cup SettingSparse \cup WithScalar \cup WithTwo \cup Truncating
    BY CallIs
  <2> QED  BY <2>1, <1>4, <1>5, <1>6, <1>7, <1>8, <1>9, <1>10, <1>11, <1>12, <1>13, <1>14, <1>15, <1>16
          DEF Setting, SettingSparse, WithScalar, WithTwo, Truncating, Inverting


(* The coefficients solved in flat order are those of the geometric        *)
(* series: each follows from those of lower indices as the recurrence says.*)
LEMMA InversePoly ==
  ASSUME path \in Paths, NEW v \in Jet, NEW out \in Jet, NEW r \in Finite, FollowsUpTo(v, out, r, NC)
  PROVE  Reciprocal(PolyOf(v), r) = PolyOf(out)
<1> DEFINE f == PolyOf(v)
           o == PolyOf(out)
<1>1. f \in Poly /\ o \in Poly /\ r \in Coeff /\ IsFinite(r)
  BY PolyIn, FiniteIs
<1>2. o[Zero] = r
  <2>1. out[0] = r
    BY DEF FollowsUpTo
  <2>2. 0 \in Idx /\ AlphaAt[0] = Zero
    BY RealPart
  <2> QED  BY <2>1, <2>2, PolyAt
<1>3. ASSUME NEW gamma \in Alphas \ {Zero}
      PROVE  o[gamma] = Over(Minus(Rest(f, o, gamma)), r)
  <2> DEFINE k == PlaceOf(M, gamma)
             S == TermsInto[path][k] \ {<<0, k>>}
             B == Under(gamma) \ {Zero}
  <2>1. k \in Idx /\ AlphaAt[k] = gamma /\ o[gamma] = out[k]
    BY PolyAt
  <2>2. k # 0
    BY <2>1, RealPart
  <2>3. k \in 1..(NC-1)
    <3> HIDE DEF k
    <3> QED  BY <2>1, <2>2, ShapeIs DEF Idx
  <2>4. out[k] = Over(Minus(Total(v, out, S)), r)
    <3>1. \A j \in 1..(NC-1) : out[j] = Over(Minus(Contributed(v, out, j)), r)
      BY DEF FollowsUpTo
    <3> QED  BY <2>3, <3>1 DEF Contributed
  <2>5. Total(v, out, S) = Products!Fold(Convolved(f, o, gamma), B)
    <3>1. S \in {TermsInto[path][k], TermsInto[path][k] \ {<<0, k>>}} /\ S # TermsInto[path][k]
      <4> HIDE DEF k
      <4>1. <<0, k>> \in TermsInto[path][k]
        BY <2>1, TermsRead
      <4> QED  BY <4>1
    <3>2. B = IF S = TermsInto[path][k] THEN Under(AlphaAt[k]) ELSE Under(AlphaAt[k]) \ {Zero}
      BY <2>1, <3>1
    <3> HIDE DEF S, B, k
    <3> QED  BY <2>1, <3>1, <3>2, ConvolutionIs
  <2>6. Rest(f, o, gamma) = Total(v, out, S)
    BY <2>5 DEF Rest
  <2> HIDE DEF S, k, f, o
  <2> QED  BY <2>1, <2>4, <2>6
<1>4. SolvesFor(f, o, r)
  BY <1>2, <1>3 DEF SolvesFor
<1> HIDE DEF f, o
<1>5. Reciprocal(f, r) = o
  BY <1>1, <1>4, ReciprocalIs
<1> QED  BY <1>5 DEF f, o

(* Where there is nothing to solve: at a pole, or with no derivatives.     *)
LEMMA PolePoly ==
  ASSUME NEW v \in Jet, NEW r \in Coeff, N = 0 \/ ~IsFinite(r)
  PROVE  PolyOf([x \in Idx |-> r]) = Reciprocal(PolyOf(v), r)
<1> DEFINE jet == [x \in Idx |-> r]
           f == PolyOf(v)
           o == PolyOf(jet)
<1>1. f \in Poly /\ jet \in Jet /\ o \in Poly
  <2>1. jet \in Jet
    BY DEF Jet
  <2> HIDE DEF jet
  <2> QED  BY <2>1, PolyIn
<1>2. CASE ~IsFinite(r)
  <2> DEFINE p == Reciprocal(f, r)
  <2>1. p = [gamma \in Alphas |-> p[gamma]] /\ \A gamma \in Alphas : p[gamma] = NonFin
    <3> HIDE DEF f
    <3> QED  BY <1>1, <1>2, ReciprocalIs
  <2>2. \A x \in Idx : jet[x] = p[AlphaAt[x]]
    <3>1. r = NonFin
      BY <1>2 DEF IsFinite
    <3>2. \A x \in Idx : AlphaAt[x] \in Alphas
      BY IndexAt
    <3> HIDE DEF p
    <3> QED  BY <2>1, <3>1, <3>2
  <2> HIDE DEF p, jet
  <2>3. PolyOf(jet) = p
    BY <2>1, <2>2, PolyIs
  <2> QED  BY <2>3 DEF p, jet
<1>3. CASE N = 0 /\ IsFinite(r)
  <2>1. \A gamma \in Alphas : gamma = Zero
    <3>1. \A gamma \in Alphas : Summed(gamma, M) \in 0..N
      BY PolyAt, IndexAt
    <3> QED  BY <1>3, <3>1, ZeroIs
  <2>2. o[Zero] = r
    <3>1. 0 \in Idx /\ AlphaAt[0] = Zero /\ jet[0] = r
      BY RealPart
    <3> HIDE DEF jet
    <3> QED  BY <3>1, PolyAt
  <2>3. SolvesFor(f, o, r)
    BY <2>1, <2>2 DEF SolvesFor
  <2> HIDE DEF f, o
  <2>4. Reciprocal(f, r) = o
    BY <1>1, <1>3, <2>3, ReciprocalIs
  <2> QED  BY <2>4 DEF f, o
<1> QED  BY <1>2, <1>3

(* What a call with an inverse makes of it.                                *)
LEMMA InverseResult ==
  ASSUME regs \in [Regs -> Jet], path \in Paths, NEW c \in Calls, c.op \in Inverting,
         NEW r \in Recips(Inverted(c)[0]), NEW out \in Jet,
         PolyOf(out) = Reciprocal(PolyOf(Inverted(c)), r)
  PROVE  PolyOf(FromInverse(c, out)) \in Algebra!Results(c)
<1> DEFINE b == IF c.op = "div" THEN c.b ELSE c.a
<1>1. b \in Regs /\ c.a \in Regs
  BY CallIs DEF Inverting, WithTwo, WithScalar
<1>2. Inverted(c) = regs[b] /\ regs[b] \in Jet /\ PolyOf(regs[b]) = Held(b) /\ Held(b)[Zero] = regs[b][0]
  <2>1. Inverted(c) = regs[b] /\ regs[b] \in Jet /\ PolyOf(regs[b]) = Held(b)
    BY <1>1 DEF Inverted, Held
  <2>2. 0 \in Idx /\ AlphaAt[0] = Zero
    BY RealPart
  <2> HIDE DEF b
  <2>3. Held(b)[Zero] = regs[b][0]
    BY <2>1, <2>2, PolyAt
  <2> QED  BY <2>1, <2>3
<1>3. r \in Recips(Held(b)[Zero]) /\ PolyOf(out) = Reciprocal(Held(b), r)
  <2> HIDE DEF b
  <2> QED  BY <1>2
<1>4. regs[c.a] \in Jet /\ PolyOf(regs[c.a]) = Held(c.a)
  BY <1>1 DEF Held
<1>5. N \in Int
  BY ShapeIs
<1>6. CASE c.op = "inv"
  <2>1. b = c.a /\ FromInverse(c, out) = out
    BY <1>6 DEF FromInverse
  <2>2. Algebra!Results(c) = {Reciprocal(Held(c.a), q) : q \in Recips(Held(c.a)[Zero])}
    BY <1>6, ResultsAre
  <2> HIDE DEF b
  <2> QED  BY <1>3, <2>1, <2>2
<1>7. CASE c.op = "div"
  <2>1. b = c.b /\ FromInverse(c, out) = Mul(regs[c.a], out)
    BY <1>7 DEF FromInverse
  <2>2. Algebra!Results(c) = {Product(Held(c.a), Reciprocal(Held(c.b), q)) : q \in Recips(Held(c.b)[Zero])}
    BY <1>7, ResultsAre
  <2> HIDE DEF b
  <2>3. PolyOf(Mul(regs[c.a], out)) = Product(Held(c.a), PolyOf(out))
    BY <1>4, <1>5, ProductPoly
  <2> QED  BY <1>3, <2>1, <2>2, <2>3
<1>8. CASE c.op = "scalar_div"
  <2>1. b = c.a /\ FromInverse(c, out) = Mul(Lift(c.s), out)
    BY <1>8 DEF FromInverse
  <2>2. Algebra!Results(c) =
          {Product(Constant(c.s), Reciprocal(Held(c.a), q)) : q \in Recips(Held(c.a)[Zero])}
    BY <1>8, ResultsAre
  <2> HIDE DEF b
  <2>3. c.s \in Coeff
    BY <1>8, CallIs, ScalarsAssumption DEF WithScalar
  <2>4. Lift(c.s) \in Jet /\ PolyOf(Lift(c.s)) = Constant(c.s)
    BY <2>3, LinearIn, LinearPoly
  <2>5. PolyOf(Mul(Lift(c.s), out)) = Product(Constant(c.s), PolyOf(out))
    BY <1>5, <2>4, ProductPoly
  <2> QED  BY <1>3, <2>1, <2>2, <2>5
<1> QED  BY <1>6, <1>7, <1>8 DEF Inverting

(* Storing a result the algebra allows is a step of the algebra.           *)
LEMMA Performed ==
  ASSUME TypeOK, NEW c \in Calls, NEW jet \in Jet, Store(c, jet), PolyOf(jet) \in Algebra!Results(c)
  PROVE  Algebra!Next
<1>1. Algebra!Calls = Calls
  BY DEF Algebra!Calls, Calls
<1>2. regs' = [regs EXCEPT ![c.y] = jet] /\ last' = c /\ regs \in [Regs -> Jet] /\ c.y \in Regs
  BY CallIs DEF Store, TypeOK
<1>3. [y \in Regs |-> PolyOf(regs'[y])] = [[y \in Regs |-> PolyOf(regs[y])] EXCEPT ![c.y] = PolyOf(jet)]
  BY <1>2
<1>4. Algebra!Perform(c)
  BY <1>2, <1>3 DEF Algebra!Perform
<1> QED  BY <1>1, <1>4 DEF Algebra!Next


LEMMA CallRefines ==
  ASSUME InputsFit, IInv, NEW c \in Calls, Call(c)
  PROVE  Algebra!Next
<1>1. TypeOK /\ regs \in [Regs -> Jet] /\ path \in Paths
  BY DEF IInv, TypeOK
<1>2. Value(c) \in Jet /\ PolyOf(Value(c)) \in Algebra!Results(c) /\ Store(c, Value(c))
  BY <1>1, ValueIn, ValuePoly DEF Call
<1> QED  BY <1>1, <1>2, Performed

LEMMA CallDivScalarRefines ==
  ASSUME IInv, NEW c \in Calls, CallDivScalar(c)
  PROVE  Algebra!Next
<1>1. TypeOK /\ regs \in [Regs -> Jet] /\ path \in Paths
  BY DEF IInv, TypeOK
<1>2. c.s \in Coeff /\ c.a \in Regs /\ c.op = "div_scalar"
  BY CallIs, ScalarsAssumption DEF CallDivScalar, WithScalar
<1>3. PICK recip \in Recips(c.s) : Store(c, ScalarQuotient(regs[c.a], recip))
  BY DEF CallDivScalar
<1>4. recip \in Coeff /\ regs[c.a] \in Jet
  BY <1>1, <1>2, RecipIs
<1>5. ScalarQuotient(regs[c.a], recip) \in Jet
  BY <1>4, LinearIn
<1>6. PolyOf(ScalarQuotient(regs[c.a], recip)) = Scale(recip, Held(c.a))
  BY <1>4, LinearPoly DEF Held
<1>7. PolyOf(ScalarQuotient(regs[c.a], recip)) \in Algebra!Results(c)
  <2>1. Algebra!Results(c) = {Scale(r, Held(c.a)) : r \in Recips(c.s)}
    BY <1>2, ResultsAre
  <2> QED  BY <1>6, <2>1
<1> QED  BY <1>1, <1>3, <1>5, <1>7, Performed

(* At a pole the call ends at once; otherwise it only starts.              *)
LEMMA CallInverseRefines ==
  ASSUME IInv, NEW c \in Calls, CallInverse(c)
  PROVE  Algebra!Next \/ UNCHANGED <<regs, last>>
<1>1. TypeOK /\ regs \in [Regs -> Jet] /\ path \in Paths
  BY DEF IInv, TypeOK
<1> DEFINE v == Inverted(c)
<1>2. c.op \in Inverting /\ v \in Jet /\ \A out \in Jet : FromInverse(c, out) \in Jet
  BY <1>1, FromInverseIn DEF CallInverse
<1>3. v[0] \in Coeff
  BY <1>2, RealPart DEF Jet
<1>4. PICK recip \in Recips(v[0]) :
        \/ (N = 0 \/ ~IsFinite(recip)) /\ Store(c, FromInverse(c, [x \in Idx |-> recip]))
        \/ UNCHANGED <<regs, last>>
  BY DEF CallInverse
<1> DEFINE out == [x \in Idx |-> recip]
<1>5. recip \in Coeff /\ out \in Jet
  <2>1. recip \in Coeff
    <3> HIDE DEF v
    <3> QED  BY <1>3, RecipIs
  <2> QED  BY <2>1 DEF Jet
<1>6. CASE (N = 0 \/ ~IsFinite(recip)) /\ Store(c, FromInverse(c, out))
  <2>1. PolyOf(out) = Reciprocal(PolyOf(v), recip)
    <3> HIDE DEF v
    <3> QED  BY <1>2, <1>5, <1>6, PolePoly
  <2> HIDE DEF out
  <2>2. PolyOf(FromInverse(c, out)) \in Algebra!Results(c)
    BY <1>1, <1>2, <1>5, <2>1, InverseResult
  <2>3. FromInverse(c, out) \in Jet
    BY <1>2, <1>5
  <2> QED  BY <1>1, <1>6, <2>2, <2>3, Performed
<1> QED  BY <1>4, <1>6

(* The step that solves the last coefficient ends the call.                *)
LEMMA SolveRefines ==
  ASSUME IInv, SolveNext
  PROVE  Algebra!Next \/ UNCHANGED <<regs, last>>
<1>1. job # NoJob
  BY DEF SolveNext
<1> DEFINE c == job.call
<1>2. /\ TypeOK /\ path \in Paths /\ regs \in [Regs -> Jet]
      /\ job.k \in Idx \ {0} /\ job.recip \in Finite /\ job.value \in Jet
      /\ c.op \in Inverting /\ c \in Calls
      /\ job.value = Inverted(c) /\ job.recip \in Recips(job.value[0])
  BY <1>1 DEF IInv, TypeOK, JobOK, Jobs
<1>3. SolvedOut \in Jet /\ FollowsUpTo(job.value, SolvedOut, job.recip, job.k + 1)
  BY <1>1, SolvedOutIs
<1>4. CASE ~(job.k + 1 < NC)
  <2>1. job.k + 1 = NC
    <3> DEFINE k == job.k
    <3> HIDE DEF k
    <3>1. k \in Idx /\ ~(k + 1 < NC)
      BY <1>2, <1>4 DEF k
    <3>2. k + 1 = NC
      BY <3>1, ShapeIs DEF Idx
    <3> QED  BY <3>2 DEF k
  <2>2. FollowsUpTo(job.value, SolvedOut, job.recip, NC)
    BY <1>3, <2>1
  <2>3. Reciprocal(PolyOf(job.value), job.recip) = PolyOf(SolvedOut)
    BY <1>2, <1>3, <2>2, InversePoly
  <2>4. PolyOf(FromInverse(c, SolvedOut)) \in Algebra!Results(c)
    <3>1. job.recip \in Recips(Inverted(c)[0]) /\ PolyOf(SolvedOut) = Reciprocal(PolyOf(Inverted(c)), job.recip)
      BY <1>2, <2>3
    <3> HIDE DEF c
    <3> QED  BY <1>2, <1>3, <3>1, InverseResult
  <2>5. FromInverse(c, SolvedOut) \in Jet
    <3> HIDE DEF c
    <3> QED  BY <1>2, <1>3, FromInverseIn
  <2>6. Store(c, FromInverse(c, SolvedOut))
    BY <1>4 DEF SolveNext, SolvedOut
  <2> HIDE DEF c
  <2> QED  BY <1>2, <2>4, <2>5, <2>6, Performed
<1>5. CASE job.k + 1 < NC
  BY <1>5 DEF SolveNext
<1> QED  BY <1>4, <1>5

LEMMA StepRefines ==
  ASSUME InputsFit, IInv, [Next]_vars
  PROVE  [Algebra!Next]_(Algebra!vars)
<1>1. UNCHANGED <<regs, last>> => UNCHANGED Algebra!vars
  BY DEF Algebra!vars
<1>2. ASSUME NEW c \in Calls, Call(c) PROVE Algebra!Next
  BY <1>2, CallRefines
<1>3. ASSUME NEW c \in Calls, CallDivScalar(c) PROVE Algebra!Next
  BY <1>3, CallDivScalarRefines
<1>4. ASSUME NEW c \in Calls, CallInverse(c) PROVE Algebra!Next \/ UNCHANGED <<regs, last>>
  BY <1>4, CallInverseRefines
<1>5. ASSUME SolveNext PROVE Algebra!Next \/ UNCHANGED <<regs, last>>
  BY <1>5, SolveRefines
<1>6. ASSUME UNCHANGED vars PROVE UNCHANGED <<regs, last>>
  BY <1>6 DEF vars
<1> QED  BY <1>1, <1>2, <1>3, <1>4, <1>5, <1>6 DEF Next, Finished

LEMMA StartRefines == Init => Algebra!Init
<1> SUFFICES ASSUME Init PROVE Algebra!Init
  OBVIOUS
<1>1. regs \in [Regs -> Jet] /\ last = NoCall
  BY SeedsAssumption DEF Init
<1>2. \A y \in Regs : PolyOf(regs[y]) \in Poly
  BY <1>1, PolyIn
<1>3. Algebra!Poly = Poly /\ Algebra!NoCall = NoCall
  BY AlgebraIndices, AlgebraArithmetic DEF Algebra!Poly, Poly, Algebra!NoCall, NoCall
<1>4. [y \in Regs |-> PolyOf(regs[y])] \in [Regs -> Poly]
  BY <1>2
<1> QED  BY <1>1, <1>3, <1>4 DEF Algebra!Init

(* On every arithmetic path, every call of core.hpp leaves in its result   *)
(* object what the truncated algebra says of the operands' earlier values, *)
(* also when the result object is one of the operands, and nothing in the  *)
(* others; the coefficient loop of inv_solve ends with the geometric series*)
(* of the inverse.                                                         *)
THEOREM ImplementsAlgebraHolds ==
  ASSUME InputsFit
  PROVE  Spec => ImplementsAlgebra
<1>1. Init => IInv
  BY Starts
<1>2. IInv /\ [Next]_vars => IInv'
  BY Keeps
<1>3. Init => Algebra!Init
  BY StartRefines
<1>4. IInv /\ [Next]_vars => [Algebra!Next]_(Algebra!vars)
  BY StepRefines
<1> QED  BY <1>1, <1>2, <1>3, <1>4, PTL DEF Spec, ImplementsAlgebra, Algebra!Spec

=============================================================================
