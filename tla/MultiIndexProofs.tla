---------------------------- MODULE MultiIndexProofs ----------------------------
(***************************************************************************)
(* What binom, merge_sparse and sparse_rank return, for every number of    *)
(* variables and every order: the binomials satisfy Pascal's rule, the     *)
(* merge of two sparse indices is one, with the exponents of both added,   *)
(* and the rank of a sparse index lies in the band of its order and tells  *)
(* it from every other.  Then the dense rank: it counts along the graded   *)
(* order, agrees with the sparse one, and takes every place.               *)
(***************************************************************************)
EXTENDS MultiIndex, FiniteSetTheorems, TLAPS

Sums == INSTANCE FoldFacts WITH Values <- Int, Base <- 0, op <- +

-----------------------------------------------------------------------------
(* Binomials.  The product binom accumulates, as a function of the number  *)
(* of factors, and Ways(a, b): a + b choose a, the monotone paths of an   *)
(* a by b grid.                                                            *)
Rises(g, a, k) == g = [i \in 0..k |-> IF i = 0 THEN 1 ELSE (g[i-1] * (a + i)) \div i]
Rising(a, k) == CHOOSE g : Rises(g, a, k)
Ways(a, b) == IF b < 0 THEN 0 ELSE Rising(a, b)[b]

LEMMA Quotient ==
  \A x \in Nat, d \in Nat \ {0} : /\ x \div d \in Nat
                                  /\ \A q \in Nat : x = q * d => x \div d = q
<1>1. \A x \in Nat, d \in Nat \ {0} : x \div d \in Nat
  OBVIOUS
<1>2. ASSUME NEW x \in Nat, NEW d \in Nat \ {0}, NEW q \in Nat, x = q * d
      PROVE  x \div d = q
  <2> DEFINE p == x \div d
             r == x % d
  <2>1. p \in Nat /\ r \in 0..(d-1)
    BY <1>1
  <2>2. x = d * p + r
    OBVIOUS
  <2> HIDE DEF p, r
  <2>3. q * d = d * p + r
    BY <1>2, <2>2
  <2>4. d * (q - p) = r
    BY <2>1, <2>3
  <2>5. q - p \in Int
    BY <2>1
  <2>6. CASE q - p >= 1
    <3>1. d * (q - p) >= d * 1
      BY <2>5, <2>6
    <3> QED  BY <2>1, <2>4, <3>1
  <2>7. CASE q - p <= -1
    <3>1. d * (q - p) <= d * (-1)
      BY <2>5, <2>7
    <3> QED  BY <2>1, <2>4, <3>1
  <2>8. CASE q = p
    BY <2>8 DEF p
  <2> QED  BY <2>1, <2>5, <2>6, <2>7, <2>8
<1> QED  BY <1>1, <1>2

LEMMA RisingExists ==
  ASSUME NEW a \in Nat, NEW k \in Nat
  PROVE  Rises(Rising(a, k), a, k) /\ Rising(a, k) \in [0..k -> Nat]
<1> DEFINE step == [x \in (1..k) \X Nat |-> (x[2] * (a + x[1])) \div x[1]]
<1>1. step \in [(1..k) \X Nat -> Nat]
  <2>1. ASSUME NEW x \in (1..k) \X Nat PROVE (x[2] * (a + x[1])) \div x[1] \in Nat
    <3>1. x[1] \in Nat \ {0} /\ x[2] \in Nat /\ a + x[1] \in Nat
      OBVIOUS
    <3>2. x[2] * (a + x[1]) \in Nat
      BY <3>1
    <3> QED  BY <3>1, <3>2, Quotient
  <2> QED  BY <2>1
<1>2. PICK g \in [0..k -> Nat] : Sums!Recursive(g, k, 1, step)
  <2> HIDE DEF step
  <2> QED  BY <1>1, Sums!RecursionExists
<1>3. Rises(g, a, k)
  <2>1. g = [i \in 0..k |-> IF i = 0 THEN 1 ELSE step[<<i, g[i-1]>>]]
    BY <1>2 DEF Sums!Recursive
  <2>2. \A i \in 0..k : i # 0 => step[<<i, g[i-1]>>] = (g[i-1] * (a + i)) \div i
    <3> TAKE i \in 0..k
    <3>1. i # 0 => <<i, g[i-1]>> \in (1..k) \X Nat
      OBVIOUS
    <3> QED  BY <3>1
  <2> HIDE DEF step
  <2> QED  BY <2>1, <2>2 DEF Rises
<1> DEFINE h == Rising(a, k)
<1>4. Rises(h, a, k)
  BY <1>3 DEF Rising
<1> HIDE DEF h
<1> DEFINE T == {i \in Nat : i <= k => h[i] \in Nat}
<1>5. 0 \in T
  BY <1>4 DEF Rises
<1>6. ASSUME NEW i \in Nat, i \in T PROVE i + 1 \in T
  <2> SUFFICES ASSUME i + 1 <= k PROVE h[i+1] \in Nat
    OBVIOUS
  <2>1. h[i] \in Nat
    BY <1>6
  <2>2. h[i+1] = (h[i] * (a + (i + 1))) \div (i + 1)
    <3>1. i + 1 \in 0..k /\ i + 1 # 0 /\ (i + 1) - 1 = i
      OBVIOUS
    <3> QED  BY <1>4, <3>1 DEF Rises
  <2>3. h[i] * (a + (i + 1)) \in Nat
    BY <2>1
  <2> QED  BY <2>2, <2>3, Quotient
<1> HIDE DEF T
<1>7. Nat \subseteq T
  BY <1>5, <1>6, Sums!NatInductionOn
<1>8. \A i \in 0..k : h[i] \in Nat
  BY <1>7 DEF T
<1>9. h \in [0..k -> Nat]
  BY <1>4, <1>8 DEF Rises
<1> QED  BY <1>4, <1>9 DEF h

(* The product does not depend on how many factors are still to come.      *)
LEMMA RisingSame ==
  ASSUME NEW a \in Nat, NEW k \in Nat, NEW l \in Nat
  PROVE  \A i \in Nat : i <= k /\ i <= l => Rising(a, k)[i] = Rising(a, l)[i]
<1> DEFINE g == Rising(a, k)
           h == Rising(a, l)
<1>1. Rises(g, a, k) /\ Rises(h, a, l)
  BY RisingExists
<1> HIDE DEF g, h
<1> DEFINE T == {i \in Nat : i <= k /\ i <= l => g[i] = h[i]}
<1>2. 0 \in T
  BY <1>1 DEF Rises
<1>3. ASSUME NEW i \in Nat, i \in T PROVE i + 1 \in T
  <2> SUFFICES ASSUME i + 1 <= k, i + 1 <= l PROVE g[i+1] = h[i+1]
    OBVIOUS
  <2>1. i + 1 \in 0..k /\ i + 1 \in 0..l /\ i + 1 # 0 /\ (i + 1) - 1 = i /\ g[i] = h[i]
    BY <1>3
  <2>2. g[i+1] = (g[i] * (a + (i + 1))) \div (i + 1)
    BY <1>1, <2>1 DEF Rises
  <2>3. h[i+1] = (h[i] * (a + (i + 1))) \div (i + 1)
    BY <1>1, <2>1 DEF Rises
  <2> QED  BY <2>1, <2>2, <2>3
<1> HIDE DEF T
<1>4. Nat \subseteq T
  BY <1>2, <1>3, Sums!NatInductionOn
<1> QED  BY <1>4 DEF T, g, h

LEMMA PathsStep ==
  ASSUME NEW a \in Nat
  PROVE  /\ Ways(a, 0) = 1
         /\ \A b \in Nat : Ways(a, b) \in Nat
         /\ \A b \in Nat \ {0} : Ways(a, b) = (Ways(a, b - 1) * (a + b)) \div b
<1>1. Ways(a, 0) = 1
  BY RisingExists DEF Ways, Rises
<1>2. \A b \in Nat : Ways(a, b) \in Nat
  BY RisingExists DEF Ways
<1>3. ASSUME NEW b \in Nat \ {0} PROVE Ways(a, b) = (Ways(a, b - 1) * (a + b)) \div b
  <2>1. Rises(Rising(a, b), a, b)
    BY RisingExists
  <2>2. Rising(a, b)[b] = (Rising(a, b)[b-1] * (a + b)) \div b
    BY <2>1 DEF Rises
  <2>3. Rising(a, b)[b-1] = Rising(a, b-1)[b-1]
    <3>1. b - 1 \in Nat /\ b - 1 <= b /\ b - 1 <= b - 1
      OBVIOUS
    <3> QED  BY <3>1, RisingSame
  <2>4. ~(b < 0) /\ ~(b - 1 < 0)
    OBVIOUS
  <2> QED  BY <2>2, <2>3, <2>4 DEF Ways
<1> QED  BY <1>1, <1>2, <1>3

LEMMA PathsNat == \A a \in Nat, b \in Int : Ways(a, b) \in Nat
<1> TAKE a \in Nat, b \in Int
<1>1. CASE b < 0
  BY <1>1 DEF Ways
<1>2. CASE ~(b < 0)
  <2>1. b \in Nat
    BY <1>2
  <2> QED  BY <2>1, PathsStep
<1> QED  BY <1>1, <1>2

(* The two rules of the product: every factor divides exactly, and Pascal's*)
(* rule.  Induction on a, and for each a on b.                             *)
Exact(a, b)  == b * Ways(a, b) = (a + b) * Ways(a, b - 1)
Across(a, b) == (a + 1) * Ways(a + 1, b) = (a + 1 + b) * Ways(a, b)
Pascal(a, b) == Ways(a + 1, b) = Ways(a + 1, b - 1) + Ways(a, b)

LEMMA PathsFirstRow ==
  /\ \A b \in Nat : Ways(0, b) = 1
  /\ \A b \in Nat \ {0} : Exact(0, b)
<1> DEFINE T == {b \in Nat : Ways(0, b) = 1}
<1>1. 0 \in T
  BY PathsStep
<1>2. ASSUME NEW b \in Nat, b \in T PROVE b + 1 \in T
  <2>1. Ways(0, b + 1) = (Ways(0, (b + 1) - 1) * (0 + (b + 1))) \div (b + 1)
    BY PathsStep
  <2>2. (b + 1) - 1 = b /\ Ways(0, b) = 1
    BY <1>2
  <2>3. (1 * (0 + (b + 1))) \div (b + 1) = 1
    <3>1. 1 * (0 + (b + 1)) = 1 * (b + 1) /\ 1 * (0 + (b + 1)) \in Nat
      OBVIOUS
    <3> QED  BY <3>1, Quotient
  <2> QED  BY <2>1, <2>2, <2>3
<1> HIDE DEF T
<1>3. Nat \subseteq T
  BY <1>1, <1>2, Sums!NatInductionOn
<1>4. \A b \in Nat : Ways(0, b) = 1
  BY <1>3 DEF T
<1>5. ASSUME NEW b \in Nat \ {0} PROVE Exact(0, b)
  <2>1. Ways(0, b) = 1 /\ Ways(0, b - 1) = 1
    BY <1>4
  <2> QED  BY <2>1 DEF Exact
<1> QED  BY <1>4, <1>5

LEMMA PathsNextRow ==
  ASSUME NEW a \in Nat, \A b \in Nat \ {0} : Exact(a, b)
  PROVE  /\ \A b \in Nat : Across(a, b)
         /\ \A b \in Nat \ {0} : Pascal(a, b) /\ Exact(a + 1, b)
<1> DEFINE T == {b \in Nat : Across(a, b) /\ (b # 0 => Pascal(a, b) /\ Exact(a + 1, b))}
<1>1. 0 \in T
  <2>1. Ways(a, 0) = 1 /\ Ways(a + 1, 0) = 1
    BY PathsStep
  <2> QED  BY <2>1 DEF Across
<1>2. ASSUME NEW b \in Nat, b \in T PROVE b + 1 \in T
  <2> DEFINE c == b + 1
             v == Ways(a + 1, b)
             x == Ways(a, b)
             y == Ways(a, c)
  <2>1. v \in Nat /\ x \in Nat /\ y \in Nat
    <3>1. a + 1 \in Nat /\ c \in Nat
      OBVIOUS
    <3> QED  BY <3>1, PathsStep
  <2>2. Ways(a + 1, c) = (v * ((a + 1) + c)) \div c
    <3>1. a + 1 \in Nat /\ c \in Nat \ {0} /\ c - 1 = b
      OBVIOUS
    <3> QED  BY <3>1, PathsStep
  <2>3. c * y = (a + c) * x
    <3>1. c \in Nat \ {0} /\ c - 1 = b
      OBVIOUS
    <3> QED  BY <3>1 DEF Exact
  <2>4. (a + 1) * v = (a + c) * x
    <3>1. (a + 1) * v = (a + 1 + b) * x
      BY <1>2 DEF Across
    <3>2. a + 1 + b = a + c
      OBVIOUS
    <3> QED  BY <3>1, <3>2
  <2>5. c \in Nat \ {0} /\ c - 1 = b
    OBVIOUS
  <2> HIDE DEF v, x, y, c
  <2>6. (v + y) * c = v * ((a + 1) + c)
    <3>1. (v + y) * c = v * c + c * y
      BY <2>1, <2>5
    <3>2. v * ((a + 1) + c) = (a + 1) * v + v * c
      BY <2>1, <2>5
    <3> QED  BY <2>1, <2>3, <2>4, <2>5, <3>1, <3>2
  <2>7. Ways(a + 1, c) = v + y
    <3>1. v * ((a + 1) + c) \in Nat /\ v + y \in Nat
      BY <2>1, <2>5
    <3> QED  BY <2>2, <2>5, <2>6, <3>1, Quotient
  <2>8. c * Ways(a + 1, c) = ((a + 1) + c) * v
    <3>1. c * (v + y) = (v + y) * c /\ v * ((a + 1) + c) = ((a + 1) + c) * v
      BY <2>1, <2>5
    <3> QED  BY <2>6, <2>7, <3>1
  <2>9. (a + 1) * Ways(a + 1, c) = (a + 1 + c) * y
    <3>1. (a + 1) * (v + y) = (a + 1) * v + (a + 1) * y
      BY <2>1
    <3>2. (a + 1 + c) * y = (a + 1) * y + c * y
      BY <2>1, <2>5
    <3>3. (a + 1) * v = c * y
      BY <2>3, <2>4
    <3> QED  BY <2>1, <2>5, <2>7, <3>1, <3>2, <3>3
  <2>10. Pascal(a, c)
    BY <2>5, <2>7 DEF Pascal, v, y
  <2>11. Exact(a + 1, c)
    BY <2>5, <2>8 DEF Exact, v
  <2>12. Across(a, c)
    BY <2>9 DEF Across, y
  <2>13. c \in T
    BY <2>5, <2>10, <2>11, <2>12
  <2> QED  BY <2>13 DEF c
<1> HIDE DEF T
<1>3. Nat \subseteq T
  BY <1>1, <1>2, Sums!NatInductionOn
<1> QED  BY <1>3 DEF T

LEMMA PathsPascal ==
  ASSUME NEW a \in Nat, NEW b \in Nat \ {0}
  PROVE  Ways(a + 1, b) = Ways(a + 1, b - 1) + Ways(a, b)
<1> DEFINE T == {x \in Nat : \A y \in Nat \ {0} : Exact(x, y)}
<1>1. 0 \in T
  BY PathsFirstRow
<1>2. \A x \in Nat : x \in T => x + 1 \in T
  BY PathsNextRow
<1> HIDE DEF T
<1>3. Nat \subseteq T
  BY <1>1, <1>2, Sums!NatInductionOn
<1>4. \A y \in Nat \ {0} : Exact(a, y)
  BY <1>3 DEF T
<1>5. Pascal(a, b)
  BY <1>4, PathsNextRow
<1> QED  BY <1>5 DEF Pascal

LEMMA PathsSymmetric ==
  ASSUME NEW a \in Nat, NEW b \in Nat
  PROVE  Ways(a, b) = Ways(b, a)
<1> DEFINE T == {s \in Nat : \A x, y \in Nat : x + y = s => Ways(x, y) = Ways(y, x)}
<1>1. 0 \in T
  <2>1. \A x, y \in Nat : x + y = 0 => x = y
    OBVIOUS
  <2> QED  BY <2>1
<1>2. ASSUME NEW s \in Nat, s \in T PROVE s + 1 \in T
  <2> SUFFICES ASSUME NEW x \in Nat, NEW y \in Nat, x + y = s + 1
               PROVE  Ways(x, y) = Ways(y, x)
    OBVIOUS
  <2>1. CASE x = 0 \/ y = 0
    BY <2>1, PathsStep, PathsFirstRow
  <2>2. CASE x # 0 /\ y # 0
    <3> DEFINE u == x - 1
               w == y - 1
    <3>1. u \in Nat /\ w \in Nat /\ x = u + 1 /\ y = w + 1 /\ x + w = s /\ u + y = s
      BY <2>2
    <3> HIDE DEF u, w
    <3>2. Ways(x, w) = Ways(w, x) /\ Ways(u, y) = Ways(y, u)
      BY <1>2, <3>1
    <3>3. Ways(x, y) = Ways(x, w) + Ways(u, y)
      <4>1. y \in Nat \ {0} /\ y - 1 = w
        BY <3>1
      <4> QED  BY <3>1, <4>1, PathsPascal
    <3>4. Ways(y, x) = Ways(y, u) + Ways(w, x)
      <4>1. x \in Nat \ {0} /\ x - 1 = u
        BY <3>1
      <4> QED  BY <3>1, <4>1, PathsPascal
    <3>5. Ways(x, w) \in Nat /\ Ways(u, y) \in Nat
      BY <3>1, PathsStep
    <3> QED  BY <3>2, <3>3, <3>4, <3>5
  <2> QED  BY <2>1, <2>2
<1> HIDE DEF T
<1>3. Nat \subseteq T
  BY <1>1, <1>2, Sums!NatInductionOn
<1>4. a + b \in T
  BY <1>3
<1> QED  BY <1>4 DEF T

(* binom(n, k) is n choose k, and zero outside the triangle.               *)
LEMMA BinomIs ==
  ASSUME NEW n \in Int, NEW k \in Int
  PROVE  Binom(n, k) = IF 0 <= k /\ k <= n THEN Ways(n - k, k) ELSE 0
<1>1. CASE ~(0 <= k /\ k <= n)
  BY <1>1 DEF Binom
<1>2. CASE 0 <= k /\ k <= n
  <2> DEFINE kk == Min({k, n - k})
  <2>1. kk \in Nat /\ (kk = k \/ kk = n - k)
    <3>1. \E x \in {k, n - k} : \A y \in {k, n - k} : x <= y
      OBVIOUS
    <3>2. kk \in {k, n - k}
      BY <3>1 DEF Min
    <3> QED  BY <1>2, <3>2
  <2>2. Binom(n, k) = Rising(n - kk, kk)[kk]
    BY <1>2 DEF Binom, Rising, Rises
  <2> HIDE DEF kk
  <2>3. Binom(n, k) = Ways(n - kk, kk)
    BY <2>1, <2>2 DEF Ways
  <2>4. Ways(n - k, k) = Ways(k, n - k)
    BY <1>2, PathsSymmetric
  <2>5. n - (n - k) = k
    OBVIOUS
  <2> QED  BY <1>2, <2>1, <2>3, <2>4, <2>5
<1> QED  BY <1>1, <1>2

LEMMA PathsMonotone ==
  ASSUME NEW a \in Nat, NEW b \in Nat, NEW c \in Nat, b <= c
  PROVE  Ways(a, b) <= Ways(a, c)
<1> DEFINE T == {k \in Nat : Ways(a, b) <= Ways(a, b + k)}
<1>1. 0 \in T
  BY PathsStep
<1>2. ASSUME NEW k \in Nat, k \in T PROVE k + 1 \in T
  <2>1. Ways(a, b + k) <= Ways(a, b + (k + 1))
    <3>1. CASE a = 0
      BY <3>1, PathsFirstRow
    <3>2. CASE a # 0
      <4>1. /\ a - 1 \in Nat /\ b + (k + 1) \in Nat \ {0} /\ b + (k + 1) \in Nat
            /\ (a - 1) + 1 = a /\ (b + (k + 1)) - 1 = b + k
        BY <3>2
      <4>2. Ways(a, b + (k + 1)) = Ways(a, b + k) + Ways(a - 1, b + (k + 1))
        BY <4>1, PathsPascal
      <4>3. Ways(a, b + k) \in Nat /\ Ways(a - 1, b + (k + 1)) \in Nat
        BY <4>1, PathsStep
      <4> QED  BY <4>2, <4>3
    <3> QED  BY <3>1, <3>2
  <2>2. /\ Ways(a, b) \in Nat /\ Ways(a, b + k) \in Nat /\ Ways(a, b + (k + 1)) \in Nat
        /\ b + k \in Nat /\ b + (k + 1) \in Nat
    <3>1. b + k \in Nat /\ b + (k + 1) \in Nat
      OBVIOUS
    <3> QED  BY <3>1, PathsStep
  <2>3. Ways(a, b) <= Ways(a, b + k)
    BY <1>2
  <2> QED  BY <2>1, <2>2, <2>3
<1> HIDE DEF T
<1>3. Nat \subseteq T
  BY <1>1, <1>2, Sums!NatInductionOn
<1>4. c - b \in T /\ b + (c - b) = c
  BY <1>3
<1> QED  BY <1>4 DEF T

LEMMA PathsMonotoneAcross ==
  ASSUME NEW a \in Nat, NEW c \in Nat, NEW b \in Nat, a <= c
  PROVE  Ways(a, b) <= Ways(c, b)
<1>1. Ways(a, b) = Ways(b, a) /\ Ways(c, b) = Ways(b, c)
  BY PathsSymmetric
<1> QED  BY <1>1, PathsMonotone

-----------------------------------------------------------------------------
(* Counting, ranks and the bands of the layout in these terms.             *)

(* How many indices of order r there are on q variables, as a difference.  *)
LEMMA CompositionsAre ==
  ASSUME NEW q \in Nat, NEW r \in Nat
  PROVE  /\ CompositionCount(q, r) = Ways(q, r) - Ways(q, r - 1)
         /\ q > 0 => CompositionCount(q, r) = Ways(q - 1, r)
         /\ CompositionCount(q, r) \in Nat
<1>1. CASE q = 0
  <2>1. CompositionCount(q, r) = IF r = 0 THEN 1 ELSE 0
    BY <1>1 DEF CompositionCount
  <2>2. Ways(0, r) = 1 /\ Ways(0, r - 1) = IF r = 0 THEN 0 ELSE 1
    <3>1. r # 0 => r - 1 \in Nat
      OBVIOUS
    <3>2. r = 0 => Ways(0, r - 1) = 0
      BY DEF Ways
    <3> QED  BY <3>1, <3>2, PathsFirstRow
  <2> QED  BY <1>1, <2>1, <2>2
<1>2. CASE q # 0
  <2>1. CompositionCount(q, r) = Binom(q + r - 1, r)
    BY <1>2 DEF CompositionCount
  <2>2. Binom(q + r - 1, r) = Ways(q - 1, r)
    <3>1. q + r - 1 \in Int /\ 0 <= r /\ r <= q + r - 1 /\ (q + r - 1) - r = q - 1
      BY <1>2
    <3> QED  BY <3>1, BinomIs
  <2>3. Ways(q - 1, r) = Ways(q, r) - Ways(q, r - 1)
    <3>1. q - 1 \in Nat /\ (q - 1) + 1 = q
      BY <1>2
    <3>2. CASE r = 0
      <4>1. Ways(q - 1, 0) = 1 /\ Ways(q, 0) = 1
        BY <3>1, PathsStep
      <4>2. Ways(q, r - 1) = 0
        BY <3>2 DEF Ways
      <4> QED  BY <3>2, <4>1, <4>2
    <3>3. CASE r # 0
      <4>1. Ways(q, r) = Ways(q, r - 1) + Ways(q - 1, r)
        BY <3>1, <3>3, PathsPascal
      <4>2. Ways(q, r - 1) \in Nat /\ Ways(q - 1, r) \in Nat
        <5>1. r - 1 \in Nat
          BY <3>3
        <5> QED  BY <3>1, <5>1, PathsStep
      <4> QED  BY <4>1, <4>2
    <3> QED  BY <3>2, <3>3
  <2>4. Ways(q - 1, r) \in Nat
    <3>1. q - 1 \in Nat
      BY <1>2
    <3> QED  BY <3>1, PathsStep
  <2> QED  BY <1>2, <2>1, <2>2, <2>3, <2>4
<1> QED  BY <1>1, <1>2

LEMMA OneComposition ==
  /\ \A q \in Nat : CompositionCount(q, 0) = 1
  /\ \A r \in Nat \ {0} : CompositionCount(0, r) = 0
<1>1. ASSUME NEW q \in Nat PROVE CompositionCount(q, 0) = 1
  <2>1. Ways(q, 0) = 1 /\ Ways(q, 0 - 1) = 0
    BY PathsStep DEF Ways
  <2> QED  BY <2>1, CompositionsAre
<1>2. ASSUME NEW r \in Nat \ {0} PROVE CompositionCount(0, r) = 0
  BY DEF CompositionCount
<1> QED  BY <1>1, <1>2

LEMMA NCoeffsIs ==
  ASSUME NEW m \in Nat, NEW n \in Nat
  PROVE  NCoeffs(m, n) = Ways(m, n) /\ NCoeffs(m, n) \in Nat
<1>1. m + n \in Int /\ 0 <= n /\ n <= m + n /\ (m + n) - n = m
  OBVIOUS
<1> QED  BY <1>1, BinomIs, PathsStep DEF NCoeffs

LEMMA FiniteForSums == \A S : IsFiniteSet(S) => Sums!IsFiniteSet(S)
BY DEF IsFiniteSet, Sums!IsFiniteSet

LEMMA SumIs == \A f : SumFunction(f) = Sums!Fold(f, DOMAIN f)
BY DEF SumFunction, SumFunctionOnSet, FoldFunctionOnSet, MapThenFoldSet, Sums!Fold,
       Sums!FoldFunctionOnSet, Sums!MapThenFoldSet

LEMMA SumsLaws == Sums!Closed /\ Sums!Commutes /\ Sums!Neutral
BY DEF Sums!Closed, Sums!Commutes, Sums!Neutral

(* A sum over lo .. hi, one term longer.                                   *)
LEMMA SumNext ==
  ASSUME NEW lo \in Int, NEW hi \in Int, lo <= hi + 1, NEW f, \A t \in lo..(hi+1) : f[t] \in Int
  PROVE  /\ Sums!Fold(f, lo..(hi + 1)) = f[hi+1] + Sums!Fold(f, lo..hi)
         /\ Sums!Fold(f, lo..hi) \in Int
<1>1. /\ lo..(hi + 1) = (lo..hi) \cup {hi + 1} /\ hi + 1 \notin lo..hi
      /\ IsFiniteSet(lo..hi)
  BY FS_Interval
<1>2. Sums!ValuesOn(f, (lo..hi) \cup {hi + 1}) /\ Sums!ValuesOn(f, lo..hi)
  BY <1>1 DEF Sums!ValuesOn
<1>3. Sums!Fold(f, (lo..hi) \cup {hi + 1}) = f[hi+1] + Sums!Fold(f, lo..hi)
  BY <1>1, <1>2, FiniteForSums, SumsLaws, Sums!FoldAdd
<1>4. Sums!Fold(f, lo..hi) \in Int
  BY <1>1, <1>2, FiniteForSums, SumsLaws, Sums!FoldType
<1> QED  BY <1>1, <1>3, <1>4

LEMMA SumNothing ==
  ASSUME NEW lo \in Int, NEW hi \in Int, hi < lo, NEW f
  PROVE  Sums!Fold(f, lo..hi) = 0
<1>1. lo..hi = {}
  OBVIOUS
<1> QED  BY <1>1, SumsLaws, Sums!FoldEmpty

(* The orders below d fill a prefix of the layout that is as long as all   *)
(* the indices of order below d.                                           *)
LEMMA LowerOrdersAre ==
  ASSUME NEW m \in Nat \ {0}, NEW d \in Nat
  PROVE  /\ LowerOrders(m, d) = Ways(m, d - 1)
         /\ LowerOrders(m, d) \in Nat
         /\ LowerOrders(m, d + 1) = LowerOrders(m, d) + CompositionCount(m, d)
<1> DEFINE T == {k \in Nat : LowerOrders(m, k) = Ways(m, k - 1)}
           band(k) == [o \in 0..(k - 1) |-> CompositionCount(m, o)]
<1>1. ASSUME NEW k \in Nat PROVE \A o \in 0..(k-1) : band(k)[o] \in Int
  BY CompositionsAre
<1>2. ASSUME NEW k \in Nat
      PROVE  LowerOrders(m, k + 1) = LowerOrders(m, k) + CompositionCount(m, k)
  <2> DEFINE f == band(k + 1)
             g == band(k)
  <2>1. 0 \in Int /\ k - 1 \in Int /\ 0 <= (k - 1) + 1 /\ (k - 1) + 1 = k /\ (k + 1) - 1 = k
    OBVIOUS
  <2>2. \A t \in 0..((k-1)+1) : f[t] \in Int
    BY <1>1, <2>1
  <2>3. f[k] = CompositionCount(m, k) /\ \A t \in 0..(k-1) : f[t] = g[t] /\ g[t] \in Int
    BY <1>1
  <2>4. LowerOrders(m, k + 1) = Sums!Fold(f, 0..k) /\ LowerOrders(m, k) = Sums!Fold(g, 0..(k-1))
    <3>1. DOMAIN f = 0..k /\ DOMAIN g = 0..(k-1)
      OBVIOUS
    <3> QED  BY <3>1, SumIs DEF LowerOrders
  <2> HIDE DEF f, g
  <2>5. Sums!Fold(f, 0..((k-1)+1)) = f[(k-1)+1] + Sums!Fold(f, 0..(k-1)) /\ Sums!Fold(f, 0..(k-1)) \in Int
    BY <2>1, <2>2, SumNext
  <2>6. Sums!Fold(f, 0..(k-1)) = Sums!Fold(g, 0..(k-1))
    <3>1. IsFiniteSet(0..(k-1))
      BY <2>1, FS_Interval
    <3>2. Sums!ValuesOn(f, 0..(k-1))
      BY <2>3 DEF Sums!ValuesOn
    <3> QED  BY <2>3, <3>1, <3>2, FiniteForSums, SumsLaws, Sums!FoldSame
  <2>7. CompositionCount(m, k) \in Nat
    BY CompositionsAre
  <2> QED  BY <2>1, <2>3, <2>4, <2>5, <2>6, <2>7
<1>3. 0 \in T
  <2>1. LowerOrders(m, 0) = 0
    <3>1. DOMAIN band(0) = 0..(0-1) /\ 0 - 1 < 0
      OBVIOUS
    <3>2. LowerOrders(m, 0) = Sums!Fold(band(0), 0..(0-1))
      BY <3>1, SumIs DEF LowerOrders
    <3> QED  BY <3>1, <3>2, SumNothing
  <2>2. Ways(m, 0 - 1) = 0
    BY DEF Ways
  <2> QED  BY <2>1, <2>2
<1>4. ASSUME NEW k \in Nat PROVE Ways(m, k - 1) \in Nat
  <2>1. k - 1 \in Int
    OBVIOUS
  <2> QED  BY <2>1, PathsNat
<1>5. ASSUME NEW k \in Nat, k \in T PROVE k + 1 \in T
  <2>1. CompositionCount(m, k) = Ways(m, k) - Ways(m, k - 1)
    BY CompositionsAre
  <2>2. LowerOrders(m, k) = Ways(m, k - 1)
    BY <1>5
  <2>3. Ways(m, k) \in Nat /\ Ways(m, k - 1) \in Nat /\ (k + 1) - 1 = k
    BY <1>4, PathsStep
  <2>4. LowerOrders(m, k + 1) = LowerOrders(m, k) + CompositionCount(m, k)
    BY <1>2
  <2> QED  BY <2>1, <2>2, <2>3, <2>4
<1>6. LowerOrders(m, d + 1) = LowerOrders(m, d) + CompositionCount(m, d)
  BY <1>2
<1> HIDE DEF T
<1>7. Nat \subseteq T
  BY <1>3, <1>5, Sums!NatInductionOn
<1>8. LowerOrders(m, d) = Ways(m, d - 1)
  BY <1>7 DEF T
<1> QED  BY <1>4, <1>6, <1>8

LEMMA LowerOrdersMonotone ==
  ASSUME NEW m \in Nat \ {0}, NEW d \in Nat, NEW e \in Nat, d <= e
  PROVE  LowerOrders(m, d) <= LowerOrders(m, e)
<1>1. CASE d = 0
  <2>1. LowerOrders(m, 0) = 0
    BY LowerOrdersAre DEF Ways
  <2> QED  BY <1>1, <2>1, LowerOrdersAre
<1>2. CASE d # 0
  <2>1. d - 1 \in Nat /\ e - 1 \in Nat /\ d - 1 <= e - 1
    BY <1>2
  <2>2. Ways(m, d - 1) <= Ways(m, e - 1)
    BY <2>1, PathsMonotone
  <2> QED  BY <2>2, LowerOrdersAre
<1> QED  BY <1>1, <1>2

-----------------------------------------------------------------------------
(* Sparse indices: entries of increasing position, exponents not zero.     *)
Entries(m) == [pos : 0..(m-1), exp : Nat \ {0}]
SparseIndices(m) ==
  {s \in Seq(Entries(m)) : \A t \in DOMAIN s, u \in DOMAIN s : t < u => s[t].pos < s[u].pos}

(* The order of the first k entries, and what the rank passes over at them *)
(* when R is the order to be spent.                                        *)
Exps(s) == [t \in DOMAIN s |-> s[t].exp]
Spent(s, k) == Sums!Fold(Exps(s), 1..k)
Steps(m, s, R) ==
  [t \in DOMAIN s |-> SkipRun(m, s, t, R - Spent(s, t-1)) + Higher(m, s, t, R - Spent(s, t))]
Passed(m, s, R, k) == Sums!Fold(Steps(m, s, R), 1..k)

LEMMA EntryIs ==
  ASSUME NEW m, NEW s \in Seq(Entries(m))
  PROVE  /\ DOMAIN s = 1..Len(s) /\ Len(s) \in Nat
         /\ \A t \in 1..Len(s) : s[t].pos \in 0..(m-1) /\ s[t].exp \in Nat \ {0}
<1>1. \A t \in 1..Len(s) : s[t] \in Entries(m)
  OBVIOUS
<1>2. \A e \in Entries(m) : e.pos \in 0..(m-1) /\ e.exp \in Nat \ {0}
  BY DEF Entries
<1> QED  BY <1>1, <1>2

LEMMA SpentStep ==
  ASSUME NEW m, NEW s \in Seq(Entries(m))
  PROVE  /\ Spent(s, 0) = 0
         /\ \A k \in 0..Len(s) : Spent(s, k) \in Nat
         /\ \A k \in 1..Len(s) : Spent(s, k) = Spent(s, k-1) + s[k].exp
         /\ SparseOrder(s) = Spent(s, Len(s))
<1>1. \A t \in 1..Len(s) : Exps(s)[t] = s[t].exp /\ s[t].exp \in Nat \ {0}
  BY EntryIs DEF Exps
<1>2. Spent(s, 0) = 0
  BY SumNothing DEF Spent
<1>3. ASSUME NEW k \in 1..Len(s)
      PROVE  Spent(s, k) = Spent(s, k-1) + s[k].exp /\ Spent(s, k-1) \in Int
  <2>1. 1 \in Int /\ k - 1 \in Int /\ 1 <= (k - 1) + 1 /\ (k - 1) + 1 = k
    OBVIOUS
  <2>2. \A t \in 1..((k-1)+1) : Exps(s)[t] \in Int
    BY <1>1, <2>1
  <2>3. Sums!Fold(Exps(s), 1..((k-1)+1)) = Exps(s)[(k-1)+1] + Sums!Fold(Exps(s), 1..(k-1))
        /\ Sums!Fold(Exps(s), 1..(k-1)) \in Int
    BY <2>1, <2>2, SumNext
  <2> QED  BY <1>1, <2>1, <2>3 DEF Spent
<1> DEFINE T == {k \in Nat : k <= Len(s) => Spent(s, k) \in Nat}
<1>4. 0 \in T
  BY <1>2
<1>5. ASSUME NEW k \in Nat, k \in T PROVE k + 1 \in T
  <2> SUFFICES ASSUME k + 1 <= Len(s) PROVE Spent(s, k + 1) \in Nat
    OBVIOUS
  <2>1. k + 1 \in 1..Len(s) /\ (k + 1) - 1 = k /\ Spent(s, k) \in Nat
    BY <1>5
  <2>2. Spent(s, k + 1) = Spent(s, k) + s[k+1].exp /\ s[k+1].exp \in Nat \ {0}
    BY <1>1, <1>3, <2>1
  <2> QED  BY <2>1, <2>2
<1> HIDE DEF T
<1>6. Nat \subseteq T
  BY <1>4, <1>5, Sums!NatInductionOn
<1>7. \A k \in 0..Len(s) : Spent(s, k) \in Nat
  BY <1>6 DEF T
<1>8. SparseOrder(s) = Spent(s, Len(s))
  <2>1. SparseOrder(s) = Sums!Fold(Exps(s), DOMAIN Exps(s))
    BY SumIs DEF SparseOrder, Exps
  <2>2. DOMAIN Exps(s) = 1..Len(s)
    BY DEF Exps
  <2> QED  BY <2>1, <2>2 DEF Spent
<1> QED  BY <1>2, <1>3, <1>7, <1>8

LEMMA SpentGrows ==
  ASSUME NEW m, NEW s \in Seq(Entries(m)), NEW k \in 0..Len(s), NEW l \in 0..Len(s), k <= l
  PROVE  Spent(s, k) <= Spent(s, l) /\ (k < l => Spent(s, k) < Spent(s, l))
<1> DEFINE Below(d) == Spent(s, k) <= Spent(s, k + d) /\ (d > 0 => Spent(s, k) < Spent(s, k + d))
           T == {d \in Nat : k + d <= Len(s) => Below(d)}
<1>1. 0 \in T
  BY SpentStep
<1>2. ASSUME NEW d \in Nat, d \in T PROVE d + 1 \in T
  <2> SUFFICES ASSUME k + (d + 1) <= Len(s) PROVE Below(d + 1)
    OBVIOUS
  <2> DEFINE e == k + (d + 1)
  <2>1. e \in 1..Len(s) /\ e - 1 = k + d /\ k + d \in 0..Len(s)
    BY EntryIs
  <2>2. Below(d)
    BY <1>2, <2>1
  <2> HIDE DEF e
  <2>3. Spent(s, e) = Spent(s, k + d) + s[e].exp
    BY <2>1, SpentStep
  <2>4. Spent(s, k) \in Nat /\ Spent(s, k + d) \in Nat
    BY <2>1, SpentStep
  <2>5. s[e].exp \in Nat \ {0}
    BY <2>1, EntryIs
  <2>6. Spent(s, k) < Spent(s, e)
    BY <2>2, <2>3, <2>4, <2>5
  <2> QED  BY <2>3, <2>4, <2>5, <2>6 DEF e
<1> HIDE DEF T
<1>3. Nat \subseteq T
  BY <1>1, <1>2, Sums!NatInductionOn
<1>4. l - k \in T /\ k + (l - k) = l
  BY <1>3, EntryIs
<1>5. Below(l - k)
  BY <1>4, EntryIs DEF T
<1> QED  BY <1>4, <1>5, EntryIs

(* The closed forms of a run of zeros and of the exponents above one.      *)
LEMMA StepIs ==
  ASSUME NEW m \in Nat \ {0}, NEW s \in SparseIndices(m), NEW t \in DOMAIN s
  PROVE  /\ s[t].pos \in 0..(m-1) /\ s[t].exp \in Nat \ {0}
         /\ Prev(s, t) \in 0..s[t].pos
         /\ \A r \in Nat \ {0} :
              SkipRun(m, s, t, r) = Ways(m - Prev(s, t) - 1, r) - Ways(m - s[t].pos - 1, r)
         /\ \A r \in Nat : Higher(m, s, t, r) = Ways(m - s[t].pos - 1, r - 1)
<1>0. s \in Seq(Entries(m)) /\ t \in 1..Len(s)
  BY EntryIs DEF SparseIndices
<1>1. s[t].pos \in 0..(m-1) /\ s[t].exp \in Nat \ {0}
  BY <1>0, EntryIs
<1>2. Prev(s, t) \in 0..s[t].pos
  <2>1. CASE t = 1
    BY <1>1, <2>1 DEF Prev
  <2>2. CASE t # 1
    <3>1. t - 1 \in DOMAIN s /\ t - 1 < t
      BY <1>0, <2>2, EntryIs
    <3>2. s[t-1].pos < s[t].pos
      BY <3>1 DEF SparseIndices
    <3>3. s[t-1].pos \in 0..(m-1)
      BY <1>0, <3>1, EntryIs
    <3> QED  BY <1>1, <2>2, <3>2, <3>3 DEF Prev
  <2> QED  BY <2>1, <2>2
<1>3. ASSUME NEW r \in Nat \ {0}
      PROVE  SkipRun(m, s, t, r) = Ways(m - Prev(s, t) - 1, r) - Ways(m - s[t].pos - 1, r)
  <2>1. ASSUME NEW q \in 0..(m-1) PROVE Binom(m - q - 1 + r, r) = Ways(m - q - 1, r)
    <3>1. m - q - 1 + r \in Int /\ 0 <= r /\ r <= m - q - 1 + r /\ (m - q - 1 + r) - r = m - q - 1
      OBVIOUS
    <3> QED  BY <3>1, BinomIs
  <2>2. Prev(s, t) \in 0..(m-1)
    BY <1>1, <1>2
  <2>3. Ways(m - s[t].pos - 1, r) \in Nat
    <3>1. m - s[t].pos - 1 \in Nat
      BY <1>1
    <3> QED  BY <3>1, PathsStep
  <2>4. ~(s[t].pos > Prev(s, t)) => Prev(s, t) = s[t].pos
    BY <1>1, <1>2
  <2> QED  BY <1>1, <2>1, <2>2, <2>3, <2>4 DEF SkipRun
<1>4. ASSUME NEW r \in Nat PROVE Higher(m, s, t, r) = Ways(m - s[t].pos - 1, r - 1)
  <2> DEFINE q == m - s[t].pos - 1
  <2>1. q \in Nat
    BY <1>1
  <2>2. Higher(m, s, t, r) = Binom(q + (r - 1), r - 1)
    BY DEF Higher
  <2> HIDE DEF q
  <2>3. CASE r = 0
    <3>1. Binom(q + (r - 1), r - 1) = 0
      BY <2>1, <2>3, BinomIs
    <3> QED  BY <2>2, <2>3, <3>1 DEF Ways, q
  <2>4. CASE r # 0
    <3>1. q + (r - 1) \in Int /\ 0 <= r - 1 /\ r - 1 <= q + (r - 1) /\ (q + (r - 1)) - (r - 1) = q
      BY <2>1, <2>4
    <3>2. Binom(q + (r - 1), r - 1) = Ways(q, r - 1)
      BY <3>1, BinomIs
    <3> QED  BY <2>2, <3>2 DEF q
  <2> QED  BY <2>3, <2>4
<1> QED  BY <1>1, <1>2, <1>3, <1>4

(* sparse_rank: the bands below, and what the entries pass over.           *)
LEMMA RemainingIs ==
  ASSUME NEW m, NEW s \in Seq(Entries(m))
  PROVE  \A t \in 0..Len(s) : Remaining(s)[t] = SparseOrder(s) - Spent(s, t)
<1> DEFINE d == SparseOrder(s)
           Walks(r) == r = [t \in 0..Len(s) |-> IF t = 0 THEN SparseOrder(s) ELSE r[t-1] - s[t].exp]
           w == [t \in 0..Len(s) |-> d - Spent(s, t)]
           r == CHOOSE r : Walks(r)
<1>1. Walks(w)
  <2>1. ASSUME NEW t \in 0..Len(s)
        PROVE  d - Spent(s, t) = IF t = 0 THEN d ELSE w[t-1] - s[t].exp
    <3>1. CASE t = 0
      <4>1. Spent(s, 0) = 0 /\ d \in Nat
        BY SpentStep, EntryIs
      <4> QED  BY <3>1, <4>1
    <3>2. CASE t # 0
      <4>1. t \in 1..Len(s) /\ t - 1 \in 0..Len(s)
        BY <3>2, EntryIs
      <4>2. Spent(s, t) = Spent(s, t-1) + s[t].exp
        BY <4>1, SpentStep
      <4>3. Spent(s, t-1) \in Nat /\ s[t].exp \in Nat /\ d \in Nat
        BY <4>1, SpentStep, EntryIs
      <4>4. w[t-1] = d - Spent(s, t-1)
        BY <4>1
      <4> QED  BY <3>2, <4>2, <4>3, <4>4
    <3> QED  BY <3>1, <3>2
  <2> QED  BY <2>1
<1>2. Walks(r)
  <2> HIDE DEF w
  <2> QED  BY <1>1
<1>3. r = Remaining(s)
  BY DEF Remaining
<1> HIDE DEF r
<1> DEFINE T == {t \in Nat : t <= Len(s) => r[t] = d - Spent(s, t)}
<1>4. 0 \in T
  <2>1. r[0] = d
    BY <1>2, EntryIs
  <2> QED  BY <2>1, SpentStep, EntryIs
<1>5. ASSUME NEW t \in Nat, t \in T PROVE t + 1 \in T
  <2> SUFFICES ASSUME t + 1 <= Len(s) PROVE r[t+1] = d - Spent(s, t + 1)
    OBVIOUS
  <2>1. t + 1 \in 1..Len(s) /\ t + 1 \in 0..Len(s) /\ t + 1 # 0 /\ (t + 1) - 1 = t /\ t \in 0..Len(s)
    BY EntryIs
  <2>2. r[t+1] = r[t] - s[t+1].exp
    BY <1>2, <2>1
  <2>3. r[t] = d - Spent(s, t)
    BY <1>5, <2>1, EntryIs
  <2>4. Spent(s, t + 1) = Spent(s, t) + s[t+1].exp
    BY <2>1, SpentStep
  <2>5. Spent(s, t) \in Nat /\ s[t+1].exp \in Nat /\ d \in Nat
    BY <2>1, SpentStep, EntryIs
  <2> QED  BY <2>2, <2>3, <2>4, <2>5
<1> HIDE DEF T
<1>6. Nat \subseteq T
  BY <1>4, <1>5, Sums!NatInductionOn
<1>7. \A t \in 0..Len(s) : r[t] = d - Spent(s, t)
  BY <1>6, EntryIs DEF T
<1> QED  BY <1>3, <1>7

LEMMA SparseRankIs ==
  ASSUME NEW m \in Nat \ {0}, NEW s \in SparseIndices(m)
  PROVE  SparseRank(m, s) = LowerOrders(m, SparseOrder(s)) + Passed(m, s, SparseOrder(s), Len(s))
<1> DEFINE d == SparseOrder(s)
           r == Remaining(s)
           passed == [t \in {u \in DOMAIN s : r[u-1] > 0} |->
                        SkipRun(m, s, t, r[t-1]) + Higher(m, s, t, r[t])]
<1>1. s \in Seq(Entries(m)) /\ DOMAIN s = 1..Len(s) /\ Len(s) \in Nat
  BY EntryIs DEF SparseIndices
<1>2. ASSUME NEW t \in DOMAIN s
      PROVE  r[t] = d - Spent(s, t) /\ r[t-1] = d - Spent(s, t-1) /\ r[t-1] > 0
  <2>1. t \in 0..Len(s) /\ t - 1 \in 0..Len(s) /\ Len(s) \in 0..Len(s) /\ t - 1 < Len(s) /\ t - 1 <= Len(s)
    BY <1>1
  <2>2. Spent(s, t-1) < Spent(s, Len(s))
    BY <1>1, <2>1, SpentGrows
  <2>3. d = Spent(s, Len(s)) /\ d \in Nat /\ Spent(s, t-1) \in Nat
    BY <1>1, <2>1, SpentStep
  <2>4. r[t] = d - Spent(s, t) /\ r[t-1] = d - Spent(s, t-1)
    BY <1>1, <2>1, RemainingIs
  <2> QED  BY <2>2, <2>3, <2>4
<1>3. passed = Steps(m, s, d)
  <2>1. {u \in DOMAIN s : r[u-1] > 0} = DOMAIN s
    BY <1>2
  <2> QED  BY <1>2, <2>1 DEF Steps
<1>4. SparseRank(m, s) = LowerOrders(m, d) + SumFunction(passed)
  BY DEF SparseRank
<1>5. SumFunction(Steps(m, s, d)) = Sums!Fold(Steps(m, s, d), 1..Len(s))
  <2>1. DOMAIN Steps(m, s, d) = 1..Len(s)
    BY <1>1 DEF Steps
  <2> QED  BY <2>1, SumIs
<1> QED  BY <1>3, <1>4, <1>5 DEF Passed

(* An entry passes over the indices of its suffix that come before, and    *)
(* leaves no more than are left: how many indices of order R start with    *)
(* the first k entries is what Completions counts.                         *)
Completions(m, s, R, k) == CompositionCount(m - Prev(s, k + 1), R - Spent(s, k))

LEMMA PassedStep ==
  ASSUME NEW m \in Nat \ {0}, NEW s \in SparseIndices(m), NEW R \in Nat, Spent(s, Len(s)) <= R
  PROVE  /\ Passed(m, s, R, 0) = 0
         /\ \A k \in 0..Len(s) : Passed(m, s, R, k) \in Int
         /\ \A k \in 1..Len(s) :
              LET before == R - Spent(s, k-1)
                  after  == R - Spent(s, k)
                  q      == m - s[k].pos - 1
              IN  /\ before \in Nat \ {0} /\ after \in Nat /\ after < before /\ q \in Nat
                  /\ Passed(m, s, R, k) = Passed(m, s, R, k-1)
                       + (Ways(m - Prev(s, k) - 1, before) - Ways(q, before)) + Ways(q, after - 1)
                  /\ Ways(m - Prev(s, k) - 1, before) \in Nat
<1>1. s \in Seq(Entries(m)) /\ DOMAIN s = 1..Len(s) /\ Len(s) \in Nat
  BY EntryIs DEF SparseIndices
<1>2. Passed(m, s, R, 0) = 0
  BY SumNothing DEF Passed
<1>3. ASSUME NEW k \in 1..Len(s)
      PROVE  LET before == R - Spent(s, k-1)
                 after  == R - Spent(s, k)
                 q      == m - s[k].pos - 1
             IN  /\ before \in Nat \ {0} /\ after \in Nat /\ after < before /\ q \in Nat
                 /\ Steps(m, s, R)[k] =
                      (Ways(m - Prev(s, k) - 1, before) - Ways(q, before)) + Ways(q, after - 1)
                 /\ Steps(m, s, R)[k] \in Int
                 /\ Ways(m - Prev(s, k) - 1, before) \in Nat
  <2> DEFINE before == R - Spent(s, k-1)
             after  == R - Spent(s, k)
             q      == m - s[k].pos - 1
             p      == m - Prev(s, k) - 1
  <2>1. k \in 0..Len(s) /\ k - 1 \in 0..Len(s) /\ k - 1 < k /\ k - 1 <= k /\ k <= Len(s) /\ Len(s) \in 0..Len(s)
    BY <1>1
  <2>2. Spent(s, k-1) < Spent(s, k) /\ Spent(s, k) <= Spent(s, Len(s))
    BY <1>1, <2>1, SpentGrows
  <2>3. Spent(s, k-1) \in Nat /\ Spent(s, k) \in Nat /\ Spent(s, Len(s)) \in Nat
    BY <1>1, <2>1, SpentStep
  <2>4. before \in Nat \ {0} /\ after \in Nat /\ after < before
    BY <2>2, <2>3
  <2>5. s[k].pos \in 0..(m-1) /\ Prev(s, k) \in 0..s[k].pos
    BY <1>1, StepIs
  <2>6. q \in Nat /\ p \in Nat
    BY <2>5, SMTT(30)
  <2>7. Steps(m, s, R)[k] = SkipRun(m, s, k, before) + Higher(m, s, k, after)
    BY <1>1 DEF Steps
  <2> HIDE DEF before, after
  <2>8. SkipRun(m, s, k, before) = Ways(p, before) - Ways(q, before)
    BY <1>1, <2>4, StepIs
  <2>9. Higher(m, s, k, after) = Ways(q, after - 1)
    BY <1>1, <2>4, StepIs
  <2> HIDE DEF p, q
  <2>10. Ways(p, before) \in Nat /\ Ways(q, before) \in Nat /\ Ways(q, after - 1) \in Nat
    <3>1. before \in Int /\ after - 1 \in Int
      BY <2>4
    <3> QED  BY <2>6, <3>1, PathsNat
  <2>11. /\ Steps(m, s, R)[k] = (Ways(p, before) - Ways(q, before)) + Ways(q, after - 1)
         /\ Steps(m, s, R)[k] \in Int
    BY <2>7, <2>8, <2>9, <2>10
  <2> QED  BY <2>4, <2>6, <2>10, <2>11 DEF before, after, p, q
<1>4. ASSUME NEW k \in 1..Len(s)
      PROVE  /\ Passed(m, s, R, k) = Steps(m, s, R)[k] + Passed(m, s, R, k-1)
             /\ Passed(m, s, R, k-1) \in Int /\ Passed(m, s, R, k) \in Int
             /\ Steps(m, s, R)[k] \in Int
  <2>1. 1 \in Int /\ k - 1 \in Int /\ 1 <= (k - 1) + 1 /\ (k - 1) + 1 = k
    OBVIOUS
  <2>2. \A t \in 1..((k-1)+1) : Steps(m, s, R)[t] \in Int
    BY <1>1, <1>3, <2>1, SMTT(30)
  <2>3. /\ Sums!Fold(Steps(m, s, R), 1..((k-1)+1)) =
             Steps(m, s, R)[(k-1)+1] + Sums!Fold(Steps(m, s, R), 1..(k-1))
        /\ Sums!Fold(Steps(m, s, R), 1..(k-1)) \in Int
    BY <2>1, <2>2, SumNext
  <2>4. Steps(m, s, R)[k] \in Int
    BY <2>1, <2>2
  <2> QED  BY <2>1, <2>3, <2>4 DEF Passed
<1>5. \A k \in 0..Len(s) : Passed(m, s, R, k) \in Int
  <2> TAKE k \in 0..Len(s)
  <2>1. CASE k = 0
    BY <1>2, <2>1
  <2>2. CASE k # 0
    BY <1>1, <1>4, <2>2
  <2> QED  BY <2>1, <2>2
<1>6. ASSUME NEW k \in 1..Len(s)
      PROVE  LET before == R - Spent(s, k-1)
                 after  == R - Spent(s, k)
                 q      == m - s[k].pos - 1
             IN  Passed(m, s, R, k) = Passed(m, s, R, k-1)
                       + (Ways(m - Prev(s, k) - 1, before) - Ways(q, before)) + Ways(q, after - 1)
  <2> DEFINE x == Ways(m - Prev(s, k) - 1, R - Spent(s, k-1)) - Ways(m - s[k].pos - 1, R - Spent(s, k-1))
             y == Ways(m - s[k].pos - 1, (R - Spent(s, k)) - 1)
  <2>1. Steps(m, s, R)[k] = x + y
    BY <1>3
  <2>2. x \in Int /\ y \in Int
    <3> DEFINE before == R - Spent(s, k-1)
               after == R - Spent(s, k)
               q == m - s[k].pos - 1
    <3>1. before \in Nat \ {0} /\ after \in Nat /\ q \in Nat /\ Ways(m - Prev(s, k) - 1, before) \in Nat
      BY <1>3
    <3>2. Ways(q, before) \in Nat /\ Ways(q, after - 1) \in Nat
      <4> HIDE DEF q, before, after
      <4>1. before \in Int /\ after - 1 \in Int
        BY <3>1
      <4> QED  BY <3>1, <4>1, PathsNat
    <3> QED  BY <3>1, <3>2
  <2> HIDE DEF x, y
  <2>3. Passed(m, s, R, k) = Passed(m, s, R, k-1) + x + y
    BY <1>4, <2>1, <2>2
  <2> QED  BY <2>3 DEF x, y
<1> QED  BY <1>2, <1>3, <1>5, <1>6

(* The indices that share k entries are a run of the band, and those that  *)
(* share one entry more are a run inside it.                               *)
LEMMA PassedNested ==
  ASSUME NEW m \in Nat \ {0}, NEW s \in SparseIndices(m), NEW R \in Nat, Spent(s, Len(s)) <= R,
         NEW k \in 1..Len(s)
  PROVE  /\ Completions(m, s, R, k-1) = Ways(m - Prev(s, k) - 1, R - Spent(s, k-1))
         /\ Completions(m, s, R, k) = Ways(m - s[k].pos - 1, R - Spent(s, k))
                                        - Ways(m - s[k].pos - 1, R - Spent(s, k) - 1)
         /\ Completions(m, s, R, k-1) \in Nat /\ Completions(m, s, R, k) \in Nat
         /\ Passed(m, s, R, k-1) <= Passed(m, s, R, k)
         /\ Passed(m, s, R, k) + Completions(m, s, R, k)
              <= Passed(m, s, R, k-1) + Completions(m, s, R, k-1)
<1> DEFINE before == R - Spent(s, k-1)
           after  == R - Spent(s, k)
           q      == m - s[k].pos - 1
           p      == m - Prev(s, k) - 1
<1>1. s \in Seq(Entries(m)) /\ DOMAIN s = 1..Len(s) /\ Len(s) \in Nat
  BY EntryIs DEF SparseIndices
<1>2. /\ before \in Nat \ {0} /\ after \in Nat /\ after < before /\ q \in Nat
      /\ Passed(m, s, R, k) = Passed(m, s, R, k-1)
           + (Ways(p, before) - Ways(q, before)) + Ways(q, after - 1)
  BY PassedStep
<1>3. Passed(m, s, R, k-1) \in Int /\ Passed(m, s, R, k) \in Int
  <2>1. k - 1 \in 0..Len(s) /\ k \in 0..Len(s)
    BY <1>1
  <2> QED  BY <2>1, PassedStep
<1>4. Prev(s, k) \in 0..s[k].pos /\ s[k].pos \in 0..(m-1)
  BY <1>1, StepIs
<1>5. p \in Nat /\ q <= p /\ m - Prev(s, k) = p + 1 /\ m - Prev(s, k) \in Nat /\ (m - Prev(s, k)) - 1 = p
  <2> DEFINE x == Prev(s, k)
             y == s[k].pos
  <2>1. x \in 0..y /\ y \in 0..(m-1) /\ p = m - x - 1 /\ q = m - y - 1
    BY <1>4
  <2> HIDE DEF x, y, p, q
  <2>2. p \in Nat /\ q <= p /\ m - x = p + 1 /\ m - x \in Nat /\ (m - x) - 1 = p
    BY <2>1
  <2> QED  BY <2>2 DEF x
<1>6. Completions(m, s, R, k-1) = Ways(p, before)
  <2>1. Completions(m, s, R, k-1) = CompositionCount(m - Prev(s, k), before)
    <3>1. (k - 1) + 1 = k
      OBVIOUS
    <3> QED  BY <3>1 DEF Completions
  <2>2. CompositionCount(m - Prev(s, k), before) = Ways((m - Prev(s, k)) - 1, before)
    <3> HIDE DEF before, p
    <3> QED  BY <1>2, <1>5, CompositionsAre
  <2> QED  BY <1>5, <2>1, <2>2
<1>7. Completions(m, s, R, k) = Ways(q, after) - Ways(q, after - 1) /\ Completions(m, s, R, k) \in Nat
  <2>1. Prev(s, k + 1) = s[k].pos + 1
    BY DEF Prev
  <2>2. m - Prev(s, k + 1) = q
    BY <1>4, <2>1
  <2>3. Completions(m, s, R, k) = CompositionCount(q, after)
    BY <2>2 DEF Completions
  <2> HIDE DEF q, after
  <2> QED  BY <1>2, <2>3, CompositionsAre
<1> HIDE DEF before, after
<1>8. Ways(q, after) <= Ways(q, before)
  <2>1. after <= before /\ before \in Nat
    BY <1>2
  <2> HIDE DEF q
  <2> QED  BY <1>2, <2>1, PathsMonotone
<1>9. /\ Ways(q, after) \in Nat /\ Ways(q, before) \in Nat /\ Ways(p, before) \in Nat
      /\ Ways(q, after - 1) \in Nat
  <2>1. before \in Int /\ after \in Int /\ after - 1 \in Int
    BY <1>2
  <2> HIDE DEF q, p
  <2> QED  BY <1>2, <1>5, <2>1, PathsNat
<1>10. Ways(q, before) <= Ways(p, before)
  <2> HIDE DEF q, p
  <2> QED  BY <1>2, <1>5, PathsMonotoneAcross
<1> HIDE DEF p, q
<1>11. /\ Passed(m, s, R, k-1) <= Passed(m, s, R, k)
       /\ Passed(m, s, R, k) + Completions(m, s, R, k)
            <= Passed(m, s, R, k-1) + Completions(m, s, R, k-1)
  <2> DEFINE u == Passed(m, s, R, k-1)
             v == Passed(m, s, R, k)
             A == Ways(p, before)
             B == Ways(q, before)
             C == Ways(q, after)
             D == Ways(q, after - 1)
  <2>1. v = u + (A - B) + D /\ u \in Int
    BY <1>2, <1>3
  <2>2. A \in Nat /\ B \in Nat /\ C \in Nat /\ D \in Nat /\ B <= A /\ C <= B
    BY <1>8, <1>9, <1>10
  <2>3. Completions(m, s, R, k) = C - D /\ Completions(m, s, R, k-1) = A
    BY <1>6, <1>7
  <2> HIDE DEF u, v, A, B, C, D
  <2>4. u <= v /\ v + (C - D) <= u + A
    BY <2>1, <2>2
  <2> QED  BY <2>3, <2>4 DEF u, v
<1> QED  BY <1>6, <1>7, <1>9, <1>11 DEF before, after, p, q

LEMMA PassedBound ==
  ASSUME NEW m \in Nat \ {0}, NEW s \in SparseIndices(m), NEW R \in Nat, Spent(s, Len(s)) <= R
  PROVE  \A k \in 0..Len(s) :
           /\ Passed(m, s, R, k) \in Nat
           /\ Passed(m, s, R, k) + Completions(m, s, R, k) <= CompositionCount(m, R)
           /\ Completions(m, s, R, k) \in Nat
<1> DEFINE Bounded(k) == /\ Passed(m, s, R, k) \in Nat
                         /\ Passed(m, s, R, k) + Completions(m, s, R, k) <= CompositionCount(m, R)
                         /\ Completions(m, s, R, k) \in Nat
           T == {k \in Nat : k <= Len(s) => Bounded(k)}
<1>1. s \in Seq(Entries(m)) /\ DOMAIN s = 1..Len(s) /\ Len(s) \in Nat
  BY EntryIs DEF SparseIndices
<1>2. 0 \in T
  <2>1. Completions(m, s, R, 0) = CompositionCount(m, R)
    <3>1. m - Prev(s, 0 + 1) = m /\ R - Spent(s, 0) = R
      BY <1>1, SpentStep DEF Prev
    <3> QED  BY <3>1 DEF Completions
  <2>2. CompositionCount(m, R) \in Nat
    BY CompositionsAre
  <2>3. Passed(m, s, R, 0) = 0
    BY PassedStep
  <2> QED  BY <2>1, <2>2, <2>3
<1>3. ASSUME NEW j \in Nat, j \in T PROVE j + 1 \in T
  <2> SUFFICES ASSUME j + 1 <= Len(s) PROVE Bounded(j + 1)
    OBVIOUS
  <2>1. j + 1 \in 1..Len(s) /\ (j + 1) - 1 = j /\ j + 1 \in 0..Len(s) /\ Bounded(j)
    BY <1>1, <1>3
  <2>2. /\ Completions(m, s, R, j + 1) \in Nat
        /\ Passed(m, s, R, j) <= Passed(m, s, R, j + 1)
        /\ Passed(m, s, R, j + 1) + Completions(m, s, R, j + 1)
             <= Passed(m, s, R, j) + Completions(m, s, R, j)
    BY <2>1, PassedNested
  <2>3. Passed(m, s, R, j + 1) \in Int /\ CompositionCount(m, R) \in Nat
    BY <2>1, PassedStep, CompositionsAre
  <2> QED  BY <2>1, <2>2, <2>3
<1> HIDE DEF T
<1>4. Nat \subseteq T
  BY <1>2, <1>3, Sums!NatInductionOn
<1>5. \A k \in 0..Len(s) : Bounded(k)
  BY <1>1, <1>4 DEF T
<1> QED  BY <1>5

(* The place of an index in its band lies in each of these runs.           *)
LEMMA PassedWithin ==
  ASSUME NEW m \in Nat \ {0}, NEW s \in SparseIndices(m), NEW R \in Nat, Spent(s, Len(s)) = R,
         NEW k \in 0..Len(s)
  PROVE  /\ Passed(m, s, R, k) <= Passed(m, s, R, Len(s))
         /\ Passed(m, s, R, Len(s)) < Passed(m, s, R, k) + Completions(m, s, R, k)
<1> DEFINE u(j) == Passed(m, s, R, j)
           w(j) == Completions(m, s, R, j)
           T == {d \in Nat : k + d <= Len(s) => u(k) <= u(k + d) /\ u(k + d) + w(k + d) <= u(k) + w(k)}
<1>1. s \in Seq(Entries(m)) /\ DOMAIN s = 1..Len(s) /\ Len(s) \in Nat
  BY EntryIs DEF SparseIndices
<1>2. \A j \in 0..Len(s) : u(j) \in Nat /\ w(j) \in Nat
  BY PassedBound
<1>3. \A j \in 1..Len(s) : u(j-1) <= u(j) /\ u(j) + w(j) <= u(j-1) + w(j-1)
  BY PassedNested
<1>4. w(Len(s)) = 1
  <2>1. m - Prev(s, Len(s) + 1) \in Nat
    <3>1. CASE Len(s) = 0
      BY <3>1 DEF Prev
    <3>2. CASE Len(s) # 0
      <4>1. Len(s) \in DOMAIN s /\ (Len(s) + 1) - 1 = Len(s)
        BY <1>1, <3>2, EntryIs
      <4>2. s[Len(s)].pos \in 0..(m-1)
        BY <4>1, StepIs
      <4> QED  BY <1>1, <3>2, <4>1, <4>2 DEF Prev
    <3> QED  BY <3>1, <3>2
  <2>2. R - Spent(s, Len(s)) = 0
    OBVIOUS
  <2> QED  BY <2>1, <2>2, OneComposition DEF Completions
<1> HIDE DEF u, w
<1>5. 0 \in T
  BY <1>1, <1>2
<1>6. ASSUME NEW d \in Nat, d \in T PROVE d + 1 \in T
  <2> SUFFICES ASSUME k + (d + 1) <= Len(s)
               PROVE  u(k) <= u(k + (d+1)) /\ u(k + (d+1)) + w(k + (d+1)) <= u(k) + w(k)
    OBVIOUS
  <2> DEFINE j == k + (d + 1)
  <2>1. j \in 1..Len(s) /\ j \in 0..Len(s) /\ j - 1 = k + d /\ k + d \in 0..Len(s) /\ k + d <= Len(s)
    BY <1>1
  <2>2. u(k) <= u(k + d) /\ u(k + d) + w(k + d) <= u(k) + w(k)
    BY <1>6, <2>1
  <2> HIDE DEF j
  <2>3. u(k + d) <= u(j) /\ u(j) + w(j) <= u(k + d) + w(k + d)
    BY <1>3, <2>1
  <2>4. u(k) \in Nat /\ u(k + d) \in Nat /\ u(j) \in Nat /\ w(k) \in Nat /\ w(k + d) \in Nat /\ w(j) \in Nat
    BY <1>2, <2>1
  <2>5. u(k) <= u(j) /\ u(j) + w(j) <= u(k) + w(k)
    BY <2>2, <2>3, <2>4
  <2> QED  BY <2>5 DEF j
<1>7. Nat \subseteq T
  <2> HIDE DEF T
  <2> QED  BY <1>5, <1>6, Sums!NatInductionOn
<1>8. u(k) <= u(Len(s)) /\ u(Len(s)) + w(Len(s)) <= u(k) + w(k)
  <2>1. Len(s) - k \in Nat /\ k + (Len(s) - k) = Len(s) /\ Len(s) <= Len(s)
    BY <1>1
  <2>2. Len(s) - k \in T
    <3> HIDE DEF T
    <3> QED  BY <1>7, <2>1
  <2> QED  BY <2>1, <2>2
<1>9. u(k) \in Nat /\ w(k) \in Nat /\ u(Len(s)) \in Nat
  BY <1>1, <1>2
<1>10. u(k) <= u(Len(s)) /\ u(Len(s)) < u(k) + w(k)
  BY <1>4, <1>8, <1>9
<1> QED  BY <1>10 DEF u, w

(* The runs of two different entries after the same prefix do not meet.    *)
LEMMA RunsApart ==
  ASSUME NEW r \in Nat \ {0}, NEW q \in Nat, NEW f \in Nat, NEW e \in 1..r, NEW g \in 1..r,
         f < q \/ (f = q /\ e > g)
  PROVE  Ways(q, r - e) - Ways(q, r) <= Ways(f, r - g - 1) - Ways(f, r)
<1>1. r - e \in Nat /\ r - 1 \in Nat /\ r - e <= r - 1 /\ r - g - 1 \in Int
  OBVIOUS
<1>2. /\ Ways(q, r - e) \in Nat /\ Ways(q, r) \in Nat /\ Ways(q, r - 1) \in Nat
      /\ Ways(f, r - g - 1) \in Nat /\ Ways(f, r) \in Nat
  <2>1. r \in Int /\ r - e \in Int /\ r - 1 \in Int /\ r - g - 1 \in Int
    BY <1>1
  <2> QED  BY <2>1, PathsNat
<1>3. CASE f < q
  <2>1. q - 1 \in Nat /\ (q - 1) + 1 = q /\ f <= q - 1
    BY <1>3
  <2>2. Ways(q, r) = Ways(q, r - 1) + Ways(q - 1, r)
    <3>1. Ways((q - 1) + 1, r) = Ways((q - 1) + 1, r - 1) + Ways(q - 1, r)
      BY <2>1, PathsPascal
    <3> QED  BY <2>1, <3>1
  <2>3. Ways(f, r) <= Ways(q - 1, r) /\ Ways(q - 1, r) \in Nat
    BY <2>1, PathsMonotoneAcross, PathsNat
  <2>4. Ways(q, r - e) <= Ways(q, r - 1)
    BY <1>1, PathsMonotone
  <2> QED  BY <1>2, <2>2, <2>3, <2>4
<1>4. CASE f = q /\ e > g
  <2>1. r - g - 1 \in Nat /\ r - e <= r - g - 1
    BY <1>4
  <2>2. Ways(q, r - e) <= Ways(q, r - g - 1)
    BY <1>1, <2>1, PathsMonotone
  <2> QED  BY <1>2, <1>4, <2>2
<1> QED  BY <1>3, <1>4

(* Where the place in the band lies, by the entry after a prefix.          *)
LEMMA EntryRun ==
  ASSUME NEW m \in Nat \ {0}, NEW s \in SparseIndices(m), NEW R \in Nat, Spent(s, Len(s)) = R,
         NEW k \in 1..Len(s), NEW r, r = R - Spent(s, k-1), NEW q, q = m - s[k].pos - 1,
         NEW base, base = Passed(m, s, R, k-1) + Ways(m - Prev(s, k) - 1, r)
  PROVE  /\ r \in Nat \ {0} /\ q \in Nat /\ s[k].exp \in 1..r /\ base \in Int
         /\ base + (Ways(q, r - s[k].exp - 1) - Ways(q, r)) <= Passed(m, s, R, Len(s))
         /\ Passed(m, s, R, Len(s)) < base + (Ways(q, r - s[k].exp) - Ways(q, r))
<1> DEFINE e == s[k].exp
           after == R - Spent(s, k)
           total == Passed(m, s, R, Len(s))
           A == Ways(m - Prev(s, k) - 1, r)
<1>1. s \in Seq(Entries(m)) /\ Len(s) \in Nat /\ k \in 0..Len(s) /\ k - 1 \in 0..Len(s) /\ Len(s) \in 0..Len(s)
  BY EntryIs DEF SparseIndices
<1>2. Spent(s, k) = Spent(s, k-1) + e /\ Spent(s, k-1) \in Nat /\ e \in Nat \ {0} /\ Spent(s, Len(s)) \in Nat
  BY <1>1, SpentStep, EntryIs
<1>3. /\ r \in Nat \ {0} /\ after \in Nat /\ after < r /\ q \in Nat /\ A \in Nat
      /\ Passed(m, s, R, k) = Passed(m, s, R, k-1) + (A - Ways(q, r)) + Ways(q, after - 1)
  BY PassedStep
<1>4. after = r - e /\ e \in 1..r /\ r - e \in Nat /\ r - e - 1 \in Int
  <2> HIDE DEF e
  <2>1. after = r - e
    BY <1>2
  <2> HIDE DEF after
  <2> QED  BY <1>2, <1>3, <2>1, SMTT(90)
<1>5. Completions(m, s, R, k) = Ways(q, after) - Ways(q, after - 1)
  BY PassedNested
<1>6. Passed(m, s, R, k) <= total /\ total < Passed(m, s, R, k) + Completions(m, s, R, k)
  BY <1>1, PassedWithin
<1>7. Passed(m, s, R, k-1) \in Int /\ total \in Int
  BY <1>1, PassedStep, SMTT(30)
<1> HIDE DEF e, after, total, A
<1>8. Ways(q, r) \in Nat /\ Ways(q, r - e) \in Nat /\ Ways(q, r - e - 1) \in Nat
  <2>1. r \in Int /\ r - e \in Int /\ r - e - 1 \in Int
    BY <1>3, <1>4
  <2> QED  BY <1>3, <2>1, PathsNat
<1>9. base = Passed(m, s, R, k-1) + A /\ base \in Int
  BY <1>3, <1>7 DEF A
<1> DEFINE u == Passed(m, s, R, k-1)
           B == Ways(q, r)
           C == Ways(q, r - e)
           D == Ways(q, r - e - 1)
<1>10. base + (D - B) <= total /\ total < base + (C - B)
  <2>1. Passed(m, s, R, k) = u + (A - B) + D /\ Completions(m, s, R, k) = C - D
    BY <1>3, <1>4, <1>5
  <2>2. /\ base = u + A /\ base \in Int /\ u \in Int /\ A \in Nat /\ B \in Nat /\ C \in Nat /\ D \in Nat
        /\ total \in Int
    BY <1>3, <1>7, <1>8, <1>9
  <2>3. u + (A - B) + D <= total /\ total < (u + (A - B) + D) + (C - D)
    BY <1>6, <2>1
  <2> HIDE DEF u, B, C, D
  <2> QED  BY <2>2, <2>3
<1> QED  BY <1>3, <1>4, <1>9, <1>10 DEF e, total

(* The rank of a sparse index lies in the band of its order.               *)
LEMMA SparseRankBand ==
  ASSUME NEW m \in Nat \ {0}, NEW s \in SparseIndices(m)
  PROVE  /\ SparseOrder(s) \in Nat
         /\ SparseRank(m, s) \in Nat
         /\ LowerOrders(m, SparseOrder(s)) <= SparseRank(m, s)
         /\ SparseRank(m, s) < LowerOrders(m, SparseOrder(s) + 1)
<1> DEFINE d == SparseOrder(s)
<1>1. s \in Seq(Entries(m)) /\ Len(s) \in Nat
  BY EntryIs DEF SparseIndices
<1>2. d = Spent(s, Len(s)) /\ d \in Nat
  BY <1>1, SpentStep
<1> HIDE DEF d
<1>3. SparseRank(m, s) = LowerOrders(m, d) + Passed(m, s, d, Len(s))
  BY SparseRankIs DEF d
<1>4. /\ Passed(m, s, d, Len(s)) \in Nat
      /\ Passed(m, s, d, Len(s)) + Completions(m, s, d, Len(s)) <= CompositionCount(m, d)
      /\ Completions(m, s, d, Len(s)) \in Nat
  <2>1. Len(s) \in 0..Len(s) /\ Spent(s, Len(s)) <= d
    BY <1>1, <1>2
  <2> QED  BY <1>2, <2>1, PassedBound
<1>5. Completions(m, s, d, Len(s)) = 1
  <2>1. m - Prev(s, Len(s) + 1) \in Nat
    <3>1. CASE Len(s) = 0
      BY <3>1 DEF Prev
    <3>2. CASE Len(s) # 0
      <4>1. Len(s) \in DOMAIN s /\ (Len(s) + 1) - 1 = Len(s)
        BY <1>1, <3>2, EntryIs
      <4>2. s[Len(s)].pos \in 0..(m-1)
        BY <4>1, StepIs
      <4> QED  BY <1>1, <3>2, <4>1, <4>2 DEF Prev
    <3> QED  BY <3>1, <3>2
  <2>2. d - Spent(s, Len(s)) = 0
    BY <1>2
  <2> QED  BY <2>1, <2>2, OneComposition DEF Completions
<1>6. LowerOrders(m, d + 1) = LowerOrders(m, d) + CompositionCount(m, d) /\ LowerOrders(m, d) \in Nat
  BY <1>2, LowerOrdersAre
<1>7. CompositionCount(m, d) \in Nat
  BY <1>2, CompositionsAre
<1> QED  BY <1>2, <1>3, <1>4, <1>5, <1>6, <1>7 DEF d

-----------------------------------------------------------------------------
(* The merge of two sparse indices: the equation it is defined by, a        *)
(* function that satisfies it, and what every such function returns.       *)
Places(a, b) == (1..(Len(a)+1)) \X (1..(Len(b)+1))
Both(a, b, i, j) == [pos |-> a[i].pos, exp |-> a[i].exp + b[j].exp]
Exhausted(a, b, i, j) == i > Len(a) /\ j > Len(b)
FirstNext(a, b, i, j) == i <= Len(a) /\ (j > Len(b) \/ a[i].pos < b[j].pos)
SecondNext(a, b, i, j) == j <= Len(b) /\ (i > Len(a) \/ b[j].pos < a[i].pos)
MergedAt(g, a, b, i, j) ==
  CASE Exhausted(a, b, i, j) -> << >>
    [] FirstNext(a, b, i, j) -> <<a[i]>> \o g[<<i+1, j>>]
    [] SecondNext(a, b, i, j) -> <<b[j]>> \o g[<<i, j+1>>]
    [] OTHER -> <<Both(a, b, i, j)>> \o g[<<i+1, j+1>>]
Merges(g, a, b) == g = [at \in Places(a, b) |-> MergedAt(g, a, b, at[1], at[2])]
Merged(a, b) == CHOOSE g : Merges(g, a, b)

LEMMA MergeSparseIs == \A a, b : MergeSparse(a, b) = Merged(a, b)[<<1, 1>>]
BY DEF MergeSparse, Merged, Merges, MergedAt, Exhausted, FirstNext, SecondNext, Places, Both

(* Entries left to merge at a place.                                       *)
ToMerge(a, b, at) == (Len(a) + 1 - at[1]) + (Len(b) + 1 - at[2])

(* What a place reads is one further on, in one or in both.                *)
LEMMA MergedAtReads ==
  ASSUME NEW m, NEW a \in Seq(Entries(m)), NEW b \in Seq(Entries(m)), NEW at \in Places(a, b),
         NEW f, NEW g,
         \A z \in Places(a, b) : ToMerge(a, b, z) < ToMerge(a, b, at) => f[z] = g[z]
  PROVE  MergedAt(f, a, b, at[1], at[2]) = MergedAt(g, a, b, at[1], at[2])
<1> DEFINE i == at[1]
           j == at[2]
<1>1. /\ Len(a) \in Nat /\ Len(b) \in Nat
      /\ i \in 1..(Len(a)+1) /\ j \in 1..(Len(b)+1)
  BY DEF Places
<1> HIDE DEF i, j
<1>2. ToMerge(a, b, at) = (Len(a) + 1 - i) + (Len(b) + 1 - j)
  BY DEF ToMerge, i, j
<1>3. i <= Len(a) => f[<<i+1, j>>] = g[<<i+1, j>>]
  <2> SUFFICES ASSUME i <= Len(a) PROVE f[<<i+1, j>>] = g[<<i+1, j>>]
    OBVIOUS
  <2>1. <<i+1, j>> \in Places(a, b)
    BY <1>1 DEF Places
  <2>2. ToMerge(a, b, <<i+1, j>>) = (Len(a) + 1 - (i+1)) + (Len(b) + 1 - j)
    BY DEF ToMerge
  <2> QED  BY <1>1, <1>2, <2>1, <2>2
<1>4. j <= Len(b) => f[<<i, j+1>>] = g[<<i, j+1>>]
  <2> SUFFICES ASSUME j <= Len(b) PROVE f[<<i, j+1>>] = g[<<i, j+1>>]
    OBVIOUS
  <2>1. <<i, j+1>> \in Places(a, b)
    BY <1>1 DEF Places
  <2>2. ToMerge(a, b, <<i, j+1>>) = (Len(a) + 1 - i) + (Len(b) + 1 - (j+1))
    BY DEF ToMerge
  <2> QED  BY <1>1, <1>2, <2>1, <2>2
<1>5. i <= Len(a) /\ j <= Len(b) => f[<<i+1, j+1>>] = g[<<i+1, j+1>>]
  <2> SUFFICES ASSUME i <= Len(a), j <= Len(b) PROVE f[<<i+1, j+1>>] = g[<<i+1, j+1>>]
    OBVIOUS
  <2>1. <<i+1, j+1>> \in Places(a, b)
    BY <1>1 DEF Places
  <2>2. ToMerge(a, b, <<i+1, j+1>>) = (Len(a) + 1 - (i+1)) + (Len(b) + 1 - (j+1))
    BY DEF ToMerge
  <2> QED  BY <1>1, <1>2, <2>1, <2>2
<1>6. /\ FirstNext(a, b, i, j) => i <= Len(a) /\ ~Exhausted(a, b, i, j)
      /\ SecondNext(a, b, i, j) => j <= Len(b) /\ ~Exhausted(a, b, i, j)
      /\ ~Exhausted(a, b, i, j) /\ ~FirstNext(a, b, i, j) /\ ~SecondNext(a, b, i, j)
           => i <= Len(a) /\ j <= Len(b)
  BY <1>1 DEF Exhausted, FirstNext, SecondNext
<1>7. MergedAt(f, a, b, i, j) = MergedAt(g, a, b, i, j)
  BY <1>3, <1>4, <1>5, <1>6 DEF MergedAt
<1> QED  BY <1>7 DEF i, j

LEMMA MergeCases ==
  ASSUME NEW m, NEW a \in Seq(Entries(m)), NEW b \in Seq(Entries(m)),
         NEW i \in 1..(Len(a)+1), NEW j \in 1..(Len(b)+1)
  PROVE  /\ Exhausted(a, b, i, j) => i = Len(a) + 1 /\ j = Len(b) + 1
         /\ FirstNext(a, b, i, j) =>
              i \in 1..Len(a) /\ ~Exhausted(a, b, i, j) /\ ~SecondNext(a, b, i, j)
         /\ SecondNext(a, b, i, j) => j \in 1..Len(b) /\ ~Exhausted(a, b, i, j)
         /\ ~Exhausted(a, b, i, j) /\ ~FirstNext(a, b, i, j) /\ ~SecondNext(a, b, i, j)
              => i \in 1..Len(a) /\ j \in 1..Len(b) /\ a[i].pos = b[j].pos
<1>1. Len(a) \in Nat /\ Len(b) \in Nat
  OBVIOUS
<1>2. (i \in 1..Len(a) => a[i].pos \in Int) /\ (j \in 1..Len(b) => b[j].pos \in Int)
  BY EntryIs
<1> QED  BY <1>1, <1>2 DEF Exhausted, FirstNext, SecondNext

LEMMA MergedAtType ==
  ASSUME NEW m, NEW a \in Seq(Entries(m)), NEW b \in Seq(Entries(m)), NEW at \in Places(a, b),
         NEW g \in [Places(a, b) -> Seq(Entries(m))]
  PROVE  MergedAt(g, a, b, at[1], at[2]) \in Seq(Entries(m))
<1> DEFINE i == at[1]
           j == at[2]
<1> SUFFICES MergedAt(g, a, b, i, j) \in Seq(Entries(m))
  OBVIOUS
<1>1. /\ Len(a) \in Nat /\ Len(b) \in Nat
      /\ i \in 1..(Len(a)+1) /\ j \in 1..(Len(b)+1)
  BY DEF Places
<1> HIDE DEF i, j
<1>2. ASSUME NEW e \in Entries(m), NEW z \in Places(a, b)
      PROVE  <<e>> \o g[z] \in Seq(Entries(m))
  OBVIOUS
<1>3. CASE Exhausted(a, b, i, j)
  <2>1. ~FirstNext(a, b, i, j) /\ ~SecondNext(a, b, i, j)
    BY <1>1, <1>3, MergeCases
  <2>2. MergedAt(g, a, b, i, j) = << >>
    BY <1>3, <2>1 DEF MergedAt
  <2> QED  BY <2>2
<1>4. CASE FirstNext(a, b, i, j)
  <2>1. i \in 1..Len(a) /\ ~Exhausted(a, b, i, j) /\ ~SecondNext(a, b, i, j)
    BY <1>1, <1>4, MergeCases
  <2>2. a[i] \in Entries(m) /\ <<i+1, j>> \in Places(a, b)
    BY <1>1, <2>1 DEF Places
  <2>3. MergedAt(g, a, b, i, j) = <<a[i]>> \o g[<<i+1, j>>]
    BY <1>4, <2>1 DEF MergedAt
  <2> QED  BY <1>2, <2>2, <2>3
<1>5. CASE ~FirstNext(a, b, i, j) /\ SecondNext(a, b, i, j)
  <2>1. j \in 1..Len(b) /\ ~Exhausted(a, b, i, j)
    BY <1>1, <1>5, MergeCases
  <2>2. b[j] \in Entries(m) /\ <<i, j+1>> \in Places(a, b)
    BY <1>1, <2>1 DEF Places
  <2>3. MergedAt(g, a, b, i, j) = <<b[j]>> \o g[<<i, j+1>>]
    BY <1>5, <2>1 DEF MergedAt
  <2> QED  BY <1>2, <2>2, <2>3
<1>6. CASE ~Exhausted(a, b, i, j) /\ ~FirstNext(a, b, i, j) /\ ~SecondNext(a, b, i, j)
  <2>1. i \in 1..Len(a) /\ j \in 1..Len(b)
    BY <1>1, <1>6, MergeCases
  <2>2. <<i+1, j+1>> \in Places(a, b)
    BY <1>1, <2>1 DEF Places
  <2>3. a[i].pos \in 0..(m-1) /\ a[i].exp \in Nat \ {0} /\ b[j].exp \in Nat \ {0}
    BY <2>1, EntryIs
  <2>4. Both(a, b, i, j) \in Entries(m)
    <3>1. a[i].exp + b[j].exp \in Nat \ {0}
      BY <2>3, SMTT(30)
    <3> QED  BY <2>3, <3>1 DEF Both, Entries
  <2>5. MergedAt(g, a, b, i, j) = <<Both(a, b, i, j)>> \o g[<<i+1, j+1>>]
    BY <1>6 DEF MergedAt
  <2> QED  BY <1>2, <2>2, <2>4, <2>5
<1> QED  BY <1>3, <1>4, <1>5, <1>6

LEMMA MergesHolds ==
  ASSUME NEW m, NEW a \in Seq(Entries(m)), NEW b \in Seq(Entries(m))
  PROVE  Merges(Merged(a, b), a, b) /\ Merged(a, b) \in [Places(a, b) -> Seq(Entries(m))]
<1> DEFINE V == [Places(a, b) -> Seq(Entries(m))]
           k == Len(a) + Len(b) + 1
           Round(g) == [at \in Places(a, b) |-> MergedAt(g, a, b, at[1], at[2])]
           step == [x \in (1..k) \X V |-> Round(x[2])]
           first == [at \in Places(a, b) |-> << >>]
<1>1. Len(a) \in Nat /\ Len(b) \in Nat /\ k \in Nat
  OBVIOUS
<1>2. \A g \in V : Round(g) \in V
  BY MergedAtType
<1>3. first \in V /\ step \in [(1..k) \X V -> V]
  <2>1. first \in V
    BY SMTT(90)
  <2> HIDE DEF V, Round
  <2>2. step \in [(1..k) \X V -> V]
    BY <1>2
  <2> QED  BY <2>1, <2>2
<1>4. PICK h \in [0..k -> V] : Sums!Recursive(h, k, first, step)
  <2> HIDE DEF V, k, first, step
  <2> QED  BY <1>1, <1>3, Sums!RecursionExists
<1>5. \A i \in 1..k : h[i] = Round(h[i-1])
  <2> TAKE i \in 1..k
  <2>1. h[i] = step[<<i, h[i-1]>>]
    <3> HIDE DEF V, k, first, step
    <3>1. i \in 0..k /\ i # 0
      BY <1>1
    <3> QED  BY <1>4, <3>1 DEF Sums!Recursive
  <2>2. h[i-1] \in V
    <3> HIDE DEF V
    <3> QED  BY <1>1
  <2> HIDE DEF V, k
  <2> QED  BY <2>1, <2>2 DEF step
<1> DEFINE Stable(l) == \A at \in Places(a, b) : ToMerge(a, b, at) < l => h[l][at] = h[l+1][at]
           T == {l \in Nat : l < k => Stable(l)}
<1>6. \A at \in Places(a, b) : ToMerge(a, b, at) \in 0..(k-1)
  BY <1>1 DEF Places, ToMerge
<1>7. 0 \in T
  BY <1>6
<1>8. ASSUME NEW l \in Nat, l \in T PROVE l + 1 \in T
  <2> SUFFICES ASSUME l + 1 < k, NEW at \in Places(a, b), ToMerge(a, b, at) < l + 1
               PROVE  h[l+1][at] = h[(l+1)+1][at]
    OBVIOUS
  <2>1. l + 1 \in 1..k /\ (l+1) + 1 \in 1..k /\ (l+1) - 1 = l /\ ((l+1)+1) - 1 = l + 1 /\ Stable(l)
    BY <1>1, <1>8
  <2>2. h[l+1] = Round(h[l]) /\ h[(l+1)+1] = Round(h[l+1])
    BY <1>5, <2>1
  <2>3. \A z \in Places(a, b) : ToMerge(a, b, z) < ToMerge(a, b, at) => h[l][z] = h[l+1][z]
    BY <1>6, <2>1
  <2> HIDE DEF k, V, T, Stable, Round, step, first
  <2>4. MergedAt(h[l], a, b, at[1], at[2]) = MergedAt(h[l+1], a, b, at[1], at[2])
    BY <2>3, MergedAtReads, SMTT(90)
  <2> QED  BY <2>2, <2>4 DEF Round
<1>9. Nat \subseteq T
  <2> HIDE DEF T
  <2> QED  BY <1>7, <1>8, Sums!NatInductionOn
<1>10. k - 1 \in T /\ k - 1 \in Nat /\ (k - 1) + 1 = k /\ k - 1 < k
  BY <1>1, <1>9
<1> DEFINE g == h[k-1]
<1>11. \A at \in Places(a, b) : ToMerge(a, b, at) < k - 1 => g[at] = h[k][at]
  <2> HIDE DEF k
  <2> QED  BY <1>10
<1>12. h[k] = Round(g) /\ g \in V /\ k \in 1..k
  BY <1>1, <1>5, SMTT(30)
<1>13. \A at \in Places(a, b) : MergedAt(g, a, b, at[1], at[2]) = MergedAt(h[k], a, b, at[1], at[2])
  <2> TAKE at \in Places(a, b)
  <2>1. \A z \in Places(a, b) : ToMerge(a, b, z) < ToMerge(a, b, at) => g[z] = h[k][z]
    <3> HIDE DEF g
    <3> QED  BY <1>1, <1>6, <1>11
  <2> HIDE DEF g, k
  <2> QED  BY <2>1, MergedAtReads
<1> DEFINE f == h[k]
<1>14. f = Round(g) /\ Round(g) = Round(f) /\ f \in V
  <2>1. k \in 0..k
    BY <1>1
  <2> HIDE DEF g, k, V
  <2> QED  BY <1>12, <1>13, <2>1
<1>15. Merges(f, a, b)
  <2> HIDE DEF f, g
  <2> QED  BY <1>14 DEF Merges
<1>16. Merges(Merged(a, b), a, b)
  <2> HIDE DEF f
  <2> QED  BY <1>15 DEF Merged
<1> HIDE DEF f, g, k
<1>17. ASSUME NEW q, Merges(q, a, b)
       PROVE  q \in V
  <2>1. DOMAIN q = Places(a, b) /\ DOMAIN f = Places(a, b)
    BY <1>14, <1>17 DEF Merges
  <2> DEFINE U == {l \in Nat : \A at \in Places(a, b) : ToMerge(a, b, at) < l => q[at] = f[at]}
  <2>2. 0 \in U
    BY <1>6
  <2>3. ASSUME NEW l \in Nat, l \in U PROVE l + 1 \in U
    <3> SUFFICES ASSUME NEW at \in Places(a, b), ToMerge(a, b, at) < l + 1
                 PROVE  q[at] = f[at]
      OBVIOUS
    <3>1. \A z \in Places(a, b) : ToMerge(a, b, z) < ToMerge(a, b, at) => q[z] = f[z]
      BY <1>6, <2>3
    <3>2. MergedAt(q, a, b, at[1], at[2]) = MergedAt(f, a, b, at[1], at[2])
      BY <3>1, MergedAtReads
    <3> QED  BY <1>15, <1>17, <3>2 DEF Merges
  <2>4. Nat \subseteq U
    <3> HIDE DEF U
    <3> QED  BY <2>2, <2>3, Sums!NatInductionOn
  <2>5. \A at \in Places(a, b) : q[at] = f[at]
    <3> TAKE at \in Places(a, b)
    <3>1. ToMerge(a, b, at) + 1 \in U /\ ToMerge(a, b, at) \in Nat
      BY <1>6, <2>4
    <3> QED  BY <3>1
  <2>6. \A at \in Places(a, b) : f[at] \in Seq(Entries(m))
    BY <1>14
  <2>7. q = [at \in Places(a, b) |-> q[at]]
    BY <1>17 DEF Merges
  <2> QED  BY <2>5, <2>6, <2>7
<1> QED  BY <1>16, <1>17

(* One entry in front of a sparse index.                                   *)
LEMMA InFront ==
  ASSUME NEW m, NEW e \in Entries(m), NEW s \in SparseIndices(m),
         \A t \in 1..Len(s) : e.pos < s[t].pos
  PROVE  /\ <<e>> \o s \in SparseIndices(m)
         /\ SparseOrder(<<e>> \o s) = e.exp + SparseOrder(s)
         /\ Len(<<e>> \o s) = Len(s) + 1
         /\ (<<e>> \o s)[1] = e
         /\ \A t \in 2..(Len(s)+1) : (<<e>> \o s)[t] = s[t-1]
<1> DEFINE c == <<e>> \o s
<1>1. s \in Seq(Entries(m)) /\ Len(s) \in Nat /\ DOMAIN s = 1..Len(s)
  BY EntryIs DEF SparseIndices
<1>2. /\ c \in Seq(Entries(m)) /\ Len(c) = Len(s) + 1 /\ c[1] = e
      /\ \A t \in 2..(Len(s)+1) : c[t] = s[t-1]
  BY <1>1
<1> HIDE DEF c
<1>3. ASSUME NEW t \in DOMAIN c, NEW u \in DOMAIN c, t < u
      PROVE  c[t].pos < c[u].pos
  <2>1. t \in 1..(Len(s)+1) /\ u \in 2..(Len(s)+1) /\ u - 1 \in DOMAIN s
    BY <1>1, <1>2, <1>3
  <2>2. CASE t = 1
    BY <1>1, <1>2, <2>1, <2>2
  <2>3. CASE t # 1
    <3>1. t - 1 \in DOMAIN s /\ t - 1 < u - 1 /\ t \in 2..(Len(s)+1)
      BY <1>1, <1>3, <2>1, <2>3
    <3>2. s[t-1].pos < s[u-1].pos
      BY <2>1, <3>1 DEF SparseIndices
    <3> QED  BY <1>2, <2>1, <3>1, <3>2
  <2> QED  BY <2>2, <2>3
<1>4. c \in SparseIndices(m)
  BY <1>2, <1>3 DEF SparseIndices
<1>5. SparseOrder(c) = e.exp + SparseOrder(s)
  <2> DEFINE T == {k \in Nat : k <= Len(s) => Spent(c, k + 1) = e.exp + Spent(s, k)}
  <2>1. Spent(c, 0) = 0 /\ Spent(s, 0) = 0 /\ \A k \in 0..Len(s) : Spent(s, k) \in Nat
    BY <1>1, <1>2, SpentStep
  <2>2. e.exp \in Nat \ {0}
    BY DEF Entries
  <2>3. 0 \in T
    <3>1. 1 \in 1..Len(c) /\ 1 - 1 = 0 /\ 0 + 1 = 1
      BY <1>1, <1>2
    <3>2. Spent(c, 1) = Spent(c, 1 - 1) + c[1].exp
      BY <1>2, <3>1, SpentStep
    <3> QED  BY <1>2, <2>1, <2>2, <3>1, <3>2
  <2>4. ASSUME NEW k \in Nat, k \in T PROVE k + 1 \in T
    <3> SUFFICES ASSUME k + 1 <= Len(s) PROVE Spent(c, (k + 1) + 1) = e.exp + Spent(s, k + 1)
      OBVIOUS
    <3>1. /\ (k + 1) + 1 \in 1..Len(c) /\ ((k+1)+1) - 1 = k + 1 /\ (k + 1) + 1 \in 2..(Len(s)+1)
          /\ k + 1 \in 1..Len(s) /\ (k + 1) - 1 = k /\ k \in 0..Len(s)
      BY <1>1, <1>2
    <3>2. Spent(c, (k+1)+1) = Spent(c, k+1) + c[(k+1)+1].exp
      BY <1>2, <3>1, SpentStep
    <3>3. Spent(s, k+1) = Spent(s, k) + s[k+1].exp
      BY <1>1, <3>1, SpentStep
    <3>4. c[(k+1)+1] = s[k+1] /\ s[k+1].exp \in Nat
      BY <1>1, <1>2, <3>1, EntryIs
    <3>5. Spent(c, k+1) = e.exp + Spent(s, k)
      BY <2>4, <3>1
    <3> QED  BY <2>1, <2>2, <3>1, <3>2, <3>3, <3>4, <3>5, SMTT(30)
  <2> HIDE DEF T
  <2>5. Nat \subseteq T
    BY <2>3, <2>4, Sums!NatInductionOn
  <2>6. Spent(c, Len(s) + 1) = e.exp + Spent(s, Len(s))
    BY <1>1, <2>5 DEF T
  <2> QED  BY <1>1, <1>2, <2>6, SpentStep
<1> QED  BY <1>2, <1>4, <1>5 DEF c

LEMMA Nothing ==
  ASSUME NEW m
  PROVE  << >> \in SparseIndices(m) /\ SparseOrder(<< >>) = 0
<1>1. << >> \in Seq(Entries(m)) /\ Len(<< >>) = 0
  OBVIOUS
<1>2. << >> \in SparseIndices(m)
  <2>1. DOMAIN << >> = {}
    OBVIOUS
  <2> QED  BY <1>1, <2>1 DEF SparseIndices
<1>3. SparseOrder(<< >>) = Spent(<< >>, 0)
  BY <1>1, SpentStep
<1>4. Spent(<< >>, 0) = 0
  BY <1>1, SpentStep
<1> QED  BY <1>2, <1>3, <1>4

(* What is left at a place of the merge: a lower bound of its positions and*)
(* its order.                                                              *)
Below(q, a, b, at) == /\ at[1] <= Len(a) => q <= a[at[1]].pos
                      /\ at[2] <= Len(b) => q <= b[at[2]].pos
Left(s, k) == Spent(s, Len(s)) - Spent(s, k - 1)
OrderLeft(a, b, at) == Left(a, at[1]) + Left(b, at[2])
MergedWell(m, g, a, b, at) ==
  /\ g[at] \in SparseIndices(m)
  /\ SparseOrder(g[at]) = OrderLeft(a, b, at)
  /\ \A q \in Int : Below(q, a, b, at) => \A t \in 1..Len(g[at]) : q <= g[at][t].pos

LEMMA MergeOneMore ==
  ASSUME NEW m, NEW a \in SparseIndices(m), NEW b \in SparseIndices(m), NEW g,
         NEW at \in Places(a, b), NEW z \in Places(a, b), NEW e \in Entries(m),
         MergedWell(m, g, a, b, z), g[at] = <<e>> \o g[z],
         Below(e.pos + 1, a, b, z),
         \A q \in Int : Below(q, a, b, at) => q <= e.pos,
         OrderLeft(a, b, at) = e.exp + OrderLeft(a, b, z)
  PROVE  MergedWell(m, g, a, b, at)
<1> DEFINE s == g[z]
<1>1. e.pos \in Int
  BY DEF Entries
<1>2. s \in SparseIndices(m) /\ SparseOrder(s) = OrderLeft(a, b, z)
  BY DEF MergedWell
<1>3. \A t \in 1..Len(s) : s[t].pos \in Int /\ e.pos + 1 <= s[t].pos
  <2>1. s \in Seq(Entries(m)) /\ e.pos + 1 \in Int
    BY <1>1, <1>2 DEF SparseIndices
  <2>2. \A t \in 1..Len(s) : e.pos + 1 <= s[t].pos
    BY <2>1 DEF MergedWell
  <2> HIDE DEF s
  <2>3. \A t \in 1..Len(s) : s[t].pos \in 0..(m-1)
    BY <2>1, EntryIs
  <2> QED  BY <2>2, <2>3
<1> DEFINE c == g[at]
<1> HIDE DEF s
<1>4. /\ c \in SparseIndices(m) /\ SparseOrder(c) = e.exp + SparseOrder(s)
      /\ Len(c) = Len(s) + 1 /\ c[1] = e /\ \A t \in 2..(Len(s)+1) : c[t] = s[t-1]
  <2>1. \A t \in 1..Len(s) : e.pos < s[t].pos
    BY <1>1, <1>3
  <2>2. c = <<e>> \o s
    BY DEF s
  <2> HIDE DEF c
  <2> QED  BY <1>2, <2>1, <2>2, InFront
<1> HIDE DEF c
<1>5. ASSUME NEW q \in Int, Below(q, a, b, at), NEW t \in 1..Len(c)
      PROVE  q <= c[t].pos
  <2>1. q <= e.pos
    BY <1>5
  <2>2. Len(s) \in Nat
    BY <1>2 DEF SparseIndices
  <2>3. CASE t = 1
    BY <1>4, <2>1, <2>3
  <2>4. CASE t # 1
    <3>1. t \in 2..(Len(s)+1) /\ t - 1 \in 1..Len(s)
      BY <1>4, <2>2, <2>4
    <3>2. c[t].pos \in Int /\ e.pos + 1 <= c[t].pos
      BY <1>3, <1>4, <3>1
    <3> QED  BY <1>1, <2>1, <3>2
  <2> QED  BY <2>3, <2>4
<1>6. SparseOrder(c) = OrderLeft(a, b, at)
  BY <1>2, <1>4
<1> QED  BY <1>4, <1>5, <1>6 DEF MergedWell, c

LEMMA LeftStep ==
  ASSUME NEW m, NEW s \in Seq(Entries(m))
  PROVE  /\ \A k \in 1..(Len(s)+1) : Left(s, k) \in Int
         /\ \A k \in 1..Len(s) : Left(s, k) = s[k].exp + Left(s, k + 1) /\ s[k].exp \in Nat
         /\ Left(s, 1) = SparseOrder(s) /\ Left(s, Len(s) + 1) = 0
<1>1. Len(s) \in Nat /\ Spent(s, 0) = 0 /\ SparseOrder(s) = Spent(s, Len(s))
  BY SpentStep
<1>2. \A k \in 0..Len(s) : Spent(s, k) \in Nat
  BY SpentStep
<1>3. \A k \in 1..(Len(s)+1) : Left(s, k) \in Int /\ Left(s, k) = Spent(s, Len(s)) - Spent(s, k - 1)
  BY <1>1, <1>2 DEF Left
<1>4. ASSUME NEW k \in 1..Len(s)
      PROVE  Left(s, k) = s[k].exp + Left(s, k + 1) /\ s[k].exp \in Nat
  <2>1. /\ k \in 1..(Len(s)+1) /\ k + 1 \in 1..(Len(s)+1) /\ (k + 1) - 1 = k
        /\ Len(s) \in 0..Len(s) /\ k \in 0..Len(s) /\ k - 1 \in 0..Len(s)
    BY <1>1
  <2>2. /\ Left(s, k) = Spent(s, Len(s)) - Spent(s, k - 1)
        /\ Left(s, k + 1) = Spent(s, Len(s)) - Spent(s, k)
    BY <2>1 DEF Left
  <2>3. Spent(s, k) = Spent(s, k-1) + s[k].exp /\ s[k].exp \in Nat
    BY SpentStep, EntryIs
  <2>4. Spent(s, Len(s)) \in Nat /\ Spent(s, k) \in Nat /\ Spent(s, k - 1) \in Nat
    BY <1>2, <2>1
  <2> QED  BY <2>2, <2>3, <2>4
<1>5. Left(s, 1) = SparseOrder(s) /\ Left(s, Len(s) + 1) = 0
  <2>1. 1 - 1 = 0 /\ (Len(s) + 1) - 1 = Len(s) /\ Spent(s, Len(s)) \in Nat
    BY <1>1, <1>2
  <2> QED  BY <1>1, <2>1 DEF Left
<1> QED  BY <1>3, <1>4, <1>5

LEMMA MergeStep ==
  ASSUME NEW m, NEW a \in SparseIndices(m), NEW b \in SparseIndices(m), NEW g, Merges(g, a, b),
         NEW at \in Places(a, b),
         \A z \in Places(a, b) : ToMerge(a, b, z) < ToMerge(a, b, at) => MergedWell(m, g, a, b, z)
  PROVE  MergedWell(m, g, a, b, at)
<1> DEFINE i == at[1]
           j == at[2]
<1>1. /\ a \in Seq(Entries(m)) /\ b \in Seq(Entries(m)) /\ Len(a) \in Nat /\ Len(b) \in Nat
      /\ i \in 1..(Len(a)+1) /\ j \in 1..(Len(b)+1) /\ at = <<i, j>>
  BY DEF Places, SparseIndices
<1>2. g[at] = MergedAt(g, a, b, i, j)
  BY DEF Merges
<1>3. /\ \A k \in 1..(Len(a)+1) : Left(a, k) \in Int
      /\ \A k \in 1..(Len(b)+1) : Left(b, k) \in Int
      /\ \A k \in 1..Len(a) : Left(a, k) = a[k].exp + Left(a, k + 1)
      /\ \A k \in 1..Len(b) : Left(b, k) = b[k].exp + Left(b, k + 1)
      /\ Left(a, Len(a) + 1) = 0 /\ Left(b, Len(b) + 1) = 0
  BY <1>1, LeftStep
<1>4. /\ \A k \in 1..Len(a) : a[k].pos \in 0..(m-1) /\ a[k].exp \in Nat \ {0} /\ a[k] \in Entries(m)
      /\ \A k \in 1..Len(b) : b[k].pos \in 0..(m-1) /\ b[k].exp \in Nat \ {0} /\ b[k] \in Entries(m)
  BY <1>1, EntryIs
<1>5. /\ \A k \in 1..Len(a) : k + 1 <= Len(a) => a[k].pos < a[k+1].pos
      /\ \A k \in 1..Len(b) : k + 1 <= Len(b) => b[k].pos < b[k+1].pos
  <2>1. \A k \in 1..Len(a) : k + 1 <= Len(a) => k + 1 \in 1..Len(a) /\ k < k + 1
    BY <1>1
  <2>2. \A k \in 1..Len(b) : k + 1 <= Len(b) => k + 1 \in 1..Len(b) /\ k < k + 1
    BY <1>1
  <2> QED  BY <1>1, <2>1, <2>2, EntryIs DEF SparseIndices
<1>6. OrderLeft(a, b, at) = Left(a, i) + Left(b, j)
  BY DEF OrderLeft
<1>7. \A q : Below(q, a, b, at) => (i <= Len(a) => q <= a[i].pos) /\ (j <= Len(b) => q <= b[j].pos)
  BY DEF Below
<1>8. ToMerge(a, b, at) = (Len(a) + 1 - i) + (Len(b) + 1 - j)
  BY DEF ToMerge
<1> HIDE DEF i, j
<1>9. CASE Exhausted(a, b, i, j)
  <2>1. ~FirstNext(a, b, i, j) /\ ~SecondNext(a, b, i, j) /\ i = Len(a) + 1 /\ j = Len(b) + 1
    BY <1>1, <1>9, MergeCases
  <2>2. g[at] = << >>
    BY <1>2, <1>9, <2>1 DEF MergedAt
  <2>3. g[at] \in SparseIndices(m) /\ SparseOrder(g[at]) = 0 /\ Len(g[at]) = 0
    BY <2>2, Nothing
  <2>4. OrderLeft(a, b, at) = 0
    BY <1>1, <1>3, <1>6, <2>1
  <2> QED  BY <2>3, <2>4 DEF MergedWell
<1>10. CASE FirstNext(a, b, i, j)
  <2> DEFINE z == <<i+1, j>>
             e == a[i]
  <2>1. i \in 1..Len(a) /\ ~Exhausted(a, b, i, j) /\ ~SecondNext(a, b, i, j)
    BY <1>1, <1>10, MergeCases
  <2>2. z \in Places(a, b) /\ e \in Entries(m) /\ z[1] = i + 1 /\ z[2] = j
    BY <1>1, <1>4, <2>1 DEF Places
  <2>3. g[at] = <<e>> \o g[z]
    BY <1>2, <1>10, <2>1 DEF MergedAt
  <2>4. ToMerge(a, b, z) < ToMerge(a, b, at)
    BY <1>1, <1>8, <2>1 DEF ToMerge
  <2>5. OrderLeft(a, b, z) = Left(a, i + 1) + Left(b, j)
    BY <2>2 DEF OrderLeft
  <2>6. OrderLeft(a, b, at) = e.exp + OrderLeft(a, b, z)
    <3>1. Left(a, i) = a[i].exp + Left(a, i + 1) /\ a[i].exp \in Nat
      BY <1>3, <1>4, <2>1
    <3>2. Left(a, i + 1) \in Int /\ Left(b, j) \in Int
      BY <1>1, <1>3, <2>1
    <3> QED  BY <1>6, <2>5, <3>1, <3>2
  <2>7. Below(e.pos + 1, a, b, z)
    <3>1. i + 1 <= Len(a) => e.pos + 1 <= a[i+1].pos
      BY <1>1, <1>4, <1>5, <2>1
    <3>2. j <= Len(b) => e.pos + 1 <= b[j].pos
      BY <1>1, <1>4, <1>10, <2>1 DEF FirstNext
    <3> QED  BY <2>2, <3>1, <3>2 DEF Below
  <2>8. \A q \in Int : Below(q, a, b, at) => q <= e.pos
    <3>1. i <= Len(a)
      BY <1>1, <2>1
    <3> QED  BY <1>7, <3>1
  <2>9. MergedWell(m, g, a, b, z)
    BY <2>2, <2>4
  <2> HIDE DEF z, e
  <2> QED  BY <2>2, <2>3, <2>6, <2>7, <2>8, <2>9, MergeOneMore
<1>11. CASE ~FirstNext(a, b, i, j) /\ SecondNext(a, b, i, j)
  <2> DEFINE z == <<i, j+1>>
             e == b[j]
  <2>1. j \in 1..Len(b) /\ ~Exhausted(a, b, i, j)
    BY <1>1, <1>11, MergeCases
  <2>2. z \in Places(a, b) /\ e \in Entries(m) /\ z[1] = i /\ z[2] = j + 1
    BY <1>1, <1>4, <2>1 DEF Places
  <2>3. g[at] = <<e>> \o g[z]
    BY <1>2, <1>11, <2>1 DEF MergedAt
  <2>4. ToMerge(a, b, z) < ToMerge(a, b, at)
    BY <1>1, <1>8, <2>1 DEF ToMerge
  <2>5. OrderLeft(a, b, z) = Left(a, i) + Left(b, j + 1)
    BY <2>2 DEF OrderLeft
  <2>6. OrderLeft(a, b, at) = e.exp + OrderLeft(a, b, z)
    <3>1. Left(b, j) = b[j].exp + Left(b, j + 1) /\ b[j].exp \in Nat
      BY <1>3, <1>4, <2>1
    <3>2. Left(a, i) \in Int /\ Left(b, j + 1) \in Int
      BY <1>1, <1>3, <2>1
    <3> QED  BY <1>6, <2>5, <3>1, <3>2
  <2>7. Below(e.pos + 1, a, b, z)
    <3>1. j + 1 <= Len(b) => e.pos + 1 <= b[j+1].pos
      BY <1>1, <1>4, <1>5, <2>1
    <3>2. i <= Len(a) => e.pos + 1 <= a[i].pos
      BY <1>1, <1>4, <1>11, <2>1 DEF SecondNext
    <3> QED  BY <2>2, <3>1, <3>2 DEF Below
  <2>8. \A q \in Int : Below(q, a, b, at) => q <= e.pos
    <3>1. j <= Len(b)
      BY <1>1, <2>1
    <3> QED  BY <1>7, <3>1
  <2>9. MergedWell(m, g, a, b, z)
    BY <2>2, <2>4
  <2> HIDE DEF z, e
  <2> QED  BY <2>2, <2>3, <2>6, <2>7, <2>8, <2>9, MergeOneMore
<1>12. CASE ~Exhausted(a, b, i, j) /\ ~FirstNext(a, b, i, j) /\ ~SecondNext(a, b, i, j)
  <2> DEFINE z == <<i+1, j+1>>
             e == Both(a, b, i, j)
  <2>1. i \in 1..Len(a) /\ j \in 1..Len(b) /\ a[i].pos = b[j].pos
    BY <1>1, <1>12, MergeCases
  <2>2. /\ z \in Places(a, b) /\ z[1] = i + 1 /\ z[2] = j + 1
        /\ (i + 1) - 1 = i
    BY <1>1, <2>1 DEF Places
  <2>3. e.pos = a[i].pos /\ e.exp = a[i].exp + b[j].exp /\ e \in Entries(m)
    <3>1. a[i].exp + b[j].exp \in Nat \ {0} /\ a[i].pos \in 0..(m-1)
      BY <1>4, <2>1, SMTT(30)
    <3> QED  BY <3>1 DEF Both, Entries
  <2>4. g[at] = <<e>> \o g[z]
    BY <1>2, <1>12 DEF MergedAt
  <2>5. ToMerge(a, b, z) < ToMerge(a, b, at)
    BY <1>1, <1>8, <2>1 DEF ToMerge
  <2>6. OrderLeft(a, b, z) = Left(a, i + 1) + Left(b, j + 1)
    BY <2>2 DEF OrderLeft
  <2>7. OrderLeft(a, b, at) = e.exp + OrderLeft(a, b, z)
    <3>1. /\ Left(a, i) = a[i].exp + Left(a, i + 1) /\ a[i].exp \in Nat
          /\ Left(b, j) = b[j].exp + Left(b, j + 1) /\ b[j].exp \in Nat
      BY <1>3, <1>4, <2>1
    <3>2. Left(a, i + 1) \in Int /\ Left(b, j + 1) \in Int
      BY <1>1, <1>3, <2>1
    <3> QED  BY <1>6, <2>3, <2>6, <3>1, <3>2
  <2>8. Below(e.pos + 1, a, b, z)
    <3>1. i + 1 <= Len(a) => e.pos + 1 <= a[i+1].pos
      <4> HIDE DEF e
      <4> QED  BY <1>1, <1>4, <1>5, <2>1, <2>3, SMTT(30)
    <3>2. j + 1 <= Len(b) => e.pos + 1 <= b[j+1].pos
      <4> HIDE DEF e
      <4> QED  BY <1>1, <1>4, <1>5, <2>1, <2>3, SMTT(30)
    <3> QED  BY <2>2, <3>1, <3>2 DEF Below
  <2>9. \A q \in Int : Below(q, a, b, at) => q <= e.pos
    <3>1. i <= Len(a)
      BY <1>1, <2>1
    <3> HIDE DEF e
    <3> QED  BY <1>7, <2>3, <3>1
  <2>10. MergedWell(m, g, a, b, z)
    BY <2>2, <2>5
  <2> HIDE DEF z, e
  <2> QED  BY <2>2, <2>3, <2>4, <2>7, <2>8, <2>9, <2>10, MergeOneMore
<1> QED  BY <1>9, <1>10, <1>11, <1>12

(* The merge of two sparse indices is one, of the order of both.           *)
LEMMA MergeSparseIn ==
  ASSUME NEW m, NEW a \in SparseIndices(m), NEW b \in SparseIndices(m)
  PROVE  /\ MergeSparse(a, b) \in SparseIndices(m)
         /\ SparseOrder(MergeSparse(a, b)) = SparseOrder(a) + SparseOrder(b)
<1> DEFINE g == Merged(a, b)
           T == {k \in Nat : \A at \in Places(a, b) : ToMerge(a, b, at) < k => MergedWell(m, g, a, b, at)}
<1>1. a \in Seq(Entries(m)) /\ b \in Seq(Entries(m)) /\ Len(a) \in Nat /\ Len(b) \in Nat
  BY DEF SparseIndices
<1>2. Merges(g, a, b)
  BY <1>1, MergesHolds
<1>3. \A at \in Places(a, b) : ToMerge(a, b, at) \in Nat
  BY <1>1 DEF Places, ToMerge
<1> HIDE DEF g
<1>4. 0 \in T
  BY <1>3
<1>5. ASSUME NEW k \in Nat, k \in T PROVE k + 1 \in T
  <2> SUFFICES ASSUME NEW at \in Places(a, b), ToMerge(a, b, at) < k + 1
               PROVE  MergedWell(m, g, a, b, at)
    OBVIOUS
  <2>1. \A z \in Places(a, b) : ToMerge(a, b, z) < ToMerge(a, b, at) => MergedWell(m, g, a, b, z)
    BY <1>3, <1>5
  <2> HIDE DEF T
  <2> QED  BY <1>2, <2>1, MergeStep
<1>6. Nat \subseteq T
  <2> HIDE DEF T
  <2> QED  BY <1>4, <1>5, Sums!NatInductionOn
<1>7. <<1, 1>> \in Places(a, b)
  BY <1>1 DEF Places
<1>8. MergedWell(m, g, a, b, <<1, 1>>)
  <2>1. ToMerge(a, b, <<1, 1>>) + 1 \in T /\ ToMerge(a, b, <<1, 1>>) \in Nat
    BY <1>3, <1>6, <1>7
  <2> QED  BY <1>7, <2>1
<1>9. OrderLeft(a, b, <<1, 1>>) = SparseOrder(a) + SparseOrder(b)
  BY <1>1, LeftStep DEF OrderLeft
<1> QED  BY <1>8, <1>9, MergeSparseIs DEF MergedWell, g

(* Zero is the unit of the merge.                                          *)
LEMMA MergeNothing ==
  ASSUME NEW m, NEW b \in SparseIndices(m)
  PROVE  MergeSparse(<< >>, b) = b
<1> DEFINE a == << >>
           g == Merged(a, b)
           B == Len(b)
           Rest(j) == SubSeq(b, j, B)
           T == {k \in Nat : k <= B => g[<<1, B + 1 - k>>] = Rest(B + 1 - k)}
<1>1. a \in Seq(Entries(m)) /\ Len(a) = 0 /\ b \in Seq(Entries(m)) /\ B \in Nat
  BY DEF SparseIndices
<1>2. Merges(g, a, b)
  BY <1>1, MergesHolds
<1> HIDE DEF g, a
<1>3. \A j \in 1..(B+1) : <<1, j>> \in Places(a, b) /\ g[<<1, j>>] = MergedAt(g, a, b, 1, j)
  <2> TAKE j \in 1..(B+1)
  <2>1. <<1, j>> \in Places(a, b)
    BY <1>1 DEF Places
  <2> QED  BY <1>2, <2>1 DEF Merges
<1>4. g[<<1, B + 1>>] = << >>
  <2>1. Exhausted(a, b, 1, B + 1) /\ ~FirstNext(a, b, 1, B + 1) /\ ~SecondNext(a, b, 1, B + 1)
    BY <1>1 DEF Exhausted, FirstNext, SecondNext
  <2>2. B + 1 \in 1..(B+1)
    BY <1>1
  <2> QED  BY <1>3, <2>1, <2>2 DEF MergedAt
<1>5. ASSUME NEW j \in 1..B
      PROVE  g[<<1, j>>] = <<b[j]>> \o g[<<1, j+1>>]
  <2>1. ~Exhausted(a, b, 1, j) /\ ~FirstNext(a, b, 1, j) /\ SecondNext(a, b, 1, j)
    BY <1>1 DEF Exhausted, FirstNext, SecondNext
  <2>2. j \in 1..(B+1)
    BY <1>1
  <2> QED  BY <1>3, <2>1, <2>2 DEF MergedAt
<1>6. 0 \in T
  <2>1. B + 1 - 0 = B + 1
    BY <1>1
  <2>2. Rest(B + 1) = << >>
    BY <1>1
  <2> QED  BY <1>4, <2>1, <2>2
<1>7. ASSUME NEW k \in Nat, k \in T PROVE k + 1 \in T
  <2> SUFFICES ASSUME k + 1 <= B PROVE g[<<1, B + 1 - (k+1)>>] = Rest(B + 1 - (k+1))
    BY SMTT(30)
  <2> DEFINE j == B + 1 - (k+1)
  <2>1. j \in 1..B /\ B + 1 - k = j + 1 /\ k <= B
    BY <1>1
  <2> HIDE DEF j
  <2>2. g[<<1, j+1>>] = Rest(j + 1)
    BY <1>7, <2>1
  <2>3. <<b[j]>> \o Rest(j + 1) = Rest(j)
    <3> HIDE DEF T
    <3> QED  BY <1>1, <2>1
  <2> HIDE DEF Rest
  <2>4. g[<<1, j>>] = Rest(j)
    BY <1>5, <2>1, <2>2, <2>3
  <2> QED  BY <2>4 DEF j
<1>8. B \in T
  <2> HIDE DEF T
  <2> QED  BY <1>1, <1>6, <1>7, Sums!NatInductionOn
<1>9. g[<<1, 1>>] = Rest(1)
  <2>1. B <= B /\ B + 1 - B = 1
    BY <1>1
  <2> HIDE DEF Rest
  <2> QED  BY <1>8, <2>1
<1>10. Rest(1) = b
  BY <1>1
<1> QED  BY <1>9, <1>10, MergeSparseIs DEF g, a

-----------------------------------------------------------------------------
(* Unranking appends entries: what was spent and passed stays, and the new *)
(* entry adds to both.                                                     *)
LEMMA FoldSameUpTo ==
  ASSUME NEW f, NEW g, NEW k \in Nat,
         \A t \in 1..k : f[t] = g[t], \A t \in 1..k : f[t] \in Int
  PROVE  Sums!Fold(f, 1..k) = Sums!Fold(g, 1..k)
<1>1. Sums!IsFiniteSet(1..k)
  BY FS_Interval, FiniteForSums
<1>2. Sums!ValuesOn(f, 1..k)
  BY DEF Sums!ValuesOn
<1> QED  BY <1>1, <1>2, SumsLaws, Sums!FoldSame

LEMMA AppendKeeps ==
  ASSUME NEW m \in Nat \ {0}, NEW s \in SparseIndices(m), NEW e \in Entries(m),
         Prev(s, Len(s) + 1) <= e.pos
  PROVE  /\ Append(s, e) \in SparseIndices(m)
         /\ Len(Append(s, e)) = Len(s) + 1
         /\ Append(s, e)[Len(s) + 1] = e
         /\ Prev(Append(s, e), Len(s) + 2) = e.pos + 1
         /\ Prev(Append(s, e), Len(s) + 1) = Prev(s, Len(s) + 1)
         /\ \A k \in 0..Len(s) : Spent(Append(s, e), k) = Spent(s, k)
         /\ Spent(Append(s, e), Len(s) + 1) = Spent(s, Len(s)) + e.exp
         /\ \A t \in 1..Len(s) : Append(s, e)[t] = s[t] /\ Prev(Append(s, e), t) = Prev(s, t)
<1> DEFINE c == Append(s, e)
<1>1. s \in Seq(Entries(m)) /\ DOMAIN s = 1..Len(s) /\ Len(s) \in Nat
  BY EntryIs DEF SparseIndices
<1>2. /\ c \in Seq(Entries(m)) /\ Len(c) = Len(s) + 1 /\ c[Len(s) + 1] = e
      /\ \A t \in 1..Len(s) : c[t] = s[t]
  BY <1>1
<1> HIDE DEF c
<1>3. e.pos \in 0..(m-1) /\ e.exp \in Nat \ {0}
  BY DEF Entries
<1>4. \A t \in 1..Len(s) : s[t].pos \in 0..(m-1) /\ s[t].exp \in Nat \ {0}
  BY <1>1, EntryIs
<1>5. ASSUME NEW t \in DOMAIN c, NEW u \in DOMAIN c, t < u
      PROVE  c[t].pos < c[u].pos
  <2>1. t \in 1..Len(s) /\ u \in 1..(Len(s)+1)
    BY <1>1, <1>2, <1>5
  <2>2. CASE u \in 1..Len(s)
    BY <1>1, <1>2, <1>5, <2>1, <2>2 DEF SparseIndices
  <2>3. CASE u = Len(s) + 1
    <3>1. Len(s) \in DOMAIN s /\ Len(s) + 1 # 1 /\ (Len(s) + 1) - 1 = Len(s)
      BY <1>1, <2>1
    <3>2. s[Len(s)].pos + 1 <= e.pos
      BY <3>1 DEF Prev
    <3>3. s[t].pos <= s[Len(s)].pos
      <4>1. CASE t = Len(s)
        BY <1>4, <2>1, <4>1
      <4>2. CASE t # Len(s)
        <5>1. t < Len(s) /\ t \in DOMAIN s
          BY <1>1, <2>1, <4>2
        <5>2. s[t].pos < s[Len(s)].pos
          BY <3>1, <5>1 DEF SparseIndices
        <5> QED  BY <1>4, <2>1, <3>1, <1>1, <5>2
      <4> QED  BY <4>1, <4>2
    <3>4. s[t].pos \in Int /\ s[Len(s)].pos \in Int
      BY <1>1, <1>4, <2>1, <3>1
    <3> QED  BY <1>2, <1>3, <2>1, <2>3, <3>2, <3>3, <3>4
  <2> QED  BY <1>1, <2>1, <2>2, <2>3
<1>6. c \in SparseIndices(m)
  BY <1>2, <1>5 DEF SparseIndices
<1>7. \A k \in 0..Len(s) : Spent(c, k) = Spent(s, k)
  <2> TAKE k \in 0..Len(s)
  <2>1. \A t \in 1..k : Exps(c)[t] = s[t].exp /\ Exps(s)[t] = s[t].exp /\ s[t].exp \in Int
    BY <1>1, <1>2, <1>4 DEF Exps
  <2>2. k \in Nat /\ (\A t \in 1..k : Exps(c)[t] = Exps(s)[t]) /\ (\A t \in 1..k : Exps(c)[t] \in Int)
    BY <1>1, <2>1
  <2> QED  BY <2>2, FoldSameUpTo DEF Spent
<1>8. Spent(c, Len(s) + 1) = Spent(s, Len(s)) + e.exp
  <2>1. Len(s) + 1 \in 1..Len(c) /\ (Len(s) + 1) - 1 = Len(s) /\ Len(s) \in 0..Len(s)
    BY <1>1, <1>2
  <2>2. Spent(c, Len(s) + 1) = Spent(c, Len(s)) + e.exp
    BY <1>2, <2>1, SpentStep
  <2> QED  BY <1>7, <2>1, <2>2
<1>9. /\ Prev(c, Len(s) + 2) = e.pos + 1
      /\ Prev(c, Len(s) + 1) = Prev(s, Len(s) + 1)
  <2>1. (Len(s) + 2) - 1 = Len(s) + 1 /\ Len(s) + 2 # 1 /\ (Len(s) + 1) - 1 = Len(s)
    BY <1>1
  <2>2. Len(s) + 1 # 1 => c[Len(s)] = s[Len(s)]
    BY <1>1, <1>2
  <2> QED  BY <1>2, <2>1, <2>2 DEF Prev
<1>10. \A t \in 1..Len(s) : Prev(c, t) = Prev(s, t)
  <2> TAKE t \in 1..Len(s)
  <2>1. t # 1 => t - 1 \in 1..Len(s)
    BY <1>1
  <2> QED  BY <1>2, <2>1 DEF Prev
<1> QED  BY <1>2, <1>6, <1>7, <1>8, <1>9, <1>10 DEF c

LEMMA AppendPasses ==
  ASSUME NEW m \in Nat \ {0}, NEW s \in SparseIndices(m), NEW e \in Entries(m),
         Prev(s, Len(s) + 1) <= e.pos, NEW R \in Nat, Spent(s, Len(s)) + e.exp <= R
  PROVE  LET before == R - Spent(s, Len(s))
             q == m - e.pos - 1
         IN  Passed(m, Append(s, e), R, Len(s) + 1) =
               Passed(m, s, R, Len(s))
                 + (Ways(m - Prev(s, Len(s) + 1) - 1, before) - Ways(q, before))
                 + Ways(q, (before - e.exp) - 1)
<1> DEFINE c == Append(s, e)
<1>1. s \in Seq(Entries(m)) /\ DOMAIN s = 1..Len(s) /\ Len(s) \in Nat
  BY EntryIs DEF SparseIndices
<1>2. /\ c \in SparseIndices(m) /\ Len(c) = Len(s) + 1 /\ c[Len(s) + 1] = e
      /\ Prev(c, Len(s) + 1) = Prev(s, Len(s) + 1)
      /\ \A k \in 0..Len(s) : Spent(c, k) = Spent(s, k)
      /\ Spent(c, Len(s) + 1) = Spent(s, Len(s)) + e.exp
      /\ \A t \in 1..Len(s) : c[t] = s[t] /\ Prev(c, t) = Prev(s, t)
  BY AppendKeeps
<1> HIDE DEF c
<1>3. Spent(s, Len(s)) \in Nat /\ e.exp \in Nat \ {0}
  <2>1. Len(s) \in 0..Len(s)
    BY <1>1
  <2> QED  BY <1>1, <2>1, SpentStep DEF Entries
<1>4. c \in Seq(Entries(m)) /\ DOMAIN c = 1..(Len(s)+1)
  BY <1>2, EntryIs DEF SparseIndices
<1>5. Passed(m, c, R, Len(s)) = Passed(m, s, R, Len(s))
  <2>1. \A t \in 1..Len(s) : Steps(m, c, R)[t] = Steps(m, s, R)[t]
    <3> TAKE t \in 1..Len(s)
    <3>1. t \in DOMAIN c /\ t \in DOMAIN s /\ t \in 0..Len(s) /\ t - 1 \in 0..Len(s)
      BY <1>1, <1>4
    <3>2. /\ c[t] = s[t] /\ Prev(c, t) = Prev(s, t)
          /\ Spent(c, t) = Spent(s, t) /\ Spent(c, t-1) = Spent(s, t-1)
      BY <1>2, <3>1
    <3> QED  BY <3>1, <3>2 DEF Steps, SkipRun, Higher
  <2>2. \A t \in 1..Len(s) : Steps(m, s, R)[t] \in Int
    <3> TAKE t \in 1..Len(s)
    <3> DEFINE before == R - Spent(s, t-1)
               after == R - Spent(s, t)
    <3>1. Spent(s, Len(s)) <= R
      BY <1>3
    <3>2. before \in Nat \ {0} /\ after \in Nat
      BY <3>1, PassedStep
    <3>3. /\ s[t].pos \in 0..(m-1) /\ Prev(s, t) \in 0..s[t].pos
          /\ \A r \in Nat \ {0} :
               SkipRun(m, s, t, r) = Ways(m - Prev(s, t) - 1, r) - Ways(m - s[t].pos - 1, r)
          /\ \A r \in Nat : Higher(m, s, t, r) = Ways(m - s[t].pos - 1, r - 1)
      <4>1. t \in DOMAIN s
        BY <1>1
      <4> QED  BY <4>1, StepIs
    <3>4. Steps(m, s, R)[t] = SkipRun(m, s, t, before) + Higher(m, s, t, after)
      BY <1>1 DEF Steps
    <3> HIDE DEF before, after
    <3>5. m - Prev(s, t) - 1 \in Nat /\ m - s[t].pos - 1 \in Nat /\ before \in Int /\ after - 1 \in Int
      <4>1. s[t].pos \in 0..(m-1) /\ Prev(s, t) \in 0..s[t].pos
        BY <3>3
      <4>2. m - Prev(s, t) - 1 \in Nat /\ m - s[t].pos - 1 \in Nat
        BY <4>1
      <4> QED  BY <3>2, <4>2
    <3>6. SkipRun(m, s, t, before) \in Int
      <4>1. Ways(m - Prev(s, t) - 1, before) \in Nat /\ Ways(m - s[t].pos - 1, before) \in Nat
        BY <3>5, PathsNat
      <4> QED  BY <3>2, <3>3, <4>1
    <3>7. Higher(m, s, t, after) \in Int
      <4>1. Ways(m - s[t].pos - 1, after - 1) \in Nat
        BY <3>5, PathsNat
      <4> QED  BY <3>2, <3>3, <4>1
    <3> QED  BY <3>4, <3>6, <3>7
  <2>3. \A t \in 1..Len(s) : Steps(m, c, R)[t] \in Int
    BY <2>1, <2>2
  <2> QED  BY <1>1, <2>1, <2>3, FoldSameUpTo DEF Passed
<1>6. Len(s) + 1 \in 1..Len(c) /\ (Len(s) + 1) - 1 = Len(s) /\ Spent(c, Len(c)) <= R /\ Len(s) \in 0..Len(s)
  BY <1>1, <1>2
<1> DEFINE before == R - Spent(c, (Len(s)+1)-1)
           after  == R - Spent(c, Len(s)+1)
           q      == m - c[Len(s)+1].pos - 1
<1>7. Passed(m, c, R, Len(s)+1) = Passed(m, c, R, (Len(s)+1)-1)
        + (Ways(m - Prev(c, Len(s)+1) - 1, before) - Ways(q, before)) + Ways(q, after - 1)
  BY <1>2, <1>6, PassedStep, ZenonT(90)
<1>8. /\ before = R - Spent(s, Len(s)) /\ after = (R - Spent(s, Len(s))) - e.exp
      /\ q = m - e.pos - 1
  BY <1>2, <1>3, <1>6
<1> HIDE DEF before, after, q
<1> QED  BY <1>2, <1>5, <1>6, <1>7, <1>8 DEF c

-----------------------------------------------------------------------------
(* The closed forms of the search for the next position and its exponent.  *)
LEMMA SuffixIs ==
  ASSUME NEW m \in Nat \ {0}, NEW q \in 0..(m-1), NEW R \in Nat
  PROVE  /\ Binom(m - q + R - 1, R) = Ways(m - q - 1, R)
         /\ CompositionCount(m - q, R) = Ways(m - q - 1, R)
         /\ Ways(m - q - 1, R) \in Nat
<1>1. m - q + R - 1 \in Int /\ 0 <= R /\ R <= m - q + R - 1 /\ (m - q + R - 1) - R = m - q - 1
  OBVIOUS
<1>2. m - q \in Nat /\ m - q > 0 /\ m - q - 1 \in Nat /\ (m - q) - 1 = m - q - 1
  OBVIOUS
<1>3. Binom(m - q + R - 1, R) = Ways((m - q + R - 1) - R, R)
  BY <1>1, BinomIs
<1>4. CompositionCount(m - q, R) = Ways((m - q) - 1, R)
  BY <1>2, CompositionsAre
<1>5. Ways(m - q - 1, R) \in Nat
  BY <1>2, PathsNat
<1> QED  BY <1>1, <1>2, <1>3, <1>4, <1>5

(* The indices with their first nonzero entry at a position.               *)
LEMMA FirstAt ==
  ASSUME NEW q \in Nat, NEW R \in Nat \ {0}
  PROVE  /\ q > 0 => Ways(q, R) - Ways(q - 1, R) = Ways(q, R - 1)
         /\ q = 0 => Ways(q, R) = 1 /\ Ways(q, R - 1) = 1
<1>1. R - 1 \in Nat /\ R \in Nat
  OBVIOUS
<1>2. q = 0 => Ways(q, R) = 1 /\ Ways(q, R - 1) = 1
  BY <1>1, PathsFirstRow
<1>3. q > 0 => Ways(q, R) - Ways(q - 1, R) = Ways(q, R - 1)
  <2> SUFFICES ASSUME q > 0 PROVE Ways(q, R) - Ways(q - 1, R) = Ways(q, R - 1)
    OBVIOUS
  <2>1. q - 1 \in Nat /\ (q - 1) + 1 = q
    OBVIOUS
  <2>2. Ways((q - 1) + 1, R) = Ways((q - 1) + 1, R - 1) + Ways(q - 1, R)
    BY <2>1, PathsPascal
  <2>3. Ways(q, R - 1) \in Nat /\ Ways(q - 1, R) \in Nat
    <3>1. R - 1 \in Int /\ R \in Int
      OBVIOUS
    <3> QED  BY <2>1, <3>1, PathsNat
  <2> QED  BY <2>1, <2>2, <2>3
<1> QED  BY <1>2, <1>3

(* An index being decoded.  The entries found account for the indices of   *)
(* the band passed over, and c counts on from there; Zeros(m, d, q) are    *)
(* those with zeros from p to the position before q.                       *)
DecodeStates(m, n) ==
  [remaining : 0..n, c : Nat, p : 0..m, lo : 0..m, hi : 0..m, value : 0..n, s : SparseIndices(m)]

Decoded(R, d) ==
  /\ d.p = Prev(d.s, Len(d.s) + 1)
  /\ Spent(d.s, Len(d.s)) + d.remaining = R

Zeros(m, d, q) == Ways(m - d.p - 1, d.remaining) - Ways(m - q - 1, d.remaining)

Searching(m, R, local, d) ==
  /\ Passed(m, d.s, R, Len(d.s)) + d.c = local
  /\ d.c < CompositionCount(m - d.p, d.remaining)
  /\ d.remaining > 0 => /\ d.p <= d.lo /\ d.lo <= d.hi /\ d.hi <= m - 1
                        /\ Zeros(m, d, d.lo) <= d.c
                        /\ d.hi < m - 1 => d.c < Zeros(m, d, d.hi + 1)

(* The exponents above `value` at position lo are passed over; that at     *)
(* least one remains makes exponent 0 unreachable.                         *)
Above(m, d) == Ways(m - d.lo - 1, d.remaining - d.value - 1)

Lowering(m, R, local, d) ==
  /\ d.remaining > 0 /\ d.p <= d.lo /\ d.lo <= m - 1 /\ d.value \in 1..d.remaining
  /\ Passed(m, d.s, R, Len(d.s)) + Zeros(m, d, d.lo) + Above(m, d) + d.c = local
  /\ Above(m, d) + d.c < Ways(m - d.lo - 1, d.remaining - 1)

LEMMA DecodeStateIs ==
  ASSUME NEW m, NEW n, NEW d \in DecodeStates(m, n)
  PROVE  /\ d.remaining \in 0..n /\ d.c \in Nat /\ d.p \in 0..m /\ d.lo \in 0..m /\ d.hi \in 0..m
         /\ d.value \in 0..n /\ d.s \in SparseIndices(m)
         /\ d.s \in Seq(Entries(m)) /\ Len(d.s) \in Nat
BY DEF DecodeStates, SparseIndices

LEMMA SearchStarts ==
  ASSUME NEW m \in Nat \ {0}, NEW n \in Nat, NEW R \in 0..n,
         NEW local \in 0..CompositionCount(m, R), local < CompositionCount(m, R), NEW d,
         d = [remaining |-> R, c |-> local, p |-> 0, lo |-> 0, hi |-> m - 1, value |-> 0, s |-> << >>]
  PROVE  d \in DecodeStates(m, n) /\ Decoded(R, d) /\ Searching(m, R, local, d)
<1>1. /\ d.remaining = R /\ d.c = local /\ d.p = 0 /\ d.lo = 0 /\ d.hi = m - 1
      /\ d.value = 0 /\ d.s = << >>
  OBVIOUS
<1>2. R \in Nat /\ CompositionCount(m, R) \in Nat
  BY CompositionsAre
<1>3. << >> \in SparseIndices(m) /\ SparseOrder(<< >>) = 0 /\ << >> \in Seq(Entries(m)) /\ Len(<< >>) = 0
  BY Nothing
<1>4. Spent(<< >>, 0) = 0
  BY <1>3, SpentStep
<1>5. d \in DecodeStates(m, n)
  <2>1. local \in Nat /\ 0 \in 0..m /\ m - 1 \in 0..m /\ 0 \in 0..n
    BY <1>2
  <2> QED  BY <1>3, <2>1 DEF DecodeStates
<1>6. Decoded(R, d)
  <2>1. Prev(<< >>, Len(<< >>) + 1) = 0
    BY <1>3 DEF Prev
  <2> QED  BY <1>1, <1>2, <1>3, <1>4, <2>1 DEF Decoded
<1>7. Searching(m, R, local, d)
  <2>1. Passed(m, << >>, R, 0) = 0
    <3>1. Spent(<< >>, Len(<< >>)) <= R
      BY <1>2, <1>3, <1>4
    <3> QED  BY <1>2, <1>3, <3>1, PassedStep
  <2>2. Zeros(m, d, 0) = 0
    <3>1. 0 \in 0..(m-1)
      OBVIOUS
    <3>2. Ways(m - 0 - 1, R) \in Nat
      BY <1>2, <3>1, SuffixIs
    <3> QED  BY <1>1, <3>2 DEF Zeros
  <2>3. local \in Nat /\ 0 <= m - 1 /\ ~(m - 1 < m - 1) /\ m - 0 = m
    BY <1>2
  <2> QED  BY <1>1, <1>3, <2>1, <2>2, <2>3 DEF Searching
<1> QED  BY <1>5, <1>6, <1>7

(* One step of the bisection: either bound moves to the middle.            *)
LEMMA SearchNarrows ==
  ASSUME NEW m \in Nat \ {0}, NEW n \in Nat, NEW R \in 0..n, NEW local \in Nat,
         NEW d \in DecodeStates(m, n), Decoded(R, d), Searching(m, R, local, d),
         d.remaining > 0, d.lo < d.hi, NEW mid, mid = (d.lo + d.hi + 1) \div 2,
         NEW e, e = IF Zeros(m, d, mid) <= d.c THEN [d EXCEPT !.lo = mid] ELSE [d EXCEPT !.hi = mid - 1]
  PROVE  /\ mid \in d.p..(m-1)
         /\ e \in DecodeStates(m, n) /\ Decoded(R, e) /\ Searching(m, R, local, e)
<1>1. /\ d.remaining \in 0..n /\ d.c \in Nat /\ d.p \in 0..m /\ d.lo \in 0..m /\ d.hi \in 0..m
      /\ d.value \in 0..n /\ d.s \in SparseIndices(m)
  BY DecodeStateIs
<1>2. d.p <= d.lo /\ d.hi <= m - 1
  BY DEF Searching
<1>3. mid \in Int /\ d.lo + 1 <= mid /\ mid <= d.hi
  BY <1>1
<1>4. Ways(m - d.p - 1, d.remaining) \in Nat /\ Ways(m - mid - 1, d.remaining) \in Nat
  <2>1. d.p \in 0..(m-1) /\ mid \in 0..(m-1) /\ d.remaining \in Nat
    BY <1>1, <1>2, <1>3
  <2> QED  BY <2>1, SuffixIs
<1>5. Zeros(m, d, mid) \in Int
  BY <1>4 DEF Zeros
<1>6. CASE Zeros(m, d, mid) <= d.c
  <2>1. e = [d EXCEPT !.lo = mid]
    BY <1>6
  <2>2. /\ e.remaining = d.remaining /\ e.c = d.c /\ e.p = d.p /\ e.lo = mid /\ e.hi = d.hi
        /\ e.value = d.value /\ e.s = d.s
    BY <2>1 DEF DecodeStates
  <2>3. e \in DecodeStates(m, n)
    <3>1. mid \in 0..m
      BY <1>1, <1>2, <1>3
    <3> QED  BY <2>1, <3>1 DEF DecodeStates
  <2>4. Decoded(R, e)
    BY <2>2 DEF Decoded
  <2>5. Zeros(m, e, mid) = Zeros(m, d, mid) /\ Zeros(m, e, d.hi + 1) = Zeros(m, d, d.hi + 1)
    BY <2>2 DEF Zeros
  <2>6. Searching(m, R, local, e)
    <3>1. d.p <= mid
      BY <1>1, <1>2, <1>3
    <3> QED  BY <1>3, <1>6, <2>2, <2>5, <3>1 DEF Searching
  <2> QED  BY <1>1, <1>2, <1>3, <2>3, <2>4, <2>6
<1>7. CASE ~(Zeros(m, d, mid) <= d.c)
  <2>1. e = [d EXCEPT !.hi = mid - 1]
    BY <1>7
  <2>2. /\ e.remaining = d.remaining /\ e.c = d.c /\ e.p = d.p /\ e.lo = d.lo /\ e.hi = mid - 1
        /\ e.value = d.value /\ e.s = d.s
    BY <2>1 DEF DecodeStates
  <2>3. e \in DecodeStates(m, n)
    <3>1. mid - 1 \in 0..m
      BY <1>1, <1>2, <1>3
    <3> QED  BY <2>1, <3>1 DEF DecodeStates
  <2>4. Decoded(R, e)
    BY <2>2 DEF Decoded
  <2>5. Zeros(m, e, d.lo) = Zeros(m, d, d.lo) /\ Zeros(m, e, (mid - 1) + 1) = Zeros(m, d, mid)
    <3>1. (mid - 1) + 1 = mid
      BY <1>3
    <3> QED  BY <2>2, <3>1 DEF Zeros
  <2>6. Searching(m, R, local, e)
    <3>1. d.lo <= mid - 1 /\ mid - 1 <= m - 1 /\ d.c < Zeros(m, d, mid)
      BY <1>1, <1>2, <1>3, <1>5, <1>7
    <3> QED  BY <2>2, <2>5, <3>1 DEF Searching
  <2> QED  BY <1>1, <1>2, <1>3, <2>3, <2>4, <2>6
<1> QED  BY <1>6, <1>7

(* The search ends: lo is the next nonzero position, and its exponent is   *)
(* looked for from the largest down.                                       *)
LEMMA SearchEnds ==
  ASSUME NEW m \in Nat \ {0}, NEW n \in Nat, NEW R \in 0..n, NEW local \in Nat,
         NEW d \in DecodeStates(m, n), Decoded(R, d), Searching(m, R, local, d),
         d.remaining > 0, d.lo >= d.hi,
         NEW e, e = [d EXCEPT !.c = d.c - Zeros(m, d, d.lo), !.value = d.remaining]
  PROVE  /\ d.lo \in d.p..(m-1)
         /\ e \in DecodeStates(m, n) /\ Decoded(R, e) /\ Lowering(m, R, local, e)
<1>1. /\ d.remaining \in 0..n /\ d.c \in Nat /\ d.p \in 0..m /\ d.lo \in 0..m /\ d.hi \in 0..m
      /\ d.value \in 0..n /\ d.s \in SparseIndices(m) /\ d.s \in Seq(Entries(m)) /\ Len(d.s) \in Nat
  BY DecodeStateIs
<1>2. d.p <= d.lo /\ d.lo = d.hi /\ d.lo <= m - 1 /\ Zeros(m, d, d.lo) <= d.c
  BY <1>1 DEF Searching
<1> DEFINE r == d.remaining
           q == m - d.lo - 1
           P == Ways(m - d.p - 1, r)
<1>3. r \in Nat \ {0} /\ q \in Nat /\ d.p \in 0..(m-1) /\ d.lo \in 0..(m-1)
  BY <1>1, <1>2, SMTT(30)
<1>4. P \in Nat /\ Ways(q, r) \in Nat /\ CompositionCount(m - d.p, r) = P
  BY <1>3, SuffixIs
<1>5. Zeros(m, d, d.lo) = P - Ways(q, r)
  BY DEF Zeros
<1>6. d.c < P
  BY <1>4 DEF Searching
<1>7. d.c - Zeros(m, d, d.lo) < Ways(q, r - 1) /\ Ways(q, r - 1) \in Nat
  <2>1. Ways(q, r - 1) \in Nat
    <3>1. r - 1 \in Int
      BY <1>3
    <3> HIDE DEF q, r
    <3> QED  BY <1>3, <3>1, PathsNat
  <2>2. CASE d.lo = m - 1
    <3>1. q = 0
      BY <1>3, <2>2
    <3>2. Ways(q, r) = 1 /\ Ways(q, r - 1) = 1
      <4> HIDE DEF q, r
      <4> QED  BY <1>3, <3>1, FirstAt
    <3> HIDE DEF q, r, P
    <3> QED  BY <1>1, <1>4, <1>5, <1>6, <2>1, <3>2
  <2>3. CASE d.lo # m - 1
    <3>1. d.lo < m - 1 /\ m - (d.lo + 1) - 1 = q - 1 /\ q > 0 /\ q - 1 \in Nat
      BY <1>3, <2>3
    <3>2. d.c < Zeros(m, d, d.lo + 1)
      BY <1>2, <3>1 DEF Searching
    <3>3. Zeros(m, d, d.lo + 1) = P - Ways(q - 1, r)
      BY <3>1 DEF Zeros
    <3>4. Ways(q, r) - Ways(q - 1, r) = Ways(q, r - 1)
      <4> HIDE DEF q, r
      <4> QED  BY <1>3, <3>1, FirstAt
    <3>5. Ways(q - 1, r) \in Nat
      <4>1. r \in Int
        BY <1>3
      <4> HIDE DEF q, r
      <4> QED  BY <3>1, <4>1, PathsNat
    <3> HIDE DEF q, r, P
    <3> QED  BY <1>1, <1>4, <1>5, <2>1, <3>2, <3>3, <3>4, <3>5, SMTT(90)
  <2> QED  BY <2>1, <2>2, <2>3
<1>8. d.c - Zeros(m, d, d.lo) \in Nat
  <2> HIDE DEF P, q, r
  <2> QED  BY <1>1, <1>2, <1>4, <1>5, SMTT(30)
<1>9. /\ e.remaining = r /\ e.c = d.c - Zeros(m, d, d.lo) /\ e.p = d.p /\ e.lo = d.lo /\ e.hi = d.hi
      /\ e.value = r /\ e.s = d.s
  BY DEF DecodeStates
<1>10. e \in DecodeStates(m, n)
  BY <1>1, <1>8 DEF DecodeStates
<1>11. Decoded(R, e)
  BY <1>9 DEF Decoded
<1>12. Above(m, e) = 0
  <2>1. r - r - 1 < 0
    BY <1>3
  <2> QED  BY <1>9, <2>1 DEF Above, Ways
<1>13. Zeros(m, e, d.lo) = Zeros(m, d, d.lo)
  BY <1>9 DEF Zeros
<1>14. Passed(m, d.s, R, Len(d.s)) + d.c = local /\ Passed(m, d.s, R, Len(d.s)) \in Int
  <2>1. Spent(d.s, Len(d.s)) <= R /\ R \in Nat /\ Len(d.s) \in 0..Len(d.s)
    <3>1. Len(d.s) \in 0..Len(d.s)
      BY <1>1
    <3>2. Spent(d.s, Len(d.s)) \in Nat
      BY <1>1, <3>1, SpentStep
    <3> QED  BY <1>1, <3>1, <3>2, SMTT(30) DEF Decoded
  <2> QED  BY <1>1, <2>1, PassedStep DEF Searching
<1>15. Lowering(m, R, local, e)
  <2> DEFINE gone == Passed(m, d.s, R, Len(d.s))
             zeros == Zeros(m, d, d.lo)
  <2>1. gone + zeros + 0 + (d.c - zeros) = local
    <3>1. zeros \in Int /\ gone \in Int /\ gone + d.c = local
      <4> HIDE DEF P, q
      <4> QED  BY <1>4, <1>5, <1>14
    <3> HIDE DEF gone, zeros
    <3> QED  BY <1>1, <3>1
  <2>2. 0 + (d.c - zeros) < Ways(q, r - 1)
    <3> HIDE DEF zeros, q, r
    <3> QED  BY <1>7, <1>8 DEF zeros
  <2>3. r > 0 /\ r \in 1..r
    BY <1>3
  <2> QED  BY <1>2, <1>9, <1>12, <1>13, <2>1, <2>2, <2>3 DEF Lowering
<1> QED  BY <1>1, <1>2, <1>3, <1>10, <1>11, <1>15

(* One exponent less.  The exponents above it are passed over, and at least*)
(* exponent 1 is left.                                                     *)
LEMMA LoweringKeeps ==
  ASSUME NEW m \in Nat \ {0}, NEW n \in Nat, NEW R \in 0..n, NEW local \in Nat,
         NEW d \in DecodeStates(m, n), Decoded(R, d), Lowering(m, R, local, d),
         NEW block, block = CompositionCount(m - d.lo - 1, d.remaining - d.value), d.c >= block,
         NEW e, e = [d EXCEPT !.c = d.c - block, !.value = d.value - 1]
  PROVE  e \in DecodeStates(m, n) /\ Decoded(R, e) /\ Lowering(m, R, local, e)
<1>1. /\ d.remaining \in 0..n /\ d.c \in Nat /\ d.p \in 0..m /\ d.lo \in 0..m /\ d.hi \in 0..m
      /\ d.value \in 0..n /\ d.s \in SparseIndices(m) /\ d.s \in Seq(Entries(m)) /\ Len(d.s) \in Nat
  BY DecodeStateIs
<1> DEFINE r == d.remaining
           v == d.value
           q == m - d.lo - 1
<1>2. d.p <= d.lo /\ d.lo <= m - 1 /\ v \in 1..r /\ q \in Nat /\ r \in Nat /\ r - v \in Nat /\ r - v - 1 \in Int
  BY <1>1, SMTT(90) DEF Lowering
<1>3. block = Ways(q, r - v) - Ways(q, r - v - 1) /\ block \in Nat
  <2> HIDE DEF q, r, v
  <2>1. block = CompositionCount(q, r - v)
    BY DEF q, r, v
  <2> QED  BY <1>2, <2>1, CompositionsAre
<1>4. Ways(q, r - v) \in Nat /\ Ways(q, r - v - 1) \in Nat /\ Ways(q, r - 1) \in Nat
  <2>1. r - v \in Int /\ r - v - 1 \in Int /\ r - 1 \in Int
    BY <1>2
  <2> HIDE DEF q, r, v
  <2> QED  BY <1>2, <2>1, PathsNat
<1>5. Above(m, d) = Ways(q, r - v - 1) /\ Above(m, d) + d.c < Ways(q, r - 1)
  BY DEF Above, Lowering
<1>6. v # 1
  <2>1. v = 1 => Ways(q, r - v) = Ways(q, r - 1)
    OBVIOUS
  <2> HIDE DEF q, r, v
  <2> QED  BY <1>1, <1>3, <1>4, <1>5, <2>1, SMTT(30)
<1>7. /\ e.remaining = r /\ e.c = d.c - block /\ e.p = d.p /\ e.lo = d.lo /\ e.hi = d.hi
      /\ e.value = v - 1 /\ e.s = d.s
  BY DEF DecodeStates
<1>8. e \in DecodeStates(m, n)
  <2>1. d.c - block \in Nat
    BY <1>1, <1>3, SMTT(30)
  <2>2. v - 1 \in 0..n
    BY <1>1, <1>2, SMTT(90)
  <2> QED  BY <1>1, <2>1, <2>2 DEF DecodeStates
<1>9. Decoded(R, e)
  BY <1>7 DEF Decoded
<1>10. Above(m, e) = Ways(q, r - v)
  <2>1. r - (v - 1) - 1 = r - v
    BY <1>2
  <2> QED  BY <1>7, <2>1 DEF Above
<1>11. Zeros(m, e, d.lo) = Zeros(m, d, d.lo)
  BY <1>7 DEF Zeros
<1>12. Above(m, e) + e.c = Above(m, d) + d.c
  <2> HIDE DEF q, r, v
  <2> QED  BY <1>1, <1>3, <1>4, <1>5, <1>7, <1>10, SMTT(90)
<1>13. Lowering(m, R, local, e)
  <2> DEFINE x == Passed(m, d.s, R, Len(d.s))
             y == Zeros(m, d, d.lo)
  <2>1. x + y + Above(m, d) + d.c = local
    BY DEF Lowering
  <2>2. x + y \in Int
    <3>1. x \in Int
      <4>1. Len(d.s) \in 0..Len(d.s)
        BY <1>1
      <4>2. Spent(d.s, Len(d.s)) \in Nat
        BY <1>1, <4>1, SpentStep
      <4>3. Spent(d.s, Len(d.s)) <= R /\ R \in Nat
        BY <1>1, <4>2, SMTT(30) DEF Decoded
      <4> QED  BY <1>1, <4>1, <4>3, PassedStep
    <3>2. y \in Int
      <4>1. d.p \in 0..(m-1) /\ d.lo \in 0..(m-1)
        BY <1>1, <1>2, SMTT(30)
      <4>2. Ways(m - d.p - 1, d.remaining) \in Nat /\ Ways(m - d.lo - 1, d.remaining) \in Nat
        BY <1>2, <4>1, SuffixIs
      <4> QED  BY <4>2 DEF Zeros
    <3> HIDE DEF x, y
    <3> QED  BY <3>1, <3>2
  <2>3. x + y + Above(m, e) + e.c = local
    <3> DEFINE z == x + y
    <3>1. z + Above(m, d) + d.c = local /\ z \in Int
      BY <2>1, <2>2
    <3>2. Above(m, d) \in Nat /\ Above(m, e) \in Nat /\ e.c \in Int
      <4>1. d.c - block \in Int
        BY <1>1, <1>3, SMTT(30)
      <4> HIDE DEF q, r, v
      <4> QED  BY <1>4, <1>5, <1>7, <1>10, <4>1
    <3> HIDE DEF z, q, r, v
    <3>3. z + Above(m, e) + e.c = local
      <4>1. \A a, b, f, g \in Int : a + f = b + g => z + a + f = z + b + g
        BY <3>1
      <4>2. d.c \in Int
        BY <1>1
      <4> QED  BY <1>12, <3>1, <3>2, <4>1, <4>2
    <3> QED  BY <3>3 DEF z
  <2>4. v - 1 \in 1..r /\ r > 0
    BY <1>2, <1>6
  <2>5. Above(m, e) + e.c < Ways(q, r - 1)
    BY <1>5, <1>12
  <2> QED  BY <1>2, <1>7, <1>11, <2>3, <2>4, <2>5 DEF Lowering
<1> QED  BY <1>8, <1>9, <1>13

(* The exponent is found: the entry is appended and the search starts over *)
(* behind it.                                                              *)
LEMMA EntryFound ==
  ASSUME NEW m \in Nat \ {0}, NEW n \in Nat, NEW R \in 0..n, NEW local \in Nat,
         NEW d \in DecodeStates(m, n), Decoded(R, d), Lowering(m, R, local, d),
         d.c < CompositionCount(m - d.lo - 1, d.remaining - d.value),
         NEW e, e = [d EXCEPT !.s = Append(d.s, [pos |-> d.lo, exp |-> d.value]),
                              !.remaining = d.remaining - d.value,
                              !.p = d.lo + 1, !.lo = d.lo + 1, !.hi = m - 1]
  PROVE  e \in DecodeStates(m, n) /\ Decoded(R, e) /\ Searching(m, R, local, e)
<1>1. /\ d.remaining \in 0..n /\ d.c \in Nat /\ d.p \in 0..m /\ d.lo \in 0..m /\ d.hi \in 0..m
      /\ d.value \in 0..n /\ d.s \in SparseIndices(m) /\ d.s \in Seq(Entries(m)) /\ Len(d.s) \in Nat
  BY DecodeStateIs
<1> DEFINE r == d.remaining
           v == d.value
           q == m - d.lo - 1
           x == [pos |-> d.lo, exp |-> d.value]
           t == Append(d.s, x)
<1>2. d.p <= d.lo /\ d.lo <= m - 1 /\ v \in 1..r /\ q \in Nat /\ r \in Nat /\ r - v \in Nat /\ r - v - 1 \in Int
  <2>1. d.p <= d.lo /\ d.lo <= m - 1 /\ v \in 1..r
    BY ZenonT(30) DEF Lowering
  <2>2. q \in Nat /\ r \in Nat
    <3>1. m \in Int /\ d.lo \in Int /\ d.lo <= m - 1 /\ d.remaining \in Nat
      BY <1>1, <2>1
    <3>2. m - d.lo - 1 \in Nat
      BY <3>1
    <3> QED  BY <3>1, <3>2
  <2> HIDE DEF r, v, q
  <2> QED  BY <2>1, <2>2
<1>3. /\ e.remaining = r - v /\ e.c = d.c /\ e.p = d.lo + 1 /\ e.lo = d.lo + 1 /\ e.hi = m - 1
      /\ e.value = v /\ e.s = t
  BY DEF DecodeStates
<1>4. x \in Entries(m) /\ x.pos = d.lo /\ x.exp = v
  BY <1>1, <1>2 DEF Entries
<1>5. d.p = Prev(d.s, Len(d.s) + 1) /\ Spent(d.s, Len(d.s)) + r = R
  BY DEF Decoded
<1>6. Spent(d.s, Len(d.s)) \in Nat /\ Len(d.s) \in 0..Len(d.s)
  <2>1. Len(d.s) \in 0..Len(d.s)
    BY <1>1
  <2> QED  BY <1>1, <2>1, SpentStep
<1>7. /\ t \in SparseIndices(m) /\ Len(t) = Len(d.s) + 1
      /\ Prev(t, Len(d.s) + 2) = d.lo + 1
      /\ Spent(t, Len(d.s) + 1) = Spent(d.s, Len(d.s)) + v
  <2>1. Prev(d.s, Len(d.s) + 1) <= x.pos
    BY <1>2, <1>4, <1>5
  <2> HIDE DEF x, v, r, q
  <2>2. /\ t \in SparseIndices(m) /\ Len(t) = Len(d.s) + 1
        /\ Prev(t, Len(d.s) + 2) = x.pos + 1
        /\ Spent(t, Len(d.s) + 1) = Spent(d.s, Len(d.s)) + x.exp
    BY <1>1, <1>4, <2>1, AppendKeeps, SMTT(90)
  <2> QED  BY <1>4, <2>2
<1>8. e \in DecodeStates(m, n)
  <2>1. r - v \in 0..n /\ d.lo + 1 \in 0..m /\ m - 1 \in 0..m
    <3>1. d.lo + 1 \in 0..m /\ m - 1 \in 0..m
      <4>1. d.lo \in Nat
        BY <1>1
      <4>2. d.lo <= m - 1
        BY <1>2
      <4> QED  BY <4>1, <4>2
    <3>2. r \in 0..n
      BY <1>1
    <3> HIDE DEF r, v, q
    <3> QED  BY <1>2, <3>1, <3>2
  <2>2. e = [remaining |-> r - v, c |-> d.c, p |-> d.lo + 1, lo |-> d.lo + 1, hi |-> m - 1, value |-> v, s |-> t]
    BY DEF DecodeStates
  <2>3. v \in 0..n /\ d.c \in Nat
    BY <1>1
  <2> HIDE DEF t, r, v
  <2> QED  BY <1>7, <2>1, <2>2, <2>3 DEF DecodeStates
<1>9. Decoded(R, e)
  <2>1. Len(t) + 1 = Len(d.s) + 2
    BY <1>1, <1>7
  <2>2. (Spent(d.s, Len(d.s)) + v) + (r - v) = R
    <3> HIDE DEF r, v, q
    <3> QED  BY <1>2, <1>5, <1>6
  <2> HIDE DEF t, v, r
  <2> QED  BY <1>3, <1>7, <2>1, <2>2 DEF Decoded
<1>10. Passed(m, t, R, Len(t)) = Passed(m, d.s, R, Len(d.s)) + Zeros(m, d, d.lo) + Above(m, d)
  <2> DEFINE before == R - Spent(d.s, Len(d.s))
  <2>1. before = r /\ R \in Nat /\ Spent(d.s, Len(d.s)) + v <= R
    <3> HIDE DEF r, v, q
    <3> QED  BY <1>2, <1>5, <1>6, SMTT(30)
  <2>2. Passed(m, t, R, Len(d.s) + 1) =
          Passed(m, d.s, R, Len(d.s))
            + (Ways(m - Prev(d.s, Len(d.s) + 1) - 1, before) - Ways(m - x.pos - 1, before))
            + Ways(m - x.pos - 1, (before - x.exp) - 1)
    <3> HIDE DEF x, v, r, q, before
    <3>1. Prev(d.s, Len(d.s) + 1) <= x.pos /\ Spent(d.s, Len(d.s)) + x.exp <= R
      BY <1>2, <1>4, <1>5, <2>1
    <3>2. Passed(m, Append(d.s, x), R, Len(d.s) + 1) =
            Passed(m, d.s, R, Len(d.s))
              + (Ways(m - Prev(d.s, Len(d.s) + 1) - 1, R - Spent(d.s, Len(d.s)))
                   - Ways(m - x.pos - 1, R - Spent(d.s, Len(d.s))))
              + Ways(m - x.pos - 1, ((R - Spent(d.s, Len(d.s))) - x.exp) - 1)
      <4>1. d.s \in SparseIndices(m) /\ x \in Entries(m) /\ R \in Nat
        BY <1>1, <1>4, <2>1
      <4> QED  BY <3>1, <4>1, AppendPasses, ZenonT(30)
    <3> QED  BY <3>2 DEF before
  <2> HIDE DEF before, t, x
  <2> QED  BY <1>4, <1>5, <1>7, <2>1, <2>2 DEF Zeros, Above
<1>11. Passed(m, t, R, Len(t)) + d.c = local
  <2> HIDE DEF t
  <2> QED  BY <1>10 DEF Lowering
<1>12. m - (d.lo + 1) = q
  BY <1>1
<1>13. r - v > 0 => d.lo + 1 <= m - 1
  <2> SUFFICES ASSUME r - v > 0, ~(d.lo + 1 <= m - 1) PROVE FALSE
    OBVIOUS
  <2>1. q = 0
    BY <1>1, <1>2, SMTT(30)
  <2>2. CompositionCount(0, r - v) = 0
    <3>1. r - v \in Nat \ {0}
      BY <1>2
    <3> HIDE DEF r, v
    <3> QED  BY <3>1, OneComposition
  <2>3. d.c < CompositionCount(q, r - v)
    OBVIOUS
  <2> HIDE DEF q, r, v
  <2>4. d.c \in Nat
    BY <1>1
  <2> HIDE DEF t
  <2> QED  BY <2>1, <2>2, <2>3, <2>4, SMTT(30)
<1>14. d.lo + 1 <= m - 1 => Zeros(m, e, d.lo + 1) = 0
  <2> SUFFICES ASSUME d.lo + 1 <= m - 1 PROVE Zeros(m, e, d.lo + 1) = 0
    OBVIOUS
  <2>1. d.lo + 1 \in 0..(m-1)
    BY <1>1, SMTT(30)
  <2>2. Ways(m - (d.lo + 1) - 1, r - v) \in Nat
    <3> HIDE DEF r, v
    <3> QED  BY <1>2, <2>1, SuffixIs
  <2> QED  BY <1>3, <2>2 DEF Zeros
<1>15. Searching(m, R, local, e)
  <2>1. d.lo + 1 <= d.lo + 1 /\ ~(m - 1 < m - 1) /\ m - 1 <= m - 1 /\ 0 <= d.c
    BY <1>1, SMTT(30)
  <2>2. d.c < CompositionCount(q, r - v)
    OBVIOUS
  <2> HIDE DEF t, r, v, q
  <2> QED  BY <1>3, <1>11, <1>12, <1>13, <1>14, <2>1, <2>2 DEF Searching
<1> QED  BY <1>8, <1>9, <1>15

(* Nothing remains: the index decoded is the one wanted.                   *)
LEMMA IndexDone ==
  ASSUME NEW m \in Nat \ {0}, NEW n \in Nat, NEW R \in 0..n, NEW local \in Nat,
         NEW d \in DecodeStates(m, n), Decoded(R, d), Searching(m, R, local, d),
         d.remaining = 0
  PROVE  /\ d.s \in SparseIndices(m) /\ SparseOrder(d.s) = R
         /\ SparseRank(m, d.s) = LowerOrders(m, R) + local
<1>1. /\ d.c \in Nat /\ d.p \in 0..m /\ d.s \in SparseIndices(m) /\ d.s \in Seq(Entries(m)) /\ Len(d.s) \in Nat
  BY DecodeStateIs
<1>2. Spent(d.s, Len(d.s)) \in Nat /\ Len(d.s) \in 0..Len(d.s) /\ SparseOrder(d.s) = Spent(d.s, Len(d.s))
  <2>1. Len(d.s) \in 0..Len(d.s)
    BY <1>1
  <2> QED  BY <1>1, <2>1, SpentStep
<1>3. SparseOrder(d.s) = R
  BY <1>2 DEF Decoded
<1>4. d.c = 0
  <2>1. m - d.p \in Nat
    BY <1>1
  <2>2. CompositionCount(m - d.p, 0) = 1
    BY <2>1, OneComposition
  <2> QED  BY <1>1, <2>2 DEF Searching
<1>5. Passed(m, d.s, R, Len(d.s)) = local
  <2>1. Passed(m, d.s, R, Len(d.s)) \in Int
    <3>1. R \in Nat /\ Spent(d.s, Len(d.s)) <= R
      BY <1>2, <1>3
    <3> QED  BY <1>1, <1>2, <3>1, PassedStep
  <2> QED  BY <1>4, <2>1 DEF Searching
<1>6. SparseRank(m, d.s) = LowerOrders(m, SparseOrder(d.s)) + Passed(m, d.s, SparseOrder(d.s), Len(d.s))
  BY <1>1, SparseRankIs
<1> QED  BY <1>1, <1>3, <1>5, <1>6


-----------------------------------------------------------------------------
(* Two indices of the same order with the same place in the band are the   *)
(* same.  They pass over the same as long as they share their entries.     *)
Agree(a, b, k) == \A t \in 1..k : a[t] = b[t]

LEMMA AgreeingPass ==
  ASSUME NEW m \in Nat \ {0}, NEW a \in SparseIndices(m), NEW b \in SparseIndices(m), NEW R \in Nat,
         Spent(a, Len(a)) = R, NEW k \in Nat, k <= Len(a), k <= Len(b), Agree(a, b, k)
  PROVE  /\ Spent(a, k) = Spent(b, k)
         /\ Passed(m, a, R, k) = Passed(m, b, R, k)
         /\ Prev(a, k + 1) = Prev(b, k + 1)
<1>1. /\ a \in Seq(Entries(m)) /\ DOMAIN a = 1..Len(a) /\ Len(a) \in Nat
      /\ b \in Seq(Entries(m)) /\ DOMAIN b = 1..Len(b) /\ Len(b) \in Nat
  BY EntryIs DEF SparseIndices
<1>2. ASSUME NEW l \in Nat, l <= k PROVE Spent(a, l) = Spent(b, l)
  <2>1. \A t \in 1..l : t \in 1..Len(a) /\ t \in 1..Len(b) /\ t \in 1..k
    BY <1>1, <1>2
  <2>2. \A t \in 1..l : Exps(a)[t] = a[t].exp /\ Exps(b)[t] = b[t].exp
    BY <1>1, <2>1 DEF Exps
  <2>3. \A t \in 1..l : Exps(a)[t] = Exps(b)[t]
    BY <2>1, <2>2 DEF Agree
  <2>4. \A t \in 1..l : Exps(a)[t] \in Int
    <3> SUFFICES ASSUME NEW t \in 1..l PROVE Exps(a)[t] \in Int
      OBVIOUS
    <3>1. a[t].exp \in Nat \ {0}
      BY <1>1, <2>1, EntryIs
    <3> QED  BY <2>2, <3>1
  <2> QED  BY <1>2, <2>3, <2>4, FoldSameUpTo DEF Spent
<1>3. \A t \in 1..(k+1) : Prev(a, t) = Prev(b, t)
  <2> SUFFICES ASSUME NEW t \in 1..(k+1) PROVE Prev(a, t) = Prev(b, t)
    OBVIOUS
  <2>1. t # 1 => t - 1 \in 1..k
    OBVIOUS
  <2> QED  BY <2>1 DEF Prev, Agree
<1>4. \A t \in 1..k : Steps(m, a, R)[t] = Steps(m, b, R)[t] /\ Steps(m, a, R)[t] \in Int
  <2> SUFFICES ASSUME NEW t \in 1..k
               PROVE  Steps(m, a, R)[t] = Steps(m, b, R)[t] /\ Steps(m, a, R)[t] \in Int
    OBVIOUS
  <2>1. /\ t \in 1..Len(a) /\ t \in 1..Len(b) /\ t \in 1..(k+1)
        /\ t \in Nat /\ t - 1 \in Nat /\ t <= k /\ t - 1 <= k
    BY <1>1
  <2>2. /\ a[t] = b[t] /\ Prev(a, t) = Prev(b, t)
        /\ Spent(a, t) = Spent(b, t) /\ Spent(a, t-1) = Spent(b, t-1)
    BY <1>2, <1>3, <2>1 DEF Agree
  <2>3. /\ Steps(m, a, R)[t] = SkipRun(m, a, t, R - Spent(a, t-1)) + Higher(m, a, t, R - Spent(a, t))
        /\ Steps(m, b, R)[t] = SkipRun(m, b, t, R - Spent(b, t-1)) + Higher(m, b, t, R - Spent(b, t))
    BY <1>1, <2>1 DEF Steps
  <2>4. Steps(m, a, R)[t] = Steps(m, b, R)[t]
    <3>1. \A r : SkipRun(m, a, t, r) = SkipRun(m, b, t, r)
      BY <2>2 DEF SkipRun
    <3>2. \A r : Higher(m, a, t, r) = Higher(m, b, t, r)
      BY <2>2 DEF Higher
    <3> QED  BY <2>2, <2>3, <3>1, <3>2
  <2>5. Steps(m, a, R)[t] \in Int
    <3> DEFINE r == R - Spent(a, t-1)
               f == R - Spent(a, t)
    <3>1. /\ r \in Nat \ {0} /\ f \in Nat /\ m - a[t].pos - 1 \in Nat
          /\ Ways(m - Prev(a, t) - 1, r) \in Nat
      <4>1. Spent(a, Len(a)) <= R
        OBVIOUS
      <4> QED  BY <2>1, <4>1, PassedStep
    <3> HIDE DEF r, f
    <3>2. /\ SkipRun(m, a, t, r) = Ways(m - Prev(a, t) - 1, r) - Ways(m - a[t].pos - 1, r)
          /\ Higher(m, a, t, f) = Ways(m - a[t].pos - 1, f - 1)
      BY <1>1, <2>1, <3>1, StepIs
    <3>3. Ways(m - a[t].pos - 1, r) \in Nat /\ Ways(m - a[t].pos - 1, f - 1) \in Nat
      <4>1. r \in Int /\ f - 1 \in Int
        BY <3>1
      <4> QED  BY <3>1, <4>1, PathsNat
    <3>4. Steps(m, a, R)[t] = SkipRun(m, a, t, r) + Higher(m, a, t, f)
      BY <2>3 DEF r, f
    <3> QED  BY <3>1, <3>2, <3>3, <3>4
  <2> QED  BY <2>4, <2>5
<1>5. Passed(m, a, R, k) = Passed(m, b, R, k)
  BY <1>4, FoldSameUpTo DEF Passed
<1>6. k + 1 \in 1..(k+1) /\ k <= k
  OBVIOUS
<1> QED  BY <1>2, <1>3, <1>5, <1>6

(* Then the next entry is the same too.                                    *)
LEMMA AgreeingNext ==
  ASSUME NEW m \in Nat \ {0}, NEW a \in SparseIndices(m), NEW b \in SparseIndices(m), NEW R \in Nat,
         Spent(a, Len(a)) = R, Spent(b, Len(b)) = R,
         Passed(m, a, R, Len(a)) = Passed(m, b, R, Len(b)),
         NEW k \in 1..Len(a), k <= Len(b), Agree(a, b, k - 1)
  PROVE  a[k] = b[k]
<1> DEFINE r == R - Spent(a, k-1)
           q == m - a[k].pos - 1
           f == m - b[k].pos - 1
           base == Passed(m, a, R, k-1) + Ways(m - Prev(a, k) - 1, r)
           total == Passed(m, a, R, Len(a))
           e == a[k].exp
           g == b[k].exp
<1>1. a \in Seq(Entries(m)) /\ b \in Seq(Entries(m)) /\ Len(a) \in Nat /\ Len(b) \in Nat
  BY DEF SparseIndices
<1>2. k \in 1..Len(b) /\ k - 1 \in Nat /\ k - 1 <= Len(a) /\ k - 1 <= Len(b) /\ (k - 1) + 1 = k
  BY <1>1
<1>3. /\ Spent(a, k-1) = Spent(b, k-1) /\ Passed(m, a, R, k-1) = Passed(m, b, R, k-1)
      /\ Prev(a, (k-1) + 1) = Prev(b, (k-1) + 1)
  BY <1>2, AgreeingPass
<1>4. /\ r = R - Spent(b, k-1)
      /\ base = Passed(m, b, R, k-1) + Ways(m - Prev(b, k) - 1, r)
  BY <1>2, <1>3
<1>5. /\ a[k].pos \in 0..(m-1) /\ b[k].pos \in 0..(m-1) /\ a[k] \in Entries(m) /\ b[k] \in Entries(m)
  BY <1>1, <1>2, EntryIs
<1> HIDE DEF r, base
<1>6. /\ r \in Nat \ {0} /\ q \in Nat /\ e \in 1..r /\ base \in Int
      /\ base + (Ways(q, r - e - 1) - Ways(q, r)) <= total
      /\ total < base + (Ways(q, r - e) - Ways(q, r))
  BY EntryRun DEF r, base
<1>7. /\ f \in Nat /\ g \in 1..r
      /\ base + (Ways(f, r - g - 1) - Ways(f, r)) <= total
      /\ total < base + (Ways(f, r - g) - Ways(f, r))
  BY <1>2, <1>4, EntryRun, SMTT(30)
<1>8. total \in Int
  <2>1. Len(a) \in 0..Len(a) /\ Spent(a, Len(a)) <= R
    BY <1>1
  <2> QED  BY <2>1, PassedStep
<1> HIDE DEF q, f, e, g, total
<1> DEFINE u == Ways(q, r - e) - Ways(q, r)
           x == Ways(q, r - e - 1) - Ways(q, r)
           v == Ways(f, r - g) - Ways(f, r)
           y == Ways(f, r - g - 1) - Ways(f, r)
<1>9. u \in Int /\ x \in Int /\ v \in Int /\ y \in Int
  <2>1. r \in Int /\ r - e - 1 \in Int /\ r - e \in Int /\ r - g - 1 \in Int /\ r - g \in Int
    BY <1>6, <1>7
  <2>2. /\ Ways(q, r - e - 1) \in Nat /\ Ways(q, r) \in Nat /\ Ways(q, r - e) \in Nat
        /\ Ways(f, r - g - 1) \in Nat /\ Ways(f, r) \in Nat /\ Ways(f, r - g) \in Nat
    BY <1>6, <1>7, <2>1, PathsNat
  <2> QED  BY <2>2, SMTT(30)
<1>10. ~(f < q \/ (f = q /\ e > g))
  <2> SUFFICES ASSUME f < q \/ (f = q /\ e > g) PROVE FALSE
    OBVIOUS
  <2>1. Ways(q, r - e) - Ways(q, r) <= Ways(f, r - g - 1) - Ways(f, r)
    BY <1>6, <1>7, RunsApart
  <2>2. total < base + u /\ base + y <= total /\ u <= y
    BY <1>6, <1>7, <2>1
  <2> HIDE DEF u, y
  <2> QED  BY <1>6, <1>8, <1>9, <2>2
<1>11. ~(q < f \/ (q = f /\ g > e))
  <2> SUFFICES ASSUME q < f \/ (q = f /\ g > e) PROVE FALSE
    OBVIOUS
  <2>1. Ways(f, r - g) - Ways(f, r) <= Ways(q, r - e - 1) - Ways(q, r)
    BY <1>6, <1>7, RunsApart
  <2>2. total < base + v /\ base + x <= total /\ v <= x
    BY <1>6, <1>7, <2>1
  <2> HIDE DEF v, x
  <2> QED  BY <1>6, <1>8, <1>9, <2>2
<1>12. q = f /\ e = g
  BY <1>6, <1>7, <1>10, <1>11
<1>13. a[k].pos = b[k].pos /\ a[k].exp = b[k].exp
  <2>1. m - a[k].pos - 1 = m - b[k].pos - 1 /\ a[k].exp = b[k].exp
    BY <1>12 DEF q, f, e, g
  <2> QED  BY <1>5, <2>1, SMTT(30)
<1> QED  BY <1>5, <1>13 DEF Entries

LEMMA AgreeingAll ==
  ASSUME NEW m \in Nat \ {0}, NEW a \in SparseIndices(m), NEW b \in SparseIndices(m), NEW R \in Nat,
         Spent(a, Len(a)) = R, Spent(b, Len(b)) = R,
         Passed(m, a, R, Len(a)) = Passed(m, b, R, Len(b))
  PROVE  Len(b) <= Len(a) /\ \A k \in Nat : k <= Len(a) /\ k <= Len(b) => Agree(a, b, k)
<1> DEFINE T == {k \in Nat : k <= Len(a) /\ k <= Len(b) => Agree(a, b, k)}
<1>1. a \in Seq(Entries(m)) /\ b \in Seq(Entries(m)) /\ Len(a) \in Nat /\ Len(b) \in Nat
  BY DEF SparseIndices
<1>2. 0 \in T
  BY DEF Agree
<1>3. ASSUME NEW k \in Nat, k \in T PROVE k + 1 \in T
  <2> SUFFICES ASSUME k + 1 <= Len(a), k + 1 <= Len(b) PROVE Agree(a, b, k + 1)
    OBVIOUS
  <2>1. k + 1 \in 1..Len(a) /\ (k + 1) - 1 = k /\ Agree(a, b, k)
    BY <1>1, <1>3
  <2>2. a[k+1] = b[k+1]
    BY <2>1, AgreeingNext
  <2>3. \A t \in 1..(k+1) : t = k + 1 \/ t \in 1..k
    OBVIOUS
  <2> QED  BY <2>1, <2>2, <2>3 DEF Agree
<1>4. Nat \subseteq T
  <2> HIDE DEF T
  <2> QED  BY <1>2, <1>3, Sums!NatInductionOn
<1>5. Len(b) <= Len(a)
  <2> SUFFICES ASSUME Len(a) < Len(b) PROVE FALSE
    BY <1>1
  <2>1. Len(a) \in T /\ Len(a) <= Len(a) /\ Len(a) <= Len(b)
    BY <1>1, <1>4
  <2>2. Agree(a, b, Len(a))
    BY <2>1
  <2>3. Spent(a, Len(a)) = Spent(b, Len(a))
    BY <1>1, <2>1, <2>2, AgreeingPass
  <2>4. Len(a) \in 0..Len(b) /\ Len(b) \in 0..Len(b)
    BY <1>1
  <2>5. Spent(b, Len(a)) < Spent(b, Len(b))
    BY <1>1, <2>4, SpentGrows
  <2> QED  BY <2>3, <2>5
<1> QED  BY <1>4, <1>5

(* sparse_rank() is one-to-one.                                            *)
LEMMA RankTellsApart ==
  ASSUME NEW m \in Nat \ {0}, NEW a \in SparseIndices(m), NEW b \in SparseIndices(m),
         SparseRank(m, a) = SparseRank(m, b)
  PROVE  a = b
<1> DEFINE R == SparseOrder(a)
<1>1. /\ a \in Seq(Entries(m)) /\ DOMAIN a = 1..Len(a) /\ Len(a) \in Nat
      /\ b \in Seq(Entries(m)) /\ DOMAIN b = 1..Len(b) /\ Len(b) \in Nat
  BY EntryIs DEF SparseIndices
<1>2. \A c \in SparseIndices(m) :
        /\ SparseOrder(c) \in Nat
        /\ LowerOrders(m, SparseOrder(c)) <= SparseRank(m, c)
        /\ SparseRank(m, c) < LowerOrders(m, SparseOrder(c) + 1)
        /\ SparseRank(m, c) \in Nat
  BY SparseRankBand
<1>3. ASSUME NEW c \in SparseIndices(m), NEW d \in SparseIndices(m), SparseOrder(c) < SparseOrder(d)
      PROVE  SparseRank(m, c) # SparseRank(m, d)
  <2>1. SparseOrder(c) + 1 \in Nat /\ SparseOrder(d) \in Nat /\ SparseOrder(c) + 1 <= SparseOrder(d)
    BY <1>2, <1>3
  <2>2. LowerOrders(m, SparseOrder(c) + 1) <= LowerOrders(m, SparseOrder(d))
    BY <2>1, LowerOrdersMonotone
  <2>3. LowerOrders(m, SparseOrder(c) + 1) \in Nat /\ LowerOrders(m, SparseOrder(d)) \in Nat
    BY <2>1, LowerOrdersAre
  <2>4. /\ SparseRank(m, c) < LowerOrders(m, SparseOrder(c) + 1)
        /\ LowerOrders(m, SparseOrder(d)) <= SparseRank(m, d)
        /\ SparseRank(m, c) \in Nat /\ SparseRank(m, d) \in Nat
    BY <1>2
  <2> QED  BY <2>2, <2>3, <2>4
<1>4. SparseOrder(b) = R
  <2>1. SparseOrder(a) \in Nat /\ SparseOrder(b) \in Nat
    BY <1>2
  <2>2. ~(SparseOrder(a) < SparseOrder(b)) /\ ~(SparseOrder(b) < SparseOrder(a))
    BY <1>3
  <2> QED  BY <2>1, <2>2
<1>5. R \in Nat /\ Spent(a, Len(a)) = R /\ Spent(b, Len(b)) = R
  BY <1>1, <1>2, <1>4, SpentStep
<1>6. /\ SparseRank(m, a) = LowerOrders(m, R) + Passed(m, a, R, Len(a))
      /\ SparseRank(m, b) = LowerOrders(m, R) + Passed(m, b, R, Len(b))
  BY <1>4, SparseRankIs
<1> HIDE DEF R
<1>7. /\ LowerOrders(m, R) \in Nat
      /\ Passed(m, a, R, Len(a)) \in Int /\ Passed(m, b, R, Len(b)) \in Int
  <2>1. Spent(a, Len(a)) <= R /\ Spent(b, Len(b)) <= R /\ Len(a) \in 0..Len(a) /\ Len(b) \in 0..Len(b)
    BY <1>1, <1>5
  <2>2. Passed(m, a, R, Len(a)) \in Int /\ Passed(m, b, R, Len(b)) \in Int
    BY <1>5, <2>1, PassedStep
  <2> QED  BY <1>5, <2>2, LowerOrdersAre
<1>8. Passed(m, a, R, Len(a)) = Passed(m, b, R, Len(b))
  <2> DEFINE low == LowerOrders(m, R)
             u == Passed(m, a, R, Len(a))
             v == Passed(m, b, R, Len(b))
  <2>1. low + u = low + v
    BY <1>6
  <2>2. low \in Nat /\ u \in Int /\ v \in Int
    BY <1>7
  <2> HIDE DEF low, u, v
  <2>3. u = v
    BY <2>1, <2>2
  <2> QED  BY <2>3 DEF u, v
<1>9. Len(a) = Len(b) /\ Agree(a, b, Len(a))
  <2>1. Len(b) <= Len(a) /\ \A k \in Nat : k <= Len(a) /\ k <= Len(b) => Agree(a, b, k)
    BY <1>5, <1>8, AgreeingAll
  <2>2. Len(a) <= Len(b)
    BY <1>5, <1>8, AgreeingAll
  <2> DEFINE x == Len(a)
             y == Len(b)
  <2>3. x \in Nat /\ y \in Nat /\ y <= x /\ x <= y
    BY <1>1, <2>1, <2>2
  <2> HIDE DEF x, y
  <2>4. x = y /\ x <= x
    BY <2>3
  <2> QED  BY <2>1, <2>3, <2>4 DEF x, y
<1> QED  BY <1>1, <1>9 DEF Agree

-----------------------------------------------------------------------------
(* alpha_at: the exponent at a position is that of the entry there, 0 when *)
(* no entry is.                                                            *)
SumsUp(g, s, S) ==
  g = [ss \in SUBSET S |-> IF ss = {} THEN 0
                           ELSE s[CHOOSE x \in ss : TRUE].exp + g[ss \ {CHOOSE x \in ss : TRUE}]]

Summing(s, S) == CHOOSE g : SumsUp(g, s, S)
EntriesAt(s, p) == {t \in DOMAIN s : s[t].pos = p}

LEMMA DenseAt ==
  ASSUME NEW m, NEW s, NEW p \in 0..(m-1)
  PROVE  Dense(m, s)[p] = Summing(s, EntriesAt(s, p))[EntriesAt(s, p)]
BY DEF Dense, MapThenSumSet, MapThenFoldSet, SumsUp, Summing, EntriesAt

LEMMA ExponentAt ==
  ASSUME NEW m, NEW s \in SparseIndices(m), NEW p \in 0..(m-1)
  PROVE  /\ \A t \in DOMAIN s : s[t].pos = p => Dense(m, s)[p] = s[t].exp
         /\ (\A t \in DOMAIN s : s[t].pos # p) => Dense(m, s)[p] = 0
<1> DEFINE S == EntriesAt(s, p)
           h == Summing(s, S)
<1>1. s \in Seq(Entries(m)) /\ DOMAIN s = 1..Len(s) /\ Len(s) \in Nat
  BY EntryIs DEF SparseIndices
<1>2. Dense(m, s)[p] = h[S]
  BY DenseAt
<1> USE DEF EntriesAt, Summing
<1>3. ASSUME NEW t \in DOMAIN s, s[t].pos = p PROVE Dense(m, s)[p] = s[t].exp
  <2>1. S = {t}
    <3> SUFFICES ASSUME NEW u \in S PROVE u = t
      BY <1>3
    <3>1. u \in 1..Len(s) /\ t \in 1..Len(s) /\ s[u].pos = p /\ s[t].pos = p
      BY <1>1, <1>3
    <3>2. p \in Int /\ ~(p < p)
      OBVIOUS
    <3>3. ~(u < t) /\ ~(t < u)
      BY <1>1, <3>1, <3>2 DEF SparseIndices
    <3> QED  BY <3>1, <3>3
  <2> DEFINE g == [ss \in SUBSET S |-> IF ss = {} THEN 0 ELSE s[t].exp]
  <2>2. \A ss \in SUBSET S : ss = {} \/ ss = S
    BY <2>1
  <2>3. (CHOOSE x \in S : TRUE) = t
    BY <2>1
  <2>4. SumsUp(g, s, S)
    <3>1. s[t].exp + 0 = s[t].exp
      BY <1>1, <1>3, EntryIs
    <3>2. ASSUME NEW ss \in SUBSET S
          PROVE  g[ss] = IF ss = {} THEN 0
                         ELSE s[CHOOSE x \in ss : TRUE].exp + g[ss \ {CHOOSE x \in ss : TRUE}]
      <4>1. CASE ss = {}
        BY <4>1
      <4>2. CASE ss # {}
        <5>1. ss = S /\ S # {} /\ S \ {t} = {}
          BY <2>1, <2>2, <4>2
        <5>2. g[S] = s[t].exp /\ g[{}] = 0
          BY <5>1
        <5> HIDE DEF g, S
        <5> QED  BY <2>3, <3>1, <5>1, <5>2
      <4> QED  BY <4>1, <4>2
    <3>3. g = [ss \in SUBSET S |-> g[ss]]
      OBVIOUS
    <3> HIDE DEF g, S
    <3> QED  BY <3>2, <3>3 DEF SumsUp
  <2>5. SumsUp(h, s, S)
    <3> HIDE DEF g, S
    <3> QED  BY <2>4
  <2> HIDE DEF h
  <2>6. h[S] = s[t].exp + h[S \ {t}]
    <3>1. S \in SUBSET S /\ S # {}
      BY <2>1
    <3> HIDE DEF S
    <3> QED  BY <2>3, <2>5, <3>1 DEF SumsUp
  <2>7. h[S \ {t}] = 0
    <3>1. S \ {t} \in SUBSET S /\ S \ {t} = {}
      BY <2>1
    <3> HIDE DEF S
    <3> QED  BY <2>5, <3>1 DEF SumsUp
  <2>8. s[t].exp + 0 = s[t].exp
    BY <1>1, <1>3, EntryIs
  <2> HIDE DEF S
  <2> QED  BY <1>2, <2>6, <2>7, <2>8
<1>4. ASSUME \A t \in DOMAIN s : s[t].pos # p PROVE Dense(m, s)[p] = 0
  <2>1. S = {}
    BY <1>4
  <2> DEFINE g == [ss \in SUBSET S |-> 0]
  <2>2. SumsUp(g, s, S)
    <3>1. ASSUME NEW ss \in SUBSET S
          PROVE  g[ss] = IF ss = {} THEN 0
                         ELSE s[CHOOSE x \in ss : TRUE].exp + g[ss \ {CHOOSE x \in ss : TRUE}]
      <4>1. ss = {}
        BY <2>1
      <4> QED  BY <4>1
    <3>2. g = [ss \in SUBSET S |-> g[ss]]
      OBVIOUS
    <3> HIDE DEF g, S
    <3> QED  BY <3>1, <3>2 DEF SumsUp
  <2>3. SumsUp(h, s, S)
    <3> HIDE DEF g, S
    <3> QED  BY <2>2
  <2> HIDE DEF h
  <2>4. h[S] = 0
    <3>1. S \in SUBSET S
      OBVIOUS
    <3> HIDE DEF S
    <3> QED  BY <2>1, <2>3, <3>1 DEF SumsUp
  <2> QED  BY <1>2, <2>4
<1> QED  BY <1>3, <1>4

(* A multi-index has one sparse form.                                      *)
SameDense(m, a, b) == \A p \in 0..(m-1) : Dense(m, a)[p] = Dense(m, b)[p]

LEMMA EntryInBoth ==
  ASSUME NEW m, NEW a \in SparseIndices(m), NEW b \in SparseIndices(m), SameDense(m, a, b)
  PROVE  \A t \in DOMAIN a : \E u \in DOMAIN b : b[u] = a[t]
<1> SUFFICES ASSUME NEW t \in DOMAIN a PROVE \E u \in DOMAIN b : b[u] = a[t]
  OBVIOUS
<1>1. /\ a \in Seq(Entries(m)) /\ DOMAIN a = 1..Len(a) /\ Len(a) \in Nat
      /\ b \in Seq(Entries(m)) /\ DOMAIN b = 1..Len(b) /\ Len(b) \in Nat
  BY EntryIs DEF SparseIndices
<1> DEFINE p == a[t].pos
<1>2. p \in 0..(m-1) /\ a[t].exp \in Nat \ {0} /\ a[t] \in Entries(m)
  BY <1>1, EntryIs
<1>3. Dense(m, a)[p] = a[t].exp
  BY <1>2, ExponentAt
<1>4. PICK u \in DOMAIN b : b[u].pos = p
  <2> SUFFICES ASSUME \A u \in DOMAIN b : b[u].pos # p PROVE FALSE
    OBVIOUS
  <2>1. Dense(m, b)[p] = 0
    BY <1>2, ExponentAt
  <2> QED  BY <1>2, <1>3, <2>1 DEF SameDense
<1>5. Dense(m, b)[p] = b[u].exp
  BY <1>2, <1>4, ExponentAt
<1>6. b[u].exp = a[t].exp /\ b[u].pos = a[t].pos /\ b[u] \in Entries(m)
  BY <1>1, <1>2, <1>3, <1>4, <1>5 DEF SameDense
<1>7. b[u] = a[t]
  BY <1>2, <1>6 DEF Entries
<1> QED  BY <1>7

LEMMA SamePrefixes ==
  ASSUME NEW m, NEW a \in SparseIndices(m), NEW b \in SparseIndices(m), SameDense(m, a, b)
  PROVE  \A k \in Nat : k <= Len(a) => k <= Len(b) /\ Agree(a, b, k)
<1> DEFINE T == {k \in Nat : k <= Len(a) => k <= Len(b) /\ Agree(a, b, k)}
<1>1. /\ a \in Seq(Entries(m)) /\ DOMAIN a = 1..Len(a) /\ Len(a) \in Nat
      /\ b \in Seq(Entries(m)) /\ DOMAIN b = 1..Len(b) /\ Len(b) \in Nat
  BY EntryIs DEF SparseIndices
<1>2. /\ \A t \in DOMAIN a : a[t].pos \in Int
      /\ \A t \in DOMAIN b : b[t].pos \in Int
      /\ \A t \in DOMAIN a, u \in DOMAIN a : t < u => a[t].pos < a[u].pos
      /\ \A t \in DOMAIN b, u \in DOMAIN b : t < u => b[t].pos < b[u].pos
  <2>1. \A t \in DOMAIN a : a[t].pos \in Int
    BY <1>1, EntryIs
  <2>2. \A t \in DOMAIN b : b[t].pos \in Int
    BY <1>1, EntryIs
  <2> QED  BY <2>1, <2>2 DEF SparseIndices
<1>3. /\ \A t \in DOMAIN a : \E u \in DOMAIN b : b[u] = a[t]
      /\ \A t \in DOMAIN b : \E u \in DOMAIN a : a[u] = b[t]
  <2>1. SameDense(m, b, a)
    BY DEF SameDense
  <2> QED  BY <2>1, EntryInBoth
<1>4. 0 \in T
  BY <1>1 DEF Agree
<1>5. ASSUME NEW k \in Nat, k \in T PROVE k + 1 \in T
  <2> SUFFICES ASSUME k + 1 <= Len(a) PROVE k + 1 <= Len(b) /\ Agree(a, b, k + 1)
    OBVIOUS
  <2>1. k + 1 \in DOMAIN a /\ k <= Len(b) /\ Agree(a, b, k)
    BY <1>1, <1>5
  <2>2. PICK u \in DOMAIN b : b[u] = a[k+1]
    BY <1>3, <2>1
  <2>3. k < u
    <3> SUFFICES ASSUME u <= k PROVE FALSE
      BY <1>1
    <3>1. u \in 1..k /\ u \in DOMAIN a /\ u < k + 1
      BY <1>1, <2>1
    <3>2. b[u] = a[u]
      BY <3>1, <2>1 DEF Agree
    <3>3. a[u].pos < a[k+1].pos /\ a[u].pos \in Int
      BY <1>2, <2>1, <3>1
    <3> QED  BY <2>2, <3>2, <3>3
  <2>4. k + 1 \in DOMAIN b /\ k + 1 <= u /\ k + 1 <= Len(b)
    BY <1>1, <2>3
  <2>5. u = k + 1
    <3> SUFFICES ASSUME k + 1 < u PROVE FALSE
      BY <1>1, <2>4
    <3>1. b[k+1].pos < b[u].pos
      BY <1>2, <2>4
    <3>2. PICK v \in DOMAIN a : a[v] = b[k+1]
      BY <1>3, <2>4
    <3>3. CASE v <= k
      <4>1. v \in 1..k /\ v \in DOMAIN b /\ v < k + 1
        BY <1>1, <2>4, <3>3
      <4>2. a[v] = b[v]
        BY <2>1, <4>1 DEF Agree
      <4>3. b[v].pos < b[k+1].pos /\ b[v].pos \in Int
        BY <1>2, <2>4, <4>1
      <4> QED  BY <3>2, <4>2, <4>3
    <3>4. CASE v = k + 1
      BY <1>2, <2>1, <2>2, <3>1, <3>2, <3>4
    <3>5. CASE k + 1 < v
      <4>1. a[k+1].pos < a[v].pos
        BY <1>2, <2>1, <3>5
      <4>2. a[k+1].pos \in Int /\ a[v].pos \in Int
        BY <1>2, <2>1
      <4> QED  BY <2>2, <3>1, <3>2, <4>1, <4>2
    <3>6. v \in Int
      BY <1>1
    <3> QED  BY <3>3, <3>4, <3>5, <3>6
  <2>6. a[k+1] = b[k+1]
    BY <2>2, <2>5
  <2>7. \A t \in 1..(k+1) : t = k + 1 \/ t \in 1..k
    OBVIOUS
  <2> QED  BY <2>1, <2>4, <2>6, <2>7 DEF Agree
<1>6. Nat \subseteq T
  <2> HIDE DEF T
  <2> QED  BY <1>4, <1>5, Sums!NatInductionOn
<1> QED  BY <1>6

LEMMA DenseTellsApart ==
  ASSUME NEW m, NEW a \in SparseIndices(m), NEW b \in SparseIndices(m), SameDense(m, a, b)
  PROVE  a = b
<1>1. /\ a \in Seq(Entries(m)) /\ DOMAIN a = 1..Len(a) /\ Len(a) \in Nat
      /\ b \in Seq(Entries(m)) /\ DOMAIN b = 1..Len(b) /\ Len(b) \in Nat
  BY EntryIs DEF SparseIndices
<1>2. Len(a) <= Len(a) /\ Len(b) <= Len(b)
  BY <1>1
<1>3. Len(a) <= Len(b) /\ Agree(a, b, Len(a))
  BY <1>1, <1>2, SamePrefixes
<1>4. Len(b) <= Len(a)
  <2>1. SameDense(m, b, a)
    BY DEF SameDense
  <2> QED  BY <1>1, <1>2, <2>1, SamePrefixes
<1>5. Len(a) = Len(b)
  <2> DEFINE x == Len(a)
             y == Len(b)
  <2>1. x \in Nat /\ y \in Nat /\ y <= x /\ x <= y
    BY <1>1, <1>3, <1>4
  <2> HIDE DEF x, y
  <2>2. x = y
    BY <2>1
  <2> QED  BY <2>2 DEF x, y
<1> QED  BY <1>1, <1>3, <1>5 DEF Agree

(* The exponent of position p in the entries from k on is x.               *)
HasFrom(s, k, p, x) ==
  \/ \E t \in DOMAIN s : k <= t /\ s[t].pos = p /\ x = s[t].exp
  \/ x = 0 /\ \A t \in DOMAIN s : k <= t => s[t].pos # p

LEMMA HasNext ==
  ASSUME NEW m, NEW s \in SparseIndices(m), NEW k \in 1..Len(s), NEW p, NEW x, HasFrom(s, k, p, x)
  PROVE  IF p = s[k].pos THEN x = s[k].exp ELSE HasFrom(s, k + 1, p, x)
<1>1. DOMAIN s = 1..Len(s) /\ Len(s) \in Nat /\ \A t \in DOMAIN s : s[t].pos \in Int
  <2>1. s \in Seq(Entries(m))
    BY DEF SparseIndices
  <2>2. \A t \in DOMAIN s : s[t].pos \in 0..(m-1)
    BY <2>1, EntryIs
  <2> QED  BY <2>1, <2>2, EntryIs
<1>2. \A t \in DOMAIN s : k <= t /\ t # k => k + 1 <= t /\ s[t].pos # s[k].pos
  <2>1. \A t \in DOMAIN s : k < t => s[k].pos < s[t].pos
    BY <1>1 DEF SparseIndices
  <2> QED  BY <1>1, <2>1
<1>3. \A t \in DOMAIN s : k + 1 <= t => k <= t
  BY <1>1
<1>4. k \in DOMAIN s /\ k <= k
  BY <1>1
<1> QED  BY <1>2, <1>3, <1>4 DEF HasFrom

LEMMA HasNone ==
  ASSUME NEW m, NEW s \in SparseIndices(m), NEW k \in 1..(Len(s) + 1), NEW p \in Int,
         k <= Len(s) => p < s[k].pos, NEW x, HasFrom(s, k, p, x)
  PROVE  x = 0
<1>1. DOMAIN s = 1..Len(s) /\ Len(s) \in Nat /\ \A t \in DOMAIN s : s[t].pos \in Int
  <2>1. s \in Seq(Entries(m))
    BY DEF SparseIndices
  <2>2. \A t \in DOMAIN s : s[t].pos \in 0..(m-1)
    BY <2>1, EntryIs
  <2> QED  BY <2>1, <2>2, EntryIs
<1>2. ASSUME NEW t \in DOMAIN s, k <= t PROVE s[t].pos # p
  <2>1. k \in DOMAIN s /\ p < s[k].pos
    BY <1>1, <1>2
  <2>2. CASE t = k
    BY <1>1, <2>1, <2>2
  <2>3. CASE t # k
    <3>1. s[k].pos < s[t].pos
      BY <1>1, <1>2, <2>1, <2>3 DEF SparseIndices
    <3> QED  BY <1>1, <2>1, <3>1
  <2> QED  BY <2>2, <2>3
<1> QED  BY <1>2 DEF HasFrom

LEMMA HasInFront ==
  ASSUME NEW m, NEW e \in Entries(m), NEW s \in Seq(Entries(m)), NEW p, NEW x,
         IF p = e.pos THEN x = e.exp ELSE HasFrom(s, 1, p, x)
  PROVE  HasFrom(<<e>> \o s, 1, p, x)
<1> DEFINE c == <<e>> \o s
<1>1. /\ Len(s) \in Nat /\ DOMAIN s = 1..Len(s) /\ DOMAIN c = 1..(Len(s) + 1) /\ c[1] = e
      /\ \A t \in 2..(Len(s)+1) : c[t] = s[t-1]
  OBVIOUS
<1> HIDE DEF c
<1>2. CASE p = e.pos
  <2>1. 1 \in DOMAIN c /\ 1 <= 1 /\ c[1].pos = p /\ x = c[1].exp
    BY <1>1, <1>2
  <2>2. HasFrom(c, 1, p, x)
    BY <2>1 DEF HasFrom
  <2> QED  BY <2>2 DEF c
<1>3. CASE p # e.pos
  <2>1. HasFrom(s, 1, p, x)
    BY <1>3
  <2>2. \A t \in DOMAIN s : t + 1 \in DOMAIN c /\ 1 <= t + 1 /\ c[t+1] = s[t]
    <3>1. \A t \in DOMAIN s : t + 1 \in 2..(Len(s)+1) /\ (t + 1) - 1 = t
      BY <1>1
    <3> QED  BY <1>1, <3>1
  <2>3. \A t \in DOMAIN c : t = 1 \/ (t - 1 \in DOMAIN s /\ 1 <= t - 1 /\ c[t] = s[t-1])
    BY <1>1
  <2>4. HasFrom(c, 1, p, x)
    <3>1. CASE \E t \in DOMAIN s : 1 <= t /\ s[t].pos = p /\ x = s[t].exp
      BY <2>2, <3>1 DEF HasFrom
    <3>2. CASE x = 0 /\ \A t \in DOMAIN s : 1 <= t => s[t].pos # p
      BY <1>1, <1>3, <2>3, <3>2 DEF HasFrom
    <3> QED  BY <2>1, <3>1, <3>2 DEF HasFrom
  <2> QED  BY <2>4 DEF c
<1> QED  BY <1>2, <1>3

(* The merge adds the exponents, position by position.                     *)
MergedAdds(g, a, b, at) ==
  \A p \in Int, x \in Nat, y \in Nat :
    HasFrom(a, at[1], p, x) /\ HasFrom(b, at[2], p, y) => HasFrom(g[at], 1, p, x + y)

LEMMA MergeAddsStep ==
  ASSUME NEW m, NEW a \in SparseIndices(m), NEW b \in SparseIndices(m), NEW g, Merges(g, a, b),
         g \in [Places(a, b) -> Seq(Entries(m))],
         NEW at \in Places(a, b),
         \A z \in Places(a, b) : ToMerge(a, b, z) < ToMerge(a, b, at) => MergedAdds(g, a, b, z)
  PROVE  MergedAdds(g, a, b, at)
<1> DEFINE i == at[1]
           j == at[2]
<1>1. /\ a \in Seq(Entries(m)) /\ b \in Seq(Entries(m)) /\ Len(a) \in Nat /\ Len(b) \in Nat
      /\ i \in 1..(Len(a)+1) /\ j \in 1..(Len(b)+1) /\ at = <<i, j>>
  BY DEF Places, SparseIndices
<1>2. g[at] = MergedAt(g, a, b, i, j)
  BY DEF Merges
<1>3. /\ \A k \in 1..Len(a) : a[k].pos \in Int /\ a[k].exp \in Nat \ {0} /\ a[k] \in Entries(m)
      /\ \A k \in 1..Len(b) : b[k].pos \in Int /\ b[k].exp \in Nat \ {0} /\ b[k] \in Entries(m)
  BY <1>1, EntryIs
<1>4. ToMerge(a, b, at) = (Len(a) + 1 - i) + (Len(b) + 1 - j)
  BY DEF ToMerge
<1> SUFFICES ASSUME NEW p \in Int, NEW x \in Nat, NEW y \in Nat,
                    HasFrom(a, i, p, x), HasFrom(b, j, p, y)
             PROVE  HasFrom(g[at], 1, p, x + y)
  BY DEF MergedAdds
<1> HIDE DEF i, j
<1>5. CASE Exhausted(a, b, i, j)
  <2>1. ~FirstNext(a, b, i, j) /\ ~SecondNext(a, b, i, j) /\ i = Len(a) + 1 /\ j = Len(b) + 1
    BY <1>1, <1>5, MergeCases
  <2>2. g[at] = << >> /\ DOMAIN << >> = {}
    <3>1. g[at] = << >>
      BY <1>2, <1>5, <2>1 DEF MergedAt
    <3>2. DOMAIN << >> = {}
      OBVIOUS
    <3> QED  BY <3>1, <3>2
  <2>3. x = 0 /\ y = 0
    <3>1. ~(i <= Len(a)) /\ ~(j <= Len(b))
      BY <1>1, <2>1
    <3> QED  BY <1>1, <3>1, HasNone
  <2>4. x + y = 0
    BY <2>3
  <2> QED  BY <2>2, <2>4 DEF HasFrom
<1>6. CASE FirstNext(a, b, i, j)
  <2> DEFINE z == <<i+1, j>>
             e == a[i]
  <2>1. i \in 1..Len(a) /\ ~Exhausted(a, b, i, j) /\ ~SecondNext(a, b, i, j)
    BY <1>1, <1>6, MergeCases
  <2>2. z \in Places(a, b) /\ e \in Entries(m) /\ z[1] = i + 1 /\ z[2] = j
    BY <1>1, <1>3, <2>1, SMTT(30) DEF Places
  <2>3. g[at] = <<e>> \o g[z]
    BY <1>2, <1>6, <2>1 DEF MergedAt
  <2>4. ToMerge(a, b, z) < ToMerge(a, b, at)
    BY <1>1, <1>4, <2>1 DEF ToMerge
  <2>5. MergedAdds(g, a, b, z) /\ g[z] \in Seq(Entries(m))
    BY <2>2, <2>4
  <2>6. IF p = e.pos THEN x = e.exp ELSE HasFrom(a, i + 1, p, x)
    BY <2>1, HasNext
  <2>7. CASE p = e.pos
    <3>1. j <= Len(b) => p < b[j].pos
      BY <1>1, <1>6, <2>1, <2>7 DEF FirstNext
    <3>2. y = 0
      BY <1>1, <3>1, HasNone
    <3>3. x + y = e.exp
      BY <2>6, <2>7, <3>2
    <3> HIDE DEF z, e
    <3> QED  BY <2>2, <2>3, <2>5, <2>7, <3>3, HasInFront
  <2>8. CASE p # e.pos
    <3>1. HasFrom(a, i + 1, p, x)
      BY <2>6, <2>8
    <3> HIDE DEF z, e
    <3>2. HasFrom(g[z], 1, p, x + y)
      BY <2>2, <2>5, <3>1 DEF MergedAdds
    <3> QED  BY <2>2, <2>3, <2>5, <2>8, <3>2, HasInFront
  <2> QED  BY <2>7, <2>8
<1>7. CASE ~FirstNext(a, b, i, j) /\ SecondNext(a, b, i, j)
  <2> DEFINE z == <<i, j+1>>
             e == b[j]
  <2>1. j \in 1..Len(b) /\ ~Exhausted(a, b, i, j)
    BY <1>1, <1>7, MergeCases
  <2>2. z \in Places(a, b) /\ e \in Entries(m) /\ z[1] = i /\ z[2] = j + 1
    BY <1>1, <1>3, <2>1, SMTT(30) DEF Places
  <2>3. g[at] = <<e>> \o g[z]
    BY <1>2, <1>7, <2>1 DEF MergedAt
  <2>4. ToMerge(a, b, z) < ToMerge(a, b, at)
    BY <1>1, <1>4, <2>1 DEF ToMerge
  <2>5. MergedAdds(g, a, b, z) /\ g[z] \in Seq(Entries(m))
    BY <2>2, <2>4
  <2>6. IF p = e.pos THEN y = e.exp ELSE HasFrom(b, j + 1, p, y)
    BY <2>1, HasNext
  <2>7. CASE p = e.pos
    <3>1. i <= Len(a) => p < a[i].pos
      BY <1>1, <1>7, <2>1, <2>7 DEF SecondNext
    <3>2. x = 0
      BY <1>1, <3>1, HasNone
    <3>3. x + y = e.exp
      BY <2>6, <2>7, <3>2
    <3> HIDE DEF z, e
    <3> QED  BY <2>2, <2>3, <2>5, <2>7, <3>3, HasInFront
  <2>8. CASE p # e.pos
    <3>1. HasFrom(b, j + 1, p, y)
      BY <2>6, <2>8
    <3> HIDE DEF z, e
    <3>2. HasFrom(g[z], 1, p, x + y)
      BY <2>2, <2>5, <3>1 DEF MergedAdds
    <3> QED  BY <2>2, <2>3, <2>5, <2>8, <3>2, HasInFront
  <2> QED  BY <2>7, <2>8
<1>8. CASE ~Exhausted(a, b, i, j) /\ ~FirstNext(a, b, i, j) /\ ~SecondNext(a, b, i, j)
  <2> DEFINE z == <<i+1, j+1>>
             e == Both(a, b, i, j)
  <2>1. i \in 1..Len(a) /\ j \in 1..Len(b) /\ a[i].pos = b[j].pos
    BY <1>1, <1>8, MergeCases
  <2>2. z \in Places(a, b) /\ z[1] = i + 1 /\ z[2] = j + 1
    BY <1>1, <2>1, SMTT(30) DEF Places
  <2>3. e.pos = a[i].pos /\ e.exp = a[i].exp + b[j].exp /\ e \in Entries(m)
    <3>1. a[i].exp + b[j].exp \in Nat \ {0} /\ a[i].pos \in 0..(m-1)
      <4>1. a[i].pos \in 0..(m-1)
        BY <1>1, <2>1, EntryIs
      <4> QED  BY <1>3, <2>1, <4>1, SMTT(30)
    <3> QED  BY <3>1 DEF Both, Entries
  <2>4. g[at] = <<e>> \o g[z]
    BY <1>2, <1>8 DEF MergedAt
  <2>5. ToMerge(a, b, z) < ToMerge(a, b, at)
    BY <1>1, <1>4, <2>1 DEF ToMerge
  <2>6. MergedAdds(g, a, b, z) /\ g[z] \in Seq(Entries(m))
    BY <2>2, <2>5
  <2>7. /\ IF p = a[i].pos THEN x = a[i].exp ELSE HasFrom(a, i + 1, p, x)
        /\ IF p = b[j].pos THEN y = b[j].exp ELSE HasFrom(b, j + 1, p, y)
    BY <2>1, HasNext
  <2> HIDE DEF z, e
  <2>8. CASE p = e.pos
    <3>1. x + y = e.exp
      BY <2>1, <2>3, <2>7, <2>8
    <3> QED  BY <2>3, <2>4, <2>6, <2>8, <3>1, HasInFront
  <2>9. CASE p # e.pos
    <3>1. HasFrom(a, i + 1, p, x) /\ HasFrom(b, j + 1, p, y)
      BY <2>1, <2>3, <2>7, <2>9
    <3>2. HasFrom(g[z], 1, p, x + y)
      BY <2>2, <2>6, <3>1 DEF MergedAdds
    <3> QED  BY <2>3, <2>4, <2>6, <2>9, <3>2, HasInFront
  <2> QED  BY <2>8, <2>9
<1> QED  BY <1>5, <1>6, <1>7, <1>8

LEMMA MergeAddsAll ==
  ASSUME NEW m, NEW a \in SparseIndices(m), NEW b \in SparseIndices(m)
  PROVE  MergedAdds(Merged(a, b), a, b, <<1, 1>>)
<1> DEFINE g == Merged(a, b)
           T == {k \in Nat : \A at \in Places(a, b) : ToMerge(a, b, at) < k => MergedAdds(g, a, b, at)}
<1>1. a \in Seq(Entries(m)) /\ b \in Seq(Entries(m)) /\ Len(a) \in Nat /\ Len(b) \in Nat
  BY DEF SparseIndices
<1>2. Merges(g, a, b) /\ g \in [Places(a, b) -> Seq(Entries(m))]
  BY <1>1, MergesHolds
<1>3. \A at \in Places(a, b) : ToMerge(a, b, at) \in Nat
  BY <1>1 DEF Places, ToMerge
<1> HIDE DEF g
<1>4. 0 \in T
  BY <1>3
<1>5. ASSUME NEW k \in Nat, k \in T PROVE k + 1 \in T
  <2> SUFFICES ASSUME NEW at \in Places(a, b), ToMerge(a, b, at) < k + 1
               PROVE  MergedAdds(g, a, b, at)
    OBVIOUS
  <2>1. \A z \in Places(a, b) : ToMerge(a, b, z) < ToMerge(a, b, at) => MergedAdds(g, a, b, z)
    BY <1>3, <1>5
  <2> HIDE DEF T
  <2> QED  BY <1>2, <2>1, MergeAddsStep
<1>6. Nat \subseteq T
  <2> HIDE DEF T
  <2> QED  BY <1>4, <1>5, Sums!NatInductionOn
<1>7. <<1, 1>> \in Places(a, b)
  BY <1>1 DEF Places
<1>8. MergedAdds(g, a, b, <<1, 1>>)
  <2>1. ToMerge(a, b, <<1, 1>>) + 1 \in T /\ ToMerge(a, b, <<1, 1>>) \in Nat
    BY <1>3, <1>6, <1>7
  <2> QED  BY <1>7, <2>1
<1> QED  BY <1>8 DEF g

(* The dense form in these terms, and with it that of a merge.             *)
LEMMA DenseHas ==
  ASSUME NEW m, NEW s \in SparseIndices(m), NEW p \in 0..(m-1)
  PROVE  /\ Dense(m, s)[p] \in Nat
         /\ HasFrom(s, 1, p, Dense(m, s)[p])
         /\ \A x : HasFrom(s, 1, p, x) => x = Dense(m, s)[p]
<1>1. s \in Seq(Entries(m)) /\ DOMAIN s = 1..Len(s) /\ Len(s) \in Nat
  BY EntryIs DEF SparseIndices
<1>2. \A t \in DOMAIN s : 1 <= t /\ s[t].exp \in Nat
  <2>1. \A t \in DOMAIN s : s[t].exp \in Nat \ {0}
    BY <1>1, EntryIs
  <2> QED  BY <1>1, <2>1
<1>3. /\ \A t \in DOMAIN s : s[t].pos = p => Dense(m, s)[p] = s[t].exp
      /\ (\A t \in DOMAIN s : s[t].pos # p) => Dense(m, s)[p] = 0
  BY ExponentAt
<1> QED  BY <1>2, <1>3 DEF HasFrom

LEMMA MergeDense ==
  ASSUME NEW m, NEW a \in SparseIndices(m), NEW b \in SparseIndices(m), NEW p \in 0..(m-1)
  PROVE  Dense(m, MergeSparse(a, b))[p] = Dense(m, a)[p] + Dense(m, b)[p]
<1> DEFINE x == Dense(m, a)[p]
           y == Dense(m, b)[p]
           c == MergeSparse(a, b)
<1>1. x \in Nat /\ y \in Nat /\ HasFrom(a, 1, p, x) /\ HasFrom(b, 1, p, y)
  BY DenseHas
<1> HIDE DEF x, y
<1>2. c = Merged(a, b)[<<1, 1>>] /\ c \in SparseIndices(m) /\ p \in Int
  BY MergeSparseIs, MergeSparseIn
<1> HIDE DEF c
<1>3. HasFrom(c, 1, p, x + y)
  BY <1>1, <1>2, MergeAddsAll DEF MergedAdds
<1>4. x + y = Dense(m, c)[p]
  BY <1>2, <1>3, DenseHas
<1> QED  BY <1>4 DEF x, y, c

-----------------------------------------------------------------------------
(* Dense multi-indices.  The order of the exponents before position p, and *)
(* with it the running sums of total_order() and rank(): within INT_MAX    *)
(* none of them wraps.                                                     *)
DenseIndices(m) == [0..(m-1) -> Nat]
Summed(a, p) == Sums!Fold(a, 0..(p-1))

LEMMA SummedStep ==
  ASSUME NEW m \in Nat, NEW a \in DenseIndices(m)
  PROVE  /\ Summed(a, 0) = 0
         /\ \A p \in 0..m : Summed(a, p) \in Nat
         /\ \A p \in 0..(m-1) : a[p] \in Nat /\ Summed(a, p + 1) = Summed(a, p) + a[p]
<1>1. \A p \in 0..(m-1) : a[p] \in Nat
  BY DEF DenseIndices
<1>2. Summed(a, 0) = 0
  BY SumNothing DEF Summed
<1>3. ASSUME NEW p \in 0..(m-1)
      PROVE  Summed(a, p + 1) = a[p] + Summed(a, p) /\ Summed(a, p) \in Int
  <2>1. 0 \in Int /\ p - 1 \in Int /\ 0 <= (p - 1) + 1 /\ (p - 1) + 1 = p /\ (p + 1) - 1 = p
    OBVIOUS
  <2>2. \A t \in 0..((p-1)+1) : a[t] \in Int
    BY <1>1
  <2>3. /\ Sums!Fold(a, 0..((p-1)+1)) = a[(p-1)+1] + Sums!Fold(a, 0..(p-1))
        /\ Sums!Fold(a, 0..(p-1)) \in Int
    BY <2>1, <2>2, SumNext
  <2> QED  BY <2>1, <2>3 DEF Summed
<1> DEFINE T == {p \in Nat : p <= m => Summed(a, p) \in Nat}
<1>4. 0 \in T
  BY <1>2
<1>5. ASSUME NEW p \in Nat, p \in T PROVE p + 1 \in T
  <2> SUFFICES ASSUME p + 1 <= m PROVE Summed(a, p + 1) \in Nat
    OBVIOUS
  <2>1. p \in 0..(m-1) /\ Summed(a, p) \in Nat
    BY <1>5
  <2>2. a[p] \in Nat /\ Summed(a, p + 1) = a[p] + Summed(a, p)
    BY <1>1, <1>3, <2>1
  <2> QED  BY <2>1, <2>2
<1> HIDE DEF T
<1>6. Nat \subseteq T
  BY <1>4, <1>5, Sums!NatInductionOn
<1>7. \A p \in 0..m : Summed(a, p) \in Nat
  BY <1>6 DEF T
<1>8. ASSUME NEW p \in 0..(m-1) PROVE a[p] \in Nat /\ Summed(a, p + 1) = Summed(a, p) + a[p]
  <2>1. a[p] \in Nat /\ Summed(a, p + 1) = a[p] + Summed(a, p) /\ Summed(a, p) \in Int
    BY <1>1, <1>3
  <2> QED  BY <2>1
<1> QED  BY <1>2, <1>7, <1>8

LEMMA SummedGrows ==
  ASSUME NEW m \in Nat, NEW a \in DenseIndices(m), NEW p \in 0..m, NEW q \in p..m
  PROVE  Summed(a, p) <= Summed(a, q)
<1> DEFINE T == {d \in Nat : p + d <= m => Summed(a, p) <= Summed(a, p + d)}
<1>1. 0 \in T
  BY SummedStep
<1>2. ASSUME NEW d \in Nat, d \in T PROVE d + 1 \in T
  <2> SUFFICES ASSUME p + (d + 1) <= m PROVE Summed(a, p) <= Summed(a, p + (d + 1))
    OBVIOUS
  <2> DEFINE e == p + d
  <2>1. e \in 0..(m-1) /\ e \in 0..m /\ e + 1 = p + (d + 1) /\ e + 1 \in 0..m
    OBVIOUS
  <2>2. Summed(a, p) <= Summed(a, e)
    BY <1>2
  <2> HIDE DEF e
  <2>3. Summed(a, e + 1) = Summed(a, e) + a[e] /\ a[e] \in Nat
    BY <2>1, SummedStep
  <2>4. Summed(a, p) \in Nat /\ Summed(a, e) \in Nat
    BY <2>1, SummedStep
  <2> QED  BY <2>1, <2>2, <2>3, <2>4
<1> HIDE DEF T
<1>3. Nat \subseteq T
  BY <1>1, <1>2, Sums!NatInductionOn
<1>4. q - p \in T /\ p + (q - p) = q /\ q <= m
  BY <1>3
<1> QED  BY <1>4 DEF T

LEMMA WrapKeeps == \A x \in 0..IntMax : WrapInt(x) = x
<1> SUFFICES ASSUME NEW x \in 0..IntMax PROVE WrapInt(x) = x
  OBVIOUS
<1> DEFINE half == IntMax + 1
           z == 2 * half
           y == x + half
<1>1. IntMax \in Nat /\ z \in Nat \ {0} /\ y \in Nat /\ y < z /\ y - half = x
  BY IntMaxAssumption
<1>2. WrapInt(x) = (y % z) - half
  BY DEF WrapInt
<1>3. y % z = y
  <2> HIDE DEF y, z
  <2> DEFINE k == y \div z
             r == y % z
  <2>1. k \in Nat /\ r \in 0..(z-1) /\ y = z * k + r
    <3>1. k \in Nat
      BY <1>1, Quotient
    <3> QED  BY <1>1, <3>1
  <2> HIDE DEF k, r
  <2>2. k = 0
    <3> SUFFICES ASSUME k >= 1 PROVE FALSE
      BY <2>1
    <3>1. z * k >= z * 1
      BY <1>1, <2>1
    <3> QED  BY <1>1, <2>1, <3>1
  <2>3. z * k = 0
    BY <1>1, <2>2
  <2>4. r = y
    BY <1>1, <2>1, <2>3
  <2> QED  BY <2>4 DEF r
<1> QED  BY <1>1, <1>2, <1>3

(* total_order().                                                          *)
LEMMA TotalOrderIs ==
  ASSUME NEW m \in Nat, NEW a \in DenseIndices(m), Summed(a, m) <= IntMax
  PROVE  TotalOrder(m, a) = Summed(a, m)
<1> DEFINE Walks(g) == g = [p \in 0..m |-> IF p = 0 THEN 0 ELSE WrapInt(g[p-1] + a[p-1])]
           w == [p \in 0..m |-> Summed(a, p)]
           g == CHOOSE g : Walks(g)
<1>0. \A p \in 0..m : Summed(a, p) \in 0..IntMax
  <2> TAKE p \in 0..m
  <2>1. Summed(a, p) <= Summed(a, m) /\ Summed(a, p) \in Nat /\ Summed(a, m) \in Nat
    <3>1. m \in p..m /\ m \in 0..m
      OBVIOUS
    <3> QED  BY <3>1, SummedStep, SummedGrows
  <2> QED  BY <2>1, IntMaxAssumption
<1>a. ASSUME NEW p \in 1..m PROVE WrapInt(Summed(a, p - 1) + a[p-1]) = Summed(a, p)
  <2>1. p - 1 \in 0..(m-1) /\ (p - 1) + 1 = p /\ p \in 0..m
    OBVIOUS
  <2>2. Summed(a, p) = Summed(a, p - 1) + a[p-1]
    BY <2>1, SummedStep
  <2> QED  BY <1>0, <2>1, <2>2, WrapKeeps
<1>1. Walks(w)
  <2>1. ASSUME NEW p \in 0..m
        PROVE  Summed(a, p) = IF p = 0 THEN 0 ELSE WrapInt(w[p-1] + a[p-1])
    <3>1. CASE p = 0
      BY <3>1, SummedStep
    <3>2. CASE p # 0
      <4>1. p \in 1..m /\ p - 1 \in 0..m
        BY <3>2
      <4>2. w[p-1] = Summed(a, p - 1)
        BY <4>1
      <4> QED  BY <1>a, <3>2, <4>1, <4>2
    <3> QED  BY <3>1, <3>2
  <2> QED  BY <2>1
<1>2. Walks(g)
  <2> HIDE DEF w
  <2> QED  BY <1>1
<1>3. g[m] = TotalOrder(m, a)
  BY DEF TotalOrder
<1> HIDE DEF g
<1> DEFINE T == {p \in Nat : p <= m => g[p] = Summed(a, p)}
<1>4. 0 \in T
  BY <1>2, SummedStep
<1>5. ASSUME NEW p \in Nat, p \in T PROVE p + 1 \in T
  <2> SUFFICES ASSUME p + 1 <= m PROVE g[p+1] = Summed(a, p + 1)
    OBVIOUS
  <2>1. p + 1 \in 1..m /\ p + 1 \in 0..m /\ p + 1 # 0 /\ (p + 1) - 1 = p
    OBVIOUS
  <2>2. g[p+1] = WrapInt(g[p] + a[p])
    BY <1>2, <2>1
  <2>3. g[p] = Summed(a, p)
    BY <1>5
  <2>4. WrapInt(Summed(a, (p + 1) - 1) + a[(p+1)-1]) = Summed(a, p + 1)
    BY <1>a, <2>1
  <2> QED  BY <2>1, <2>2, <2>3, <2>4
<1> HIDE DEF T
<1>6. Nat \subseteq T
  BY <1>4, <1>5, Sums!NatInductionOn
<1> QED  BY <1>3, <1>6 DEF T

(* What rank() has left of the order before each position.                 *)
Leaves(r, m, a, o) == r = [p \in 0..m |-> IF p = 0 THEN o ELSE WrapInt(r[p-1] - a[p-1])]
Leaving(m, a, o) == CHOOSE r : Leaves(r, m, a, o)

LEMMA LeavingIs ==
  ASSUME NEW m \in Nat, NEW a \in DenseIndices(m), NEW o, o = Summed(a, m), o <= IntMax
  PROVE  \A p \in 0..m : Leaving(m, a, o)[p] = o - Summed(a, p) /\ o - Summed(a, p) \in Nat
<1> DEFINE w == [p \in 0..m |-> o - Summed(a, p)]
           g == Leaving(m, a, o)
<1>0. \A p \in 0..m : Summed(a, p) \in Nat /\ o - Summed(a, p) \in 0..IntMax
  <2> TAKE p \in 0..m
  <2>1. Summed(a, p) <= Summed(a, m) /\ Summed(a, p) \in Nat /\ Summed(a, m) \in Nat
    <3>1. m \in p..m /\ m \in 0..m
      OBVIOUS
    <3> QED  BY <3>1, SummedStep, SummedGrows
  <2> QED  BY <2>1, IntMaxAssumption
<1>a. ASSUME NEW p \in 1..m PROVE WrapInt((o - Summed(a, p - 1)) - a[p-1]) = o - Summed(a, p)
  <2>1. p - 1 \in 0..(m-1) /\ (p - 1) + 1 = p /\ p \in 0..m /\ p - 1 \in 0..m /\ m \in 0..m
    OBVIOUS
  <2>2. Summed(a, p) = Summed(a, p - 1) + a[p-1] /\ a[p-1] \in Nat /\ o \in Nat
    BY <2>1, SummedStep
  <2>3. (o - Summed(a, p - 1)) - a[p-1] = o - Summed(a, p)
    BY <1>0, <2>1, <2>2
  <2> QED  BY <1>0, <2>1, <2>3, WrapKeeps
<1>b. o - Summed(a, 0) = o
  <2>1. o \in Nat
    <3>1. m \in 0..m
      OBVIOUS
    <3> QED  BY <3>1, SummedStep
  <2> QED  BY <2>1, SummedStep
<1>1. Leaves(w, m, a, o)
  <2>1. ASSUME NEW p \in 0..m
        PROVE  o - Summed(a, p) = IF p = 0 THEN o ELSE WrapInt(w[p-1] - a[p-1])
    <3>1. CASE p = 0
      BY <1>b, <3>1
    <3>2. CASE p # 0
      <4>1. p \in 1..m /\ p - 1 \in 0..m
        BY <3>2
      <4>2. w[p-1] = o - Summed(a, p - 1)
        BY <4>1
      <4> QED  BY <1>a, <3>2, <4>1, <4>2
    <3> QED  BY <3>1, <3>2
  <2> QED  BY <2>1 DEF Leaves
<1>2. Leaves(g, m, a, o)
  <2> HIDE DEF w
  <2> QED  BY <1>1 DEF Leaving
<1> HIDE DEF g
<1> DEFINE T == {p \in Nat : p <= m => g[p] = o - Summed(a, p)}
<1>4. 0 \in T
  BY <1>2, <1>b DEF Leaves
<1>5. ASSUME NEW p \in Nat, p \in T PROVE p + 1 \in T
  <2> SUFFICES ASSUME p + 1 <= m PROVE g[p+1] = o - Summed(a, p + 1)
    OBVIOUS
  <2>1. p + 1 \in 1..m /\ p + 1 \in 0..m /\ p + 1 # 0 /\ (p + 1) - 1 = p
    OBVIOUS
  <2>2. g[p+1] = WrapInt(g[p] - a[p])
    BY <1>2, <2>1 DEF Leaves
  <2>3. g[p] = o - Summed(a, p)
    BY <1>5
  <2>4. WrapInt((o - Summed(a, (p + 1) - 1)) - a[(p+1)-1]) = o - Summed(a, p + 1)
    BY <1>a, <2>1
  <2> QED  BY <2>1, <2>2, <2>3, <2>4
<1> HIDE DEF T
<1>6. Nat \subseteq T
  BY <1>4, <1>5, Sums!NatInductionOn
<1> QED  BY <1>0, <1>6 DEF T, g

-----------------------------------------------------------------------------
(* rank(), unfolded: what precedes an index in its band, by the position   *)
(* where an index of the same order first has a larger exponent.           *)
Before(m, a, r, p) ==
  MapThenSumSet(LAMBDA value : CompositionCount(m - p - 1, r[p] - value), (a[p] + 1)..r[p])
AllBefore(m, a, r) == MapThenSumSet(LAMBDA p : Before(m, a, r, p), 0..(m-1))

LEMMA RankUnfolds ==
  ASSUME NEW m \in Nat, NEW n \in Nat, NEW a \in DenseIndices(m), NEW o, o = TotalOrder(m, a), o \in Nat, o <= n
  PROVE  Rank(m, n, a) = LowerOrders(m, o) + AllBefore(m, a, Leaving(m, a, o))
<1>1. ~(\E p \in 0..(m-1) : a[p] < 0) /\ ~(o > n)
  <2>1. \A p \in 0..(m-1) : a[p] \in Nat
    BY DEF DenseIndices
  <2> QED  BY <2>1
<1>2. Rank(m, n, a) = IF (\E p \in 0..(m-1) : a[p] < 0) \/ TotalOrder(m, a) > n
                      THEN -1 ELSE LowerOrders(m, TotalOrder(m, a)) + AllBefore(m, a, Leaving(m, a, TotalOrder(m, a)))
  BY DEF Rank, AllBefore, Before, Leaving, Leaves, MapThenSumSet, MapThenFoldSet
<1> QED  BY <1>1, <1>2

(* The two sums of rank() as folds.                                        *)
CountsUp(g, q, R, S) ==
  g = [s \in SUBSET S |-> IF s = {} THEN 0
                          ELSE CompositionCount(q, R - (CHOOSE x \in s : TRUE))
                               + g[s \ {CHOOSE x \in s : TRUE}]]
CountingUp(q, R, S) == CHOOSE g : CountsUp(g, q, R, S)

LEMMA CountedIs ==
  ASSUME NEW q, NEW R, NEW S, IsFiniteSet(S), NEW fun,
         \A v \in S : fun[v] = CompositionCount(q, R - v) /\ fun[v] \in Int
  PROVE  CountingUp(q, R, S)[S] = Sums!Fold(fun, S)
<1> DEFINE h == CountingUp(q, R, S)
           g == CHOOSE g : Sums!Folding(g, fun, S)
<1>1. Sums!ValuesOn(fun, S)
  BY DEF Sums!ValuesOn
<1>2. \A k : CountsUp(k, q, R, S) <=> Sums!Folding(k, fun, S)
  <2> TAKE k
  <2>1. ASSUME NEW s \in SUBSET S
        PROVE  (IF s = {} THEN 0 ELSE CompositionCount(q, R - Sums!Pick(s)) + k[s \ {Sums!Pick(s)}])
                 = (IF s = {} THEN 0 ELSE fun[Sums!Pick(s)] + k[s \ {Sums!Pick(s)}])
    <3>1. CASE s = {}
      BY <3>1
    <3>2. CASE s # {}
      <4>1. Sums!Pick(s) \in S
        BY <3>2, Sums!PickIn
      <4> QED  BY <4>1
    <3> QED  BY <3>1, <3>2
  <2>2. [s \in SUBSET S |-> IF s = {} THEN 0 ELSE CompositionCount(q, R - Sums!Pick(s)) + k[s \ {Sums!Pick(s)}]]
          = [s \in SUBSET S |-> IF s = {} THEN 0 ELSE fun[Sums!Pick(s)] + k[s \ {Sums!Pick(s)}]]
    BY <2>1
  <2>3. Sums!Folding(k, fun, S) <=> k = [s \in SUBSET S |-> IF s = {} THEN 0 ELSE fun[Sums!Pick(s)] + k[s \ {Sums!Pick(s)}]]
    BY DEF Sums!Folding
  <2>4. CountsUp(k, q, R, S) <=>
          k = [s \in SUBSET S |-> IF s = {} THEN 0 ELSE CompositionCount(q, R - Sums!Pick(s)) + k[s \ {Sums!Pick(s)}]]
    BY DEF CountsUp, Sums!Pick
  <2> QED  BY <2>2, <2>3, <2>4
<1>3. Sums!Folding(g, fun, S) /\ Sums!Fold(fun, S) = g[S]
  BY <1>1, FiniteForSums, SumsLaws, Sums!FoldingChosen, Sums!FoldingIs
<1>4. CountsUp(h, q, R, S)
  <2>1. CountsUp(g, q, R, S)
    BY <1>2, <1>3
  <2> HIDE DEF g
  <2> QED  BY <2>1 DEF CountingUp
<1>5. Sums!Folding(h, fun, S)
  BY <1>2, <1>4
<1> HIDE DEF g, h
<1>6. h[S] = g[S]
  <2>1. Sums!IsFiniteSet(S) /\ S \subseteq S /\ S \in SUBSET S
    BY FiniteForSums
  <2> QED  BY <1>3, <1>5, <2>1, Sums!FoldingUnique
<1> QED  BY <1>3, <1>6 DEF h

LEMMA CountedRun ==
  ASSUME NEW q \in Nat, NEW L \in Nat, NEW F, \A v \in 1..L : F[v] = CompositionCount(q, L - v)
  PROVE  \A d \in 0..L : Sums!Fold(F, (L - d + 1)..L) = Ways(q, d - 1)
<1>0. \A v \in 1..L : F[v] \in Int
  <2>1. \A v \in 1..L : L - v \in Nat
    OBVIOUS
  <2>2. \A v \in 1..L : CompositionCount(q, L - v) \in Nat
    BY <2>1, CompositionsAre
  <2> QED  BY <2>2
<1> DEFINE T == {d \in Nat : d <= L => Sums!Fold(F, (L - d + 1)..L) = Ways(q, d - 1)}
<1>1. 0 \in T
  <2>1. L - 0 + 1 \in Int /\ L < L - 0 + 1
    OBVIOUS
  <2>2. Ways(q, 0 - 1) = 0
    BY DEF Ways
  <2> QED  BY <2>1, <2>2, SumNothing
<1>2. ASSUME NEW d \in Nat, d \in T PROVE d + 1 \in T
  <2> SUFFICES ASSUME d + 1 <= L PROVE Sums!Fold(F, (L - (d + 1) + 1)..L) = Ways(q, (d + 1) - 1)
    OBVIOUS
  <2> DEFINE x == L - d
             S == (x + 1)..L
  <2>1. /\ x \in 1..L /\ L - x = d /\ x \notin S /\ (L - (d + 1) + 1)..L = S \cup {x}
        /\ S \subseteq 1..L /\ (d + 1) - 1 = d
    OBVIOUS
  <2>2. IsFiniteSet(S)
    BY FS_Interval
  <2>3. Sums!Fold(F, S) = Ways(q, d - 1)
    BY <1>2
  <2>4. \A v \in 1..L : F[v] \in Int
    BY <1>0
  <2>5. F[x] = Ways(q, d) - Ways(q, d - 1)
    BY <2>1, CompositionsAre
  <2>6. Ways(q, d) \in Nat /\ Ways(q, d - 1) \in Nat
    <3>1. d \in Int /\ d - 1 \in Int
      OBVIOUS
    <3> QED  BY <3>1, PathsNat
  <2>7. Sums!Fold(F, S \cup {x}) = F[x] + Sums!Fold(F, S)
    <3> HIDE DEF S, x
    <3>1. Sums!ValuesOn(F, S \cup {x})
      BY <2>1, <2>4 DEF Sums!ValuesOn
    <3> QED  BY <2>1, <2>2, <3>1, FiniteForSums, SumsLaws, Sums!FoldAdd
  <2> HIDE DEF S, x
  <2>8. Sums!Fold(F, S \cup {x}) = Ways(q, d)
    BY <2>3, <2>5, <2>6, <2>7
  <2> QED  BY <2>1, <2>8
<1> HIDE DEF T
<1>3. Nat \subseteq T
  BY <1>1, <1>2, Sums!NatInductionOn
<1> QED  BY <1>3 DEF T

(* Position by position, in closed form.                                   *)
PassedAt(m, a, o) == [p \in 0..(m-1) |-> Ways(m - p - 1, o - Summed(a, p + 1) - 1)]

LEMMA BeforeIs ==
  ASSUME NEW m \in Nat, NEW a \in DenseIndices(m), NEW o, o = Summed(a, m), o <= IntMax,
         NEW p \in 0..(m-1)
  PROVE  Before(m, a, Leaving(m, a, o), p) = PassedAt(m, a, o)[p] /\ PassedAt(m, a, o)[p] \in Nat
<1> DEFINE L == Leaving(m, a, o)[p]
           q == m - p - 1
           d == o - Summed(a, p + 1)
           S == (a[p] + 1)..L
           G == [v \in 1..L |-> CompositionCount(q, L - v)]
<1>1. p \in 0..m /\ p + 1 \in 0..m /\ q \in Nat
  OBVIOUS
<1>2. L = o - Summed(a, p) /\ L \in Nat /\ d \in Nat
  BY <1>1, LeavingIs
<1>3. a[p] \in Nat /\ Summed(a, p + 1) = Summed(a, p) + a[p] /\ Summed(a, p) \in Nat /\ o \in Nat
  <2>1. m \in 0..m
    OBVIOUS
  <2> QED  BY <1>1, <2>1, SummedStep
<1>4. d \in 0..L /\ L - d = a[p]
  <2> HIDE DEF L
  <2> QED  BY <1>2, <1>3
<1>5. Before(m, a, Leaving(m, a, o), p) = CountingUp(q, L, S)[S]
  BY DEF Before, CountingUp, CountsUp, MapThenSumSet, MapThenFoldSet
<1> HIDE DEF L, q, d
<1>6. S \subseteq 1..L /\ IsFiniteSet(S) /\ S = (L - d + 1)..L
  <2>1. L \in Int /\ a[p] + 1 \in Int /\ 1 <= a[p] + 1 /\ L - d + 1 = a[p] + 1
    BY <1>2, <1>3, <1>4
  <2>2. IsFiniteSet(S)
    BY <2>1, FS_Interval
  <2>3. S \subseteq 1..L
    BY <2>1
  <2> QED  BY <2>1, <2>2, <2>3
<1>7. \A v \in 1..L : L - v \in Nat /\ CompositionCount(q, L - v) \in Int
  <2>1. \A v \in 1..L : L - v \in Nat
    BY <1>2
  <2> QED  BY <1>1, <2>1, CompositionsAre
<1>8. CountingUp(q, L, S)[S] = Sums!Fold(G, S)
  <2>1. \A v \in S : G[v] = CompositionCount(q, L - v) /\ G[v] \in Int
    BY <1>6, <1>7
  <2> HIDE DEF S, G
  <2>2. \A fun : (\A v \in S : fun[v] = CompositionCount(q, L - v) /\ fun[v] \in Int)
                   => CountingUp(q, L, S)[S] = Sums!Fold(fun, S)
    <3>1. IsFiniteSet(S)
      BY <1>6
    <3> QED  BY <3>1, CountedIs
  <2> QED  BY <2>1, <2>2
<1>10. Sums!Fold(G, S) = Ways(q, d - 1)
  <2>1. \A v \in 1..L : G[v] = CompositionCount(q, L - v)
    OBVIOUS
  <2> HIDE DEF G, S
  <2>2. Sums!Fold(G, (L - d + 1)..L) = Ways(q, d - 1)
    <3>1. \A k \in 0..L : Sums!Fold(G, (L - k + 1)..L) = Ways(q, k - 1)
      <4>1. \A F : (\A v \in 1..L : F[v] = CompositionCount(q, L - v))
                     => \A k \in 0..L : Sums!Fold(F, (L - k + 1)..L) = Ways(q, k - 1)
        BY <1>1, <1>2, CountedRun
      <4> QED  BY <2>1, <4>1
    <3> QED  BY <1>4, <3>1
  <2> QED  BY <1>6, <2>2
<1>11. PassedAt(m, a, o)[p] = Ways(q, d - 1)
  BY DEF PassedAt, q, d
<1>12. Ways(q, d - 1) \in Nat
  <2>1. d - 1 \in Int
    BY <1>2
  <2> QED  BY <1>1, <2>1, PathsNat
<1> QED  BY <1>5, <1>8, <1>10, <1>11, <1>12

BeforesUp(g, m, a, r, S) ==
  g = [s \in SUBSET S |-> IF s = {} THEN 0
                          ELSE Before(m, a, r, CHOOSE x \in s : TRUE)
                               + g[s \ {CHOOSE x \in s : TRUE}]]
AddingUp(m, a, r, S) == CHOOSE g : BeforesUp(g, m, a, r, S)

LEMMA AddedIs ==
  ASSUME NEW m, NEW a, NEW r, NEW S, IsFiniteSet(S), NEW fun,
         \A p \in S : fun[p] = Before(m, a, r, p) /\ fun[p] \in Int
  PROVE  AddingUp(m, a, r, S)[S] = Sums!Fold(fun, S)
<1> DEFINE h == AddingUp(m, a, r, S)
           g == CHOOSE g : Sums!Folding(g, fun, S)
<1>1. Sums!ValuesOn(fun, S)
  BY DEF Sums!ValuesOn
<1>2. \A k : BeforesUp(k, m, a, r, S) <=> Sums!Folding(k, fun, S)
  <2> TAKE k
  <2>1. ASSUME NEW s \in SUBSET S
        PROVE  (IF s = {} THEN 0 ELSE Before(m, a, r, Sums!Pick(s)) + k[s \ {Sums!Pick(s)}])
                 = (IF s = {} THEN 0 ELSE fun[Sums!Pick(s)] + k[s \ {Sums!Pick(s)}])
    <3>1. CASE s = {}
      BY <3>1
    <3>2. CASE s # {}
      <4>1. Sums!Pick(s) \in S
        BY <3>2, Sums!PickIn
      <4> QED  BY <4>1
    <3> QED  BY <3>1, <3>2
  <2>2. [s \in SUBSET S |-> IF s = {} THEN 0 ELSE Before(m, a, r, Sums!Pick(s)) + k[s \ {Sums!Pick(s)}]]
          = [s \in SUBSET S |-> IF s = {} THEN 0 ELSE fun[Sums!Pick(s)] + k[s \ {Sums!Pick(s)}]]
    BY <2>1
  <2>3. Sums!Folding(k, fun, S) <=> k = [s \in SUBSET S |-> IF s = {} THEN 0 ELSE fun[Sums!Pick(s)] + k[s \ {Sums!Pick(s)}]]
    BY DEF Sums!Folding
  <2>4. BeforesUp(k, m, a, r, S) <=>
          k = [s \in SUBSET S |-> IF s = {} THEN 0 ELSE Before(m, a, r, Sums!Pick(s)) + k[s \ {Sums!Pick(s)}]]
    BY DEF BeforesUp, Sums!Pick
  <2> QED  BY <2>2, <2>3, <2>4
<1>3. Sums!Folding(g, fun, S) /\ Sums!Fold(fun, S) = g[S]
  BY <1>1, FiniteForSums, SumsLaws, Sums!FoldingChosen, Sums!FoldingIs
<1>4. BeforesUp(h, m, a, r, S)
  <2>1. BeforesUp(g, m, a, r, S)
    BY <1>2, <1>3
  <2> HIDE DEF g
  <2> QED  BY <2>1 DEF AddingUp
<1>5. Sums!Folding(h, fun, S)
  BY <1>2, <1>4
<1> HIDE DEF g, h
<1>6. h[S] = g[S]
  <2>1. Sums!IsFiniteSet(S) /\ S \subseteq S /\ S \in SUBSET S
    BY FiniteForSums
  <2> QED  BY <1>3, <1>5, <2>1, Sums!FoldingUnique
<1> QED  BY <1>3, <1>6 DEF h

(* What rank() returns within the truncation order.                        *)
DensePassed(m, a, o, p) == Sums!Fold(PassedAt(m, a, o), 0..(p-1))

LEMMA RankIs ==
  ASSUME NEW m \in Nat, NEW n \in 0..IntMax, NEW a \in DenseIndices(m), Summed(a, m) <= n
  PROVE  Rank(m, n, a) = LowerOrders(m, Summed(a, m)) + DensePassed(m, a, Summed(a, m), m)
<1> DEFINE o == Summed(a, m)
           r == Leaving(m, a, o)
           S == 0..(m-1)
           F == PassedAt(m, a, o)
<1>1. o \in Nat /\ o <= IntMax /\ o <= n /\ n \in Nat
  <2>1. m \in 0..m
    OBVIOUS
  <2>2. Summed(a, m) \in Nat
    BY <2>1, SummedStep
  <2> QED  BY <2>2, IntMaxAssumption
<1>2. o = TotalOrder(m, a)
  BY <1>1, TotalOrderIs
<1>3. Rank(m, n, a) = LowerOrders(m, o) + AllBefore(m, a, r)
  <2> HIDE DEF o
  <2> QED  BY <1>1, <1>2, RankUnfolds
<1>4. AllBefore(m, a, r) = AddingUp(m, a, r, S)[S]
  BY DEF AllBefore, AddingUp, BeforesUp, MapThenSumSet, MapThenFoldSet
<1>5. \A p \in S : F[p] = Before(m, a, r, p) /\ F[p] \in Int
  BY <1>1, BeforeIs
<1>6. IsFiniteSet(S)
  BY FS_Interval
<1>7. AddingUp(m, a, r, S)[S] = Sums!Fold(F, S)
  <2> HIDE DEF o, r, S, F
  <2>1. \A fun : (\A p \in S : fun[p] = Before(m, a, r, p) /\ fun[p] \in Int)
                   => AddingUp(m, a, r, S)[S] = Sums!Fold(fun, S)
    BY <1>6, AddedIs
  <2> QED  BY <1>5, <2>1
<1> QED  BY <1>3, <1>4, <1>7 DEF DensePassed

LEMMA DensePassedStep ==
  ASSUME NEW m \in Nat, NEW a \in DenseIndices(m), NEW o \in Nat
  PROVE  /\ DensePassed(m, a, o, 0) = 0
         /\ \A p \in 0..m : DensePassed(m, a, o, p) \in Nat
         /\ \A p \in 0..(m-1) :
              /\ Ways(m - p - 1, o - Summed(a, p + 1) - 1) \in Nat
              /\ DensePassed(m, a, o, p + 1) =
                   DensePassed(m, a, o, p) + Ways(m - p - 1, o - Summed(a, p + 1) - 1)
<1> DEFINE f == PassedAt(m, a, o)
<1>1. ASSUME NEW p \in 0..(m-1)
      PROVE  f[p] = Ways(m - p - 1, o - Summed(a, p + 1) - 1) /\ f[p] \in Nat
  <2>1. p + 1 \in 0..m /\ m - p - 1 \in Nat
    OBVIOUS
  <2>2. o - Summed(a, p + 1) - 1 \in Int
    BY <2>1, SummedStep
  <2>3. f[p] = Ways(m - p - 1, o - Summed(a, p + 1) - 1)
    BY DEF PassedAt
  <2> QED  BY <2>1, <2>2, <2>3, PathsNat
<1> HIDE DEF f
<1>2. DensePassed(m, a, o, 0) = 0
  BY SumNothing DEF DensePassed
<1>3. ASSUME NEW p \in 0..(m-1)
      PROVE  /\ DensePassed(m, a, o, p + 1) = f[p] + DensePassed(m, a, o, p)
             /\ DensePassed(m, a, o, p) \in Int
  <2>1. 0 \in Int /\ p - 1 \in Int /\ 0 <= (p - 1) + 1 /\ (p - 1) + 1 = p /\ (p + 1) - 1 = p
    OBVIOUS
  <2>2. \A t \in 0..((p-1)+1) : f[t] \in Int
    BY <1>1
  <2>3. /\ Sums!Fold(f, 0..((p-1)+1)) = f[(p-1)+1] + Sums!Fold(f, 0..(p-1))
        /\ Sums!Fold(f, 0..(p-1)) \in Int
    BY <2>1, <2>2, SumNext
  <2> QED  BY <2>1, <2>3 DEF DensePassed, f
<1> DEFINE T == {p \in Nat : p <= m => DensePassed(m, a, o, p) \in Nat}
<1>4. 0 \in T
  BY <1>2
<1>5. ASSUME NEW p \in Nat, p \in T PROVE p + 1 \in T
  <2> SUFFICES ASSUME p + 1 <= m PROVE DensePassed(m, a, o, p + 1) \in Nat
    OBVIOUS
  <2>1. p \in 0..(m-1) /\ DensePassed(m, a, o, p) \in Nat
    BY <1>5
  <2>2. f[p] \in Nat /\ DensePassed(m, a, o, p + 1) = f[p] + DensePassed(m, a, o, p)
    BY <1>1, <1>3, <2>1
  <2> QED  BY <2>1, <2>2
<1> HIDE DEF T
<1>6. Nat \subseteq T
  BY <1>4, <1>5, Sums!NatInductionOn
<1>7. \A p \in 0..m : DensePassed(m, a, o, p) \in Nat
  BY <1>6 DEF T
<1>8. ASSUME NEW p \in 0..(m-1)
      PROVE  /\ Ways(m - p - 1, o - Summed(a, p + 1) - 1) \in Nat
             /\ DensePassed(m, a, o, p + 1) =
                  DensePassed(m, a, o, p) + Ways(m - p - 1, o - Summed(a, p + 1) - 1)
  <2> DEFINE x == Ways(m - p - 1, o - Summed(a, p + 1) - 1)
  <2>1. f[p] = x /\ f[p] \in Nat
    BY <1>1
  <2>2. DensePassed(m, a, o, p + 1) = f[p] + DensePassed(m, a, o, p) /\ DensePassed(m, a, o, p) \in Int
    BY <1>3
  <2> HIDE DEF x
  <2>3. x \in Nat /\ DensePassed(m, a, o, p + 1) = DensePassed(m, a, o, p) + x
    BY <2>1, <2>2
  <2> QED  BY <2>3 DEF x
<1> QED  BY <1>2, <1>7, <1>8

-----------------------------------------------------------------------------
(* rank() and sparse_rank() agree: a run of zero exponents is what the     *)
(* hockey-stick identity skips.                                            *)
LEMMA ZeroRun ==
  ASSUME NEW m \in Nat, NEW a \in DenseIndices(m), NEW o \in Nat, NEW p \in 0..m, NEW q \in p..m,
         \A i \in p..(q-1) : a[i] = 0, Summed(a, p) <= o
  PROVE  /\ Summed(a, q) = Summed(a, p)
         /\ q < m => DensePassed(m, a, o, q) = DensePassed(m, a, o, p)
                       + (Ways(m - p - 1, o - Summed(a, p)) - Ways(m - q - 1, o - Summed(a, p)))
         /\ Summed(a, p) = o => DensePassed(m, a, o, q) = DensePassed(m, a, o, p)
<1> DEFINE r == o - Summed(a, p)
           D(i) == DensePassed(m, a, o, i)
           Goal(i) == /\ Summed(a, i) = Summed(a, p)
                      /\ i < m => D(i) = D(p) + (Ways(m - p - 1, r) - Ways(m - i - 1, r))
                      /\ r = 0 => D(i) = D(p)
           T == {d \in Nat : p + d <= q => Goal(p + d)}
<1>0. Summed(a, p) \in Nat /\ r \in Nat
  BY SummedStep
<1> HIDE DEF r
<1>a. \A i \in 0..m : D(i) \in Nat
  BY DensePassedStep
<1>1. 0 \in T
  <2>1. p + 0 = p
    OBVIOUS
  <2>2. p < m => m - p - 1 \in Nat /\ Ways(m - p - 1, r) \in Nat
    <3> SUFFICES ASSUME p < m PROVE m - p - 1 \in Nat /\ Ways(m - p - 1, r) \in Nat
      OBVIOUS
    <3>1. m - p - 1 \in Nat /\ r \in Int
      BY <1>0
    <3> QED  BY <3>1, PathsNat
  <2>3. D(p) \in Nat
    BY <1>a
  <2> HIDE DEF D
  <2>4. Goal(p)
    BY <2>2, <2>3
  <2> QED  BY <2>1, <2>4
<1>2. ASSUME NEW d \in Nat, d \in T PROVE d + 1 \in T
  <2> SUFFICES ASSUME p + (d + 1) <= q PROVE Goal(p + (d + 1))
    OBVIOUS
  <2> DEFINE i == p + d
             x == m - i - 1
  <2>1. /\ i \in p..(q-1) /\ i \in 0..(m-1) /\ i + 1 = p + (d + 1) /\ x \in Nat /\ i < m /\ i \in 0..m
        /\ i + 1 < m => x - 1 \in Nat /\ (x - 1) + 1 = x /\ m - (i + 1) - 1 = x - 1
    OBVIOUS
  <2>2. Goal(i)
    BY <1>2
  <2> HIDE DEF i
  <2>3. Summed(a, i + 1) = Summed(a, i) + a[i] /\ a[i] = 0
    BY <2>1, SummedStep
  <2>4. Summed(a, i + 1) = Summed(a, p) /\ Summed(a, i) = Summed(a, p)
    BY <1>0, <2>2, <2>3
  <2>5. /\ D(i + 1) = D(i) + Ways(x, o - Summed(a, i + 1) - 1)
        /\ Ways(x, o - Summed(a, i + 1) - 1) \in Nat
    BY <2>1, DensePassedStep
  <2>6. o - Summed(a, i + 1) - 1 = r - 1
    BY <2>4 DEF r
  <2>7. D(i) \in Nat /\ D(p) \in Nat /\ D(i) = D(p) + (Ways(m - p - 1, r) - Ways(x, r))
    BY <1>a, <2>1, <2>2
  <2>8. Ways(x, r) \in Nat /\ m - p - 1 \in Nat /\ Ways(m - p - 1, r) \in Nat
    <3>1. m - p - 1 \in Nat /\ r \in Int
      BY <1>0, <2>1
    <3> QED  BY <2>1, <3>1, PathsNat
  <2>9. r = 0 => Ways(x, r - 1) = 0
    BY DEF Ways
  <2> HIDE DEF D, x
  <2>10. r = 0 => D(i + 1) = D(p)
    BY <2>2, <2>5, <2>6, <2>7, <2>9
  <2>11. i + 1 < m => D(i + 1) = D(p) + (Ways(m - p - 1, r) - Ways(m - (i + 1) - 1, r))
    <3> SUFFICES ASSUME i + 1 < m
                 PROVE  D(i + 1) = D(p) + (Ways(m - p - 1, r) - Ways(m - (i + 1) - 1, r))
      OBVIOUS
    <3>1. x - 1 \in Nat /\ (x - 1) + 1 = x /\ m - (i + 1) - 1 = x - 1
      BY <2>1
    <3>2. Ways(x - 1, r) \in Nat
      <4>1. r \in Int
        BY <1>0
      <4> QED  BY <3>1, <4>1, PathsNat
    <3>3. Ways(x, r) = Ways(x, r - 1) + Ways(x - 1, r)
      <4>1. CASE r = 0
        <5>1. Ways(x, 0) = 1 /\ Ways(x - 1, 0) = 1
          BY <2>1, <3>1, PathsStep
        <5> QED  BY <2>9, <4>1, <5>1
      <4>2. CASE r # 0
        <5>1. r \in Nat \ {0}
          BY <1>0, <4>2
        <5>2. Ways((x - 1) + 1, r) = Ways((x - 1) + 1, r - 1) + Ways(x - 1, r)
          BY <3>1, <5>1, PathsPascal
        <5> QED  BY <3>1, <5>2
      <4> QED  BY <4>1, <4>2
    <3>4. D(i + 1) = D(p) + (Ways(m - p - 1, r) - Ways(x - 1, r))
      BY <2>5, <2>6, <2>7, <2>8, <3>2, <3>3
    <3> QED  BY <3>1, <3>4
  <2>12. Goal(i + 1)
    BY <2>4, <2>10, <2>11
  <2> QED  BY <2>1, <2>12
<1> HIDE DEF T
<1>3. Nat \subseteq T
  BY <1>1, <1>2, Sums!NatInductionOn
<1>4. q - p \in T /\ p + (q - p) = q /\ q <= q
  BY <1>3
<1>5. Goal(q)
  BY <1>4 DEF T
<1>6. Summed(a, p) = o => r = 0
  BY <1>0 DEF r
<1> QED  BY <1>5, <1>6 DEF r

LEMMA DenseIn ==
  ASSUME NEW m \in Nat, NEW s \in SparseIndices(m)
  PROVE  Dense(m, s) \in DenseIndices(m)
<1>1. \A p \in 0..(m-1) : Dense(m, s)[p] \in Nat
  <2> TAKE p \in 0..(m-1)
  <2>1. CASE \E t \in DOMAIN s : s[t].pos = p
    <3>1. PICK t \in DOMAIN s : s[t].pos = p
      BY <2>1
    <3>2. Dense(m, s)[p] = s[t].exp
      BY <3>1, ExponentAt
    <3>3. s[t].exp \in Nat \ {0}
      <4>1. s \in Seq(Entries(m))
        BY DEF SparseIndices
      <4> QED  BY <4>1, <3>1, EntryIs
    <3> QED  BY <3>2, <3>3
  <2>2. CASE \A t \in DOMAIN s : s[t].pos # p
    BY <2>2, ExponentAt
  <2> QED  BY <2>1, <2>2
<1>2. Dense(m, s) = [p \in 0..(m-1) |-> Dense(m, s)[p]]
  BY DEF Dense
<1> QED  BY <1>1, <1>2 DEF DenseIndices

LEMMA EntryPassed ==
  ASSUME NEW m \in Nat \ {0}, NEW s \in SparseIndices(m), NEW o \in Nat, Spent(s, Len(s)) <= o,
         NEW a, a = Dense(m, s), NEW t \in Nat, t <= Len(s)
  PROVE  /\ Prev(s, t + 1) \in 0..m
         /\ Summed(a, Prev(s, t + 1)) = Spent(s, t)
         /\ DensePassed(m, a, o, Prev(s, t + 1)) = Passed(m, s, o, t)
<1>1. s \in Seq(Entries(m)) /\ DOMAIN s = 1..Len(s) /\ Len(s) \in Nat
  BY EntryIs DEF SparseIndices
<1>2. a \in DenseIndices(m) /\ m \in Nat
  BY DenseIn
<1>3. o \in Nat /\ \A k \in 0..Len(s) : Spent(s, k) \in Nat /\ Spent(s, k) <= o
  <2>1. \A k \in 0..Len(s) : Spent(s, k) \in Nat
    BY <1>1, SpentStep
  <2>2. Len(s) \in 0..Len(s)
    BY <1>1
  <2>3. \A k \in 0..Len(s) : Spent(s, k) <= Spent(s, Len(s))
    <3> TAKE k \in 0..Len(s)
    <3>1. k <= Len(s)
      BY <1>1
    <3> QED  BY <1>1, <2>2, <3>1, SpentGrows
  <2>4. \A k \in 0..Len(s) : Spent(s, k) <= o
    BY <2>1, <2>2, <2>3
  <2> QED  BY <2>1, <2>4
<1>a. \A p \in 0..m : \A q \in p..m :
        (\A i \in p..(q-1) : a[i] = 0) /\ Summed(a, p) <= o
          => /\ Summed(a, q) = Summed(a, p)
             /\ q < m => DensePassed(m, a, o, q) = DensePassed(m, a, o, p)
                           + (Ways(m - p - 1, o - Summed(a, p)) - Ways(m - q - 1, o - Summed(a, p)))
  <2> SUFFICES ASSUME NEW p \in 0..m, NEW q \in p..m, \A i \in p..(q-1) : a[i] = 0, Summed(a, p) <= o
               PROVE  /\ Summed(a, q) = Summed(a, p)
                      /\ q < m => DensePassed(m, a, o, q) = DensePassed(m, a, o, p)
                           + (Ways(m - p - 1, o - Summed(a, p)) - Ways(m - q - 1, o - Summed(a, p)))
    OBVIOUS
  <2>1. a \in DenseIndices(m) /\ m \in Nat /\ o \in Nat
    BY <1>2, <1>3
  <2> QED  BY ONLY <2>1, ZeroRun, p \in 0..m, q \in p..m, \A i \in p..(q-1) : a[i] = 0, Summed(a, p) <= o
<1>b. \A l \in 1..Len(s) :
        Passed(m, s, o, l) = Passed(m, s, o, l - 1)
          + (Ways(m - Prev(s, l) - 1, o - Spent(s, l - 1)) - Ways(m - s[l].pos - 1, o - Spent(s, l - 1)))
          + Ways(m - s[l].pos - 1, (o - Spent(s, l)) - 1)
  <2>1. m \in Nat \ {0} /\ s \in SparseIndices(m) /\ o \in Nat /\ Spent(s, Len(s)) <= o
    BY <1>3
  <2>2. \A l \in 1..Len(s) :
          Passed(m, s, o, l) = Passed(m, s, o, l - 1)
            + (Ways(m - Prev(s, l) - 1, o - Spent(s, l - 1)) - Ways(m - s[l].pos - 1, o - Spent(s, l - 1)))
            + Ways(m - s[l].pos - 1, (o - Spent(s, l)) - 1)
    BY ONLY <2>1, PassedStep
  <2> QED  BY ONLY <2>2
<1> DEFINE Goal(k) == LET p == Prev(s, k + 1)
                      IN  /\ p \in 0..m /\ Summed(a, p) = Spent(s, k)
                          /\ DensePassed(m, a, o, p) = Passed(m, s, o, k)
           T == {k \in Nat : k <= Len(s) => Goal(k)}
<1>4. 0 \in T
  <2>1. Prev(s, 0 + 1) = 0
    BY DEF Prev
  <2>2. Summed(a, 0) = 0 /\ Spent(s, 0) = 0
    BY <1>1, <1>2, SummedStep, SpentStep
  <2>3. DensePassed(m, a, o, 0) = 0
    BY <1>2, <1>3, DensePassedStep
  <2>4. Passed(m, s, o, 0) = 0
    BY SumNothing DEF Passed
  <2> QED  BY <2>1, <2>2, <2>3, <2>4
<1>5. ASSUME NEW k \in Nat, k \in T PROVE k + 1 \in T
  <2> SUFFICES ASSUME k + 1 <= Len(s) PROVE Goal(k + 1)
    OBVIOUS
  <2> DEFINE l == k + 1
             p == Prev(s, l)
             q == s[l].pos
  <2>1. l \in 1..Len(s) /\ l - 1 = k /\ k \in 0..Len(s) /\ l \in 0..Len(s) /\ l + 1 # 1 /\ (l + 1) - 1 = l
    BY <1>1
  <2>2. p \in 0..m /\ Summed(a, p) = Spent(s, k) /\ DensePassed(m, a, o, p) = Passed(m, s, o, k)
    BY <1>1, <1>5
  <2> HIDE DEF l
  <2>3. q \in 0..(m-1) /\ p \in 0..q /\ s[l].exp \in Nat \ {0}
    BY <1>1, <2>1, StepIs
  <2>4. Prev(s, l + 1) = q + 1
    BY <2>1 DEF Prev
  <2>5. \A i \in p..(q-1) : a[i] = 0
    <3> SUFFICES ASSUME NEW i \in p..(q-1) PROVE a[i] = 0
      OBVIOUS
    <3>1. ASSUME NEW u \in DOMAIN s PROVE s[u].pos # i
      <4>1. s[u].pos \in Int /\ u \in 1..Len(s)
        BY <1>1, EntryIs
      <4>2. CASE u = l
        BY <2>3, <4>1, <4>2
      <4>3. CASE l < u
        <5>1. s[l].pos < s[u].pos
          BY <1>1, <2>1, <4>3 DEF SparseIndices
        <5> QED  BY <2>3, <4>1, <5>1, SMTT(30)
      <4>4. CASE u < l
        <5>1. l # 1 /\ l - 1 \in DOMAIN s /\ p = s[l-1].pos + 1 /\ s[l-1].pos \in Int
          <6>1. l # 1 /\ l - 1 \in 1..Len(s)
            BY <1>1, <2>1, <4>1, <4>4
          <6> QED  BY <1>1, <6>1, EntryIs DEF Prev
        <5>2. CASE u = l - 1
          BY <5>1, <5>2, <2>3
        <5>3. CASE u < l - 1
          <6>1. s[u].pos < s[l-1].pos
            BY <5>1, <5>3 DEF SparseIndices
          <6> QED  BY <4>1, <5>1, <6>1, <2>3, SMTT(30)
        <5> QED  BY <2>1, <4>1, <4>4, <5>2, <5>3
      <4> QED  BY <2>1, <4>1, <4>2, <4>3, <4>4
    <3>2. i \in 0..(m-1)
      BY <2>3
    <3> QED  BY <3>1, <3>2, ExponentAt
  <2> HIDE DEF p, q
  <2>6. q \in p..m /\ q < m /\ q \in 0..(m-1) /\ q \in 0..m
    BY <2>3
  <2>7. Summed(a, p) <= o
    BY <1>3, <2>1, <2>2
  <2>8. /\ Summed(a, q) = Summed(a, p)
        /\ DensePassed(m, a, o, q) = DensePassed(m, a, o, p)
             + (Ways(m - p - 1, o - Summed(a, p)) - Ways(m - q - 1, o - Summed(a, p)))
    BY <1>a, <2>2, <2>5, <2>6, <2>7
  <2>9. a[q] = s[l].exp
    <3>1. l \in DOMAIN s /\ s[l].pos = q
      BY <1>1, <2>1 DEF q
    <3> QED  BY <2>6, <3>1, ExponentAt
  <2>10. Summed(a, q + 1) = Spent(s, l)
    <3>1. Summed(a, q + 1) = Summed(a, q) + a[q]
      BY <1>2, <2>6, SummedStep
    <3>2. Spent(s, l) = Spent(s, l - 1) + s[l].exp
      BY <1>1, <2>1, SpentStep
    <3> QED  BY <2>1, <2>2, <2>8, <2>9, <3>1, <3>2
  <2> DEFINE A == Ways(m - p - 1, o - Spent(s, k))
             B == Ways(m - q - 1, o - Spent(s, k))
             C == Ways(m - q - 1, o - Spent(s, l) - 1)
  <2>11. DensePassed(m, a, o, q + 1) = (Passed(m, s, o, k) + (A - B)) + C
    <3>1. DensePassed(m, a, o, q + 1) = DensePassed(m, a, o, q) + Ways(m - q - 1, o - Summed(a, q + 1) - 1)
      BY <1>2, <1>3, <2>6, DensePassedStep
    <3> QED  BY <2>2, <2>8, <2>10, <3>1
  <2>12. Passed(m, s, o, l) = Passed(m, s, o, k) + (A - B) + C
    <3>2. Passed(m, s, o, l) = Passed(m, s, o, l - 1)
            + (Ways(m - Prev(s, l) - 1, o - Spent(s, l - 1)) - Ways(m - s[l].pos - 1, o - Spent(s, l - 1)))
            + Ways(m - s[l].pos - 1, (o - Spent(s, l)) - 1)
      BY <1>b, <2>1
    <3> QED  BY <2>1, <3>2 DEF p, q
  <2>13. q + 1 \in 0..m
    BY <2>6
  <2> HIDE DEF A, B, C
  <2>14. DensePassed(m, a, o, q + 1) = Passed(m, s, o, l)
    BY <2>11, <2>12
  <2>15. Goal(l)
    BY <2>4, <2>10, <2>13, <2>14
  <2> QED  BY <2>15 DEF l
<1> HIDE DEF T
<1>6. Nat \subseteq T
  BY <1>4, <1>5, Sums!NatInductionOn
<1>7. Goal(t)
  BY <1>6 DEF T
<1> QED  BY <1>7

LEMMA ZeroAfter ==
  ASSUME NEW m \in Nat \ {0}, NEW s \in SparseIndices(m)
  PROVE  \A i \in Prev(s, Len(s) + 1)..(m-1) : Dense(m, s)[i] = 0
<1> DEFINE p == Prev(s, Len(s) + 1)
<1>1. s \in Seq(Entries(m)) /\ DOMAIN s = 1..Len(s) /\ Len(s) \in Nat
  BY EntryIs DEF SparseIndices
<1>2. p \in 0..m
  <2>1. Spent(s, Len(s)) \in Nat /\ Spent(s, Len(s)) <= Spent(s, Len(s)) /\ Len(s) <= Len(s)
    <3>1. Len(s) \in 0..Len(s)
      BY <1>1
    <3>2. Spent(s, Len(s)) \in Nat
      BY <1>1, <3>1, SpentStep
    <3> QED  BY <1>1, <3>2
  <2> QED  BY <1>1, <2>1, EntryPassed
<1> SUFFICES ASSUME NEW i \in p..(m-1) PROVE Dense(m, s)[i] = 0
  OBVIOUS
<1>3. i \in 0..(m-1)
  BY <1>2
<1>4. ASSUME NEW u \in DOMAIN s PROVE s[u].pos # i
  <2>1. u \in 1..Len(s) /\ Len(s) # 0 /\ Len(s) \in DOMAIN s
    BY <1>1
  <2>2. s[u].pos \in Int /\ s[Len(s)].pos \in Int
    BY <1>1, <2>1, EntryIs
  <2>3. p = s[Len(s)].pos + 1
    <3>1. Len(s) + 1 # 1 /\ (Len(s) + 1) - 1 = Len(s)
      BY <1>1, <2>1
    <3> QED  BY <3>1 DEF Prev
  <2>4. s[u].pos <= s[Len(s)].pos
    <3>1. CASE u = Len(s)
      BY <2>2, <3>1
    <3>2. CASE u < Len(s)
      <4>1. s[u].pos < s[Len(s)].pos
        BY <2>1, <3>2 DEF SparseIndices
      <4> QED  BY <2>2, <4>1
    <3> QED  BY <1>1, <2>1, <3>1, <3>2
  <2> HIDE DEF p
  <2> QED  BY <2>2, <2>3, <2>4, <1>2, <1>3
<1> QED  BY <1>3, <1>4, ExponentAt

LEMMA SparseAndDense ==
  ASSUME NEW m \in Nat \ {0}, NEW s \in SparseIndices(m)
  PROVE  /\ Summed(Dense(m, s), m) = SparseOrder(s)
         /\ SparseRank(m, s) = LowerOrders(m, SparseOrder(s))
                                 + DensePassed(m, Dense(m, s), SparseOrder(s), m)
<1> DEFINE a == Dense(m, s)
           o == SparseOrder(s)
           p == Prev(s, Len(s) + 1)
<1>1. s \in Seq(Entries(m)) /\ DOMAIN s = 1..Len(s) /\ Len(s) \in Nat
  BY EntryIs DEF SparseIndices
<1>2. o = Spent(s, Len(s)) /\ o \in Nat
  BY <1>1, SpentStep
<1>3. a \in DenseIndices(m) /\ m \in Nat
  BY DenseIn
<1>4. SparseRank(m, s) = LowerOrders(m, o) + Passed(m, s, o, Len(s))
  BY SparseRankIs
<1>5. \A i \in p..(m-1) : a[i] = 0
  BY ZeroAfter
<1> HIDE DEF o, a
<1>6. p \in 0..m /\ Summed(a, p) = o /\ DensePassed(m, a, o, p) = Passed(m, s, o, Len(s))
  <2>1. Len(s) <= Len(s)
    BY <1>1
  <2> QED  BY <1>1, <1>2, <2>1, EntryPassed DEF a
<1> HIDE DEF p
<1>7. Summed(a, m) = Summed(a, p) /\ DensePassed(m, a, o, m) = DensePassed(m, a, o, p)
  <2>1. m \in p..m /\ o <= o
    BY <1>2, <1>6
  <2> QED  BY <1>2, <1>3, <1>5, <1>6, <2>1, ZeroRun
<1> QED  BY <1>4, <1>6, <1>7 DEF o, a

-----------------------------------------------------------------------------
(* The graded order: what rank() counts before an index grows along it.    *)
LEMMA ExponentBounds ==
  ASSUME NEW m \in Nat, NEW a \in DenseIndices(m), NEW p \in 0..(m-1)
  PROVE  a[p] \in Nat /\ a[p] <= Summed(a, m) /\ Summed(a, p) <= Summed(a, p + 1)
<1>1. p \in 0..m /\ p + 1 \in 0..m /\ m \in (p + 1)..m /\ m \in 0..m
  OBVIOUS
<1>2. Summed(a, p + 1) = Summed(a, p) + a[p] /\ a[p] \in Nat /\ Summed(a, p) \in Nat /\ Summed(a, m) \in Nat
  BY <1>1, SummedStep
<1>3. Summed(a, p + 1) <= Summed(a, m)
  BY <1>1, SummedGrows
<1> QED  BY <1>2, <1>3

LEMMA TailBound ==
  ASSUME NEW m \in Nat, NEW a \in DenseIndices(m), NEW o, o = Summed(a, m), NEW p \in 0..m
  PROVE  /\ o \in Nat /\ o - Summed(a, p) \in Nat
         /\ DensePassed(m, a, o, p) <= DensePassed(m, a, o, m)
         /\ DensePassed(m, a, o, m) < DensePassed(m, a, o, p) + CompositionCount(m - p, o - Summed(a, p))
<1> DEFINE D(i) == DensePassed(m, a, o, i)
           r(i) == o - Summed(a, i)
           Goal(d) == D(m - d) <= D(m) /\ D(m) < D(m - d) + CompositionCount(d, r(m - d))
           T == {d \in Nat : d <= m => Goal(d)}
<1>1. o \in Nat
  <2>1. m \in 0..m
    OBVIOUS
  <2> QED  BY <2>1, SummedStep
<1>2. \A i \in 0..m : D(i) \in Nat /\ r(i) \in Nat
  <2> TAKE i \in 0..m
  <2>1. Summed(a, i) <= Summed(a, m) /\ Summed(a, i) \in Nat
    <3>1. m \in i..m
      OBVIOUS
    <3> QED  BY <3>1, SummedStep, SummedGrows
  <2>2. r(i) \in Nat
    BY <1>1, <2>1
  <2> QED  BY <1>1, <2>2, DensePassedStep
<1>3. 0 \in T
  <2>1. m - 0 = m /\ m \in 0..m
    OBVIOUS
  <2>2. r(m) = 0
    BY <1>1
  <2>3. CompositionCount(0, 0) = 1
    BY OneComposition
  <2>4. D(m) \in Nat
    BY <1>2, <2>1
  <2> HIDE DEF D, r
  <2>5. Goal(0)
    BY <2>1, <2>2, <2>3, <2>4
  <2> QED  BY <2>5
<1>4. ASSUME NEW d \in Nat, d \in T PROVE d + 1 \in T
  <2> SUFFICES ASSUME d + 1 <= m PROVE Goal(d + 1)
    OBVIOUS
  <2> DEFINE i == m - (d + 1)
  <2>1. i \in 0..(m-1) /\ i \in 0..m /\ i + 1 \in 0..m /\ m - d = i + 1 /\ m - i - 1 = d /\ m \in 0..m
    OBVIOUS
  <2>2. D(i + 1) <= D(m) /\ D(m) < D(i + 1) + CompositionCount(d, r(i + 1))
    <3>1. Goal(d)
      BY <1>4
    <3> QED  BY <2>1, <3>1
  <2> HIDE DEF i
  <2>3. D(i + 1) = D(i) + Ways(d, r(i + 1) - 1) /\ Ways(d, r(i + 1) - 1) \in Nat
    <3>1. /\ D(i + 1) = D(i) + Ways(m - i - 1, o - Summed(a, i + 1) - 1)
          /\ Ways(m - i - 1, o - Summed(a, i + 1) - 1) \in Nat
      BY <1>1, <2>1, DensePassedStep
    <3> QED  BY <2>1, <3>1
  <2>4. r(i + 1) \in Nat /\ r(i) \in Nat /\ r(i + 1) <= r(i)
    <3>1. Summed(a, i) <= Summed(a, i + 1) /\ Summed(a, i) \in Nat /\ Summed(a, i + 1) \in Nat
      BY <2>1, ExponentBounds, SummedStep
    <3>2. r(i + 1) <= r(i)
      BY <1>1, <3>1
    <3> QED  BY <1>2, <2>1, <3>2
  <2> DEFINE u == r(i + 1)
             v == r(i)
  <2>5. D(i) \in Nat /\ D(m) \in Nat /\ D(i + 1) \in Nat
    BY <1>2, <2>1
  <2>6. u \in Nat /\ v \in Nat /\ u <= v
    BY <2>4
  <2> HIDE DEF u, v
  <2>7. CompositionCount(d, u) = Ways(d, u) - Ways(d, u - 1)
    BY <2>6, CompositionsAre
  <2>8. Ways(d, u) <= Ways(d, v) /\ Ways(d, u) \in Nat /\ Ways(d, v) \in Nat
    <3>1. u \in Int /\ v \in Int
      BY <2>6
    <3> QED  BY <2>6, <3>1, PathsMonotone, PathsNat
  <2>9. CompositionCount(d + 1, v) = Ways(d, v)
    <3>1. d + 1 \in Nat /\ d + 1 > 0 /\ (d + 1) - 1 = d
      OBVIOUS
    <3> QED  BY <2>6, <3>1, CompositionsAre
  <2>10. D(i) <= D(m) /\ D(m) < D(i) + CompositionCount(d + 1, v)
    <3>1. D(i + 1) = D(i) + Ways(d, u - 1) /\ Ways(d, u - 1) \in Nat
      BY <2>3 DEF u
    <3>2. D(m) < D(i + 1) + CompositionCount(d, u)
      BY <2>2 DEF u
    <3>3. D(i + 1) <= D(m)
      BY <2>2
    <3> DEFINE Di == D(i)
               Dj == D(i + 1)
               Dm == D(m)
    <3>4. Di \in Nat /\ Dm \in Nat /\ Dj \in Nat
      BY <2>5
    <3>5. Dj = Di + Ways(d, u - 1) /\ Dm < Dj + CompositionCount(d, u) /\ Dj <= Dm
      BY <3>1, <3>2, <3>3
    <3> HIDE DEF Di, Dj, Dm
    <3>6. Di <= Dm /\ Dm < Di + CompositionCount(d + 1, v)
      BY <3>1, <3>4, <3>5, <2>7, <2>8, <2>9
    <3> QED  BY <3>6 DEF Di, Dm
  <2> QED  BY <2>10 DEF v, i
<1> HIDE DEF T
<1>5. Nat \subseteq T
  BY <1>3, <1>4, Sums!NatInductionOn
<1>6. Goal(m - p) /\ m - (m - p) = p
  BY <1>5 DEF T
<1>7. D(p) <= D(m) /\ D(m) < D(p) + CompositionCount(m - p, r(p))
  BY <1>6
<1> QED  BY <1>1, <1>2, <1>7

(* The place of a dense index, which rank() returns within the order.      *)
PlaceOf(m, a) == LowerOrders(m, Summed(a, m)) + DensePassed(m, a, Summed(a, m), m)

LEMMA PlaceBand ==
  ASSUME NEW m \in Nat \ {0}, NEW a \in DenseIndices(m)
  PROVE  /\ Summed(a, m) \in Nat /\ PlaceOf(m, a) \in Nat
         /\ LowerOrders(m, Summed(a, m)) <= PlaceOf(m, a)
         /\ PlaceOf(m, a) < LowerOrders(m, Summed(a, m) + 1)
<1> DEFINE o == Summed(a, m)
           D == DensePassed(m, a, o, m)
<1>1. m \in Nat /\ 0 \in 0..m /\ m \in 0..m /\ m - 0 = m
  OBVIOUS
<1>2. o \in Nat /\ Summed(a, 0) = 0 /\ DensePassed(m, a, o, 0) = 0
  BY <1>1, SummedStep, DensePassedStep
<1>3. o - Summed(a, 0) = o
  <2> HIDE DEF o
  <2> QED  BY <1>2
<1>4. D < DensePassed(m, a, o, 0) + CompositionCount(m - 0, o - Summed(a, 0)) /\ D \in Nat
  BY <1>1, <1>2, TailBound, DensePassedStep
<1>5. D < 0 + CompositionCount(m, o)
  BY <1>1, <1>2, <1>3, <1>4
<1> HIDE DEF D, o
<1>6. /\ LowerOrders(m, o) \in Nat
      /\ LowerOrders(m, o + 1) = LowerOrders(m, o) + CompositionCount(m, o)
  BY <1>2, LowerOrdersAre
<1>7. CompositionCount(m, o) \in Nat
  BY <1>1, <1>2, CompositionsAre
<1>8. PlaceOf(m, a) = LowerOrders(m, o) + D
  BY DEF PlaceOf, D, o
<1>9. D \in Nat
  BY <1>4 DEF D
<1> QED  BY <1>2, <1>5, <1>6, <1>7, <1>8, <1>9 DEF o

Earlier(m, a, b) ==
  \/ Summed(a, m) < Summed(b, m)
  \/ /\ Summed(a, m) = Summed(b, m)
     /\ \E p \in 0..(m-1) : a[p] > b[p] /\ \A q \in 0..(p-1) : a[q] = b[q]

LEMMA SamePrefix ==
  ASSUME NEW m \in Nat, NEW a \in DenseIndices(m), NEW b \in DenseIndices(m), NEW o \in Nat,
         NEW p \in 0..m, \A q \in 0..(p-1) : a[q] = b[q]
  PROVE  Summed(a, p) = Summed(b, p) /\ DensePassed(m, a, o, p) = DensePassed(m, b, o, p)
<1> DEFINE Goal(q) == Summed(a, q) = Summed(b, q) /\ DensePassed(m, a, o, q) = DensePassed(m, b, o, q)
           T == {q \in Nat : q <= p => Goal(q)}
<1>1. 0 \in T
  BY SummedStep, DensePassedStep
<1>2. ASSUME NEW q \in Nat, q \in T PROVE q + 1 \in T
  <2> SUFFICES ASSUME q + 1 <= p PROVE Goal(q + 1)
    OBVIOUS
  <2>1. q \in 0..(m-1) /\ q \in 0..(p-1) /\ q <= p
    OBVIOUS
  <2>2. a[q] = b[q] /\ Goal(q)
    BY <1>2, <2>1
  <2>3. Summed(a, q + 1) = Summed(a, q) + a[q] /\ Summed(b, q + 1) = Summed(b, q) + b[q]
    BY <2>1, SummedStep
  <2>4. Summed(a, q + 1) = Summed(b, q + 1)
    BY <2>2, <2>3
  <2>5. /\ DensePassed(m, a, o, q + 1) =
             DensePassed(m, a, o, q) + Ways(m - q - 1, o - Summed(a, q + 1) - 1)
        /\ DensePassed(m, b, o, q + 1) =
             DensePassed(m, b, o, q) + Ways(m - q - 1, o - Summed(b, q + 1) - 1)
    BY <2>1, DensePassedStep
  <2> QED  BY <2>2, <2>4, <2>5
<1> HIDE DEF T
<1>3. Nat \subseteq T
  BY <1>1, <1>2, Sums!NatInductionOn
<1>4. p \in T /\ p <= p
  BY <1>3
<1> QED  BY <1>4 DEF T

LEMMA EarlierPlaces ==
  ASSUME NEW m \in Nat \ {0}, NEW a \in DenseIndices(m), NEW b \in DenseIndices(m), Earlier(m, a, b)
  PROVE  PlaceOf(m, a) < PlaceOf(m, b)
<1>0. m \in Nat /\ m \in 0..m
  OBVIOUS
<1>1. CASE Summed(a, m) < Summed(b, m)
  <2> DEFINE o == Summed(a, m)
             l == Summed(b, m)
  <2>1. o \in Nat /\ l \in Nat /\ o < l
    BY <1>0, <1>1, SummedStep
  <2>2. PlaceOf(m, a) \in Nat /\ PlaceOf(m, a) < LowerOrders(m, o + 1)
    BY PlaceBand
  <2>3. PlaceOf(m, b) \in Nat /\ LowerOrders(m, l) <= PlaceOf(m, b)
    BY PlaceBand
  <2> HIDE DEF o, l
  <2>4. o + 1 \in Nat /\ o + 1 <= l
    BY <2>1
  <2>5. LowerOrders(m, o + 1) <= LowerOrders(m, l)
    BY <2>1, <2>4, LowerOrdersMonotone
  <2>6. LowerOrders(m, o + 1) \in Nat /\ LowerOrders(m, l) \in Nat
    BY <2>1, <2>4, LowerOrdersAre
  <2> QED  BY <2>2, <2>3, <2>5, <2>6
<1>2. CASE Summed(a, m) = Summed(b, m) /\ \E p \in 0..(m-1) : a[p] > b[p] /\ \A q \in 0..(p-1) : a[q] = b[q]
  <2>1. PICK p \in 0..(m-1) : a[p] > b[p] /\ \A q \in 0..(p-1) : a[q] = b[q]
    BY <1>2
  <2> DEFINE o == Summed(a, m)
             x == m - p - 1
             u == o - Summed(a, p + 1)
             v == o - Summed(b, p + 1)
             Dp == DensePassed(m, a, o, p)
             Da == DensePassed(m, a, o, m)
             Db == DensePassed(m, b, o, m)
  <2>2. o \in Nat /\ o = Summed(b, m) /\ p \in 0..m /\ p + 1 \in 0..m /\ x \in Nat /\ m - (p + 1) = x
    BY <1>0, <1>2, SummedStep
  <2>3. Summed(a, p) = Summed(b, p) /\ Dp = DensePassed(m, b, o, p)
    BY <1>0, <2>1, <2>2, SamePrefix
  <2>4. /\ a[p] \in Nat /\ b[p] \in Nat /\ Summed(a, p) \in Nat
        /\ Summed(a, p + 1) = Summed(a, p) + a[p] /\ Summed(b, p + 1) = Summed(b, p) + b[p]
    BY <1>0, <2>2, SummedStep
  <2>5. u \in Nat /\ v \in Nat
    BY <1>0, <2>2, TailBound
  <2>6. u < v
    <3> HIDE DEF o
    <3> QED  BY <2>1, <2>2, <2>3, <2>4
  <2>7. Da < DensePassed(m, a, o, p + 1) + CompositionCount(x, u)
    <3>1. Da < DensePassed(m, a, o, p + 1) + CompositionCount(m - (p + 1), u)
      BY <1>0, <2>2, TailBound
    <3> QED  BY <2>2, <3>1
  <2>8. DensePassed(m, b, o, p + 1) <= Db
    BY <1>0, <2>2, TailBound
  <2>9. DensePassed(m, a, o, p + 1) = Dp + Ways(x, u - 1) /\ DensePassed(m, b, o, p + 1) = Dp + Ways(x, v - 1)
    BY <1>0, <2>2, <2>3, DensePassedStep
  <2>10. Dp \in Nat /\ Da \in Nat /\ Db \in Nat
    BY <1>0, <2>2, DensePassedStep
  <2>11. PlaceOf(m, a) = LowerOrders(m, o) + Da /\ PlaceOf(m, b) = LowerOrders(m, o) + Db /\ LowerOrders(m, o) \in Nat
    BY <2>2, LowerOrdersAre DEF PlaceOf
  <2> HIDE DEF o, x, u, v, Dp, Da, Db
  <2>12. CompositionCount(x, u) = Ways(x, u) - Ways(x, u - 1)
    BY <2>2, <2>5, CompositionsAre
  <2>13. Ways(x, u) \in Nat /\ Ways(x, u - 1) \in Nat /\ Ways(x, v - 1) \in Nat
    <3>1. u \in Int /\ u - 1 \in Int /\ v - 1 \in Int
      BY <2>5
    <3> QED  BY <2>2, <3>1, PathsNat
  <2>14. Ways(x, u) <= Ways(x, v - 1)
    <3>1. v - 1 \in Nat /\ u <= v - 1
      BY <2>5, <2>6
    <3> QED  BY <2>2, <2>5, <3>1, PathsMonotone
  <2>15. Da < Dp + Ways(x, u) /\ Dp + Ways(x, v - 1) <= Db
    BY <2>7, <2>8, <2>9, <2>10, <2>12, <2>13
  <2>16. Da < Db
    BY <2>10, <2>13, <2>14, <2>15
  <2> QED  BY <2>10, <2>11, <2>16
<1> QED  BY <1>1, <1>2 DEF Earlier

(* It is total, so that a place belongs to one index.                      *)
LEMMA EarlierTotal ==
  ASSUME NEW m \in Nat, NEW a \in DenseIndices(m), NEW b \in DenseIndices(m), a # b
  PROVE  Earlier(m, a, b) \/ Earlier(m, b, a)
<1>0. m \in 0..m /\ Summed(a, m) \in Nat /\ Summed(b, m) \in Nat
  <2>1. m \in 0..m
    OBVIOUS
  <2> QED  BY <2>1, SummedStep
<1>1. CASE Summed(a, m) # Summed(b, m)
  BY <1>0, <1>1 DEF Earlier
<1>2. CASE Summed(a, m) = Summed(b, m)
  <2> DEFINE S == {p \in 0..(m-1) : a[p] # b[p]}
  <2>1. S # {}
    <3> SUFFICES ASSUME \A p \in 0..(m-1) : a[p] = b[p] PROVE a = b
      OBVIOUS
    <3> QED  BY DEF DenseIndices
  <2>2. S \in SUBSET Nat
    OBVIOUS
  <2>3. PICK p \in S : \A q \in S : p <= q
    <3> HIDE DEF S
    <3> QED  BY <2>1, <2>2, Sums!LeastNatural
  <2>4. p \in 0..(m-1) /\ a[p] # b[p] /\ \A q \in 0..(p-1) : a[q] = b[q]
    <3>1. p \in 0..(m-1) /\ a[p] # b[p]
      OBVIOUS
    <3>2. ASSUME NEW q \in 0..(p-1) PROVE a[q] = b[q]
      <4>1. q \in 0..(m-1) /\ ~(p <= q)
        BY <3>1
      <4> QED  BY <2>3, <4>1
    <3> QED  BY <3>1, <3>2
  <2>5. a[p] \in Nat /\ b[p] \in Nat
    BY <2>4 DEF DenseIndices
  <2>6. a[p] > b[p] \/ b[p] > a[p]
    BY <2>4, <2>5
  <2>7. \A q \in 0..(p-1) : b[q] = a[q]
    BY <2>4
  <2> HIDE DEF S
  <2> QED  BY <1>2, <2>4, <2>6, <2>7 DEF Earlier
<1> QED  BY <1>1, <1>2

LEMMA PlacesOrder ==
  ASSUME NEW m \in Nat \ {0}, NEW a \in DenseIndices(m), NEW b \in DenseIndices(m)
  PROVE  /\ PlaceOf(m, a) < PlaceOf(m, b) <=> Earlier(m, a, b)
         /\ PlaceOf(m, a) = PlaceOf(m, b) => a = b
<1>1. PlaceOf(m, a) \in Nat /\ PlaceOf(m, b) \in Nat /\ m \in Nat
  BY PlaceBand
<1>2. Earlier(m, a, b) => PlaceOf(m, a) < PlaceOf(m, b)
  BY EarlierPlaces
<1>3. Earlier(m, b, a) => PlaceOf(m, b) < PlaceOf(m, a)
  BY EarlierPlaces
<1>4. a = b \/ Earlier(m, a, b) \/ Earlier(m, b, a)
  BY <1>1, EarlierTotal
<1> QED  BY <1>1, <1>2, <1>3, <1>4

-----------------------------------------------------------------------------
(* Every place of a band is taken: exponents chosen up to position p, with *)
(* the place within the run of those that share them, can be completed.    *)
Holding(m, o, c, a, p) ==
  /\ Summed(a, p) <= o
  /\ DensePassed(m, a, o, p) <= c
  /\ c < DensePassed(m, a, o, p) + CompositionCount(m - p, o - Summed(a, p))

LEMMA CompleteOne ==
  ASSUME NEW m \in Nat, NEW o \in Nat, NEW c \in Nat, NEW a \in DenseIndices(m),
         NEW p \in 0..(m-1), Holding(m, o, c, a, p)
  PROVE  \E b \in DenseIndices(m) : /\ \A q \in 0..(p-1) : b[q] = a[q]
                                    /\ Holding(m, o, c, b, p + 1)
<1> DEFINE r == o - Summed(a, p)
           D == DensePassed(m, a, o, p)
           x == m - p - 1
           S == {u \in Nat : c < D + Ways(x, u)}
<1>1. p \in 0..m /\ p + 1 \in 0..m /\ x \in Nat /\ m - p \in Nat /\ m - p > 0 /\ (m - p) - 1 = x /\ m - (p + 1) = x
  OBVIOUS
<1>2. Summed(a, p) \in Nat /\ D \in Nat /\ r \in Nat /\ o = Summed(a, p) + r
  <2>1. Summed(a, p) \in Nat
    BY <1>1, SummedStep
  <2>2. D \in Nat
    BY <1>1, DensePassedStep
  <2>3. Summed(a, p) <= o
    BY DEF Holding
  <2> QED  BY <2>1, <2>2, <2>3
<1>3. D <= c /\ c < D + CompositionCount(m - p, r)
  BY DEF Holding
<1> HIDE DEF r, D, x
<1>4. CompositionCount(m - p, r) = Ways(x, r)
  BY <1>1, <1>2, CompositionsAre
<1>5. r \in S
  BY <1>2, <1>3, <1>4
<1>6. PICK u \in S : \A v \in S : u <= v
  <2>1. S \in SUBSET Nat /\ S # {}
    BY <1>5
  <2> HIDE DEF S
  <2> QED  BY <2>1, Sums!LeastNatural
<1>7. u \in Nat /\ c < D + Ways(x, u) /\ u <= r /\ Ways(x, u) \in Nat
  <2>1. u \in Nat /\ c < D + Ways(x, u) /\ u <= r
    BY <1>5, <1>6
  <2> QED  BY <1>1, <2>1, PathsNat
<1>8. D + Ways(x, u - 1) <= c /\ Ways(x, u - 1) \in Nat
  <2>1. CASE u = 0
    <3>1. Ways(x, u - 1) = 0
      BY <2>1 DEF Ways
    <3> QED  BY <1>2, <1>3, <3>1
  <2>2. CASE u # 0
    <3>1. u - 1 \in Nat /\ ~(u <= u - 1) /\ u - 1 \in Int
      BY <1>7, <2>2
    <3>2. u - 1 \notin S
      BY <1>6, <3>1
    <3>3. ~(c < D + Ways(x, u - 1))
      BY <3>1, <3>2
    <3>4. Ways(x, u - 1) \in Nat
      BY <1>1, <3>1, PathsNat
    <3> QED  BY <1>2, <3>3, <3>4
  <2> QED  BY <2>1, <2>2
<1> HIDE DEF S
<1> DEFINE b == [a EXCEPT ![p] = r - u]
<1>9. b \in DenseIndices(m) /\ b[p] = r - u /\ \A q \in 0..(p-1) : b[q] = a[q]
  <2>1. r - u \in Nat
    BY <1>2, <1>7
  <2> QED  BY <1>1, <2>1 DEF DenseIndices
<1> HIDE DEF b
<1>10. Summed(b, p) = Summed(a, p) /\ DensePassed(m, b, o, p) = D
  BY <1>1, <1>9, SamePrefix DEF D
<1>11. Summed(b, p + 1) = Summed(a, p) + (r - u)
  BY <1>9, <1>10, SummedStep
<1>12. o - Summed(b, p + 1) = u /\ Summed(b, p + 1) <= o
  BY <1>2, <1>7, <1>11
<1>13. DensePassed(m, b, o, p + 1) = D + Ways(x, u - 1)
  BY <1>9, <1>10, <1>12, DensePassedStep DEF x
<1>14. CompositionCount(x, u) = Ways(x, u) - Ways(x, u - 1)
  BY <1>1, <1>7, CompositionsAre
<1>15. c < DensePassed(m, b, o, p + 1) + CompositionCount(x, u)
  BY <1>2, <1>7, <1>8, <1>13, <1>14
<1>16. Holding(m, o, c, b, p + 1)
  BY <1>1, <1>8, <1>12, <1>13, <1>15 DEF Holding
<1> QED  BY <1>9, <1>16

LEMMA CompleteAll ==
  ASSUME NEW m \in Nat, NEW o \in Nat, NEW c \in Nat, NEW a \in DenseIndices(m),
         NEW p \in 0..m, Holding(m, o, c, a, p)
  PROVE  \E b \in DenseIndices(m) : /\ \A q \in 0..(p-1) : b[q] = a[q]
                                    /\ Summed(b, m) = o /\ DensePassed(m, b, o, m) = c
<1> DEFINE Goal(d) == \E b \in DenseIndices(m) : /\ \A q \in 0..(p-1) : b[q] = a[q]
                                                 /\ Holding(m, o, c, b, p + d)
           T == {d \in Nat : p + d <= m => Goal(d)}
<1>1. 0 \in T
  <2>1. p + 0 = p
    OBVIOUS
  <2> QED  BY <2>1
<1>2. ASSUME NEW d \in Nat, d \in T PROVE d + 1 \in T
  <2> SUFFICES ASSUME p + (d + 1) <= m PROVE Goal(d + 1)
    OBVIOUS
  <2> DEFINE e == p + d
  <2>1. e \in 0..(m-1) /\ e + 1 = p + (d + 1) /\ 0..(p-1) \subseteq 0..(e-1)
    OBVIOUS
  <2>2. PICK b \in DenseIndices(m) : (\A q \in 0..(p-1) : b[q] = a[q]) /\ Holding(m, o, c, b, e)
    BY <1>2
  <2> HIDE DEF e
  <2>3. PICK g \in DenseIndices(m) : (\A q \in 0..(e-1) : g[q] = b[q]) /\ Holding(m, o, c, g, e + 1)
    BY <2>1, <2>2, CompleteOne
  <2>4. \A q \in 0..(p-1) : g[q] = a[q]
    BY <2>1, <2>2, <2>3
  <2> QED  BY <2>1, <2>3, <2>4
<1> HIDE DEF T
<1>3. Nat \subseteq T
  BY <1>1, <1>2, Sums!NatInductionOn
<1>4. m - p \in Nat /\ p + (m - p) = m
  OBVIOUS
<1>5. Goal(m - p)
  BY <1>3, <1>4 DEF T
<1>6. PICK b \in DenseIndices(m) : (\A q \in 0..(p-1) : b[q] = a[q]) /\ Holding(m, o, c, b, m)
  BY <1>4, <1>5
<1> DEFINE r == o - Summed(b, m)
<1>7. r \in Nat /\ Summed(b, m) \in Nat /\ DensePassed(m, b, o, m) \in Nat
  <2>1. m \in 0..m
    OBVIOUS
  <2>2. Summed(b, m) \in Nat
    BY <2>1, SummedStep
  <2>3. DensePassed(m, b, o, m) \in Nat
    BY <2>1, DensePassedStep
  <2>4. Summed(b, m) <= o
    BY <1>6 DEF Holding
  <2> QED  BY <2>2, <2>3, <2>4
<1>8. DensePassed(m, b, o, m) <= c /\ c < DensePassed(m, b, o, m) + CompositionCount(0, r)
  <2>1. m - m = 0
    OBVIOUS
  <2> QED  BY <1>6, <2>1 DEF Holding
<1>9. r = 0 \/ r \in Nat \ {0}
  BY <1>7
<1>10. r = 0 /\ CompositionCount(0, r) = 1
  <2> HIDE DEF r
  <2>1. r \in Nat \ {0} => CompositionCount(0, r) = 0
    BY OneComposition
  <2>2. r = 0 => CompositionCount(0, r) = 1
    BY OneComposition
  <2> QED  BY <1>7, <1>8, <1>9, <2>1, <2>2
<1>11. Summed(b, m) = o
  BY <1>7, <1>10
<1>12. DensePassed(m, b, o, m) = c
  BY <1>7, <1>8, <1>10
<1> QED  BY <1>6, <1>11, <1>12

(* An index of order o whose place is within the run of a prefix has it.   *)
LEMMA HeldPrefix ==
  ASSUME NEW m \in Nat \ {0}, NEW o \in Nat, NEW b \in DenseIndices(m), Summed(b, m) = o,
         NEW a \in DenseIndices(m), NEW p \in 0..m, Holding(m, o, DensePassed(m, b, o, m), a, p)
  PROVE  \A q \in 0..(p-1) : b[q] = a[q]
<1> DEFINE c == DensePassed(m, b, o, m)
<1>1. m \in Nat /\ c \in Nat
  <2>1. m \in Nat /\ m \in 0..m
    OBVIOUS
  <2> QED  BY <2>1, DensePassedStep
<1> HIDE DEF c
<1>2. Holding(m, o, c, a, p)
  BY DEF c
<1>3. PICK g \in DenseIndices(m) : /\ \A q \in 0..(p-1) : g[q] = a[q]
                                   /\ Summed(g, m) = o /\ DensePassed(m, g, o, m) = c
  BY <1>1, <1>2, CompleteAll
<1>4. PlaceOf(m, g) = PlaceOf(m, b)
  BY <1>3 DEF PlaceOf, c
<1>5. g = b
  BY <1>3, <1>4, PlacesOrder
<1> QED  BY <1>3, <1>5

LEMMA PlaceInBand ==
  ASSUME NEW m \in Nat \ {0}, NEW o \in Nat, NEW c \in Nat, c < CompositionCount(m, o)
  PROVE  \E a \in DenseIndices(m) : Summed(a, m) = o /\ DensePassed(m, a, o, m) = c
<1> DEFINE z == [q \in 0..(m-1) |-> 0]
<1>1. z \in DenseIndices(m) /\ m \in Nat /\ 0 \in 0..m
  BY DEF DenseIndices
<1> HIDE DEF z
<1>2. Summed(z, 0) = 0 /\ DensePassed(m, z, o, 0) = 0
  BY <1>1, SummedStep, DensePassedStep
<1>3. m - 0 = m /\ o - 0 = o /\ 0 <= o /\ 0 <= c /\ CompositionCount(m, o) \in Nat
  BY <1>1, CompositionsAre
<1>4. Holding(m, o, c, z, 0)
  BY <1>2, <1>3 DEF Holding
<1> QED  BY <1>1, <1>4, CompleteAll

(* Every place has its index.                                              *)
LEMMA PlaceTaken ==
  ASSUME NEW m \in Nat \ {0}, NEW x \in Nat
  PROVE  \E a \in DenseIndices(m) : PlaceOf(m, a) = x
<1> DEFINE S == {o \in Nat : x < LowerOrders(m, o + 1)}
           T == {o \in Nat : o <= LowerOrders(m, o)}
<1>1. \A o \in Nat : /\ LowerOrders(m, o) \in Nat
                     /\ LowerOrders(m, o + 1) = LowerOrders(m, o) + CompositionCount(m, o)
  BY LowerOrdersAre
<1>2. \A o \in Nat : CompositionCount(m, o) \in Nat /\ CompositionCount(m, o) >= 1
  <2> TAKE o \in Nat
  <2>1. m \in Nat /\ m > 0 /\ m - 1 \in Nat /\ 0 \in Nat /\ 0 <= o
    OBVIOUS
  <2>2. CompositionCount(m, o) = Ways(m - 1, o) /\ CompositionCount(m, o) \in Nat
    BY <2>1, CompositionsAre
  <2>3. Ways(m - 1, 0) <= Ways(m - 1, o)
    BY <2>1, PathsMonotone
  <2>4. Ways(m - 1, 0) = 1
    BY <2>1, PathsStep
  <2> QED  BY <2>2, <2>3, <2>4
<1>3. Nat \subseteq T
  <2>1. 0 \in T
    BY <1>1
  <2>2. ASSUME NEW o \in Nat, o \in T PROVE o + 1 \in T
    <3>1. o <= LowerOrders(m, o) /\ o + 1 \in Nat
      BY <2>2
    <3> QED  BY <1>1, <1>2, <3>1
  <2> HIDE DEF T
  <2> QED  BY <2>1, <2>2, Sums!NatInductionOn
<1>4. x \in S
  <2>1. x + 1 \in T /\ x + 1 \in Nat
    BY <1>3
  <2>2. x + 1 <= LowerOrders(m, x + 1)
    BY <2>1
  <2> QED  BY <1>1, <2>1, <2>2
<1>5. PICK o \in S : \A k \in S : o <= k
  <2>1. S \in SUBSET Nat /\ S # {}
    BY <1>4
  <2> HIDE DEF S
  <2> QED  BY <2>1, Sums!LeastNatural
<1>6. o \in Nat /\ x < LowerOrders(m, o + 1)
  BY <1>5
<1>7. LowerOrders(m, o) <= x
  <2>1. CASE o = 0
    <3>1. LowerOrders(m, 0) = 0
      BY LowerOrdersAre DEF Ways
    <3> QED  BY <2>1, <3>1
  <2>2. CASE o # 0
    <3>1. o - 1 \in Nat /\ (o - 1) + 1 = o /\ ~(o <= o - 1)
      BY <1>6, <2>2
    <3>2. o - 1 \notin S
      BY <1>5, <3>1
    <3>3. ~(x < LowerOrders(m, o))
      BY <3>1, <3>2
    <3> QED  BY <1>1, <1>6, <3>3
  <2> QED  BY <2>1, <2>2
<1> HIDE DEF S, T
<1> DEFINE c == x - LowerOrders(m, o)
<1>8. c \in Nat /\ c < CompositionCount(m, o) /\ x = LowerOrders(m, o) + c
  BY <1>1, <1>2, <1>6, <1>7
<1> HIDE DEF c
<1>9. PICK a \in DenseIndices(m) : Summed(a, m) = o /\ DensePassed(m, a, o, m) = c
  BY <1>6, <1>8, PlaceInBand
<1>10. PlaceOf(m, a) = x
  BY <1>8, <1>9 DEF PlaceOf
<1> QED  BY <1>10

(* How many indices of the layout are earlier.                             *)
LEMMA PlaceCounts ==
  ASSUME NEW m \in Nat \ {0}, NEW n \in Nat, NEW a \in DenseIndices(m), Summed(a, m) <= n,
         NEW B, \A b : b \in B <=> b \in DenseIndices(m) /\ Summed(b, m) <= n /\ Earlier(m, b, a)
  PROVE  IsFiniteSet(B) /\ Cardinality(B) = PlaceOf(m, a)
<1> DEFINE x == PlaceOf(m, a)
           F == [b \in B |-> PlaceOf(m, b)]
<1>1. m \in Nat /\ m \in 0..m
  OBVIOUS
<1>2. x \in Nat
  BY PlaceBand
<1>3. ASSUME NEW b \in B PROVE b \in DenseIndices(m) /\ PlaceOf(m, b) \in 0..(x-1)
  <2>1. b \in DenseIndices(m) /\ Earlier(m, b, a)
    OBVIOUS
  <2>2. PlaceOf(m, b) \in Nat /\ PlaceOf(m, b) < x
    BY <2>1, PlaceBand, PlacesOrder
  <2> QED  BY <1>2, <2>1, <2>2
<1>4. ASSUME NEW y \in 0..(x-1) PROVE \E b \in B : PlaceOf(m, b) = y
  <2>1. y \in Nat /\ y < x
    BY <1>2
  <2>2. PICK b \in DenseIndices(m) : PlaceOf(m, b) = y
    BY <2>1, PlaceTaken
  <2>3. Earlier(m, b, a)
    BY <2>1, <2>2, PlacesOrder
  <2>4. Summed(b, m) <= n
    <3>1. Summed(b, m) <= Summed(a, m)
      BY <1>1, <2>3, SummedStep DEF Earlier
    <3>2. Summed(b, m) \in Nat /\ Summed(a, m) \in Nat
      BY <1>1, SummedStep
    <3> QED  BY <3>1, <3>2
  <2> QED  BY <2>2, <2>3, <2>4
<1> HIDE DEF x
<1>5. F \in Injection(B, 0..(x-1)) /\ F \in Surjection(B, 0..(x-1))
  <2>1. F \in [B -> 0..(x-1)]
    BY <1>3
  <2>2. ASSUME NEW b \in B, NEW e \in B, F[b] = F[e] PROVE b = e
    <3>1. PlaceOf(m, b) = PlaceOf(m, e)
      BY <2>2
    <3> QED  BY <1>3, <3>1, PlacesOrder
  <2>3. F \in Injection(B, 0..(x-1))
    BY <2>1, <2>2 DEF Injection, IsInjective
  <2>4. F \in Surjection(B, 0..(x-1))
    <3>1. \A y \in 0..(x-1) : \E b \in B : F[b] = y
      BY <1>4
    <3> QED  BY <2>1, <3>1 DEF Surjection
  <2> QED  BY <2>3, <2>4
<1> HIDE DEF F
<1>6. IsFiniteSet(0..(x-1)) /\ Cardinality(0..(x-1)) = x
  <2>1. 0 \in Int /\ x - 1 \in Int
    BY <1>2
  <2>2. IsFiniteSet(0..(x-1)) /\ Cardinality(0..(x-1)) = IF 0 > x - 1 THEN 0 ELSE (x - 1) - 0 + 1
    BY <2>1, FS_Interval
  <2> QED  BY <1>2, <2>2
<1>7. IsFiniteSet(B) /\ Cardinality(B) = Cardinality(0..(x-1))
  BY <1>5, <1>6, FS_Injection
<1> QED  BY <1>6, <1>7 DEF x

-----------------------------------------------------------------------------
(* What an index being decoded has in common with the one wanted.          *)
LEMMA DecodedIs ==
  ASSUME NEW m \in Nat \ {0}, NEW n \in Nat, NEW R \in Nat, NEW d \in DecodeStates(m, n),
         Decoded(R, d), NEW a, a = Dense(m, d.s)
  PROVE  /\ a \in DenseIndices(m) /\ d.p \in 0..m
         /\ Summed(a, d.p) \in Nat /\ Summed(a, d.p) + d.remaining = R
         /\ DensePassed(m, a, R, d.p) = Passed(m, d.s, R, Len(d.s))
         /\ \A i \in d.p..(m-1) : a[i] = 0
         /\ \A q \in d.p..(m-1) : /\ Summed(a, q) = Summed(a, d.p)
                                  /\ DensePassed(m, a, R, q) = DensePassed(m, a, R, d.p) + Zeros(m, d, q)
<1> DEFINE s == d.s
           p == d.p
<1>1. /\ s \in SparseIndices(m) /\ d.remaining \in Nat /\ p \in 0..m /\ Len(s) \in Nat
      /\ s \in Seq(Entries(m)) /\ DOMAIN s = 1..Len(s)
  BY DecodeStateIs, EntryIs DEF SparseIndices
<1>2. p = Prev(s, Len(s) + 1) /\ Spent(s, Len(s)) + d.remaining = R
  BY DEF Decoded
<1>3. Spent(s, Len(s)) \in Nat
  <2>1. Len(s) \in 0..Len(s)
    BY <1>1
  <2> QED  BY <1>1, <2>1, SpentStep
<1> HIDE DEF s, p
<1>4. a = Dense(m, s) /\ a \in DenseIndices(m) /\ m \in Nat
  BY <1>1, DenseIn DEF s
<1>5. Summed(a, p) = Spent(s, Len(s)) /\ DensePassed(m, a, R, p) = Passed(m, s, R, Len(s))
  <2>1. Spent(s, Len(s)) <= R /\ Len(s) <= Len(s)
    BY <1>1, <1>2, <1>3
  <2> QED  BY <1>1, <1>2, <1>4, <2>1, EntryPassed
<1>6. \A i \in p..(m-1) : a[i] = 0
  BY <1>1, <1>2, <1>4, ZeroAfter
<1>7. Summed(a, p) \in Nat /\ Summed(a, p) + d.remaining = R /\ Summed(a, p) <= R /\ R - Summed(a, p) = d.remaining
  BY <1>1, <1>2, <1>3, <1>5
<1>8. ASSUME NEW q \in p..(m-1)
      PROVE  Summed(a, q) = Summed(a, p) /\ DensePassed(m, a, R, q) = DensePassed(m, a, R, p) + Zeros(m, d, q)
  <2>1. q \in p..m /\ q < m /\ \A i \in p..(q-1) : a[i] = 0
    BY <1>1, <1>6
  <2>2. /\ Summed(a, q) = Summed(a, p)
        /\ DensePassed(m, a, R, q) = DensePassed(m, a, R, p)
                       + (Ways(m - p - 1, R - Summed(a, p)) - Ways(m - q - 1, R - Summed(a, p)))
    <3>1. m \in Nat /\ a \in DenseIndices(m) /\ R \in Nat /\ p \in 0..m /\ Summed(a, p) <= R
      BY <1>1, <1>4, <1>7
    <3> QED  BY ONLY <2>1, <3>1, ZeroRun
  <2> QED  BY <1>7, <2>2 DEF Zeros, p
<1> QED  BY <1>1, <1>4, <1>5, <1>6, <1>7, <1>8 DEF s, p

(* The search has the prefix of the index wanted, whose next position is   *)
(* in the bracket.                                                         *)
LEMMA SearchHolds ==
  ASSUME NEW m \in Nat \ {0}, NEW n \in Nat, NEW R \in Nat, NEW d \in DecodeStates(m, n),
         Decoded(R, d), NEW t \in DenseIndices(m), Summed(t, m) = R,
         Searching(m, R, DensePassed(m, t, R, m), d)
  PROVE  /\ \A q \in 0..(d.p - 1) : t[q] = Dense(m, d.s)[q]
         /\ d.remaining > 0 => /\ \A q \in d.p..(d.lo - 1) : t[q] = 0
                               /\ \E q \in d.lo..d.hi : t[q] > 0
<1> DEFINE a == Dense(m, d.s)
           p == d.p
           c == DensePassed(m, t, R, m)
           D == DensePassed(m, a, R, p)
           r == d.remaining
<1>1. /\ a \in DenseIndices(m) /\ p \in 0..m
      /\ Summed(a, p) \in Nat /\ Summed(a, p) + r = R
      /\ D = Passed(m, d.s, R, Len(d.s))
      /\ \A i \in p..(m-1) : a[i] = 0
      /\ \A q \in p..(m-1) : /\ Summed(a, q) = Summed(a, p)
                             /\ DensePassed(m, a, R, q) = D + Zeros(m, d, q)
  BY DecodedIs
<1>2. m \in Nat /\ r \in Nat /\ d.c \in Nat /\ d.lo \in 0..m /\ d.hi \in 0..m
  BY DecodeStateIs
<1>3. D \in Nat /\ c \in Nat
  <2>1. m \in Nat /\ m \in 0..m
    OBVIOUS
  <2> QED  BY <1>1, <2>1, DensePassedStep
<1> HIDE DEF a, c, D
<1>4. D + d.c = c /\ d.c < CompositionCount(m - p, r)
  BY <1>1 DEF Searching, c
<1>5. R - Summed(a, p) = r /\ Summed(a, p) <= R /\ m - p \in Nat
  BY <1>1, <1>2
<1>6. CompositionCount(m - p, r) \in Nat
  BY <1>2, <1>5, CompositionsAre
<1>7. Holding(m, R, c, a, p)
  BY <1>2, <1>3, <1>4, <1>5, <1>6 DEF Holding, D
<1>8. \A q \in 0..(p - 1) : t[q] = a[q]
  BY <1>1, <1>7, HeldPrefix DEF c
<1>9. ASSUME r > 0
      PROVE  (\A q \in p..(d.lo - 1) : t[q] = 0) /\ (\E q \in d.lo..d.hi : t[q] > 0)
  <2> DEFINE l == d.lo
             h == d.hi
             x == m - l - 1
  <2>1. /\ p <= l /\ l <= h /\ h <= m - 1
        /\ Zeros(m, d, l) <= d.c
        /\ h < m - 1 => d.c < Zeros(m, d, h + 1)
    BY <1>9 DEF Searching
  <2>2. l \in p..(m-1) /\ l \in 0..m /\ l \in 0..(m-1) /\ h \in Nat
    BY <1>1, <1>2, <2>1
  <2>3. Summed(a, l) = Summed(a, p) /\ DensePassed(m, a, R, l) = D + Zeros(m, d, l)
    BY <1>1, <2>2
  <2>4. /\ CompositionCount(m - l, r) = Ways(m - l - 1, r) /\ Ways(m - l - 1, r) \in Nat
        /\ CompositionCount(m - p, r) = Ways(m - p - 1, r) /\ Ways(m - p - 1, r) \in Nat
    <3>1. p \in 0..(m-1)
      BY <1>1, <2>2
    <3> QED  BY <1>2, <2>2, <3>1, SuffixIs
  <2>5. Zeros(m, d, l) = Ways(m - p - 1, r) - Ways(m - l - 1, r)
    BY DEF Zeros
  <2> HIDE DEF l, h, p, r
  <2>6. DensePassed(m, a, R, l) <= c
    BY <1>2, <1>3, <1>4, <2>1, <2>3, <2>4, <2>5
  <2>7. c < DensePassed(m, a, R, l) + CompositionCount(m - l, r)
    BY <1>2, <1>3, <1>4, <2>3, <2>4, <2>5
  <2>8. Holding(m, R, c, a, l)
    BY <1>5, <2>3, <2>6, <2>7 DEF Holding
  <2>9. \A q \in 0..(l - 1) : t[q] = a[q]
    BY <1>1, <2>2, <2>8, HeldPrefix DEF c
  <2>10. \A q \in p..(l - 1) : t[q] = 0
    BY <1>1, <2>2, <2>9
  <2>11. \A q \in 0..(m-1) : t[q] \in Nat
    BY DEF DenseIndices
  <2>12. \E q \in l..h : t[q] > 0
    <3> SUFFICES ASSUME \A q \in l..h : ~(t[q] > 0) PROVE FALSE
      OBVIOUS
    <3>1. \A q \in l..h : t[q] = 0
      <4> TAKE q \in l..h
      <4>1. q \in 0..(m-1)
        BY <1>2, <2>1, <2>2
      <4>2. t[q] \in Nat /\ ~(t[q] > 0)
        BY <2>11, <4>1
      <4> QED  BY <4>2
    <3>2. h + 1 \in p..m /\ \A q \in p..((h+1)-1) : t[q] = 0
      <4>1. h + 1 \in p..m
        BY <1>1, <1>2, <2>1, <2>2
      <4>2. \A q \in p..((h+1)-1) : t[q] = 0
        <5> TAKE q \in p..((h+1)-1)
        <5>1. q \in p..(l-1) \/ q \in l..h
          BY <1>1, <2>2
        <5> QED  BY <2>10, <3>1, <5>1
      <4> QED  BY <4>1, <4>2
    <3>3. Summed(t, p) = Summed(a, p) /\ DensePassed(m, t, R, p) = D
      BY <1>1, <1>2, <1>8, SamePrefix DEF D
    <3>4. /\ Summed(t, h + 1) = Summed(t, p)
          /\ h + 1 < m => DensePassed(m, t, R, h + 1) = DensePassed(m, t, R, p)
                 + (Ways(m - p - 1, R - Summed(t, p)) - Ways(m - (h + 1) - 1, R - Summed(t, p)))
      BY <1>1, <1>2, <1>5, <3>2, <3>3, ZeroRun, SMTT(30)
    <3>5. CASE h = m - 1
      <4>1. h + 1 = m
        BY <1>2, <3>5
      <4>2. Summed(t, p) = R /\ r > 0
        BY <1>9, <3>4, <4>1
      <4> QED  BY <1>1, <1>2, <3>3, <4>2
    <3>6. CASE h < m - 1
      <4>1. DensePassed(m, t, R, h + 1) = D + Zeros(m, d, h + 1)
        <5>1. h + 1 < m
          BY <1>2, <2>2, <3>6
        <5> QED  BY <1>5, <3>3, <3>4, <5>1 DEF Zeros, p, r
      <4>2. DensePassed(m, t, R, h + 1) <= c /\ DensePassed(m, t, R, h + 1) \in Nat
        <5>1. h + 1 \in 0..m
          BY <1>1, <3>2
        <5> QED  BY <1>2, <5>1, TailBound, DensePassedStep DEF c
      <4>3. d.c < Zeros(m, d, h + 1)
        BY <2>1, <3>6
      <4> DEFINE z == Zeros(m, d, h + 1)
      <4>4. D + z \in Nat /\ D + z <= c /\ d.c < z
        BY <4>1, <4>2, <4>3
      <4>5. z \in Int
        <5>1. /\ m - p - 1 \in Nat /\ m - (h + 1) - 1 \in Nat /\ r \in Int
          BY <1>1, <1>2, <2>2, <3>6
        <5>2. Ways(m - p - 1, r) \in Nat /\ Ways(m - (h + 1) - 1, r) \in Nat
          BY ONLY <5>1, PathsNat
        <5> QED  BY <5>2 DEF Zeros, p, r
      <4> HIDE DEF z
      <4> QED  BY <1>2, <1>3, <1>4, <4>4, <4>5
    <3> QED  BY <1>2, <2>1, <2>2, <3>5, <3>6
  <2> QED  BY <2>10, <2>12 DEF l, h
<1> QED  BY <1>8, <1>9 DEF a

(* The exponent loop stands at the next position of the index wanted and   *)
(* has not passed its exponent.                                            *)
LEMMA LoweringHolds ==
  ASSUME NEW m \in Nat \ {0}, NEW n \in Nat, NEW R \in Nat, NEW d \in DecodeStates(m, n),
         Decoded(R, d), NEW t \in DenseIndices(m), Summed(t, m) = R,
         Lowering(m, R, DensePassed(m, t, R, m), d)
  PROVE  /\ \A q \in 0..(d.p - 1) : t[q] = Dense(m, d.s)[q]
         /\ \A q \in d.p..(d.lo - 1) : t[q] = 0
         /\ d.lo \in d.p..(m-1) /\ t[d.lo] > 0 /\ t[d.lo] <= d.value
<1> DEFINE a == Dense(m, d.s)
           p == d.p
           l == d.lo
           c == DensePassed(m, t, R, m)
           D == DensePassed(m, a, R, p)
           r == d.remaining
           v == d.value
           x == m - l - 1
           E == DensePassed(m, a, R, l)
           u == R - Summed(t, l + 1)
<1>1. /\ a \in DenseIndices(m) /\ p \in 0..m
      /\ Summed(a, p) \in Nat /\ Summed(a, p) + r = R
      /\ D = Passed(m, d.s, R, Len(d.s))
      /\ \A i \in p..(m-1) : a[i] = 0
      /\ \A q \in p..(m-1) : /\ Summed(a, q) = Summed(a, p)
                             /\ DensePassed(m, a, R, q) = D + Zeros(m, d, q)
  BY DecodedIs
<1>2. m \in Nat /\ m \in 0..m /\ r \in Nat /\ d.c \in Nat /\ l \in 0..m
  BY DecodeStateIs
<1>3. /\ r > 0 /\ p <= l /\ l <= m - 1 /\ v \in 1..r
      /\ D + Zeros(m, d, l) + Above(m, d) + d.c = c
      /\ Above(m, d) + d.c < Ways(x, r - 1)
  BY <1>1 DEF Lowering
<1>4. Above(m, d) = Ways(x, r - v - 1)
  BY DEF Above
<1> HIDE DEF a, c, D
<1>5. /\ l \in p..(m-1) /\ l \in 0..(m-1) /\ x \in Nat /\ m - l - 1 = x /\ m - (l + 1) = x
      /\ l + 1 \in 0..m /\ R - Summed(a, p) = r /\ r - 1 \in Nat /\ r - v - 1 \in Int /\ v \in Nat
  <2>1. l \in Int /\ p \in Int /\ r \in Int /\ m \in Int /\ v \in Int /\ Summed(a, p) \in Int
    BY <1>1, <1>2, <1>3, SMTT(30)
  <2>2. 0 <= p /\ p <= l /\ l <= m - 1 /\ 0 < r /\ Summed(a, p) + r = R /\ 0 <= v
    <3>1. p \in 0..m /\ v \in 1..r
      BY <1>1, <1>3
    <3> HIDE DEF p, l, r, v
    <3> QED  BY <1>1, <1>3, <2>1, <3>1
  <2> DEFINE w == Summed(a, p)
  <2> HIDE DEF p, l, r, v, w
  <2>3. l \in p..(m-1) /\ l \in 0..(m-1) /\ x \in Nat /\ m - l - 1 = x /\ m - (l + 1) = x /\ l + 1 \in 0..m
    BY <2>1, <2>2
  <2>4. R - w = r /\ r - 1 \in Nat /\ r - v - 1 \in Int /\ v \in Nat
    <3>1. w \in Int /\ w + r = R
      BY <2>1, <2>2 DEF w
    <3> QED  BY <2>1, <2>2, <3>1
  <2> QED  BY <2>3, <2>4 DEF w
<1>6. Summed(a, l) = Summed(a, p) /\ E = D + Zeros(m, d, l)
  BY <1>1, <1>5
<1> HIDE DEF p, l, r, v, x
<1>7. E \in Nat /\ c \in Nat
  BY <1>1, <1>2, <1>5, DensePassedStep DEF c
<1> HIDE DEF E, u
<1>8. Ways(x, r - v - 1) \in Nat /\ Ways(x, r - 1) \in Nat /\ Ways(x, r) \in Nat
  <2>1. r - 1 \in Int /\ r \in Int
    BY <1>2
  <2> QED  BY <1>5, <2>1, PathsNat
<1>9. E + Ways(x, r - v - 1) + d.c = c
  BY <1>3, <1>4, <1>6
<1>10. E <= c /\ E + Ways(x, r - v - 1) <= c /\ c < E + Ways(x, r - 1)
  BY <1>2, <1>3, <1>4, <1>7, <1>8, <1>9
<1>11. Ways(x, r - 1) <= Ways(x, r)
  <2>1. r - 1 <= r
    BY <1>2
  <2> QED  BY <1>2, <1>5, <2>1, PathsMonotone
<1>12. CompositionCount(m - l, r) = Ways(x, r)
  <2>1. CompositionCount(m - l, r) = Ways(m - l - 1, r)
    BY <1>2, <1>5, SuffixIs
  <2> QED  BY <1>5, <2>1
<1>13. Holding(m, R, c, a, l)
  <2>1. Summed(a, l) <= R /\ R - Summed(a, l) = r
    BY <1>1, <1>2, <1>5, <1>6
  <2>2. c < E + CompositionCount(m - l, r)
    BY <1>7, <1>8, <1>10, <1>11, <1>12
  <2> QED  BY <1>10, <2>1, <2>2 DEF Holding, E
<1>14. \A q \in 0..(l - 1) : t[q] = a[q]
  <2>1. l \in 0..m
    BY <1>2
  <2> QED  BY <1>1, <1>13, <2>1, HeldPrefix DEF c
<1>15. Summed(t, l) = Summed(a, l) /\ DensePassed(m, t, R, l) = E
  <2>1. l \in 0..m
    BY <1>2
  <2> QED  BY <1>1, <1>2, <1>14, <2>1, SamePrefix DEF E
<1>16. t[l] \in Nat /\ Summed(t, l + 1) = Summed(t, l) + t[l] /\ Summed(t, l + 1) \in Nat
  BY <1>2, <1>5, SummedStep
<1>17. u = r - t[l] /\ u \in Nat
  <2>1. u = r - t[l]
    BY <1>1, <1>2, <1>6, <1>15, <1>16, SMTT(30) DEF u
  <2>2. u \in Nat
    BY <1>2, <1>5, TailBound DEF u
  <2> QED  BY <2>1, <2>2
<1>18. DensePassed(m, t, R, l + 1) = E + Ways(x, u - 1)
  <2>1. DensePassed(m, t, R, l + 1) = DensePassed(m, t, R, l) + Ways(m - l - 1, R - Summed(t, l + 1) - 1)
    BY <1>2, <1>5, DensePassedStep
  <2> QED  BY <1>5, <1>15, <2>1 DEF u
<1>19. E + Ways(x, u - 1) <= c /\ c < E + Ways(x, u) /\ Ways(x, u) \in Nat /\ Ways(x, u - 1) \in Nat
  <2>1. /\ DensePassed(m, t, R, l + 1) <= c
        /\ c < DensePassed(m, t, R, l + 1) + CompositionCount(m - (l + 1), R - Summed(t, l + 1))
    BY <1>2, <1>5, TailBound DEF c
  <2>2. c < DensePassed(m, t, R, l + 1) + CompositionCount(x, u)
    BY <1>5, <2>1 DEF u
  <2>3. CompositionCount(x, u) = Ways(x, u) - Ways(x, u - 1)
    <3>1. x \in Nat /\ u \in Nat
      BY <1>5, <1>17
    <3> QED  BY <3>1, CompositionsAre, ZenonT(30)
  <2>4. Ways(x, u) \in Nat /\ Ways(x, u - 1) \in Nat
    <3>1. u \in Int /\ u - 1 \in Int
      BY <1>17
    <3> QED  BY <1>5, <3>1, PathsNat
  <2> QED  BY <1>7, <1>18, <2>1, <2>2, <2>3, <2>4
<1>20. t[l] > 0
  <2> SUFFICES ASSUME t[l] = 0 PROVE FALSE
    BY <1>16
  <2>1. u = r
    BY <1>2, <1>17
  <2>2. E + Ways(x, r - 1) <= c
    BY <1>19, <2>1
  <2> QED  BY <1>7, <1>8, <1>10, <2>2
<1>21. t[l] <= v
  <2> SUFFICES ASSUME v < t[l] PROVE FALSE
    BY <1>5, <1>16
  <2>1. u <= r - v - 1 /\ r - v - 1 \in Nat
    BY <1>2, <1>5, <1>16, <1>17
  <2>2. Ways(x, u) <= Ways(x, r - v - 1)
    BY <1>5, <1>17, <2>1, PathsMonotone
  <2> QED  BY <1>7, <1>8, <1>10, <1>19, <2>2
<1>22. \A q \in 0..(p - 1) : t[q] = a[q]
  <2>1. 0..(p - 1) \subseteq 0..(l - 1)
    BY <1>1, <1>2, <1>5
  <2> QED  BY <1>14, <2>1
<1>23. \A q \in p..(l - 1) : t[q] = 0
  <2> TAKE q \in p..(l - 1)
  <2>1. q \in 0..(l - 1) /\ q \in p..(m - 1)
    BY <1>1, <1>2, <1>5
  <2> QED  BY <1>1, <1>14, <2>1
<1> QED  BY <1>5, <1>20, <1>21, <1>22, <1>23 DEF a, p, l, v

-----------------------------------------------------------------------------
(* packed_alpha: the entries of the first p positions.                     *)
PacksUp(g, m, a) ==
  g = [p \in 0..m |-> IF p = 0 THEN << >>
                      ELSE IF a[p-1] > 0 THEN Append(g[p-1], [pos |-> p - 1, exp |-> a[p-1]])
                      ELSE g[p-1]]
Packing(m, a) == CHOOSE g : PacksUp(g, m, a)

LEMMA PackingIs ==
  ASSUME NEW m \in Nat, NEW a \in DenseIndices(m)
  PROVE  PacksUp(Packing(m, a), m, a) /\ Packed(m, a) = Packing(m, a)[m]
<1> DEFINE V == Seq(Entries(m))
           step == [x \in (1..m) \X V |-> IF a[x[1]-1] > 0
                                          THEN Append(x[2], [pos |-> x[1] - 1, exp |-> a[x[1]-1]])
                                          ELSE x[2]]
<1>1. step \in [(1..m) \X V -> V]
  <2>1. ASSUME NEW x \in (1..m) \X V
        PROVE  (IF a[x[1]-1] > 0 THEN Append(x[2], [pos |-> x[1] - 1, exp |-> a[x[1]-1]]) ELSE x[2]) \in V
    <3>1. x[1] - 1 \in 0..(m-1) /\ x[2] \in Seq(Entries(m))
      OBVIOUS
    <3>2. a[x[1]-1] \in Nat
      BY <3>1 DEF DenseIndices
    <3>3. a[x[1]-1] > 0 => [pos |-> x[1] - 1, exp |-> a[x[1]-1]] \in Entries(m)
      BY <3>1, <3>2 DEF Entries
    <3> QED  BY <3>1, <3>3
  <2> QED  BY <2>1
<1>2. << >> \in V
  OBVIOUS
<1>3. PICK g \in [0..m -> V] : Sums!Recursive(g, m, << >>, step)
  <2> HIDE DEF V, step
  <2> QED  BY <1>1, <1>2, Sums!RecursionExists
<1>4. PacksUp(g, m, a)
  <2>1. ASSUME NEW p \in 1..m
        PROVE  step[<<p, g[p-1]>>] = IF a[p-1] > 0 THEN Append(g[p-1], [pos |-> p - 1, exp |-> a[p-1]])
                                     ELSE g[p-1]
    <3>1. g[p-1] \in V
      BY <1>3
    <3> HIDE DEF V
    <3>2. <<p, g[p-1]>> \in (1..m) \X V
      BY <3>1
    <3> QED  BY <3>2
  <2> HIDE DEF step, V
  <2>2. g = [p \in 0..m |-> IF p = 0 THEN << >> ELSE step[<<p, g[p-1]>>]]
    BY <1>3 DEF Sums!Recursive
  <2>3. \A p \in 0..m : p # 0 => p \in 1..m
    OBVIOUS
  <2>4. \A p \in 0..m :
          (IF p = 0 THEN << >> ELSE step[<<p, g[p-1]>>])
            = (IF p = 0 THEN << >>
               ELSE IF a[p-1] > 0 THEN Append(g[p-1], [pos |-> p - 1, exp |-> a[p-1]]) ELSE g[p-1])
    BY <2>1, <2>3
  <2>5. [p \in 0..m |-> IF p = 0 THEN << >> ELSE step[<<p, g[p-1]>>]]
          = [p \in 0..m |-> IF p = 0 THEN << >>
               ELSE IF a[p-1] > 0 THEN Append(g[p-1], [pos |-> p - 1, exp |-> a[p-1]]) ELSE g[p-1]]
    BY <2>4
  <2> QED  BY <2>2, <2>5 DEF PacksUp
<1>5. PacksUp(Packing(m, a), m, a)
  BY <1>4 DEF Packing
<1>6. Packed(m, a) = Packing(m, a)[m]
  BY DEF Packed, Packing, PacksUp
<1> QED  BY <1>5, <1>6

(* They are a sparse index, and its exponents those of the dense one.      *)
PackedTo(m, a, s, p) ==
  /\ s \in SparseIndices(m) /\ Prev(s, Len(s) + 1) <= p
  /\ \A t \in DOMAIN s : s[t].exp = a[s[t].pos]
  /\ \A q \in 0..(p-1) : a[q] > 0 => \E t \in DOMAIN s : s[t].pos = q

LEMMA PackedOneMore ==
  ASSUME NEW m \in Nat \ {0}, NEW a \in DenseIndices(m), NEW p \in 0..(m-1), NEW s, PackedTo(m, a, s, p)
  PROVE  /\ a[p] > 0 => PackedTo(m, a, Append(s, [pos |-> p, exp |-> a[p]]), p + 1)
         /\ ~(a[p] > 0) => PackedTo(m, a, s, p + 1)
<1> DEFINE e == [pos |-> p, exp |-> a[p]]
<1>1. a[p] \in Nat /\ s \in SparseIndices(m) /\ s \in Seq(Entries(m)) /\ Len(s) \in Nat
      /\ DOMAIN s = 1..Len(s)
  BY DEF DenseIndices, PackedTo, SparseIndices
<1>2. Prev(s, Len(s) + 1) <= p /\ Prev(s, Len(s) + 1) \in Int
  <2>1. Len(s) # 0 => s[Len(s)].pos \in 0..(m-1)
    BY <1>1, EntryIs
  <2>2. (Len(s) + 1) - 1 = Len(s) /\ (Len(s) + 1 = 1 <=> Len(s) = 0)
    BY <1>1
  <2> QED  BY <2>1, <2>2 DEF PackedTo, Prev
<1>3. ASSUME a[p] > 0 PROVE PackedTo(m, a, Append(s, e), p + 1)
  <2>1. e \in Entries(m) /\ e.pos = p /\ e.exp = a[p]
    BY <1>1, <1>3 DEF Entries
  <2> HIDE DEF e
  <2>2. /\ Append(s, e) \in SparseIndices(m) /\ Len(Append(s, e)) = Len(s) + 1
        /\ Append(s, e)[Len(s) + 1] = e /\ Prev(Append(s, e), Len(s) + 2) = e.pos + 1
        /\ \A t \in 1..Len(s) : Append(s, e)[t] = s[t]
    BY <1>1, <1>2, <2>1, AppendKeeps
  <2>3. DOMAIN Append(s, e) = 1..(Len(s) + 1)
    BY <1>1, <2>1
  <2>4. \A t \in 1..(Len(s) + 1) : t = Len(s) + 1 \/ t \in 1..Len(s)
    BY <1>1
  <2>5. \A t \in DOMAIN Append(s, e) : Append(s, e)[t].exp = a[Append(s, e)[t].pos]
    BY <1>1, <2>1, <2>2, <2>3, <2>4 DEF PackedTo
  <2>6. \A q \in 0..((p+1)-1) : a[q] > 0 => \E t \in DOMAIN Append(s, e) : Append(s, e)[t].pos = q
    <3> SUFFICES ASSUME NEW q \in 0..((p+1)-1), a[q] > 0
                 PROVE  \E t \in DOMAIN Append(s, e) : Append(s, e)[t].pos = q
      OBVIOUS
    <3>1. CASE q = p
      <4>1. Len(s) + 1 \in DOMAIN Append(s, e)
        BY <1>1, <2>3
      <4> QED  BY <2>1, <2>2, <3>1, <4>1
    <3>2. CASE q # p
      <4>1. q \in 0..(p-1)
        BY <3>2
      <4>2. PICK t \in DOMAIN s : s[t].pos = q
        BY <4>1 DEF PackedTo
      <4>3. t \in DOMAIN Append(s, e) /\ t \in 1..Len(s)
        BY <1>1, <2>3, <4>2
      <4> QED  BY <2>2, <4>2, <4>3
    <3> QED  BY <3>1, <3>2
  <2>7. (Len(s) + 1) + 1 = Len(s) + 2
    BY <1>1
  <2> QED  BY <2>1, <2>2, <2>5, <2>6, <2>7 DEF PackedTo
<1>4. ASSUME ~(a[p] > 0) PROVE PackedTo(m, a, s, p + 1)
  <2>1. Prev(s, Len(s) + 1) <= p + 1
    BY <1>2
  <2>2. \A q \in 0..((p+1)-1) : a[q] > 0 => q \in 0..(p-1)
    BY <1>4
  <2> QED  BY <2>1, <2>2 DEF PackedTo
<1> QED  BY <1>3, <1>4

LEMMA PackedIs ==
  ASSUME NEW m \in Nat \ {0}, NEW a \in DenseIndices(m)
  PROVE  Packed(m, a) \in SparseIndices(m) /\ Dense(m, Packed(m, a)) = a
<1> DEFINE g == Packing(m, a)
           T == {p \in Nat : p <= m => PackedTo(m, a, g[p], p)}
<1>1. PacksUp(g, m, a) /\ Packed(m, a) = g[m]
  BY PackingIs
<1> HIDE DEF g
<1>2. 0 \in T
  <2>1. g[0] = << >>
    BY <1>1 DEF PacksUp
  <2>2. PackedTo(m, a, << >>, 0)
    BY Nothing DEF PackedTo, Prev
  <2> QED  BY <2>1, <2>2
<1>3. ASSUME NEW p \in Nat, p \in T PROVE p + 1 \in T
  <2> SUFFICES ASSUME p + 1 <= m PROVE PackedTo(m, a, g[p+1], p + 1)
    OBVIOUS
  <2>1. p + 1 \in 0..m /\ p + 1 # 0 /\ (p + 1) - 1 = p /\ p \in 0..(m-1) /\ p <= m
    OBVIOUS
  <2>2. g[p+1] = IF a[p] > 0 THEN Append(g[p], [pos |-> p, exp |-> a[p]]) ELSE g[p]
    BY <1>1, <2>1 DEF PacksUp
  <2>3. PackedTo(m, a, g[p], p)
    BY <1>3, <2>1
  <2> QED  BY <2>1, <2>2, <2>3, PackedOneMore
<1> HIDE DEF T
<1>4. Nat \subseteq T
  BY <1>2, <1>3, Sums!NatInductionOn
<1> DEFINE s == Packed(m, a)
<1>5. PackedTo(m, a, s, m)
  BY <1>1, <1>4 DEF T
<1> HIDE DEF s
<1>6. s \in SparseIndices(m)
  BY <1>5 DEF PackedTo
<1>7. \A p \in 0..(m-1) : Dense(m, s)[p] = a[p]
  <2> TAKE p \in 0..(m-1)
  <2>1. a[p] \in Nat
    BY DEF DenseIndices
  <2>2. CASE \E t \in DOMAIN s : s[t].pos = p
    BY <1>5, <1>6, <2>2, ExponentAt DEF PackedTo
  <2>3. CASE \A t \in DOMAIN s : s[t].pos # p
    <3>1. a[p] = 0
      BY <1>5, <2>1, <2>3 DEF PackedTo
    <3> QED  BY <1>6, <2>3, <3>1, ExponentAt
  <2> QED  BY <2>2, <2>3
<1>8. Dense(m, s) \in DenseIndices(m)
  BY <1>6, DenseIn
<1> QED  BY <1>6, <1>7, <1>8 DEF s, DenseIndices

-----------------------------------------------------------------------------
(* The layout of order n: its indices and their places, one to one.        *)
LEMMA AlphaSetIs ==
  ASSUME NEW m \in Nat \ {0}, NEW n \in Nat, NEW a
  PROVE  a \in AlphaSet(m, n) <=> a \in DenseIndices(m) /\ Summed(a, m) <= n
<1>1. a \in AlphaSet(m, n) <=> a \in [0..(m-1) -> 0..n] /\ Summed(a, m) <= n
  BY DEF AlphaSet, Summed, Sums!Fold, Sums!FoldFunctionOnSet, MapThenSumSet, MapThenFoldSet,
         Sums!MapThenFoldSet
<1>2. a \in [0..(m-1) -> 0..n] => a \in DenseIndices(m)
  BY DEF DenseIndices
<1>3. ASSUME a \in DenseIndices(m), Summed(a, m) <= n PROVE a \in [0..(m-1) -> 0..n]
  <2>1. \A p \in 0..(m-1) : a[p] \in 0..n
    <3> TAKE p \in 0..(m-1)
    <3>1. a[p] \in Nat /\ a[p] <= Summed(a, m) /\ m \in 0..m
      BY <1>3, ExponentBounds
    <3>2. Summed(a, m) \in Nat
      BY <1>3, <3>1, SummedStep
    <3> QED  BY <1>3, <3>1, <3>2
  <2> QED  BY <1>3, <2>1 DEF DenseIndices
<1> QED  BY <1>1, <1>2, <1>3

LEMMA PlaceInLayout ==
  ASSUME NEW m \in Nat \ {0}, NEW n \in Nat, NEW a \in DenseIndices(m)
  PROVE  Summed(a, m) <= n <=> PlaceOf(m, a) < NCoeffs(m, n)
<1>1. NCoeffs(m, n) = LowerOrders(m, n + 1) /\ n + 1 \in Nat
  BY NCoeffsIs, LowerOrdersAre
<1>2. /\ Summed(a, m) \in Nat /\ PlaceOf(m, a) \in Nat
      /\ LowerOrders(m, Summed(a, m)) <= PlaceOf(m, a)
      /\ PlaceOf(m, a) < LowerOrders(m, Summed(a, m) + 1)
  BY PlaceBand
<1> DEFINE o == Summed(a, m)
<1>3. LowerOrders(m, o) \in Nat /\ LowerOrders(m, o + 1) \in Nat /\ LowerOrders(m, n + 1) \in Nat
  <2>1. o \in Nat /\ o + 1 \in Nat /\ n + 1 \in Nat
    BY <1>2
  <2> HIDE DEF o
  <2> QED  BY <2>1, LowerOrdersAre
<1>4. o <= n => LowerOrders(m, o + 1) <= LowerOrders(m, n + 1)
  BY <1>2, LowerOrdersMonotone
<1>5. ~(o <= n) => LowerOrders(m, n + 1) <= LowerOrders(m, o)
  BY <1>2, LowerOrdersMonotone
<1> HIDE DEF o
<1> QED  BY <1>1, <1>2, <1>3, <1>4, <1>5 DEF o

(* rank() maps the indices of the layout to the places of the array, and   *)
(* every place is taken.                                                   *)
LEMMA LayoutRanks ==
  ASSUME NEW m \in Nat \ {0}, NEW n \in 0..IntMax
  PROVE  /\ \A a \in AlphaSet(m, n) :
              /\ a \in DenseIndices(m) /\ Rank(m, n, a) = PlaceOf(m, a)
              /\ PlaceOf(m, a) \in 0..(NCoeffs(m, n) - 1)
         /\ \A x \in 0..(NCoeffs(m, n) - 1) : \E a \in AlphaSet(m, n) : PlaceOf(m, a) = x
<1>1. n \in Nat
  BY IntMaxAssumption
<1>2. NCoeffs(m, n) \in Nat
  BY <1>1, NCoeffsIs
<1>3. ASSUME NEW a \in AlphaSet(m, n)
      PROVE  /\ a \in DenseIndices(m) /\ Rank(m, n, a) = PlaceOf(m, a)
             /\ PlaceOf(m, a) \in 0..(NCoeffs(m, n) - 1)
  <2>1. a \in DenseIndices(m) /\ Summed(a, m) <= n
    BY <1>1, AlphaSetIs
  <2>2. Rank(m, n, a) = PlaceOf(m, a)
    BY <2>1, RankIs DEF PlaceOf
  <2>3. PlaceOf(m, a) < NCoeffs(m, n) /\ PlaceOf(m, a) \in Nat
    BY <1>1, <2>1, PlaceInLayout, PlaceBand
  <2> QED  BY <1>2, <2>1, <2>2, <2>3
<1>4. ASSUME NEW x \in 0..(NCoeffs(m, n) - 1) PROVE \E a \in AlphaSet(m, n) : PlaceOf(m, a) = x
  <2>1. x \in Nat /\ x < NCoeffs(m, n)
    BY <1>2
  <2>2. PICK a \in DenseIndices(m) : PlaceOf(m, a) = x
    BY <2>1, PlaceTaken
  <2>3. Summed(a, m) <= n
    BY <1>1, <2>1, <2>2, PlaceInLayout
  <2>4. a \in AlphaSet(m, n)
    BY <1>1, <2>3, AlphaSetIs
  <2> QED  BY <2>2, <2>4
<1> QED  BY <1>3, <1>4

LEMMA SameIndex ==
  ASSUME NEW m, NEW a \in DenseIndices(m), NEW b \in DenseIndices(m), \A p \in 0..(m-1) : a[p] = b[p]
  PROVE  a = b
<1>1. a = [p \in 0..(m-1) |-> a[p]] /\ b = [p \in 0..(m-1) |-> b[p]]
  BY DEF DenseIndices
<1>2. [p \in 0..(m-1) |-> a[p]] = [p \in 0..(m-1) |-> b[p]]
  BY Zenon
<1> QED  BY <1>1, <1>2, Zenon

-----------------------------------------------------------------------------
(* Sums of indices.                                                        *)
Together(m, a, b) == [p \in 0..(m-1) |-> a[p] + b[p]]
Nowhere(m) == [p \in 0..(m-1) |-> 0]

LEMMA TogetherIs ==
  ASSUME NEW m \in Nat, NEW a \in DenseIndices(m), NEW b \in DenseIndices(m)
  PROVE  /\ Together(m, a, b) \in DenseIndices(m)
         /\ \A p \in 0..m : Summed(Together(m, a, b), p) = Summed(a, p) + Summed(b, p)
<1> DEFINE c == Together(m, a, b)
<1>1. c \in DenseIndices(m) /\ \A p \in 0..(m-1) : c[p] = a[p] + b[p]
  BY DEF DenseIndices, Together
<1> HIDE DEF c
<1> DEFINE T == {p \in Nat : p <= m => Summed(c, p) = Summed(a, p) + Summed(b, p)}
<1>2. 0 \in T
  BY <1>1, SummedStep
<1>3. ASSUME NEW p \in Nat, p \in T PROVE p + 1 \in T
  <2> SUFFICES ASSUME p + 1 <= m PROVE Summed(c, p + 1) = Summed(a, p + 1) + Summed(b, p + 1)
    OBVIOUS
  <2>1. p \in 0..(m-1) /\ p \in 0..m /\ p <= m
    OBVIOUS
  <2>2. Summed(c, p + 1) = Summed(c, p) + c[p] /\ c[p] = a[p] + b[p]
    BY <1>1, <2>1, SummedStep
  <2>3. /\ a[p] \in Nat /\ Summed(a, p) \in Nat /\ Summed(a, p + 1) = Summed(a, p) + a[p]
        /\ b[p] \in Nat /\ Summed(b, p) \in Nat /\ Summed(b, p + 1) = Summed(b, p) + b[p]
    BY <2>1, SummedStep
  <2>4. Summed(c, p) = Summed(a, p) + Summed(b, p)
    BY <1>3, <2>1
  <2> QED  BY <2>2, <2>3, <2>4
<1> HIDE DEF T
<1>4. Nat \subseteq T
  BY <1>2, <1>3, Sums!NatInductionOn
<1>5. \A p \in 0..m : Summed(c, p) = Summed(a, p) + Summed(b, p)
  BY <1>4 DEF T
<1> QED  BY <1>1, <1>5 DEF c

(* The only index of order zero.                                           *)
LEMMA NowhereIs ==
  ASSUME NEW m \in Nat \ {0}
  PROVE  /\ Nowhere(m) \in DenseIndices(m) /\ Summed(Nowhere(m), m) = 0 /\ PlaceOf(m, Nowhere(m)) = 0
         /\ \A a \in DenseIndices(m) : Summed(a, m) = 0 => a = Nowhere(m)
<1> DEFINE z == Nowhere(m)
<1>1. z \in DenseIndices(m) /\ \A p \in 0..(m-1) : z[p] = 0
  BY DEF DenseIndices, Nowhere
<1>2. \A a \in DenseIndices(m) : Summed(a, m) = 0 => a = z
  <2> SUFFICES ASSUME NEW a \in DenseIndices(m), Summed(a, m) = 0 PROVE a = z
    OBVIOUS
  <2>1. \A p \in 0..(m-1) : a[p] = 0
    <3> TAKE p \in 0..(m-1)
    <3>1. a[p] \in Nat /\ a[p] <= Summed(a, m)
      BY ExponentBounds
    <3> QED  BY <3>1
  <2> HIDE DEF z
  <2> QED  BY <1>1, <2>1 DEF DenseIndices
<1> HIDE DEF z
<1>3. Summed(z, m) = 0
  <2>1. Together(m, z, z) = z
    <3>1. Together(m, z, z) \in DenseIndices(m) /\ \A p \in 0..(m-1) : Together(m, z, z)[p] = z[p]
      BY <1>1, TogetherIs DEF Together
    <3> QED  BY <1>1, <3>1 DEF DenseIndices
  <2>2. Summed(z, m) = Summed(z, m) + Summed(z, m) /\ Summed(z, m) \in Nat
    <3>1. m \in 0..m
      OBVIOUS
    <3> QED  BY <1>1, <2>1, <3>1, TogetherIs, SummedStep
  <2> QED  BY <2>2, SMTT(30)
<1>4. PlaceOf(m, z) = 0
  <2>1. PICK a \in DenseIndices(m) : PlaceOf(m, a) = 0
    BY PlaceTaken
  <2>2. CASE a = z
    BY <2>1, <2>2
  <2>3. CASE Earlier(m, z, a)
    <3>1. PlaceOf(m, z) < PlaceOf(m, a) /\ PlaceOf(m, z) \in Nat
      BY <1>1, <2>3, PlacesOrder, PlaceBand
    <3> QED  BY <2>1, <3>1
  <2>4. CASE Earlier(m, a, z)
    <3>1. Summed(a, m) \in Nat /\ \A p \in 0..(m-1) : a[p] \in Nat
      BY PlaceBand DEF DenseIndices
    <3>2. Summed(a, m) = 0
      BY <1>3, <2>4, <3>1 DEF Earlier
    <3> QED  BY <1>2, <2>1, <3>2
  <2> QED  BY <1>1, <2>2, <2>3, <2>4, EarlierTotal
<1> QED  BY <1>1, <1>2, <1>3, <1>4 DEF z

(* A product comes behind both factors, unless the other one is 1.         *)
LEMMA TogetherLater ==
  ASSUME NEW m \in Nat \ {0}, NEW a \in DenseIndices(m), NEW b \in DenseIndices(m)
  PROVE  /\ a = Nowhere(m) => Together(m, a, b) = b
         /\ a # Nowhere(m) => PlaceOf(m, b) < PlaceOf(m, Together(m, a, b))
<1>1. Together(m, a, b) \in DenseIndices(m)
  BY TogetherIs
<1>2. ASSUME a = Nowhere(m) PROVE Together(m, a, b) = b
  <2>1. \A p \in 0..(m-1) : Together(m, a, b)[p] = b[p]
    BY <1>2 DEF Together, Nowhere, DenseIndices
  <2> QED  BY <1>1, <2>1 DEF DenseIndices
<1>3. ASSUME a # Nowhere(m) PROVE PlaceOf(m, b) < PlaceOf(m, Together(m, a, b))
  <2>1. Summed(a, m) \in Nat /\ Summed(a, m) # 0 /\ Summed(b, m) \in Nat
    BY <1>3, NowhereIs, PlaceBand
  <2>2. Summed(Together(m, a, b), m) = Summed(a, m) + Summed(b, m)
    <3>1. m \in 0..m
      OBVIOUS
    <3> QED  BY <3>1, TogetherIs
  <2>3. Earlier(m, b, Together(m, a, b))
    BY <2>1, <2>2 DEF Earlier
  <2> QED  BY <1>1, <2>3, PlacesOrder
<1> QED  BY <1>2, <1>3

(* sparse_rank() of the merged entries is the place of the sum.            *)
LEMMA MergedPlace ==
  ASSUME NEW m \in Nat \ {0}, NEW a \in DenseIndices(m), NEW b \in DenseIndices(m)
  PROVE  SparseRank(m, MergeSparse(Packed(m, a), Packed(m, b))) = PlaceOf(m, Together(m, a, b))
<1> DEFINE s == Packed(m, a)
           t == Packed(m, b)
           u == MergeSparse(s, t)
<1>1. s \in SparseIndices(m) /\ Dense(m, s) = a /\ t \in SparseIndices(m) /\ Dense(m, t) = b
  BY PackedIs
<1> HIDE DEF s, t
<1>2. u \in SparseIndices(m)
  BY <1>1, MergeSparseIn
<1>3. \A p \in 0..(m-1) : Dense(m, u)[p] = Together(m, a, b)[p]
  BY <1>1, MergeDense DEF Together
<1> HIDE DEF u
<1>4. Dense(m, u) = Together(m, a, b)
  <2>1. Dense(m, u) \in DenseIndices(m) /\ Together(m, a, b) \in DenseIndices(m)
    BY <1>2, DenseIn, TogetherIs
  <2> QED  BY <1>3, <2>1 DEF DenseIndices
<1>5. SparseRank(m, u) = PlaceOf(m, Dense(m, u))
  BY <1>2, SparseAndDense DEF PlaceOf
<1> QED  BY <1>4, <1>5 DEF s, t, u

=============================================================================
