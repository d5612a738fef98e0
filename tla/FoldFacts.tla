------------------------------- MODULE FoldFacts -------------------------------
(***************************************************************************)
(* Induction without a predicate as parameter, functions by recursion over *)
(* 0 .. k, and the folds of the community modules: what the proofs about   *)
(* sums, products and loops need.  A fold is that of op over the values of *)
(* a function; the module is instantiated once for every operation folded, *)
(* which then is no parameter of a lemma any more.                         *)
(***************************************************************************)
EXTENDS Integers, FiniteSets, Functions, FiniteSetTheorems, TLAPS

CONSTANTS
  Values,     (* what is folded                                            *)
  Base,       (* the fold of nothing                                       *)
  op(_, _)    (* the operation                                             *)

-----------------------------------------------------------------------------
(* Induction.  A set of naturals stands for the predicate.                 *)

(* A set of naturals that is not empty has a least element.                *)
LEMMA LeastNatural ==
  ASSUME NEW T \in SUBSET Nat, T # {}
  PROVE  \E x \in T : \A y \in T : x <= y
<1>1. OpToRel(<, Nat) = {ss \in Nat \X Nat : ss[1] < ss[2]}
  BY Zenon DEF OpToRel
<1> DEFINE R == {ss \in Nat \X Nat : ss[1] < ss[2]}
<1>2. IsWellFoundedOn(R, Nat)
  BY <1>1, NatLessThanWellFounded, Zenon
<1>3. \A x, y \in Nat : y < x => <<y, x>> \in R
  OBVIOUS
<1> HIDE DEF R
<1>4. \E x \in T : \A y \in T : <<y, x>> \notin R
  BY <1>2, WFMin
<1>5. ASSUME NEW x \in T, NEW y \in T, <<y, x>> \notin R PROVE x <= y
  <2>1. x \in Nat /\ y \in Nat /\ ~(y < x)
    BY <1>3, <1>5
  <2> QED BY <2>1
<1> QED BY <1>4, <1>5

(* A set that has 0 and every successor of its elements is Nat.            *)
LEMMA NatInductionOn ==
  ASSUME NEW T, 0 \in T, \A n \in Nat : n \in T => n + 1 \in T
  PROVE  Nat \subseteq T
<1>1. SUFFICES ASSUME Nat \ T # {} PROVE FALSE
  OBVIOUS
<1>2. PICK x \in Nat \ T : \A y \in Nat \ T : x <= y
  BY <1>1, LeastNatural
<1>3. x # 0 /\ x - 1 \in Nat
  BY <1>2
<1>4. x - 1 \in T
  BY <1>2, <1>3
<1> QED BY <1>2, <1>3, <1>4

(* Among subsets of a finite set there is one with no other below it.      *)
LEMMA MinimalSubset ==
  ASSUME NEW S, IsFiniteSet(S), NEW F \in SUBSET SUBSET S, F # {}
  PROVE  \E T \in F : \A U \in F : U \subseteq T => U = T
<1>1. IsWellFoundedOn(StrictSubsetOrdering(S), FiniteSubsetsOf(S))
  BY FS_StrictSubsetOrderingWellFounded
<1>2. FiniteSubsetsOf(S) = SUBSET S
  BY FS_FiniteSubsetsOfFinite
<1>3. \E T \in F : \A U \in F : <<U, T>> \notin StrictSubsetOrdering(S)
  BY <1>1, <1>2, WFMin
<1> QED BY <1>3 DEF StrictSubsetOrdering

(* What holds of the empty set, and of a subset with one element more, is  *)
(* true of every subset of a finite set.                                   *)
LEMMA SetInductionOn ==
  ASSUME NEW S, IsFiniteSet(S), NEW F,
         {} \in F,
         \A T \in SUBSET S : \A x \in S \ T : T \in F => T \cup {x} \in F
  PROVE  SUBSET S \subseteq F
<1> DEFINE G == (SUBSET S) \ F
<1>1. SUFFICES ASSUME G # {} PROVE FALSE
  OBVIOUS
<1>2. PICK T \in G : \A U \in G : U \subseteq T => U = T
  <2>1. G \in SUBSET SUBSET S
    OBVIOUS
  <2> HIDE DEF G
  <2> QED BY <1>1, <2>1, MinimalSubset
<1>3. PICK x \in T : TRUE
  BY <1>2
<1>4. T \ {x} \in F
  BY <1>2
<1>5. (T \ {x}) \cup {x} = T /\ x \in S \ (T \ {x}) /\ T \ {x} \in SUBSET S
  BY <1>2
<1> QED BY <1>2, <1>4, <1>5

-----------------------------------------------------------------------------
(* Functions by recursion over 0 .. k: the definition of one is the choice *)
(* of a function that satisfies its equation, and there is one.            *)
Recursive(g, k, first, step) ==
  g = [i \in 0..k |-> IF i = 0 THEN first ELSE step[<<i, g[i-1]>>]]

LEMMA RecursionExists ==
  ASSUME NEW k \in Nat, NEW V, NEW first \in V, NEW step \in [(1..k) \X V -> V]
  PROVE  \E g \in [0..k -> V] : Recursive(g, k, first, step)
<1> DEFINE T == {n \in Nat : n <= k => \E g \in [0..n -> V] : Recursive(g, n, first, step)}
<1>1. 0 \in T
  <2> DEFINE g == [i \in 0..0 |-> first]
  <2>1. g \in [0..0 -> V] /\ Recursive(g, 0, first, step)
    BY DEF Recursive
  <2> QED BY <2>1
<1>2. ASSUME NEW n \in Nat, n \in T PROVE n + 1 \in T
  <2> SUFFICES ASSUME n + 1 <= k
               PROVE  \E g \in [0..(n+1) -> V] : Recursive(g, n + 1, first, step)
    OBVIOUS
  <2>1. PICK g \in [0..n -> V] : Recursive(g, n, first, step)
    BY <1>2
  <2> DEFINE h == [i \in 0..(n+1) |-> IF i = n + 1 THEN step[<<i, g[n]>>] ELSE g[i]]
  <2>2. \A i \in 0..n : h[i] = g[i]
    OBVIOUS
  <2>3. h[n+1] = step[<<n + 1, h[n]>>] /\ h[n+1] \in V
    <3>1. h[n] = g[n] /\ g[n] \in V
      OBVIOUS
    <3> QED BY <3>1
  <2>4. h \in [0..(n+1) -> V]
    BY <2>2, <2>3
  <2>5. \A i \in 0..(n+1) : h[i] = IF i = 0 THEN first ELSE step[<<i, h[i-1]>>]
    <3> TAKE i \in 0..(n+1)
    <3>1. CASE i = n + 1
      BY <2>3, <3>1
    <3>2. CASE i \in 0..n
      <4>1. i # 0 => i - 1 \in 0..n
        BY <3>2
      <4>2. g[i] = IF i = 0 THEN first ELSE step[<<i, g[i-1]>>]
        BY <2>1, <3>2 DEF Recursive
      <4> HIDE DEF h
      <4> QED BY <2>2, <3>2, <4>1, <4>2
    <3> QED BY <3>1, <3>2
  <2> HIDE DEF h
  <2>6. Recursive(h, n + 1, first, step)
    BY <2>4, <2>5 DEF Recursive
  <2> QED BY <2>4, <2>6
<1> HIDE DEF T
<1>3. Nat \subseteq T
  BY <1>1, <1>2, NatInductionOn
<1> QED BY <1>3 DEF T

-----------------------------------------------------------------------------
(* Folds.                                                                  *)

Fold(fun, S) == FoldFunctionOnSet(op, Base, fun, S)

Closed == Base \in Values /\ \A x, y \in Values : op(x, y) \in Values
Commutes ==
  /\ \A x, y \in Values : op(x, y) = op(y, x)
  /\ \A x, y, z \in Values : op(x, op(y, z)) = op(op(x, y), z)
Neutral == \A x \in Values : op(Base, x) = x

Pick(s) == CHOOSE x \in s : TRUE
Folding(g, fun, S) ==
  g = [s \in SUBSET S |-> IF s = {} THEN Base ELSE op(fun[Pick(s)], g[s \ {Pick(s)}])]
ValuesOn(fun, S) == \A x \in S : fun[x] \in Values

LEMMA FoldingIs == \A fun, S : Fold(fun, S) = (CHOOSE g : Folding(g, fun, S))[S]
BY DEF Fold, FoldFunctionOnSet, MapThenFoldSet, Folding, Pick

LEMMA PickIn == \A s : s # {} => Pick(s) \in s
BY DEF Pick

(* Two functions that fold agree where both are defined.                   *)
LEMMA FoldingUnique ==
  ASSUME NEW S, IsFiniteSet(S), NEW T, S \subseteq T, NEW fun, NEW g, NEW h,
         Folding(g, fun, S), Folding(h, fun, T)
  PROVE  \A s \in SUBSET S : g[s] = h[s]
<1> DEFINE F == {s \in SUBSET S : g[s] # h[s]}
<1>1. SUFFICES ASSUME F # {} PROVE FALSE
  OBVIOUS
<1>2. PICK s \in F : \A U \in F : U \subseteq s => U = s
  <2>1. F \in SUBSET SUBSET S
    OBVIOUS
  <2> HIDE DEF F
  <2> QED BY <1>1, <2>1, MinimalSubset
<1>3. s # {} /\ s \in SUBSET S
  BY <1>2 DEF Folding
<1>4. Pick(s) \in s
  BY <1>3, PickIn
<1>5. g[s \ {Pick(s)}] = h[s \ {Pick(s)}]
  BY <1>2, <1>3, <1>4
<1>6. g[s] = op(fun[Pick(s)], g[s \ {Pick(s)}])
  BY <1>3 DEF Folding
<1>7. h[s] = op(fun[Pick(s)], h[s \ {Pick(s)}])
  BY <1>3 DEF Folding
<1> QED BY <1>2, <1>5, <1>6, <1>7

LEMMA FoldingExists ==
  ASSUME Closed, NEW S, IsFiniteSet(S), NEW fun, ValuesOn(fun, S)
  PROVE  \E g \in [SUBSET S -> Values] : Folding(g, fun, S)
<1> DEFINE Good(T) == \E g \in [SUBSET T -> Values] : Folding(g, fun, T)
           F == {T \in SUBSET S : ~Good(T)}
<1>1. SUFFICES ASSUME F # {} PROVE FALSE
  OBVIOUS
<1>2. PICK T \in F : \A U \in F : U \subseteq T => U = T
  <2>1. F \in SUBSET SUBSET S
    OBVIOUS
  <2> HIDE DEF F
  <2> QED BY <1>1, <2>1, MinimalSubset
<1> DEFINE G(U) == CHOOSE g : g \in [SUBSET U -> Values] /\ Folding(g, fun, U)
<1>3. ASSUME NEW U \in SUBSET T, U # T
      PROVE  G(U) \in [SUBSET U -> Values] /\ Folding(G(U), fun, U) /\ IsFiniteSet(U)
  <2>1. Good(U)
    BY <1>2, <1>3
  <2>2. IsFiniteSet(U)
    BY <1>2, FS_Subset
  <2> QED BY <2>1, <2>2
<1> HIDE DEF G
<1> DEFINE value(s) == IF s = {} THEN Base ELSE op(fun[Pick(s)], G(s \ {Pick(s)})[s \ {Pick(s)}])
           g == [s \in SUBSET T |-> value(s)]
<1>4. ASSUME NEW s \in SUBSET T, s # {}
      PROVE  /\ s \ {Pick(s)} \in SUBSET T /\ s \ {Pick(s)} # T /\ fun[Pick(s)] \in Values
             /\ G(s \ {Pick(s)})[s \ {Pick(s)}] \in Values
  <2>1. Pick(s) \in s
    BY <1>4, PickIn
  <2>2. s \ {Pick(s)} \in SUBSET T /\ s \ {Pick(s)} # T /\ fun[Pick(s)] \in Values
    BY <1>2, <2>1 DEF ValuesOn
  <2> QED BY <1>3, <2>2
<1>5. \A s \in SUBSET T : g[s] \in Values
  BY <1>4 DEF Closed
<1>6. ASSUME NEW s \in SUBSET T, s # T PROVE g[s] = G(s)[s]
  <2>1. G(s)[s] = IF s = {} THEN Base ELSE op(fun[Pick(s)], G(s)[s \ {Pick(s)}])
    BY <1>3, <1>6 DEF Folding
  <2>2. s # {} => G(s)[s \ {Pick(s)}] = G(s \ {Pick(s)})[s \ {Pick(s)}]
    <3> SUFFICES ASSUME s # {} PROVE G(s)[s \ {Pick(s)}] = G(s \ {Pick(s)})[s \ {Pick(s)}]
      OBVIOUS
    <3> DEFINE u == s \ {Pick(s)}
    <3>1. u \in SUBSET T /\ u # T /\ u \subseteq s
      BY <1>4
    <3>2. Folding(G(u), fun, u) /\ IsFiniteSet(u) /\ Folding(G(s), fun, s)
      BY <1>3, <1>6, <3>1
    <3> HIDE DEF u
    <3>3. G(u)[u] = G(s)[u]
      BY <3>1, <3>2, FoldingUnique
    <3> QED BY <3>3 DEF u
  <2> QED BY <2>1, <2>2
<1>7. \A s \in SUBSET T : s # {} => g[s \ {Pick(s)}] = G(s \ {Pick(s)})[s \ {Pick(s)}]
  BY <1>4, <1>6
<1>8. \A s \in SUBSET T : g[s] = IF s = {} THEN Base ELSE op(fun[Pick(s)], g[s \ {Pick(s)}])
  BY <1>7
<1>9. g \in [SUBSET T -> Values]
  BY <1>5
<1> HIDE DEF g
<1>10. Folding(g, fun, T)
  BY <1>8, <1>9 DEF Folding
<1> QED BY <1>2, <1>9, <1>10

LEMMA FoldingChosen ==
  ASSUME Closed, NEW S, IsFiniteSet(S), NEW fun, ValuesOn(fun, S)
  PROVE  LET g == CHOOSE g : Folding(g, fun, S)
         IN  Folding(g, fun, S) /\ g \in [SUBSET S -> Values]
<1>1. PICK h \in [SUBSET S -> Values] : Folding(h, fun, S)
  BY FoldingExists
<1> DEFINE g == CHOOSE g : Folding(g, fun, S)
<1>2. Folding(g, fun, S)
  BY <1>1
<1> HIDE DEF g
<1>3. \A s \in SUBSET S : g[s] = h[s]
  BY <1>1, <1>2, FoldingUnique
<1>4. DOMAIN g = SUBSET S
  BY <1>2 DEF Folding
<1>5. g = [s \in SUBSET S |-> g[s]]
  BY <1>2 DEF Folding
<1>6. g \in [SUBSET S -> Values]
  BY <1>1, <1>3, <1>5
<1> QED BY <1>2, <1>6 DEF g

(* The fold of the empty set, of others by the element taken first, and    *)
(* its type.                                                               *)
LEMMA FoldEquation ==
  ASSUME Closed, NEW S, IsFiniteSet(S), NEW fun, ValuesOn(fun, S)
  PROVE  /\ Fold(fun, S) = IF S = {} THEN Base ELSE op(fun[Pick(S)], Fold(fun, S \ {Pick(S)}))
         /\ Fold(fun, S) \in Values
<1> DEFINE g == CHOOSE g : Folding(g, fun, S)
<1>1. Folding(g, fun, S) /\ g \in [SUBSET S -> Values] /\ Fold(fun, S) = g[S]
  BY FoldingChosen, FoldingIs
<1> HIDE DEF g
<1>2. g[S] = IF S = {} THEN Base ELSE op(fun[Pick(S)], g[S \ {Pick(S)}])
  BY <1>1 DEF Folding
<1>3. ASSUME NEW T \in SUBSET S PROVE Fold(fun, T) = g[T]
  <2>1. IsFiniteSet(T) /\ ValuesOn(fun, T)
    BY FS_Subset DEF ValuesOn
  <2> DEFINE h == CHOOSE h : Folding(h, fun, T)
  <2>2. Folding(h, fun, T) /\ Fold(fun, T) = h[T]
    BY <2>1, FoldingChosen, FoldingIs
  <2> HIDE DEF h
  <2> QED BY <1>1, <2>1, <2>2, FoldingUnique
<1> QED BY <1>1, <1>2, <1>3

LEMMA FoldEmpty ==
  ASSUME Closed, NEW fun
  PROVE  Fold(fun, {}) = Base
BY FoldEquation, FS_EmptySet DEF ValuesOn

LEMMA FoldType ==
  ASSUME Closed, NEW S, IsFiniteSet(S), NEW fun, ValuesOn(fun, S)
  PROVE  Fold(fun, S) \in Values
BY FoldEquation

(* Functions equal on a set have the same fold over it.                    *)
LEMMA FoldSame ==
  ASSUME NEW S, NEW fun, NEW gun, IsFiniteSet(S), \A x \in S : fun[x] = gun[x],
         Closed, ValuesOn(fun, S)
  PROVE  Fold(fun, S) = Fold(gun, S)
<1> DEFINE F == {T \in SUBSET S : Fold(fun, T) # Fold(gun, T)}
<1>1. SUFFICES ASSUME F # {} PROVE FALSE
  OBVIOUS
<1>2. PICK T \in F : \A U \in F : U \subseteq T => U = T
  <2>1. F \in SUBSET SUBSET S
    OBVIOUS
  <2> HIDE DEF F
  <2> QED BY <1>1, <2>1, MinimalSubset
<1>3. IsFiniteSet(T) /\ ValuesOn(fun, T) /\ ValuesOn(gun, T)
  BY <1>2, FS_Subset DEF ValuesOn
<1>4. CASE T = {}
  BY <1>2, <1>4, FoldEmpty
<1>5. CASE T # {}
  <2> DEFINE x == Pick(T)
  <2>1. x \in T
    BY <1>5, PickIn
  <2>2. Fold(fun, T) = op(fun[x], Fold(fun, T \ {x})) /\ Fold(gun, T) = op(gun[x], Fold(gun, T \ {x}))
    BY <1>3, <1>5, FoldEquation
  <2> HIDE DEF x
  <2>3. Fold(fun, T \ {x}) = Fold(gun, T \ {x})
    BY <1>2, <2>1
  <2> QED BY <1>2, <2>1, <2>2, <2>3
<1> QED BY <1>4, <1>5

(* For a commutative operation any element may be taken first.             *)
LEMMA FoldTake ==
  ASSUME Closed, Commutes, NEW S, IsFiniteSet(S), NEW fun, ValuesOn(fun, S), NEW x \in S
  PROVE  Fold(fun, S) = op(fun[x], Fold(fun, S \ {x}))
<1> DEFINE Good(T) == \A y \in T : Fold(fun, T) = op(fun[y], Fold(fun, T \ {y}))
           F == {T \in SUBSET S : ~Good(T)}
<1>1. SUFFICES ASSUME F # {} PROVE FALSE
  OBVIOUS
<1>2. PICK T \in F : \A U \in F : U \subseteq T => U = T
  <2>1. F \in SUBSET SUBSET S
    OBVIOUS
  <2> HIDE DEF F
  <2> QED BY <1>1, <2>1, MinimalSubset
<1>3. PICK y \in T : Fold(fun, T) # op(fun[y], Fold(fun, T \ {y}))
  BY <1>2
<1> DEFINE z == Pick(T)
<1>4. z \in T /\ T # {}
  BY <1>3, PickIn
<1>5. Fold(fun, T) = op(fun[z], Fold(fun, T \ {z}))
  <2>1. IsFiniteSet(T) /\ ValuesOn(fun, T)
    BY <1>2, FS_Subset DEF ValuesOn
  <2> QED BY <1>4, <2>1, FoldEquation
<1> HIDE DEF z
<1>6. z # y
  BY <1>3, <1>5
<1>7. Fold(fun, T \ {z}) = op(fun[y], Fold(fun, (T \ {z}) \ {y}))
  BY <1>2, <1>4, <1>6
<1>8. Fold(fun, T \ {y}) = op(fun[z], Fold(fun, (T \ {y}) \ {z}))
  BY <1>2, <1>4, <1>6
<1>9. (T \ {y}) \ {z} = (T \ {z}) \ {y}
  OBVIOUS
<1>10. fun[y] \in Values /\ fun[z] \in Values /\ Fold(fun, (T \ {z}) \ {y}) \in Values
  <2>1. IsFiniteSet((T \ {z}) \ {y}) /\ ValuesOn(fun, (T \ {z}) \ {y})
    BY <1>2, FS_Subset DEF ValuesOn
  <2> QED BY <1>2, <1>4, <2>1, FoldType DEF ValuesOn
<1> DEFINE rest == Fold(fun, (T \ {z}) \ {y})
           a == fun[y]
           b == fun[z]
<1>11. op(b, op(a, rest)) = op(a, op(b, rest))
  <2> HIDE DEF rest, a, b
  <2>1. a \in Values /\ b \in Values /\ rest \in Values
    BY <1>10 DEF rest, a, b
  <2>2. op(b, op(a, rest)) = op(op(b, a), rest) /\ op(a, op(b, rest)) = op(op(a, b), rest)
    BY <2>1 DEF Commutes
  <2>3. op(a, b) = op(b, a)
    BY <2>1 DEF Commutes
  <2> QED BY <2>2, <2>3
<1> QED BY <1>3, <1>5, <1>7, <1>8, <1>9, <1>11

LEMMA FoldAdd ==
  ASSUME Closed, Commutes, NEW S, IsFiniteSet(S), NEW x, x \notin S, NEW fun, ValuesOn(fun, S \cup {x})
  PROVE  Fold(fun, S \cup {x}) = op(fun[x], Fold(fun, S))
<1>1. IsFiniteSet(S \cup {x}) /\ (S \cup {x}) \ {x} = S
  BY FS_AddElement
<1> DEFINE T == S \cup {x}
<1>2. x \in T /\ IsFiniteSet(T) /\ ValuesOn(fun, T)
  BY <1>1
<1> HIDE DEF T
<1>3. Fold(fun, T) = op(fun[x], Fold(fun, T \ {x}))
  BY <1>2, FoldTake
<1> QED BY <1>1, <1>3 DEF T

LEMMA FoldSingleton ==
  ASSUME Closed, Commutes, Neutral, NEW x, NEW fun, fun[x] \in Values
  PROVE  Fold(fun, {x}) = fun[x]
<1>1. Fold(fun, {} \cup {x}) = op(fun[x], Fold(fun, {}))
  <2>1. IsFiniteSet({}) /\ ValuesOn(fun, {} \cup {x})
    BY FS_EmptySet DEF ValuesOn
  <2> QED BY <2>1, FoldAdd
<1>2. Fold(fun, {}) = Base
  BY FoldEmpty
<1>3. op(fun[x], Base) = fun[x]
  BY DEF Closed, Commutes, Neutral
<1>4. {} \cup {x} = {x}
  OBVIOUS
<1> QED BY <1>1, <1>2, <1>3, <1>4

(* The fold over two disjoint sets is the operation on their folds.        *)
LEMMA FoldUnion ==
  ASSUME Closed, Commutes, Neutral, NEW S, IsFiniteSet(S), NEW T, IsFiniteSet(T), S \cap T = {},
         NEW fun, ValuesOn(fun, S \cup T)
  PROVE  Fold(fun, S \cup T) = op(Fold(fun, S), Fold(fun, T))
<1> DEFINE F == {U \in SUBSET T : Fold(fun, S \cup U) = op(Fold(fun, S), Fold(fun, U))}
<1>1. ValuesOn(fun, S) /\ ValuesOn(fun, T) /\ Fold(fun, S) \in Values
  BY FoldType DEF ValuesOn
<1>2. {} \in F
  <2>1. op(Fold(fun, S), Base) = Fold(fun, S)
    BY <1>1 DEF Closed, Commutes, Neutral
  <2>2. S \cup {} = S
    OBVIOUS
  <2> QED BY <2>1, <2>2, FoldEmpty
<1>3. ASSUME NEW U \in SUBSET T, NEW x \in T \ U, U \in F
      PROVE  U \cup {x} \in F
  <2>1. /\ IsFiniteSet(U) /\ IsFiniteSet(S \cup U) /\ x \notin S \cup U
        /\ (S \cup U) \cup {x} = S \cup (U \cup {x})
    BY FS_Subset, FS_Union
  <2>2. /\ ValuesOn(fun, U) /\ ValuesOn(fun, U \cup {x}) /\ ValuesOn(fun, (S \cup U) \cup {x})
        /\ fun[x] \in Values
    BY DEF ValuesOn
  <2>3. Fold(fun, (S \cup U) \cup {x}) = op(fun[x], Fold(fun, S \cup U))
    BY <2>1, <2>2, FoldAdd
  <2>4. Fold(fun, U \cup {x}) = op(fun[x], Fold(fun, U))
    BY <2>1, <2>2, FoldAdd
  <2>5. Fold(fun, S \cup U) = op(Fold(fun, S), Fold(fun, U))
    BY <1>3
  <2> DEFINE a == fun[x]
             s == Fold(fun, S)
             u == Fold(fun, U)
  <2>6. a \in Values /\ s \in Values /\ u \in Values
    BY <1>1, <2>1, <2>2, FoldType
  <2> HIDE DEF a, s, u
  <2>7. op(a, op(s, u)) = op(s, op(a, u))
    <3>1. op(a, op(s, u)) = op(op(a, s), u) /\ op(s, op(a, u)) = op(op(s, a), u)
      BY <2>6 DEF Commutes
    <3>2. op(a, s) = op(s, a)
      BY <2>6 DEF Commutes
    <3> QED BY <3>1, <3>2
  <2>8. Fold(fun, S \cup (U \cup {x})) = op(Fold(fun, S), Fold(fun, U \cup {x}))
    BY <2>1, <2>3, <2>4, <2>5, <2>7 DEF a, s, u
  <2> QED BY <2>8
<1> HIDE DEF F
<1>4. SUBSET T \subseteq F
  BY <1>2, <1>3, SetInductionOn
<1>5. T \in F
  BY <1>4
<1> QED BY <1>5 DEF F

(* A fold over the elements renamed, one to one.                           *)
LEMMA FoldMoved ==
  ASSUME Closed, Commutes, NEW S, IsFiniteSet(S), NEW T, NEW to \in [S -> T],
         \A x, y \in S : to[x] = to[y] => x = y,
         \A z \in T : \E x \in S : to[x] = z,
         NEW fun, NEW gun, ValuesOn(gun, T), \A x \in S : fun[x] = gun[to[x]]
  PROVE  Fold(fun, S) = Fold(gun, T)
<1> DEFINE Image(U) == {to[x] : x \in U}
           F == {U \in SUBSET S : IsFiniteSet(Image(U)) /\ Fold(fun, U) = Fold(gun, Image(U))}
<1>1. {} \in F
  <2>1. Image({}) = {}
    OBVIOUS
  <2> QED  BY <2>1, FoldEmpty, FS_EmptySet
<1>2. ASSUME NEW U \in SUBSET S, NEW x \in S \ U, U \in F
      PROVE  U \cup {x} \in F
  <2>1. IsFiniteSet(U) /\ IsFiniteSet(Image(U))
    BY <1>2, FS_Subset
  <2>2. Image(U \cup {x}) = Image(U) \cup {to[x]} /\ to[x] \notin Image(U) /\ Image(U) \subseteq T /\ to[x] \in T
    OBVIOUS
  <2>3. Fold(fun, U) = Fold(gun, Image(U)) /\ U \cup {x} \in SUBSET S
    BY <1>2
  <2> HIDE DEF Image
  <2>4. ValuesOn(fun, U \cup {x}) /\ ValuesOn(gun, Image(U) \cup {to[x]})
    BY <2>2 DEF ValuesOn
  <2>5. Fold(fun, U \cup {x}) = op(fun[x], Fold(fun, U))
    BY <2>1, <2>4, FoldAdd
  <2>6. Fold(gun, Image(U) \cup {to[x]}) = op(gun[to[x]], Fold(gun, Image(U)))
    BY <2>1, <2>2, <2>4, FoldAdd
  <2>7. Fold(fun, U \cup {x}) = Fold(gun, Image(U \cup {x}))
    BY <2>2, <2>3, <2>5, <2>6
  <2>8. IsFiniteSet(Image(U \cup {x}))
    <3> HIDE DEF F
    <3>1. IsFiniteSet(Image(U) \cup {to[x]})
      BY <2>1, FS_AddElement
    <3> QED  BY <2>2, <3>1
  <2> QED  BY <2>3, <2>7, <2>8
<1> HIDE DEF F
<1>3. SUBSET S \subseteq F
  BY <1>1, <1>2, SetInductionOn
<1>4. S \in F
  BY <1>3
<1>5. Image(S) = T
  OBVIOUS
<1> HIDE DEF Image
<1> QED  BY <1>4, <1>5 DEF F

-----------------------------------------------------------------------------
(* What is smaller than a prime p, and not 0, has an inverse modulo p:     *)
(* Euclid's algorithm ends at 1.                                           *)
IsPrime(p) == p \in Nat /\ p > 1 /\ \A d \in 2..(p-1) : p % d # 0

LEMMA PrimeInverse ==
  ASSUME NEW p, IsPrime(p), NEW f \in 1..(p-1)
  PROVE  \E x, q \in Int : f * x = p * q + 1
<1>1. p \in Nat /\ p > 1 /\ f \in Nat /\ f >= 1 /\ f < p
  BY DEF IsPrime
<1> DEFINE T == {n \in 1..(p-1) : \E x, q \in Int : f * x = p * q + n}
           U == {n \in Nat : (\E j \in T : j <= n) => 1 \in T}
<1>2. f \in T
  <2>1. f * 1 = p * 0 + f /\ 0 \in Int /\ 1 \in Int
    BY <1>1
  <2> QED  BY <2>1
<1>3. 0 \in U
  BY <1>1
<1>4. ASSUME NEW n \in Nat, n \in U PROVE n + 1 \in U
  <2> SUFFICES ASSUME NEW j \in T, j <= n + 1 PROVE 1 \in T
    <3> HIDE DEF T
    <3> QED  OBVIOUS
  <2>1. CASE j <= n
    BY <1>4, <2>1
  <2>2. CASE j = n + 1 /\ j # 1
    <3>1. j \in 2..(p-1) /\ p % j # 0 /\ j \in Nat \ {0}
      BY <1>1, <2>2 DEF IsPrime
    <3> DEFINE q == p \div j
               r == p % j
    <3>2. q \in Int /\ r \in 1..(j-1) /\ p = j * q + r
      BY <1>1, <3>1
    <3> HIDE DEF q, r
    <3>3. PICK x, s \in Int : f * x = p * s + j
      OBVIOUS
    <3> DEFINE y == -(q * x)
               t == -(q * s) - 1
    <3>4. q * x \in Int /\ q * s \in Int /\ y \in Int /\ t \in Int
      BY <3>2
    <3>5. f * y = p * t + r
      <4>1. f * y = -(f * (q * x)) /\ p * t = -(p * (q * s)) - p
        BY <1>1, <3>2, <3>4
      <4>2. f * (q * x) = q * (f * x) /\ p * (q * s) = q * (p * s)
        BY <1>1, <3>2
      <4>3. q * (f * x) = q * (p * s) + q * j
        <5>1. p * s \in Int /\ j \in Int
          BY <1>1, <3>1
        <5> QED  BY <3>2, <3>3, <5>1
      <4>4. q * j = p - r
        BY <1>1, <3>1, <3>2
      <4> DEFINE A == q * (f * x)
                 B == q * (p * s)
      <4>5. A \in Int /\ B \in Int
        BY <1>1, <3>2
      <4>6. f * y = -A /\ p * t = -B - p /\ A = B + (p - r)
        BY <4>1, <4>2, <4>3, <4>4
      <4> HIDE DEF A, B, y, t
      <4>7. p * t \in Int /\ r \in Int
        BY <1>1, <3>2, <3>4
      <4> QED  BY <1>1, <4>5, <4>6, <4>7
    <3> HIDE DEF y, t
    <3>6. r \in T /\ r <= n
      <4>1. r \in 1..(p-1) /\ r <= n
        BY <1>1, <2>2, <3>1, <3>2
      <4>2. \E z, w \in Int : f * z = p * w + r
        BY <3>4, <3>5
      <4> QED  BY <4>1, <4>2
    <3> QED  BY <1>4, <3>6
  <2>3. CASE j = n + 1 /\ j = 1
    BY <2>3
  <2> QED  BY <1>1, <2>1, <2>2, <2>3
<1> HIDE DEF U
<1>5. Nat \subseteq U
  BY <1>3, <1>4, NatInductionOn
<1>6. 1 \in T
  <2>1. f \in Nat /\ f <= f
    BY <1>1
  <2> HIDE DEF T
  <2> QED  BY <1>2, <1>5, <2>1 DEF U
<1> QED  BY <1>6

=============================================================================
