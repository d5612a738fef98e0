--------------------------- MODULE LayoutTablesProofs ---------------------------
(***************************************************************************)
(* The builders of the layout tables, for every number of variables and    *)
(* every order.  First the two passes over the product terms, which fill   *)
(* no slot twice as long as the products rank inside the table; then what  *)
(* the bisections decode, from which the ranks follow by the lemmas of     *)
(* MultiIndexProofs; then the terms an inverse reads, the tables' types and*)
(* that the tables have every term; last the graded order, and that the    *)
(* search never loses its target.                                          *)
(***************************************************************************)
EXTENDS LayoutTables, MultiIndexProofs

Outputs == 0..(NC-1)
Grid == Outputs \X Outputs

(* The pairs with product k the double loop has visited before (x, y).     *)
Visited(x, y, k) ==
  {pair \in Grid : /\ pair[2] < JMax(pair[1])
                   /\ pair[1] < x \/ (pair[1] = x /\ pair[2] < y)
                   /\ Ranked(pair[1], pair[2]) = k}
All(k) == {pair \in Grid : pair[2] < JMax(pair[1]) /\ Ranked(pair[1], pair[2]) = k}

LoopIndices == i \in 0..NC /\ j \in Nat

Counting ==
  pc = "count" =>
    /\ LoopIndices /\ productOffset = <<>>
    /\ counts \in [Outputs -> Nat]
    /\ \A k \in Outputs : counts[k] = Cardinality(Visited(i, j, k))

Counted ==
  pc \in {"start", "fill"} =>
    /\ counts \in [Outputs -> Nat]
    /\ \A k \in Outputs : counts[k] = Cardinality(All(k))
    /\ productOffset \in Seq(Nat)
    /\ Len(productOffset) <= NC + 1
    /\ \A a, b \in 1..Len(productOffset) :
         a < b => productOffset[a] + counts[a-1] <= productOffset[b]

Starting ==
  /\ pc \notin {"count", "fill", "done"} => i = 0 /\ j = 0
  /\ pc = "start" => Len(productOffset) <= NC

(* A bucket is filled from its start up to its cursor.                     *)
Filled(slot, k) == productOffset[k+1] <= slot /\ slot < productOffset[k+1] + cursor[k]

Filling ==
  pc = "fill" =>
    /\ LoopIndices /\ Len(productOffset) = NC + 1
    /\ cursor \in [Outputs -> Nat]
    /\ \A k \in Outputs : cursor[k] = Cardinality(Visited(i, j, k))
    /\ \A slot \in DOMAIN byOutput :
         byOutput[slot] # NoTerm => slot \in Int /\ \E k \in Outputs : Filled(slot, k)

Blank == pc \notin {"fill", "done"} => byOutput = <<>>
OffsetBlank == pc \notin {"start", "fill", "done"} => productOffset = <<>>

Inv == Counting /\ Counted /\ Starting /\ Filling /\ Blank /\ OffsetBlank

-----------------------------------------------------------------------------
(* The visited pairs, as the loops move on.                                *)
LEMMA VisitedFinite ==
  ASSUME NC \in Nat, NEW x, NEW y, NEW k
  PROVE  IsFiniteSet(Visited(x, y, k)) /\ IsFiniteSet(All(k))
<1>1. IsFiniteSet(Outputs)
  BY FS_Interval DEF Outputs
<1>2. IsFiniteSet(Grid)
  BY <1>1, FS_Product DEF Grid
<1> QED  BY <1>2, FS_Subset DEF Visited, All

LEMMA VisitedStart ==
  ASSUME NC \in Nat, NEW k
  PROVE  Visited(0, 0, k) = {}
BY DEF Visited, Grid, Outputs

LEMMA VisitedEnd ==
  ASSUME NC \in Nat, NEW y, NEW k
  PROVE  Visited(NC, y, k) = All(k)
BY DEF Visited, All, Grid, Outputs

LEMMA VisitedNextRow ==
  ASSUME NC \in Nat, NEW x \in Outputs, NEW y \in Nat, JMax(x) \in 0..NC, y >= JMax(x), NEW k
  PROVE  Visited(x + 1, 0, k) = Visited(x, y, k)
<1>1. ASSUME NEW pair \in Grid, pair[2] < JMax(pair[1])
      PROVE  (pair[1] < x + 1 \/ (pair[1] = x + 1 /\ pair[2] < 0))
               <=> (pair[1] < x \/ (pair[1] = x /\ pair[2] < y))
  <2>1. pair[1] \in 0..(NC-1) /\ pair[2] \in 0..(NC-1)
    BY DEF Grid, Outputs
  <2>2. pair[1] = x => pair[2] < y
    BY <1>1, <2>1
  <2> QED  BY <2>1, <2>2 DEF Outputs
<1> QED  BY <1>1 DEF Visited

LEMMA VisitedNextTerm ==
  ASSUME NC \in Nat, NEW x \in Outputs, NEW y \in Nat, JMax(x) \in 0..NC, y < JMax(x), NEW k
  PROVE  /\ <<x, y>> \in Grid /\ <<x, y>> \notin Visited(x, y, k)
         /\ Visited(x, y + 1, k) =
              IF Ranked(x, y) = k THEN Visited(x, y, k) \cup {<<x, y>>} ELSE Visited(x, y, k)
<1>1. <<x, y>> \in Grid
  BY DEF Grid, Outputs
<1>2. <<x, y>> \notin Visited(x, y, k)
  BY DEF Visited, Outputs
<1>3. ASSUME NEW pair \in Grid
      PROVE  (pair[1] < x \/ (pair[1] = x /\ pair[2] < y + 1))
               <=> (pair[1] < x \/ (pair[1] = x /\ pair[2] < y) \/ pair = <<x, y>>)
  <2>1. pair[1] \in Int /\ pair[2] \in Int /\ pair = <<pair[1], pair[2]>>
    BY DEF Grid, Outputs
  <2> QED  BY <2>1
<1> QED  BY <1>1, <1>2, <1>3 DEF Visited

(* How the number of pairs visited changes at a term.                      *)
LEMMA VisitedCount ==
  ASSUME NC \in Nat, NEW x \in Outputs, NEW y \in Nat, JMax(x) \in 0..NC, y < JMax(x), NEW k
  PROVE  Cardinality(Visited(x, y + 1, k)) =
           IF Ranked(x, y) = k THEN Cardinality(Visited(x, y, k)) + 1
                               ELSE Cardinality(Visited(x, y, k))
<1> DEFINE S == Visited(x, y, k)
<1>1. IsFiniteSet(S) /\ <<x, y>> \notin S
  BY VisitedFinite, VisitedNextTerm
<1>2. Visited(x, y + 1, k) = IF Ranked(x, y) = k THEN S \cup {<<x, y>>} ELSE S
  BY VisitedNextTerm
<1> HIDE DEF S
<1>3. Cardinality(S \cup {<<x, y>>}) = Cardinality(S) + 1
  BY <1>1, FS_AddElement
<1> QED  BY <1>2, <1>3 DEF S

LEMMA VisitedBound ==
  ASSUME NC \in Nat, NEW x, NEW y, NEW k
  PROVE  /\ Cardinality(Visited(x, y, k)) \in Nat
         /\ Cardinality(All(k)) \in Nat
         /\ Cardinality(Visited(x, y, k)) <= Cardinality(All(k))
<1>1. Visited(x, y, k) \subseteq All(k)
  BY DEF Visited, All
<1> QED  BY <1>1, VisitedFinite, FS_Subset, FS_CardinalityType

-----------------------------------------------------------------------------
(* The sets depend on tables that are finished before counting starts.     *)
TableVars == <<m, n, sparse, orderOffset>>

LEMMA TablesFixed ==
  ASSUME UNCHANGED TableVars
  PROVE  /\ NC' = NC /\ Outputs' = Outputs /\ Grid' = Grid
         /\ \A x : JMax(x)' = JMax(x)
         /\ \A x, y : Ranked(x, y)' = Ranked(x, y)
BY DEF TableVars, NC, Outputs, Grid, JMax, OrderOf, Ranked, Sparse

LEMMA VisitedFixed ==
  ASSUME UNCHANGED TableVars
  PROVE  /\ \A k : Visited(i, j, k)' = Visited(i', j', k)
         /\ \A k : All(k)' = All(k)
BY TablesFixed DEF Visited, All

(* Buckets do not overlap.                                                 *)
LEMMA BucketsDisjoint ==
  ASSUME NC \in Nat, pc = "fill", Counted, Filling,
         NEW k \in Outputs, cursor[k] < counts[k],
         NEW h \in Outputs
  PROVE  ~Filled(Slot(k), h)
<1>1. /\ k + 1 \in 1..Len(productOffset) /\ h + 1 \in 1..Len(productOffset)
      /\ productOffset[k+1] \in Nat /\ productOffset[h+1] \in Nat
      /\ cursor[k] \in Nat /\ cursor[h] \in Nat /\ counts[k] \in Nat /\ counts[h] \in Nat
  <2>1. /\ Outputs = 0..(NC - 1) /\ Len(productOffset) = NC + 1 /\ productOffset \in Seq(Nat)
        /\ cursor \in [Outputs -> Nat] /\ counts \in [Outputs -> Nat]
    BY DEF Counted, Filling, Outputs
  <2>2. k + 1 \in 1..Len(productOffset) /\ h + 1 \in 1..Len(productOffset)
    BY <2>1
  <2> QED  BY <2>1, <2>2
<1>2. cursor[h] <= counts[h]
  BY VisitedBound DEF Counted, Filling
<1>3. CASE h = k
  BY <1>1, <1>3 DEF Filled, Slot
<1>4. CASE h < k
  <2>1. productOffset[h+1] + counts[h] <= productOffset[k+1]
    <3>1. h + 1 < k + 1 /\ (h + 1) - 1 = h
      BY <1>4 DEF Outputs
    <3> QED  BY <1>1, <3>1 DEF Counted
  <2> QED  BY <1>1, <1>2, <2>1, SMTT(30) DEF Filled, Slot
<1>5. CASE k < h
  <2>1. productOffset[k+1] + counts[k] <= productOffset[h+1]
    <3>1. k + 1 < h + 1 /\ (k + 1) - 1 = k
      BY <1>5 DEF Outputs
    <3> QED  BY <1>1, <3>1 DEF Counted
  <2> QED  BY <1>1, <2>1 DEF Filled, Slot
<1> QED  BY <1>3, <1>4, <1>5 DEF Outputs

(* The current pair is not visited yet, so its bucket still has room.      *)
LEMMA BucketHasRoom ==
  ASSUME NC \in Nat, pc = "fill", Counted, Filling,
         i \in Outputs, JMax(i) \in 0..NC, j < JMax(i), Ranked(i, j) \in Outputs
  PROVE  cursor[Ranked(i, j)] < counts[Ranked(i, j)]
<1> DEFINE k == Ranked(i, j)
<1>1. j \in Nat /\ k \in Outputs
  BY DEF Filling, LoopIndices
<1>2. Cardinality(Visited(i, j + 1, k)) = Cardinality(Visited(i, j, k)) + 1
  BY <1>1, VisitedCount
<1> HIDE DEF k
<1>3. /\ Cardinality(Visited(i, j + 1, k)) <= Cardinality(All(k))
      /\ Cardinality(Visited(i, j, k)) \in Nat /\ Cardinality(All(k)) \in Nat
  BY VisitedBound
<1>4. cursor[k] = Cardinality(Visited(i, j, k)) /\ counts[k] = Cardinality(All(k))
  BY <1>1 DEF Counted, Filling
<1>5. cursor[k] < counts[k]
  BY <1>2, <1>3, <1>4
<1> QED  BY <1>5 DEF k

-----------------------------------------------------------------------------
(* The actions, one by one.                                                *)
LEMMA CountTermInv ==
  ASSUME Inv, RanksInRange, CountTerm
  PROVE  Inv'
<1> DEFINE k == Ranked(i, j)
<1>1. /\ pc = "count" /\ pc' = "count" /\ NC \in Nat /\ i \in Outputs /\ j \in Nat
      /\ JMax(i) \in 0..NC /\ j < JMax(i) /\ k \in Outputs
      /\ i' = i /\ j' = j + 1
  BY DEF CountTerm, Inv, Counting, LoopIndices, RanksInRange, Outputs
<1>2. UNCHANGED TableVars
  BY DEF CountTerm, TableVars, decodeVars
<1>3. counts' = [counts EXCEPT ![k] = @ + 1]
  BY DEF CountTerm
<1>5. ASSUME NEW h \in Outputs
      PROVE  counts'[h] = Cardinality(Visited(i, j + 1, h))
  <2>1. Cardinality(Visited(i, j + 1, h)) =
          IF k = h THEN Cardinality(Visited(i, j, h)) + 1 ELSE Cardinality(Visited(i, j, h))
    BY <1>1, VisitedCount
  <2>2. counts \in [Outputs -> Nat] /\ counts[h] = Cardinality(Visited(i, j, h))
    BY <1>1 DEF Inv, Counting
  <2> HIDE DEF k
  <2> QED  BY <1>3, <2>1, <2>2
<1>6. Outputs' = Outputs /\ NC' = NC
  BY <1>2, TablesFixed
<1>7. counts' \in [Outputs -> Nat]
  <2> HIDE DEF k
  <2> QED  BY <1>1, <1>3 DEF Inv, Counting
<1>8. \A h \in Outputs : Visited(i, j, h)' = Visited(i, j + 1, h)
  BY <1>1, <1>2, VisitedFixed
<1>9. productOffset' = productOffset /\ byOutput' = byOutput
  BY DEF CountTerm, fillVars
<1> QED  BY <1>1, <1>5, <1>6, <1>7, <1>8, <1>9
          DEF Inv, Counting, Counted, Starting, Filling, Blank, OffsetBlank, LoopIndices, Outputs

LEMMA NextRowInv ==
  ASSUME Inv, RanksInRange, NextRow
  PROVE  Inv'
<1>1. /\ pc \in {"count", "fill"} /\ pc' = pc /\ NC \in Nat /\ i \in Outputs /\ j \in Nat
      /\ JMax(i) \in 0..NC /\ j >= JMax(i)
      /\ i' = i + 1 /\ j' = 0 /\ i' \in 0..NC
  BY DEF NextRow, Inv, Counting, Filling, LoopIndices, RanksInRange, Outputs
<1>2. UNCHANGED TableVars
  BY DEF NextRow, TableVars, decodeVars
<1>3. \A k : Visited(i, j, k)' = Visited(i, j, k)
  BY <1>1, <1>2, VisitedFixed, VisitedNextRow
<1>4. /\ Outputs' = Outputs /\ NC' = NC /\ counts' = counts /\ productOffset' = productOffset
      /\ cursor' = cursor /\ byOutput' = byOutput
      /\ \A k : All(k)' = All(k)
  BY <1>2, TablesFixed, VisitedFixed DEF NextRow, countVars, fillVars
<1> QED  BY <1>1, <1>3, <1>4
          DEF Inv, Counting, Counted, Starting, Filling, Filled, Blank, OffsetBlank, LoopIndices

LEMMA EndCountInv ==
  ASSUME Inv, RanksInRange, EndCount
  PROVE  Inv'
<1>1. /\ pc = "count" /\ pc' = "start" /\ NC \in Nat /\ i = NC /\ i' = 0 /\ j' = 0
  BY DEF EndCount, RanksInRange
<1>2. UNCHANGED TableVars
  BY DEF EndCount, TableVars, decodeVars
<1>3. \A k \in Outputs : counts[k] = Cardinality(All(k))
  BY <1>1, VisitedEnd DEF Inv, Counting
<1>4. /\ Outputs' = Outputs /\ NC' = NC /\ counts' = counts /\ productOffset' = productOffset
      /\ byOutput' = byOutput
      /\ \A k : All(k)' = All(k)
  BY <1>2, TablesFixed, VisitedFixed DEF EndCount, countVars, fillVars
<1>5. productOffset = <<>> /\ counts \in [Outputs -> Nat] /\ byOutput = <<>>
  BY <1>1 DEF Inv, Counting, Blank
<1> QED  BY <1>1, <1>3, <1>4, <1>5
          DEF Inv, Counting, Counted, Starting, Filling, Blank, OffsetBlank

LEMMA StoreBucketStartInv ==
  ASSUME Inv, RanksInRange, StoreBucketStart
  PROVE  Inv'
<1> DEFINE l == Len(productOffset)
           next == IF l = 0 THEN 0 ELSE productOffset[l] + counts[l-1]
<1>1. /\ pc = "start" /\ NC \in Nat /\ productOffset \in Seq(Nat) /\ l \in 0..NC
      /\ counts \in [Outputs -> Nat]
  BY DEF StoreBucketStart, RanksInRange, Inv, Starting, Counted
<1>2. UNCHANGED TableVars /\ counts' = counts /\ i' = i /\ j' = j
  BY DEF StoreBucketStart, TableVars, decodeVars
<1>3. /\ Outputs' = Outputs /\ NC' = NC
      /\ \A k : All(k)' = All(k) /\ Visited(i, j, k)' = Visited(i, j, k)
  BY <1>2, TablesFixed, VisitedFixed
<1>4. productOffset' = Append(productOffset, next)
  BY DEF StoreBucketStart
<1>5. next \in Nat
  BY <1>1 DEF Outputs
<1>6. Len(productOffset') = l + 1 /\ productOffset' \in Seq(Nat)
  BY <1>1, <1>4, <1>5
<1>7. ASSUME NEW a \in 1..(l+1), NEW b \in 1..(l+1), a < b
      PROVE  productOffset'[a] + counts[a-1] <= productOffset'[b]
  <2>1. productOffset'[a] = productOffset[a] /\ a \in 1..l
    BY <1>1, <1>4, <1>5, <1>7
  <2>2. CASE b \in 1..l
    <3>1. productOffset'[b] = productOffset[b]
      BY <1>1, <1>4, <1>5, <2>2
    <3> QED  BY <1>1, <1>7, <2>1, <2>2, <3>1 DEF Inv, Counted
  <2>3. CASE b = l + 1
    <3>1. productOffset'[b] = productOffset[l] + counts[l-1]
      BY <1>1, <1>4, <1>5, <2>1, <2>3
    <3>2. /\ productOffset[l] \in Nat /\ counts[l-1] \in Nat
          /\ productOffset[a] \in Nat /\ counts[a-1] \in Nat
      <4>1. l \in 1..l /\ l - 1 \in Outputs /\ a - 1 \in Outputs
        BY <1>1, <2>1 DEF Outputs
      <4> QED  BY <1>1, <2>1, <4>1
    <3>3. a < l => productOffset[a] + counts[a-1] <= productOffset[l]
      BY <1>1, <2>1 DEF Inv, Counted
    <3> QED  BY <1>1, <2>1, <2>3, <3>1, <3>2, <3>3, SMTT(30)
  <2> QED  BY <1>7, <2>2, <2>3
<1>8. pc' \in {"start", "fill"}
  BY <1>1 DEF StoreBucketStart
<1>9. Counted'
  BY <1>1, <1>2, <1>3, <1>6, <1>7 DEF Inv, Counted
<1>10. CASE l < NC
  <2>1. pc' = "start" /\ byOutput' = byOutput
    BY <1>10 DEF StoreBucketStart, fillVars
  <2> QED  BY <1>1, <1>2, <1>3, <1>6, <1>9, <1>10, <2>1
            DEF Inv, Counting, Starting, Filling, Blank, OffsetBlank
<1>11. CASE ~(l < NC)
  <2>1. /\ pc' = "fill" /\ cursor' = [x \in Outputs |-> 0]
        /\ byOutput' = [slot \in 0..(productOffset'[NC + 1] - 1) |-> NoTerm]
    BY <1>11 DEF StoreBucketStart, Outputs
  <2>2. i = 0 /\ j = 0 /\ l = NC
    BY <1>1, <1>11 DEF Inv, Starting
  <2>3. \A k : Cardinality(Visited(i, j, k)) = 0
    BY <1>1, <2>2, VisitedStart, FS_EmptySet
  <2>4. Filling'
    BY <1>1, <1>2, <1>3, <1>6, <2>1, <2>2, <2>3 DEF Filling, LoopIndices
  <2> QED  BY <1>9, <2>1, <2>4 DEF Inv, Counting, Starting, Blank, OffsetBlank
<1> QED  BY <1>10, <1>11

LEMMA FillTermInv ==
  ASSUME Inv, RanksInRange, FillTerm
  PROVE  /\ Inv'
         /\ \A slot \in DOMAIN byOutput : byOutput[slot] # NoTerm => byOutput'[slot] = byOutput[slot]
<1> DEFINE k == Ranked(i, j)
<1>1. /\ pc = "fill" /\ pc' = "fill" /\ NC \in Nat /\ i \in Outputs /\ j \in Nat
      /\ JMax(i) \in 0..NC /\ j < JMax(i) /\ k \in Outputs
      /\ i' = i /\ j' = j + 1
  BY DEF FillTerm, Inv, Filling, LoopIndices, RanksInRange, Outputs
<1>2. UNCHANGED TableVars /\ counts' = counts /\ productOffset' = productOffset
  BY DEF FillTerm, TableVars, decodeVars, countVars
<1>3. /\ cursor' = [cursor EXCEPT ![k] = @ + 1]
      /\ byOutput' = [byOutput EXCEPT ![Slot(k)] = <<i, j, k>>]
  BY DEF FillTerm
<1>4. /\ Outputs' = Outputs /\ NC' = NC
      /\ \A h : All(h)' = All(h) /\ Visited(i, j, h)' = Visited(i, j + 1, h)
  BY <1>1, <1>2, TablesFixed, VisitedFixed
<1>5. /\ cursor \in [Outputs -> Nat]
      /\ \A h \in Outputs : productOffset[h+1] \in Nat
  <2>1. productOffset \in Seq(Nat) /\ Len(productOffset) = NC + 1
    BY <1>1 DEF Inv, Filling, Counted
  <2>2. cursor \in [Outputs -> Nat]
    BY <1>1 DEF Inv, Filling
  <2>3. ASSUME NEW h \in Outputs
        PROVE  productOffset[h + 1] \in Nat
    <3>1. h + 1 \in 1..Len(productOffset)
      BY <1>1, <2>1 DEF Outputs
    <3> QED  BY <2>1, <3>1
  <2> QED  BY <2>2, <2>3
<1>6. cursor[k] < counts[k]
  BY <1>1, BucketHasRoom DEF Inv
<1>7. \A h \in Outputs : ~Filled(Slot(k), h)
  BY <1>1, <1>6, BucketsDisjoint DEF Inv
<1>8. ASSUME NEW h \in Outputs
      PROVE  cursor'[h] = Cardinality(Visited(i, j + 1, h))
  <2>1. Cardinality(Visited(i, j + 1, h)) =
          IF k = h THEN Cardinality(Visited(i, j, h)) + 1 ELSE Cardinality(Visited(i, j, h))
    BY <1>1, VisitedCount
  <2>2. cursor[h] = Cardinality(Visited(i, j, h))
    BY <1>1 DEF Inv, Filling
  <2> HIDE DEF k
  <2> QED  BY <1>3, <1>5, <2>1, <2>2
<1> HIDE DEF k
<1>9. cursor' \in [Outputs -> Nat] /\ \A h \in Outputs : cursor'[h] >= cursor[h]
  BY <1>1, <1>3, <1>5
<1>10. ASSUME NEW slot \in DOMAIN byOutput', byOutput'[slot] # NoTerm
       PROVE  slot \in Int /\ \E h \in Outputs : Filled(slot, h)'
  <2>1. CASE slot = Slot(k)
    <3>1. productOffset[k+1] \in Nat /\ cursor[k] \in Nat /\ cursor'[k] = cursor[k] + 1
      BY <1>1, <1>3, <1>5
    <3> QED  BY <1>1, <1>2, <2>1, <3>1 DEF Slot, Filled
  <2>2. CASE slot # Slot(k)
    <3>1. slot \in DOMAIN byOutput /\ byOutput[slot] # NoTerm
      BY <1>3, <1>10, <2>2
    <3>2. PICK h \in Outputs : slot \in Int /\ Filled(slot, h)
      BY <1>1, <3>1 DEF Inv, Filling
    <3>3. cursor[h] \in Nat /\ cursor'[h] \in Nat /\ cursor'[h] >= cursor[h]
      BY <1>5, <1>9
    <3> QED  BY <1>2, <1>5, <3>2, <3>3 DEF Filled
  <2> QED  BY <2>1, <2>2
<1>11. Filling'
  BY <1>1, <1>2, <1>4, <1>8, <1>9, <1>10 DEF Inv, Filling, LoopIndices, Outputs
<1>12. Counted'
  BY <1>1, <1>2, <1>4 DEF Inv, Counted
<1>13. \A slot \in DOMAIN byOutput : byOutput[slot] # NoTerm => byOutput'[slot] = byOutput[slot]
  BY <1>1, <1>3, <1>7 DEF Inv, Filling
<1> QED  BY <1>1, <1>11, <1>12, <1>13 DEF Inv, Counting, Starting, Blank, OffsetBlank

(* The steps that touch none of the two passes.                            *)
LEMMA OtherStepsInv ==
  ASSUME Inv, RanksInRange,
         \/ BeginIndex \/ NextBand \/ Bisect \/ PositionFound \/ LowerExponent
         \/ ExponentFound \/ StoreIndex \/ EndFill \/ Done \/ UNCHANGED vars
  PROVE  Inv' /\ byOutput' = byOutput
<1>1. CASE BeginIndex \/ NextBand \/ Bisect \/ PositionFound \/ LowerExponent
           \/ ExponentFound \/ StoreIndex
  <2>1. /\ pc \in {"unrank", "search", "expo"} /\ pc' \in {"unrank", "search", "expo", "offset"}
        /\ byOutput' = byOutput /\ productOffset' = productOffset /\ i' = i /\ j' = j
    BY <1>1 DEF BeginIndex, NextBand, Bisect, PositionFound, LowerExponent, ExponentFound,
                StoreIndex, fillVars, countVars
  <2> QED  BY <2>1 DEF Inv, Counting, Counted, Starting, Filling, Blank, OffsetBlank
<1>2. CASE EndFill
  BY <1>2 DEF EndFill, fillVars, countVars, Inv, Counting, Counted, Starting, Filling, Blank,
              OffsetBlank
<1>3. CASE Done \/ UNCHANGED vars
  <2>1. UNCHANGED vars
    BY <1>3 DEF Done
  <2>2. UNCHANGED TableVars
    BY <2>1 DEF vars, TableVars, decodeVars
  <2>3. /\ pc' = pc /\ byOutput' = byOutput /\ productOffset' = productOffset
        /\ counts' = counts /\ cursor' = cursor /\ i' = i /\ j' = j
        /\ Outputs' = Outputs /\ NC' = NC
        /\ \A k : Visited(i, j, k)' = Visited(i, j, k) /\ All(k)' = All(k)
    BY <2>1, <2>2, TablesFixed, VisitedFixed DEF vars, countVars, fillVars
  <2> QED  BY <2>3 DEF Inv, Counting, Counted, Starting, Filling, Filled, Blank, OffsetBlank,
                      LoopIndices
<1> QED  BY <1>1, <1>2, <1>3

LEMMA StoreOrderOffsetInv ==
  ASSUME Inv, RanksInRange', StoreOrderOffset
  PROVE  Inv'
<1>1. /\ pc = "offset" /\ pc' \in {"offset", "count"} /\ i' = 0 /\ j' = 0
      /\ byOutput' = byOutput /\ productOffset' = productOffset
  BY DEF StoreOrderOffset, fillVars, Inv, Starting
<1>2. CASE pc' = "offset"
  BY <1>1, <1>2 DEF Inv, Counting, Counted, Starting, Filling, Blank, OffsetBlank
<1>3. CASE pc' = "count"
  <2>1. counts' = [k \in 0..(NC-1) |-> 0] /\ NC' = NC
    BY <1>1, <1>3 DEF StoreOrderOffset, NC
  <2>2. NC' \in Nat
    BY <1>3 DEF RanksInRange
  <2>3. counts' = [k \in Outputs' |-> 0] /\ Outputs' = Outputs
    BY <2>1 DEF Outputs
  <2>4. \A k : (Visited(i, j, k) = {})'
    BY <1>1, <2>2 DEF Visited, Grid, Outputs
  <2>5. \A k : Cardinality(Visited(i, j, k))' = 0
    BY <2>4, FS_EmptySet
  <2>6. \A k \in Outputs' : counts'[k] = Cardinality(Visited(i, j, k))'
    BY <2>3, <2>5
  <2>7. counts' \in [Outputs' -> Nat]
    BY <2>3
  <2>8. productOffset' = <<>> /\ LoopIndices'
    BY <1>1, <2>2 DEF Inv, OffsetBlank, LoopIndices
  <2>9. Counting'
    BY <2>6, <2>7, <2>8 DEF Counting
  <2> QED  BY <1>1, <1>3, <2>9 DEF Inv, Counted, Starting, Filling, Blank, OffsetBlank
<1> QED  BY <1>1, <1>2, <1>3

-----------------------------------------------------------------------------
LEMMA StepInv ==
  ASSUME Inv, RanksInRange, RanksInRange', [Next]_vars
  PROVE  /\ Inv'
         /\ \A slot \in DOMAIN byOutput : byOutput[slot] # NoTerm => byOutput'[slot] = byOutput[slot]
<1>1. CASE CountTerm
  BY <1>1, CountTermInv DEF CountTerm, fillVars
<1>2. CASE NextRow
  BY <1>2, NextRowInv DEF NextRow, fillVars
<1>3. CASE EndCount
  BY <1>3, EndCountInv DEF EndCount, fillVars
<1>4. CASE StoreBucketStart
  <2>1. byOutput = <<>>
    BY <1>4 DEF StoreBucketStart, Inv, Blank
  <2> QED  BY <1>4, <2>1, StoreBucketStartInv
<1>5. CASE FillTerm
  BY <1>5, FillTermInv
<1>6. CASE StoreOrderOffset
  BY <1>6, StoreOrderOffsetInv DEF StoreOrderOffset, fillVars
<1>7. CASE \/ BeginIndex \/ NextBand \/ Bisect \/ PositionFound \/ LowerExponent
           \/ ExponentFound \/ StoreIndex \/ EndFill \/ Done \/ UNCHANGED vars
  BY <1>7, OtherStepsInv
<1> QED  BY <1>1, <1>2, <1>3, <1>4, <1>5, <1>6, <1>7 DEF Next

-----------------------------------------------------------------------------
(* Unranking.  What is stored has the rank of its place.                   *)
Unranking == pc \in {"unrank", "search", "expo"}

Stored ==
  /\ sparse \in Seq(SparseIndices(m))
  /\ \A x \in 0..(Len(sparse) - 1) : OrderOf(x) <= n /\ SparseRank(m, Sparse(x)) = x

(* Which index is decoded next.                                            *)
Banded ==
  Unranking => /\ degree \in 0..n /\ local \in 0..CompositionCount(m, degree)
               /\ Len(sparse) = LowerOrders(m, degree) + local

DecIs == dec \in DecodeStates(m, n)

Decoding ==
  /\ pc \in {"search", "expo"} =>
       local < CompositionCount(m, degree) /\ Decoded(degree, dec)
  /\ pc = "search" => Searching(m, degree, local, dec)
  /\ pc = "expo" => Lowering(m, degree, local, dec)

(* The offsets of the orders.                                              *)
Offsets ==
  /\ ~Unranking => Len(sparse) = NC
  /\ orderOffset \in Seq(Nat)
  /\ Len(orderOffset) = IF Unranking THEN 0 ELSE IF pc = "offset" THEN degree ELSE n + 2
  /\ \A d \in 1..Len(orderOffset) : orderOffset[d] = LowerOrders(m, d - 1)
  /\ pc = "offset" => degree \in 0..(n + 1)

ShapeIs == <<m, n>> \in Shapes
PcIs == pc \in {"unrank", "search", "expo", "offset", "count", "start", "fill", "done"}

Decodes == ShapeIs /\ PcIs /\ Stored /\ Banded /\ DecIs /\ Decoding /\ Offsets

LEMMA Shape == ShapeIs => m \in Nat \ {0} /\ n \in Nat
BY ShapesAssumption DEF ShapeIs

(* Steps that store nothing.                                               *)
LEMMA NothingStored ==
  ASSUME Decodes, Unranking, pc' \in {"unrank", "search", "expo"},
         UNCHANGED <<m, n, sparse, orderOffset>>
  PROVE  ShapeIs' /\ PcIs' /\ Stored' /\ Offsets'
<1>1. m' = m /\ n' = n /\ sparse' = sparse /\ orderOffset' = orderOffset
  OBVIOUS
<1>2. ShapeIs' /\ PcIs'
  BY <1>1 DEF Decodes, ShapeIs, PcIs
<1>3. Stored'
  BY <1>1 DEF Decodes, Stored, OrderOf, Sparse
<1>4. Offsets'
  BY <1>1 DEF Decodes, Offsets, Unranking, NC
<1> QED  BY <1>2, <1>3, <1>4

LEMMA BeginIndexDecodes ==
  ASSUME Decodes, BeginIndex
  PROVE  Decodes'
<1>1. /\ pc = "unrank" /\ pc' = "search" /\ m' = m /\ n' = n /\ degree' = degree /\ local' = local
      /\ sparse' = sparse /\ orderOffset' = orderOffset /\ local < CompositionCount(m, degree)
      /\ dec' = [Idle EXCEPT !.remaining = degree, !.c = local, !.hi = m - 1]
  BY DEF BeginIndex
<1>2. Unranking /\ Unranking'
  BY <1>1 DEF Unranking
<1>3. ShapeIs' /\ PcIs' /\ Stored' /\ Offsets'
  BY <1>1, <1>2, NothingStored
<1>4. m \in Nat \ {0} /\ n \in Nat /\ degree \in 0..n /\ local \in 0..CompositionCount(m, degree)
  BY <1>2, Shape DEF Decodes, Banded
<1>6. Banded'
  BY <1>1, <1>2 DEF Decodes, Banded
<1>8. dec' = [remaining |-> degree, c |-> local, p |-> 0, lo |-> 0, hi |-> m - 1, value |-> 0, s |-> << >>]
  BY <1>1 DEF Idle
<1>9. /\ dec' \in DecodeStates(m, n) /\ Decoded(degree, dec')
      /\ Searching(m, degree, local, dec')
  BY <1>1, <1>4, <1>8, SearchStarts
<1>10. DecIs' /\ Decoding'
  BY <1>1, <1>9 DEF DecIs, Decoding
<1> QED  BY <1>3, <1>6, <1>10 DEF Decodes

(* What the search and the exponent loop know when they run.               *)
LEMMA WhileDecoding ==
  ASSUME Decodes, pc \in {"search", "expo"}
  PROVE  /\ m \in Nat \ {0} /\ n \in Nat /\ degree \in 0..n /\ local \in Nat
         /\ local < CompositionCount(m, degree)
         /\ dec \in DecodeStates(m, n) /\ Decoded(degree, dec)
         /\ pc = "search" => Searching(m, degree, local, dec)
         /\ pc = "expo" => Lowering(m, degree, local, dec)
         /\ Unranking
<1>1. Unranking
  BY DEF Unranking
<1>2. m \in Nat \ {0} /\ n \in Nat
  BY Shape DEF Decodes
<1>3. degree \in 0..n /\ local \in Nat
  BY <1>1 DEF Decodes, Banded
<1> QED  BY <1>1, <1>2, <1>3 DEF Decodes, DecIs, Decoding

LEMMA CumZeroIs ==
  ASSUME m \in Nat \ {0}, n \in Nat, dec \in DecodeStates(m, n), NEW q \in dec.p..(m-1)
  PROVE  CumZero(q) = Zeros(m, dec, q)
<1>1. dec.p \in 0..m /\ dec.remaining \in 0..n
  BY DecodeStateIs
<1>2. dec.p \in 0..(m-1) /\ q \in 0..(m-1) /\ dec.remaining \in Nat
  BY <1>1
<1>3. Suffixed(dec.p) = Ways(m - dec.p - 1, dec.remaining) /\ Suffixed(q) = Ways(m - q - 1, dec.remaining)
  BY <1>2, SuffixIs DEF Suffixed
<1> QED  BY <1>3 DEF CumZero, Zeros

(* A step of the decoding leaves the band and what is stored alone.        *)
LEMMA BandKept ==
  ASSUME Decodes, pc \in {"search", "expo"}, pc' \in {"search", "expo"},
         UNCHANGED <<m, n, degree, local, sparse, orderOffset>>,
         dec' \in DecodeStates(m, n), Decoded(degree, dec'),
         pc' = "search" => Searching(m, degree, local, dec'),
         pc' = "expo" => Lowering(m, degree, local, dec')
  PROVE  Decodes'
<1>1. /\ m' = m /\ n' = n /\ degree' = degree /\ local' = local /\ sparse' = sparse
      /\ orderOffset' = orderOffset
  OBVIOUS
<1>2. Unranking /\ Unranking'
  BY DEF Unranking
<1>3. ShapeIs' /\ PcIs' /\ Stored' /\ Offsets'
  BY <1>1, <1>2, NothingStored
<1>4. Banded'
  BY <1>1, <1>2 DEF Decodes, Banded
<1>5. local < CompositionCount(m, degree)
  BY DEF Decodes, Decoding
<1>6. DecIs' /\ Decoding'
  BY <1>1, <1>5 DEF DecIs, Decoding
<1> QED  BY <1>3, <1>4, <1>6 DEF Decodes

LEMMA BisectDecodes ==
  ASSUME Decodes, Bisect
  PROVE  Decodes'
<1> DEFINE mid == Middle
           fits == [dec EXCEPT !.lo = mid]
           not == [dec EXCEPT !.hi = mid - 1]
           e == IF Zeros(m, dec, mid) <= dec.c THEN fits ELSE not
<1>1. /\ pc = "search" /\ pc' = "search" /\ dec.remaining > 0 /\ dec.lo < dec.hi
      /\ UNCHANGED <<m, n, degree, local, sparse, orderOffset>>
      /\ dec' = IF Fits(mid) THEN fits ELSE not
  BY DEF Bisect
<1>2. /\ m \in Nat \ {0} /\ n \in Nat /\ degree \in 0..n /\ local \in Nat
      /\ dec \in DecodeStates(m, n) /\ Decoded(degree, dec) /\ Searching(m, degree, local, dec)
  BY <1>1, WhileDecoding
<1>3. mid = (dec.lo + dec.hi + 1) \div 2
  BY DEF Middle
<1>4. /\ mid \in dec.p..(m-1)
      /\ e \in DecodeStates(m, n) /\ Decoded(degree, e) /\ Searching(m, degree, local, e)
  <2> HIDE DEF mid
  <2> QED  BY <1>1, <1>2, <1>3, SearchNarrows
<1>5. Fits(mid) <=> Zeros(m, dec, mid) <= dec.c
  BY <1>2, <1>4, CumZeroIs DEF Fits
<1>6. dec' = e
  BY <1>1, <1>5
<1> HIDE DEF e
<1> QED  BY <1>1, <1>4, <1>6, BandKept

LEMMA PositionFoundDecodes ==
  ASSUME Decodes, PositionFound
  PROVE  Decodes'
<1> DEFINE e == [dec EXCEPT !.c = dec.c - Zeros(m, dec, dec.lo), !.value = dec.remaining]
<1>1. /\ pc = "search" /\ pc' = "expo" /\ dec.remaining > 0 /\ dec.lo >= dec.hi
      /\ UNCHANGED <<m, n, degree, local, sparse, orderOffset>>
      /\ dec' = [dec EXCEPT !.c = dec.c - CumZero(dec.lo), !.value = dec.remaining]
  BY DEF PositionFound
<1>2. /\ m \in Nat \ {0} /\ n \in Nat /\ degree \in 0..n /\ local \in Nat
      /\ dec \in DecodeStates(m, n) /\ Decoded(degree, dec) /\ Searching(m, degree, local, dec)
  BY <1>1, WhileDecoding
<1>3. /\ dec.lo \in dec.p..(m-1)
      /\ e \in DecodeStates(m, n) /\ Decoded(degree, e) /\ Lowering(m, degree, local, e)
  BY <1>1, <1>2, SearchEnds
<1>4. CumZero(dec.lo) = Zeros(m, dec, dec.lo)
  BY <1>2, <1>3, CumZeroIs
<1>5. dec' = e
  BY <1>1, <1>4
<1> HIDE DEF e
<1> QED  BY <1>1, <1>3, <1>5, BandKept

LEMMA LowerExponentDecodes ==
  ASSUME Decodes, LowerExponent
  PROVE  Decodes'
<1> DEFINE block == Block
           e == [dec EXCEPT !.c = dec.c - block, !.value = dec.value - 1]
<1>1. /\ pc = "expo" /\ pc' = "expo" /\ dec.c >= block
      /\ UNCHANGED <<m, n, degree, local, sparse, orderOffset>>
      /\ dec' = e
  BY DEF LowerExponent
<1>2. /\ m \in Nat \ {0} /\ n \in Nat /\ degree \in 0..n /\ local \in Nat
      /\ dec \in DecodeStates(m, n) /\ Decoded(degree, dec) /\ Lowering(m, degree, local, dec)
  BY <1>1, WhileDecoding
<1>3. block = CompositionCount(m - dec.lo - 1, dec.remaining - dec.value)
  BY DEF Block
<1>4. e \in DecodeStates(m, n) /\ Decoded(degree, e) /\ Lowering(m, degree, local, e)
  <2> HIDE DEF block
  <2> QED  BY <1>1, <1>2, <1>3, LoweringKeeps
<1> HIDE DEF e
<1> QED  BY <1>1, <1>4, BandKept

LEMMA ExponentFoundDecodes ==
  ASSUME Decodes, ExponentFound
  PROVE  Decodes'
<1> DEFINE e == [dec EXCEPT !.s = Append(dec.s, [pos |-> dec.lo, exp |-> dec.value]),
                            !.remaining = dec.remaining - dec.value,
                            !.p = dec.lo + 1, !.lo = dec.lo + 1, !.hi = m - 1]
<1>1. /\ pc = "expo" /\ pc' = "search" /\ (dec.value < 1 \/ dec.c < Block)
      /\ UNCHANGED <<m, n, degree, local, sparse, orderOffset>>
      /\ dec' = e
  BY DEF ExponentFound
<1>2. /\ m \in Nat \ {0} /\ n \in Nat /\ degree \in 0..n /\ local \in Nat
      /\ dec \in DecodeStates(m, n) /\ Decoded(degree, dec) /\ Lowering(m, degree, local, dec)
  BY <1>1, WhileDecoding
<1>3. dec.value \in 1..dec.remaining /\ dec.remaining \in Nat
  BY <1>2, DecodeStateIs DEF Lowering
<1>4. dec.c < CompositionCount(m - dec.lo - 1, dec.remaining - dec.value)
  BY <1>1, <1>3 DEF Block
<1>5. e \in DecodeStates(m, n) /\ Decoded(degree, e) /\ Searching(m, degree, local, e)
  BY <1>2, <1>4, EntryFound
<1> HIDE DEF e
<1> QED  BY <1>1, <1>5, BandKept

LEMMA StoreIndexDecodes ==
  ASSUME Decodes, StoreIndex
  PROVE  Decodes'
<1>1. /\ pc = "search" /\ pc' = "unrank" /\ dec.remaining = 0
      /\ m' = m /\ n' = n /\ degree' = degree /\ local' = local + 1
      /\ sparse' = Append(sparse, dec.s) /\ dec' = Idle /\ orderOffset' = orderOffset
  BY DEF StoreIndex
<1>2. /\ m \in Nat \ {0} /\ n \in Nat /\ degree \in 0..n /\ local \in Nat
      /\ local < CompositionCount(m, degree)
      /\ dec \in DecodeStates(m, n) /\ Decoded(degree, dec) /\ Searching(m, degree, local, dec)
      /\ Unranking /\ Unranking'
  BY <1>1, WhileDecoding DEF Unranking
<1> DEFINE s == dec.s
           l == Len(sparse)
<1>3. /\ s \in SparseIndices(m) /\ SparseOrder(s) = degree
      /\ SparseRank(m, s) = LowerOrders(m, degree) + local
  BY <1>1, <1>2, IndexDone
<1>4. sparse \in Seq(SparseIndices(m)) /\ l \in Nat /\ l = LowerOrders(m, degree) + local
  BY <1>2 DEF Decodes, Stored, Banded
<1> HIDE DEF s
<1>5. sparse' \in Seq(SparseIndices(m)) /\ Len(sparse') = l + 1
  BY <1>1, <1>3, <1>4 DEF s
<1>6. ASSUME NEW x \in 0..(Len(sparse') - 1)
      PROVE  (OrderOf(x) <= n /\ SparseRank(m, Sparse(x)) = x)'
  <2>1. x \in 0..l
    BY <1>4, <1>5
  <2>2. CASE x = l
    <3>1. sparse'[x + 1] = s
      BY <1>1, <1>4, <2>2 DEF s
    <3>2. degree <= n
      BY <1>2
    <3> QED  BY <1>1, <1>3, <1>4, <2>2, <3>1, <3>2 DEF OrderOf, Sparse
  <2>3. CASE x # l
    <3>1. x \in 0..(l-1) /\ x + 1 \in 1..l
      BY <1>4, <2>1, <2>3
    <3>2. sparse'[x + 1] = sparse[x + 1]
      BY <1>1, <1>4, <3>1
    <3>3. OrderOf(x) <= n /\ SparseRank(m, Sparse(x)) = x
      BY <3>1 DEF Decodes, Stored
    <3> QED  BY <1>1, <3>2, <3>3 DEF OrderOf, Sparse
  <2> QED  BY <2>2, <2>3
<1>7. Stored'
  BY <1>1, <1>5, <1>6 DEF Stored
<1>8. Banded'
  <2>1. LowerOrders(m, degree) \in Nat /\ CompositionCount(m, degree) \in Nat
    BY <1>2, LowerOrdersAre, CompositionsAre
  <2>2. local + 1 \in 0..CompositionCount(m, degree) /\ l + 1 = LowerOrders(m, degree) + (local + 1)
    BY <1>2, <1>4, <2>1
  <2> QED  BY <1>1, <1>2, <1>5, <2>2 DEF Banded
<1>9. ShapeIs' /\ PcIs'
  BY <1>1 DEF Decodes, ShapeIs, PcIs
<1>10. DecIs'
  <2>1. Idle = [remaining |-> 0, c |-> 0, p |-> 0, lo |-> 0, hi |-> 0, value |-> 0, s |-> <<>>]
    BY DEF Idle
  <2>2. 0 \in 0..n /\ 0 \in 0..m /\ << >> \in SparseIndices(m)
    BY <1>2, Nothing
  <2>3. Idle \in DecodeStates(m, n)
    BY <2>1, <2>2 DEF DecodeStates
  <2> QED  BY <1>1, <2>3 DEF DecIs
<1>11. Decoding'
  BY <1>1 DEF Decoding
<1>12. Offsets'
  BY <1>1, <1>2 DEF Decodes, Offsets
<1> QED  BY <1>7, <1>8, <1>9, <1>10, <1>11, <1>12 DEF Decodes

LEMMA NextBandDecodes ==
  ASSUME Decodes, NextBand
  PROVE  Decodes'
<1>1. /\ pc = "unrank" /\ local = CompositionCount(m, degree) /\ local' = 0
      /\ m' = m /\ n' = n /\ dec' = dec /\ sparse' = sparse /\ orderOffset' = orderOffset
      /\ IF degree < n THEN degree' = degree + 1 /\ pc' = pc ELSE degree' = 0 /\ pc' = "offset"
  BY DEF NextBand
<1>2. Unranking /\ m \in Nat \ {0} /\ n \in Nat /\ degree \in 0..n
  BY <1>1, Shape DEF Unranking, Decodes, Banded
<1>3. Len(sparse) = LowerOrders(m, degree + 1)
  <2>1. LowerOrders(m, degree + 1) = LowerOrders(m, degree) + CompositionCount(m, degree)
    BY <1>2, LowerOrdersAre
  <2> QED  BY <1>1, <1>2, <2>1 DEF Decodes, Banded
<1>4. ShapeIs' /\ PcIs' /\ Stored' /\ DecIs'
  BY <1>1 DEF Decodes, ShapeIs, PcIs, Stored, DecIs, OrderOf, Sparse
<1>5. pc' \notin {"search", "expo"}
  BY <1>1
<1>6. Decoding'
  BY <1>5 DEF Decoding
<1>7. CASE degree < n
  <2>1. pc' = "unrank" /\ degree' = degree + 1 /\ Unranking'
    BY <1>1, <1>7 DEF Unranking
  <2>2. LowerOrders(m, degree + 1) \in Nat /\ CompositionCount(m, degree + 1) \in Nat
    <3>1. degree + 1 \in Nat /\ m \in Nat
      BY <1>2
    <3> QED  BY <1>2, <3>1, LowerOrdersAre, CompositionsAre
  <2>3. degree + 1 \in 0..n /\ 0 \in 0..CompositionCount(m, degree + 1)
    BY <1>2, <1>7, <2>2
  <2>4. Banded'
    BY <1>1, <1>3, <2>1, <2>2, <2>3 DEF Banded
  <2>5. Offsets'
    BY <1>1, <1>2, <2>1 DEF Decodes, Offsets
  <2> QED  BY <1>4, <1>6, <2>4, <2>5 DEF Decodes
<1>8. CASE ~(degree < n)
  <2>1. pc' = "offset" /\ degree' = 0 /\ ~Unranking' /\ degree = n
    BY <1>1, <1>2, <1>8 DEF Unranking
  <2>2. Len(sparse) = NC
    <3>1. LowerOrders(m, n + 1) = Ways(m, (n + 1) - 1)
      BY <1>2, LowerOrdersAre
    <3>2. NC = Ways(m, n)
      BY <1>2, NCoeffsIs DEF NC
    <3>3. (n + 1) - 1 = n
      BY <1>2
    <3> QED  BY <1>3, <2>1, <3>1, <3>2, <3>3
  <2>3. Banded'
    BY <2>1 DEF Banded
  <2>4. orderOffset = <<>>
    <3>1. Len(orderOffset) = 0 /\ orderOffset \in Seq(Nat)
      BY <1>2 DEF Decodes, Offsets
    <3> QED  BY <3>1
  <2>5. Offsets'
    <3>1. 0 \in 0..(n + 1) /\ NC' = NC
      BY <1>1, <1>2 DEF NC
    <3>2. \A d \in 1..0 : FALSE
      OBVIOUS
    <3>3. orderOffset' \in Seq(Nat) /\ Len(orderOffset') = 0 /\ Len(sparse') = NC'
      BY <1>1, <2>2, <2>4, <3>1
    <3>4. degree' = 0 /\ degree' \in 0..(n' + 1)
      BY <1>1, <2>1, <3>1
    <3> QED  BY <2>1, <3>2, <3>3, <3>4 DEF Offsets
  <2> QED  BY <1>4, <1>6, <2>3, <2>5 DEF Decodes
<1> QED  BY <1>7, <1>8

LEMMA StoreOrderOffsetDecodes ==
  ASSUME Decodes, StoreOrderOffset
  PROVE  Decodes'
<1> DEFINE next == IF degree = 0 THEN 0 ELSE orderOffset[degree] + CompositionCount(m, degree - 1)
<1>1. /\ pc = "offset" /\ m' = m /\ n' = n /\ dec' = dec /\ sparse' = sparse
      /\ orderOffset' = Append(orderOffset, next)
      /\ IF degree <= n THEN degree' = degree + 1 /\ pc' = pc ELSE degree' = 0 /\ pc' = "count"
  BY DEF StoreOrderOffset
<1>2. /\ ~Unranking /\ ~Unranking' /\ m \in Nat \ {0} /\ n \in Nat /\ degree \in 0..(n + 1)
      /\ orderOffset \in Seq(Nat) /\ Len(orderOffset) = degree /\ Len(sparse) = NC
  BY <1>1, Shape DEF Unranking, Decodes, Offsets
<1>3. next = LowerOrders(m, degree) /\ next \in Nat
  <2>1. CASE degree = 0
    <3>1. LowerOrders(m, 0) = 0
      BY <1>2, LowerOrdersAre DEF Ways
    <3> QED  BY <2>1, <3>1
  <2>2. CASE degree # 0
    <3>1. degree \in 1..Len(orderOffset) /\ degree - 1 \in Nat /\ (degree - 1) + 1 = degree
      BY <1>2, <2>2
    <3>2. orderOffset[degree] = LowerOrders(m, degree - 1)
      BY <3>1 DEF Decodes, Offsets
    <3>3. LowerOrders(m, (degree - 1) + 1) = LowerOrders(m, degree - 1) + CompositionCount(m, degree - 1)
      BY <1>2, <3>1, LowerOrdersAre
    <3>4. LowerOrders(m, degree) \in Nat
      <4>1. degree \in Nat
        BY <1>2
      <4> QED  BY <1>2, <4>1, LowerOrdersAre
    <3> QED  BY <2>2, <3>1, <3>2, <3>3, <3>4
  <2> QED  BY <2>1, <2>2
<1> HIDE DEF next
<1>4. orderOffset' \in Seq(Nat) /\ Len(orderOffset') = degree + 1
  BY <1>1, <1>2, <1>3
<1>5. ASSUME NEW d \in 1..(degree + 1)
      PROVE  orderOffset'[d] = LowerOrders(m, d - 1)
  <2>1. CASE d = degree + 1
    <3>1. d - 1 = degree
      BY <1>2, <2>1
    <3> QED  BY <1>1, <1>2, <1>3, <2>1, <3>1
  <2>2. CASE d # degree + 1
    <3>1. d \in 1..Len(orderOffset)
      BY <1>2, <2>2
    <3>2. orderOffset'[d] = orderOffset[d]
      BY <1>1, <1>2, <3>1
    <3> QED  BY <3>1, <3>2 DEF Decodes, Offsets
  <2> QED  BY <2>1, <2>2
<1>6. ShapeIs' /\ Stored' /\ DecIs' /\ NC' = NC
  BY <1>1 DEF Decodes, ShapeIs, Stored, DecIs, OrderOf, Sparse, NC
<1>7. PcIs' /\ pc' \notin {"search", "expo"}
  BY <1>1 DEF PcIs
<1>8. Decoding' /\ Banded'
  BY <1>2, <1>7 DEF Decoding, Banded
<1>9. Len(orderOffset') = IF pc' = "offset" THEN degree' ELSE n + 2
  <2>1. degree <= n \/ degree = n + 1
    BY <1>2
  <2>2. CASE degree <= n
    BY <1>1, <1>4, <2>2
  <2>3. CASE degree = n + 1
    <3>1. ~(degree <= n) /\ degree + 1 = n + 2
      BY <1>2, <2>3
    <3> QED  BY <1>1, <1>4, <3>1
  <2> QED  BY <2>1, <2>2, <2>3
<1>10. pc' = "offset" => degree' \in 0..(n + 1)
  BY <1>1, <1>2
<1>11. Offsets'
  BY <1>1, <1>2, <1>4, <1>5, <1>6, <1>9, <1>10 DEF Offsets
<1> QED  BY <1>6, <1>7, <1>8, <1>11 DEF Decodes

(* The passes over the product terms read these tables.                    *)
LEMMA PassesDecode ==
  ASSUME Decodes,
         \/ NextRow \/ CountTerm \/ EndCount \/ StoreBucketStart \/ FillTerm \/ EndFill
         \/ Done \/ UNCHANGED vars
  PROVE  Decodes'
<1>1. CASE NextRow \/ CountTerm \/ EndCount \/ StoreBucketStart \/ FillTerm \/ EndFill
  <2>1. /\ pc \in {"count", "start", "fill"} /\ pc' \in {"count", "start", "fill", "done"}
        /\ m' = m /\ n' = n /\ dec' = dec /\ sparse' = sparse /\ orderOffset' = orderOffset
    BY <1>1 DEF NextRow, CountTerm, EndCount, StoreBucketStart, FillTerm, EndFill, decodeVars
  <2>2. ShapeIs' /\ Stored' /\ DecIs' /\ NC' = NC
    BY <2>1 DEF Decodes, ShapeIs, Stored, DecIs, OrderOf, Sparse, NC
  <2>3. ~Unranking /\ ~Unranking' /\ PcIs'
    BY <2>1 DEF Unranking, PcIs
  <2>4. Decoding' /\ Banded'
    BY <2>1, <2>3 DEF Decoding, Banded
  <2>5. Offsets'
    BY <2>1, <2>2, <2>3 DEF Decodes, Offsets
  <2> QED  BY <2>2, <2>3, <2>4, <2>5 DEF Decodes
<1>2. CASE Done \/ UNCHANGED vars
  <2>1. /\ m' = m /\ n' = n /\ pc' = pc /\ degree' = degree /\ local' = local /\ dec' = dec
        /\ sparse' = sparse /\ orderOffset' = orderOffset
    BY <1>2 DEF Done, vars, decodeVars
  <2> QED  BY <2>1 DEF Decodes, ShapeIs, PcIs, Stored, Banded, DecIs, Decoding, Offsets,
                     Unranking, OrderOf, Sparse, NC
<1> QED  BY <1>1, <1>2

LEMMA StartsDecoding ==
  ASSUME Init
  PROVE  Decodes
<1>1. /\ pc = "unrank" /\ degree = 0 /\ local = 0 /\ dec = Idle /\ sparse = <<>> /\ orderOffset = <<>>
      /\ <<m, n>> \in Shapes
  <2>1. PICK shape \in Shapes : m = shape[1] /\ n = shape[2]
    BY DEF Init
  <2>2. shape = <<shape[1], shape[2]>>
    BY <2>1, ShapesAssumption
  <2> QED  BY <2>1, <2>2 DEF Init
<1>2. m \in Nat \ {0} /\ n \in Nat
  BY <1>1, Shape DEF ShapeIs
<1>3. Stored
  <2>1. Len(sparse) = 0
    BY <1>1
  <2> QED  BY <1>1, <2>1 DEF Stored
<1>4. Banded
  <2>1. LowerOrders(m, 0) = 0 /\ CompositionCount(m, 0) \in Nat
    BY <1>2, LowerOrdersAre, CompositionsAre DEF Ways
  <2>2. 0 \in 0..n /\ 0 \in 0..CompositionCount(m, 0)
    BY <1>2, <2>1
  <2> QED  BY <1>1, <2>1, <2>2 DEF Banded
<1>5. DecIs
  <2>1. 0 \in 0..n /\ 0 \in 0..m /\ << >> \in SparseIndices(m)
    BY <1>2, Nothing
  <2> QED  BY <1>1, <2>1 DEF DecIs, DecodeStates, Idle
<1>6. Offsets
  BY <1>1 DEF Offsets, Unranking
<1>7. Decoding
  BY <1>1 DEF Decoding
<1> QED  BY <1>1, <1>3, <1>4, <1>5, <1>6, <1>7 DEF Decodes, ShapeIs, PcIs

LEMMA StepDecodes ==
  ASSUME Decodes, [Next]_vars
  PROVE  Decodes'
<1>1. CASE BeginIndex
  BY <1>1, BeginIndexDecodes
<1>2. CASE NextBand
  BY <1>2, NextBandDecodes
<1>3. CASE Bisect
  BY <1>3, BisectDecodes
<1>4. CASE PositionFound
  BY <1>4, PositionFoundDecodes
<1>5. CASE LowerExponent
  BY <1>5, LowerExponentDecodes
<1>6. CASE ExponentFound
  BY <1>6, ExponentFoundDecodes
<1>7. CASE StoreIndex
  BY <1>7, StoreIndexDecodes
<1>8. CASE StoreOrderOffset
  BY <1>8, StoreOrderOffsetDecodes
<1>9. CASE \/ NextRow \/ CountTerm \/ EndCount \/ StoreBucketStart \/ FillTerm \/ EndFill
           \/ Done \/ UNCHANGED vars
  BY <1>9, PassesDecode
<1> QED  BY <1>1, <1>2, <1>3, <1>4, <1>5, <1>6, <1>7, <1>8, <1>9 DEF Next

(* The decoding of every index, and with it the rank of everything stored, *)
(* is right at every step, for every shape.                                *)
LEMMA DecodesHolds == Spec => []Decodes
<1>1. Init => Decodes
  BY StartsDecoding
<1>2. Decodes /\ [Next]_vars => Decodes'
  BY StepDecodes
<1> QED  BY <1>1, <1>2, PTL DEF Spec

(* What make_idx_to_sparse finds by its two bisections at a position is a  *)
(* multi-index of the table, in canonical form, that sparse_rank() maps    *)
(* back to that position, for every number of variables and every order.   *)
THEOREM RankInvertsHolds == Spec => []RankInverts
<1>1. Decodes => RankInverts
  <2> SUFFICES ASSUME Decodes, NEW x \in 0..(Len(sparse) - 1)
               PROVE  /\ \A t \in DOMAIN Sparse(x) :
                           Sparse(x)[t].pos \in 0..(m-1) /\ Sparse(x)[t].exp > 0
                      /\ \A t, u \in DOMAIN Sparse(x) : t < u => Sparse(x)[t].pos < Sparse(x)[u].pos
                      /\ OrderOf(x) <= n
                      /\ SparseRank(m, Sparse(x)) = x
    BY DEF RankInverts
  <2>1. sparse \in Seq(SparseIndices(m)) /\ Len(sparse) \in Nat
    BY DEF Decodes, Stored
  <2>2. x + 1 \in 1..Len(sparse)
    BY <2>1
  <2>3. Sparse(x) \in SparseIndices(m)
    BY <2>1, <2>2 DEF Sparse
  <2>4. \A t \in DOMAIN Sparse(x) : Sparse(x)[t] \in Entries(m)
    BY <2>3 DEF SparseIndices
  <2>5. \A t \in DOMAIN Sparse(x) : Sparse(x)[t].pos \in 0..(m-1) /\ Sparse(x)[t].exp > 0
    BY <2>4 DEF Entries
  <2> QED  BY <2>3, <2>5 DEF SparseIndices, Decodes, Stored
<1> QED  BY <1>1, DecodesHolds, PTL

-----------------------------------------------------------------------------
(* The finished layout.  An index lies in the band of its order.           *)
LEMMA InItsBand ==
  ASSUME Decodes, ~Unranking, NEW x \in Outputs
  PROVE  /\ NC \in Nat /\ NC = LowerOrders(m, n + 1)
         /\ Sparse(x) \in SparseIndices(m) /\ SparseRank(m, Sparse(x)) = x
         /\ OrderOf(x) \in 0..n
         /\ LowerOrders(m, OrderOf(x)) <= x /\ x < LowerOrders(m, OrderOf(x) + 1)
<1>1. m \in Nat \ {0} /\ n \in Nat
  BY Shape DEF Decodes
<1>2. NC \in Nat /\ NC = LowerOrders(m, n + 1)
  <2>1. LowerOrders(m, n + 1) = Ways(m, (n + 1) - 1)
    BY <1>1, LowerOrdersAre
  <2>2. (n + 1) - 1 = n
    BY <1>1
  <2> QED  BY <1>1, <2>1, <2>2, NCoeffsIs DEF NC
<1>3. Len(sparse) = NC /\ sparse \in Seq(SparseIndices(m))
  BY DEF Decodes, Offsets, Stored
<1>4. x \in 0..(Len(sparse) - 1) /\ x + 1 \in 1..Len(sparse)
  BY <1>2, <1>3 DEF Outputs
<1>5. Sparse(x) \in SparseIndices(m)
  BY <1>3, <1>4 DEF Sparse
<1>6. OrderOf(x) <= n /\ SparseRank(m, Sparse(x)) = x
  BY <1>4 DEF Decodes, Stored
<1>7. /\ OrderOf(x) \in Nat /\ LowerOrders(m, OrderOf(x)) <= SparseRank(m, Sparse(x))
      /\ SparseRank(m, Sparse(x)) < LowerOrders(m, OrderOf(x) + 1)
  BY <1>1, <1>5, SparseRankBand DEF OrderOf
<1> QED  BY <1>1, <1>2, <1>5, <1>6, <1>7

Passing == pc \in {"count", "start", "fill", "done"}

LEMMA JMaxIs ==
  ASSUME Decodes, Passing, NEW x \in Outputs
  PROVE  /\ JMax(x) = LowerOrders(m, n - OrderOf(x) + 1)
         /\ JMax(x) \in 0..NC
<1>1. ~Unranking /\ pc # "offset"
  BY DEF Unranking, Passing
<1>2. m \in Nat \ {0} /\ n \in Nat
  BY Shape DEF Decodes
<1>3. NC \in Nat /\ NC = LowerOrders(m, n + 1) /\ OrderOf(x) \in 0..n
  BY <1>1, InItsBand
<1> DEFINE d == n - OrderOf(x) + 1
<1>4. d \in Nat /\ d <= n + 1 /\ d + 1 \in 1..(n + 2) /\ (d + 1) - 1 = d
  BY <1>2, <1>3
<1>5. Len(orderOffset) = n + 2
  BY <1>1 DEF Decodes, Offsets
<1>6. orderOffset[d + 1] = LowerOrders(m, d)
  <2> HIDE DEF d
  <2>1. \A a \in 1..Len(orderOffset) : orderOffset[a] = LowerOrders(m, a - 1)
    BY DEF Decodes, Offsets
  <2>2. d + 1 \in 1..Len(orderOffset)
    BY <1>4, <1>5
  <2> QED  BY <1>4, <2>1, <2>2
<1>7. LowerOrders(m, d) \in Nat /\ LowerOrders(m, d) <= LowerOrders(m, n + 1)
  <2> HIDE DEF d
  <2>1. n + 1 \in Nat
    BY <1>2
  <2> QED  BY <1>2, <1>4, <2>1, LowerOrdersAre, LowerOrdersMonotone
<1> QED  BY <1>3, <1>6, <1>7 DEF JMax

(* The product of a pair visited has order at most n, so its rank is in    *)
(* the layout, in the band of that order.                                  *)
LEMMA RankedIs ==
  ASSUME Decodes, Passing, NEW x \in Outputs, NEW y \in Nat, y < JMax(x)
  PROVE  /\ y \in Outputs
         /\ OrderOf(x) + OrderOf(y) \in 0..n
         /\ LowerOrders(m, OrderOf(x) + OrderOf(y)) <= Ranked(x, y)
         /\ Ranked(x, y) \in Outputs
<1>1. ~Unranking
  BY DEF Unranking, Passing
<1>2. m \in Nat \ {0} /\ n \in Nat
  BY Shape DEF Decodes
<1>3. /\ NC \in Nat /\ NC = LowerOrders(m, n + 1) /\ OrderOf(x) \in 0..n
      /\ Sparse(x) \in SparseIndices(m)
  BY <1>1, InItsBand
<1>4. JMax(x) = LowerOrders(m, n - OrderOf(x) + 1) /\ JMax(x) \in 0..NC
  BY JMaxIs
<1>5. y \in Outputs
  BY <1>3, <1>4 DEF Outputs
<1>6. OrderOf(y) \in 0..n /\ Sparse(y) \in SparseIndices(m) /\ LowerOrders(m, OrderOf(y)) <= y
  BY <1>1, <1>5, InItsBand
<1>7. OrderOf(x) + OrderOf(y) \in 0..n
  <2> SUFFICES ASSUME ~(OrderOf(x) + OrderOf(y) <= n) PROVE FALSE
    BY <1>3, <1>6
  <2>1. /\ n - OrderOf(x) + 1 \in Nat /\ OrderOf(y) \in Nat /\ n - OrderOf(x) + 1 <= OrderOf(y)
    BY <1>2, <1>3, <1>6
  <2>2. LowerOrders(m, n - OrderOf(x) + 1) <= LowerOrders(m, OrderOf(y))
    BY <1>2, <2>1, LowerOrdersMonotone
  <2>3. LowerOrders(m, OrderOf(y)) \in Nat
    BY <1>2, <2>1, LowerOrdersAre
  <2> QED  BY <1>4, <1>6, <2>2, <2>3
<1> DEFINE c == MergeSparse(Sparse(x), Sparse(y))
           d == OrderOf(x) + OrderOf(y)
<1>8. c \in SparseIndices(m) /\ SparseOrder(c) = d
  BY <1>3, <1>6, MergeSparseIn DEF OrderOf
<1>9. Ranked(x, y) = SparseRank(m, c)
  BY DEF Ranked
<1> HIDE DEF c, d
<1>10. /\ SparseRank(m, c) \in Nat
       /\ LowerOrders(m, d) <= SparseRank(m, c) /\ SparseRank(m, c) < LowerOrders(m, d + 1)
  BY <1>2, <1>8, SparseRankBand
<1>11. d \in 0..n
  BY <1>7 DEF d
<1>12. LowerOrders(m, d + 1) <= LowerOrders(m, n + 1) /\ LowerOrders(m, d + 1) \in Nat
  <2>1. d + 1 \in Nat /\ n + 1 \in Nat /\ d + 1 <= n + 1
    BY <1>2, <1>11
  <2> QED  BY <1>2, <2>1, LowerOrdersMonotone, LowerOrdersAre
<1>13. SparseRank(m, c) \in 0..(NC-1)
  BY <1>3, <1>10, <1>12
<1> QED  BY <1>5, <1>7, <1>9, <1>10, <1>13 DEF Outputs, d

(* Every rank the passes compute is in the layout.                         *)
LEMMA DecodesRanks ==
  ASSUME Decodes
  PROVE  RanksInRange
<1> SUFFICES ASSUME Passing
             PROVE  /\ NC \in Nat
                    /\ \A x \in Outputs :
                         /\ JMax(x) \in 0..NC
                         /\ \A y \in 0..(JMax(x) - 1) : Ranked(x, y) \in Outputs
  BY DEF RanksInRange, Passing, Outputs
<1>1. NC \in Nat
  BY Shape, NCoeffsIs DEF Decodes, NC
<1>2. ASSUME NEW x \in Outputs
      PROVE  JMax(x) \in 0..NC
  BY JMaxIs
<1>3. ASSUME NEW x \in Outputs, NEW y \in 0..(JMax(x) - 1)
      PROVE  Ranked(x, y) \in Outputs
  <2>1. y \in Nat /\ y < JMax(x)
    BY <1>1, <1>2
  <2> QED  BY <2>1, RankedIs
<1> QED  BY <1>1, <1>2, <1>3

(* sparse_rank() of every product the builders count or store is below     *)
(* ncoeffs: the passes stay inside the tables they index, for every shape. *)
THEOREM RanksInRangeHolds == Spec => []RanksInRange
BY DecodesHolds, DecodesRanks, PTL

-----------------------------------------------------------------------------
(* Both invariants together; the decoding discharges the hypothesis on the *)
(* ranks.                                                                  *)
LEMMA StartsInv ==
  ASSUME Init
  PROVE  Inv
BY DEF Init, Inv, Counting, Counted, Starting, Filling, Blank, OffsetBlank

LEMMA InvHolds == Spec => [](Decodes /\ Inv /\ RanksInRange)
<1>1. Init => Inv
  BY StartsInv
<1>2. Inv /\ RanksInRange /\ RanksInRange' /\ [Next]_vars => Inv'
  BY StepInv
<1> QED  BY <1>1, <1>2, DecodesHolds, RanksInRangeHolds, PTL DEF Spec

(* The counting sort of make_product_terms_by_output writes every slot at  *)
(* most once, for every shape: the buckets it has counted do not overlap.  *)
THEOREM WriteOnceHolds == Spec => WriteOnce
<1>1. Inv /\ RanksInRange /\ RanksInRange' /\ [Next]_vars =>
        [\A slot \in DOMAIN byOutput : byOutput[slot] # NoTerm => byOutput'[slot] = byOutput[slot]]_vars
  BY StepInv
<1> QED  BY <1>1, InvHolds, PTL DEF Spec, WriteOnce

-----------------------------------------------------------------------------
(* What the by-output table holds.                                         *)
IsTerm(t) == \E x \in Outputs, y \in Outputs : y < JMax(x) /\ t = <<x, y, Ranked(x, y)>>

TermsKnown ==
  \A slot \in DOMAIN byOutput :
    byOutput[slot] # NoTerm => pc \in {"fill", "done"} /\ IsTerm(byOutput[slot])

LEMMA StepTermsKnown ==
  ASSUME TermsKnown, Decodes, Inv, [Next]_vars
  PROVE  TermsKnown'
<1>1. CASE FillTerm
  <2> DEFINE k == Ranked(i, j)
  <2>1. /\ pc = "fill" /\ pc' = "fill" /\ i \in Outputs /\ j \in Nat /\ j < JMax(i)
        /\ byOutput' = [byOutput EXCEPT ![Slot(k)] = <<i, j, k>>]
    <3>1. NC \in Nat
      BY Shape, NCoeffsIs DEF Decodes, NC
    <3> QED  BY <1>1, <3>1 DEF FillTerm, Inv, Filling, LoopIndices, Outputs
  <2>2. UNCHANGED TableVars
    BY <1>1 DEF FillTerm, TableVars, decodeVars
  <2>3. \A t : IsTerm(t)' <=> IsTerm(t)
    BY <2>2, TablesFixed DEF IsTerm
  <2>4. IsTerm(<<i, j, k>>)
    <3>1. j \in Outputs
      BY <2>1, RankedIs DEF Passing
    <3> QED  BY <2>1, <3>1 DEF IsTerm
  <2> HIDE DEF k
  <2>5. ASSUME NEW slot \in DOMAIN byOutput', byOutput'[slot] # NoTerm
        PROVE  IsTerm(byOutput'[slot])
    <3>1. slot \in DOMAIN byOutput
      BY <2>1, <2>5
    <3>2. CASE slot = Slot(k)
      BY <2>1, <2>4, <3>1, <3>2
    <3>3. CASE slot # Slot(k)
      BY <2>1, <2>5, <3>1, <3>3 DEF TermsKnown
    <3> QED  BY <3>2, <3>3
  <2> QED  BY <2>1, <2>3, <2>5 DEF TermsKnown
<1>2. CASE StoreBucketStart
  <2>1. byOutput = <<>>
    BY <1>2 DEF StoreBucketStart, Inv, Blank
  <2>2. \A slot \in DOMAIN byOutput' : byOutput'[slot] = NoTerm
    <3>1. \/ byOutput' = <<>>
          \/ byOutput' = [slot \in 0..(productOffset'[NC + 1] - 1) |-> NoTerm]
      BY <1>2, <2>1 DEF StoreBucketStart, fillVars
    <3>2. DOMAIN << >> = {}
      OBVIOUS
    <3>3. CASE byOutput' = <<>>
      BY <3>2, <3>3
    <3>4. CASE byOutput' = [slot \in 0..(productOffset'[NC + 1] - 1) |-> NoTerm]
      BY <3>4
    <3> QED  BY <3>1, <3>3, <3>4
  <2> QED  BY <2>2 DEF TermsKnown
<1>3. CASE \/ BeginIndex \/ NextBand \/ Bisect \/ PositionFound \/ LowerExponent
           \/ ExponentFound \/ StoreIndex \/ StoreOrderOffset
  <2>1. pc \in {"unrank", "search", "expo", "offset"} /\ byOutput' = byOutput
    BY <1>3 DEF BeginIndex, NextBand, Bisect, PositionFound, LowerExponent, ExponentFound,
                StoreIndex, StoreOrderOffset, fillVars
  <2>2. byOutput' = <<>>
    BY <2>1 DEF Inv, Blank
  <2>3. DOMAIN << >> = {}
    OBVIOUS
  <2> QED  BY <2>2, <2>3 DEF TermsKnown
<1>4. CASE NextRow \/ CountTerm \/ EndCount \/ EndFill \/ Done \/ UNCHANGED vars
  <2>1. /\ byOutput' = byOutput /\ (pc \in {"fill", "done"} => pc' \in {"fill", "done"})
        /\ UNCHANGED TableVars
    BY <1>4 DEF NextRow, CountTerm, EndCount, EndFill, Done, vars, fillVars, TableVars, decodeVars
  <2>2. \A t : IsTerm(t)' <=> IsTerm(t)
    BY <2>1, TablesFixed DEF IsTerm
  <2> QED  BY <2>1, <2>2 DEF TermsKnown
<1> QED  BY <1>1, <1>2, <1>3, <1>4 DEF Next

LEMMA TermsKnownHolds == Spec => []TermsKnown
<1>1. Init => TermsKnown
  <2>1. DOMAIN << >> = {}
    OBVIOUS
  <2> QED  BY <2>1 DEF Init, TermsKnown
<1>2. TermsKnown /\ (Decodes /\ Inv /\ RanksInRange) /\ [Next]_vars => TermsKnown'
  BY StepTermsKnown
<1> QED  BY <1>1, <1>2, InvHolds, PTL DEF Spec

(* An index of order 0 is the real part.                                   *)
LEMMA OrderZero ==
  ASSUME Decodes, ~Unranking, NEW x \in Outputs, OrderOf(x) = 0
  PROVE  x = 0 /\ Sparse(x) = << >>
<1> DEFINE s == Sparse(x)
<1>1. m \in Nat \ {0} /\ n \in Nat
  BY Shape DEF Decodes
<1>2. s \in SparseIndices(m) /\ x < LowerOrders(m, 0 + 1)
  BY InItsBand
<1>3. LowerOrders(m, 0 + 1) = 1
  <2>1. LowerOrders(m, 0) = 0 /\ LowerOrders(m, 0 + 1) = LowerOrders(m, 0) + CompositionCount(m, 0)
    BY <1>1, LowerOrdersAre DEF Ways
  <2>2. CompositionCount(m, 0) = 1
    BY <1>1, OneComposition
  <2> QED  BY <2>1, <2>2
<1>4. x = 0
  BY <1>2, <1>3 DEF Outputs
<1>5. s = << >>
  <2>1. s \in Seq(Entries(m)) /\ Len(s) \in Nat /\ SparseOrder(s) = 0
    BY <1>2 DEF SparseIndices, OrderOf
  <2> HIDE DEF s
  <2>2. Len(s) = 0
    <3> SUFFICES ASSUME Len(s) > 0 PROVE FALSE
      BY <2>1
    <3>1. 0 \in 0..Len(s) /\ Len(s) \in 0..Len(s)
      BY <2>1
    <3>2. Spent(s, 0) < Spent(s, Len(s))
      BY <2>1, <3>1, SpentGrows
    <3>3. Spent(s, 0) = 0 /\ Spent(s, Len(s)) = SparseOrder(s)
      BY <2>1, <3>1, SpentStep
    <3> QED  BY <2>1, <3>2, <3>3
  <2> QED  BY <2>1, <2>2
<1> QED  BY <1>4, <1>5

(* A product by a factor of positive order is in a later band than the     *)
(* other factor; a product by the real part is the other factor.           *)
LEMMA TermReadsSolved ==
  ASSUME Decodes, Passing, NEW t, IsTerm(t)
  PROVE  t[2] < t[3] \/ (t[1] = 0 /\ t[2] = t[3])
<1>1. PICK x \in Outputs, y \in Outputs : y < JMax(x) /\ t = <<x, y, Ranked(x, y)>>
  BY DEF IsTerm
<1>2. ~Unranking /\ m \in Nat \ {0} /\ n \in Nat
  BY Shape DEF Unranking, Passing, Decodes
<1>3. y \in Nat
  BY DEF Outputs
<1>4. /\ LowerOrders(m, OrderOf(x) + OrderOf(y)) <= Ranked(x, y)
      /\ OrderOf(x) \in 0..n /\ OrderOf(y) \in 0..n
      /\ y < LowerOrders(m, OrderOf(y) + 1) /\ Ranked(x, y) \in Outputs
      /\ Sparse(y) \in SparseIndices(m) /\ SparseRank(m, Sparse(y)) = y
  BY <1>1, <1>2, <1>3, RankedIs, InItsBand
<1>5. CASE OrderOf(x) = 0
  <2>1. x = 0 /\ Sparse(x) = << >>
    BY <1>2, <1>5, OrderZero
  <2>2. Ranked(x, y) = y
    BY <1>4, <2>1, MergeNothing DEF Ranked
  <2> QED  BY <1>1, <2>1, <2>2
<1>6. CASE OrderOf(x) # 0
  <2>1. /\ OrderOf(y) + 1 \in Nat /\ OrderOf(x) + OrderOf(y) \in Nat
        /\ OrderOf(y) + 1 <= OrderOf(x) + OrderOf(y)
    BY <1>2, <1>4, <1>6
  <2>2. LowerOrders(m, OrderOf(y) + 1) <= LowerOrders(m, OrderOf(x) + OrderOf(y))
    BY <1>2, <2>1, LowerOrdersMonotone
  <2>3. LowerOrders(m, OrderOf(y) + 1) \in Nat /\ LowerOrders(m, OrderOf(x) + OrderOf(y)) \in Nat
    BY <1>2, <2>1, LowerOrdersAre
  <2>4. y < Ranked(x, y)
    BY <1>3, <1>4, <2>2, <2>3 DEF Outputs
  <2> QED  BY <1>1, <2>4
<1> QED  BY <1>5, <1>6

(* In the by-output table a term reads the output itself only with the     *)
(* real part, the one inv_solve skips: all others are solved before, for   *)
(* every shape.                                                            *)
THEOREM InverseReadsSolvedHolds == Spec => []InverseReadsSolved
<1>1. TermsKnown /\ (Decodes /\ Inv /\ RanksInRange) => InverseReadsSolved
  <2> SUFFICES ASSUME TermsKnown, Decodes, NEW slot \in DOMAIN byOutput, byOutput[slot] # NoTerm
               PROVE  LET term == byOutput[slot]
                      IN  term[2] < term[3] \/ (term[1] = 0 /\ term[2] = term[3])
    BY DEF InverseReadsSolved
  <2>1. Passing /\ IsTerm(byOutput[slot])
    BY DEF TermsKnown, Passing
  <2> QED  BY <2>1, TermReadsSolved
<1> QED  BY <1>1, InvHolds, TermsKnownHolds, PTL

-----------------------------------------------------------------------------
(* The types.  What the two invariants leave out: the loop counters when   *)
(* their loop does not run, and the tables' values.                        *)
Triples == Outputs \X Outputs \X Outputs

Typed ==
  /\ degree \in 0..(n + 1) /\ local \in Nat
  /\ pc \notin {"search", "expo"} => dec = Idle
  /\ i \in 0..NC /\ j \in 0..NC
  /\ counts \in [DOMAIN counts -> Nat] /\ productOffset \in Seq(Nat)
  /\ cursor \in [DOMAIN cursor -> Nat]
  /\ terms \in Seq(Triples)

LEMMA ElementsOf ==
  ASSUME NEW S, NEW T, NEW s \in Seq(S), \A t \in 1..Len(s) : s[t] \in T
  PROVE  s \in Seq(T)
OBVIOUS

LEMMA Incremented ==
  ASSUME NEW f, f \in [DOMAIN f -> Nat], NEW k
  PROVE  [f EXCEPT ![k] = @ + 1] \in [DOMAIN [f EXCEPT ![k] = @ + 1] -> Nat]
<1> DEFINE S == DOMAIN f
           g == [f EXCEPT ![k] = @ + 1]
<1>1. f \in [S -> Nat]
  OBVIOUS
<1>2. DOMAIN g = S
  OBVIOUS
<1>3. g = [x \in S |-> IF x = k THEN f[x] + 1 ELSE f[x]]
  BY <1>1
<1>4. \A x \in S : f[x] \in Nat
  <2> HIDE DEF S
  <2> QED  BY <1>1
<1> HIDE DEF S, g
<1>5. \A x \in S : (IF x = k THEN f[x] + 1 ELSE f[x]) \in Nat
  BY <1>4
<1>6. g \in [S -> Nat]
  BY <1>3, <1>5
<1> QED  BY <1>2, <1>6 DEF g

LEMMA StartsTyped ==
  ASSUME Init
  PROVE  Typed
<1>1. /\ degree = 0 /\ local = 0 /\ dec = Idle /\ i = 0 /\ j = 0 /\ counts = <<>>
      /\ productOffset = <<>> /\ cursor = <<>> /\ terms = <<>>
  BY DEF Init
<1>2. n \in Nat /\ NC \in Nat
  BY StartsDecoding, Shape, NCoeffsIs DEF Decodes, NC
<1>3. << >> \in [DOMAIN << >> -> Nat]
  <2>1. << >> \in Seq(Nat) /\ DOMAIN << >> = {}
    OBVIOUS
  <2>2. << >> = [x \in {} |-> 0]
    OBVIOUS
  <2> QED  BY <2>2
<1> QED  BY <1>1, <1>2, <1>3 DEF Typed

LEMMA DecodingTyped ==
  ASSUME Typed, Decodes, UNCHANGED <<m, n, i, j, counts, productOffset, cursor, terms>>,
         \/ BeginIndex \/ NextBand \/ Bisect \/ PositionFound \/ LowerExponent
         \/ ExponentFound \/ StoreIndex
  PROVE  Typed'
<1>1. n \in Nat /\ NC \in Nat /\ NC' = NC /\ Outputs' = Outputs /\ Triples' = Triples /\ n' = n
  BY Shape, NCoeffsIs DEF Decodes, NC, Outputs, Triples
<1>2. pc \in {"unrank", "search", "expo"} /\ Unranking
  BY DEF BeginIndex, NextBand, Bisect, PositionFound, LowerExponent, ExponentFound, StoreIndex,
         Unranking
<1>3. degree \in 0..n /\ local \in Nat
  BY <1>2 DEF Decodes, Banded, Typed
<1>4. degree' \in 0..(n + 1) /\ local' \in Nat /\ (pc' \notin {"search", "expo"} => dec' = Idle)
  <2>1. CASE NextBand
    <3>1. dec' = dec /\ local' = 0 /\ (degree' = degree + 1 \/ degree' = 0) /\ pc = "unrank"
      BY <2>1 DEF NextBand
    <3> QED  BY <1>1, <1>3, <3>1 DEF Typed
  <2>2. CASE BeginIndex \/ Bisect \/ PositionFound \/ LowerExponent \/ ExponentFound
    <3>1. degree' = degree /\ local' = local /\ pc' \in {"search", "expo"}
      BY <2>2 DEF BeginIndex, Bisect, PositionFound, LowerExponent, ExponentFound
    <3> QED  BY <1>1, <1>3, <3>1
  <2>3. CASE StoreIndex
    <3>1. degree' = degree /\ local' = local + 1 /\ dec' = Idle
      BY <2>3 DEF StoreIndex
    <3> QED  BY <1>1, <1>3, <3>1
  <2> QED  BY <2>1, <2>2, <2>3
<1> QED  BY <1>1, <1>4 DEF Typed

LEMMA PassesTyped ==
  ASSUME Typed, Decodes, RanksInRange, Inv, UNCHANGED <<m, n, degree, local, dec>>,
         NextRow \/ CountTerm \/ EndCount \/ StoreBucketStart \/ FillTerm \/ EndFill \/ Done
  PROVE  Typed'
<1>1. n \in Nat /\ NC \in Nat /\ NC' = NC /\ Outputs' = Outputs /\ Triples' = Triples /\ n' = n
  BY Shape, NCoeffsIs DEF Decodes, NC, Outputs, Triples
<1>2. /\ pc \in {"count", "start", "fill", "done"} /\ pc' \in {"count", "start", "fill", "done"}
      /\ degree' = degree /\ local' = local /\ dec' = dec
  BY DEF NextRow, CountTerm, EndCount, StoreBucketStart, FillTerm, EndFill, Done, vars
<1>3. degree' \in 0..(n + 1) /\ local' \in Nat /\ (pc' \notin {"search", "expo"} => dec' = Idle)
  BY <1>1, <1>2 DEF Typed
<1>4. \A x \in Outputs : JMax(x) \in 0..NC
  BY <1>2, JMaxIs DEF Passing
<1>5. /\ i' \in 0..NC /\ j' \in 0..NC
  <2>1. CASE NextRow
    <3>1. i' = i + 1 /\ j' = 0 /\ i < NC
      BY <2>1 DEF NextRow
    <3> QED  BY <1>1, <3>1 DEF Typed
  <2>2. CASE CountTerm \/ FillTerm
    <3>1. i' = i /\ j' = j + 1 /\ i < NC /\ j < JMax(i)
      BY <2>2 DEF CountTerm, FillTerm
    <3>2. JMax(i) \in 0..NC
      BY <1>1, <1>4, <3>1 DEF Typed, Outputs
    <3> QED  BY <1>1, <3>1, <3>2 DEF Typed
  <2>3. CASE EndCount
    BY <1>1, <2>3 DEF EndCount
  <2>4. CASE StoreBucketStart \/ EndFill \/ Done
    <3>1. i' = i /\ j' = j
      BY <2>4 DEF StoreBucketStart, EndFill, Done, vars
    <3> QED  BY <3>1 DEF Typed
  <2> QED  BY <2>1, <2>2, <2>3, <2>4
<1>6. counts' \in [DOMAIN counts' -> Nat]
  <2>1. CASE CountTerm
    <3> DEFINE k == Ranked(i, j)
    <3>1. counts' = [counts EXCEPT ![k] = @ + 1]
      BY <2>1 DEF CountTerm
    <3>2. counts \in [DOMAIN counts -> Nat]
      BY DEF Typed
    <3> HIDE DEF k
    <3> QED  BY <3>1, <3>2, Incremented
  <2>2. CASE NextRow \/ EndCount \/ StoreBucketStart \/ FillTerm \/ EndFill \/ Done
    <3>1. counts' = counts
      BY <2>2 DEF NextRow, EndCount, StoreBucketStart, FillTerm, EndFill, Done, vars, countVars
    <3> QED  BY <3>1 DEF Typed
  <2> QED  BY <2>1, <2>2
<1>7. productOffset' \in Seq(Nat)
  <2>1. CASE StoreBucketStart
    <3>1. Inv' /\ pc' \in {"start", "fill"}
      BY <2>1, StoreBucketStartInv DEF StoreBucketStart
    <3> QED  BY <3>1 DEF Inv, Counted
  <2>2. CASE NextRow \/ EndCount \/ CountTerm \/ FillTerm \/ EndFill \/ Done
    <3>1. productOffset' = productOffset
      BY <2>2 DEF NextRow, EndCount, CountTerm, FillTerm, EndFill, Done, vars, countVars
    <3> QED  BY <3>1 DEF Typed
  <2> QED  BY <2>1, <2>2
<1>8. cursor' \in [DOMAIN cursor' -> Nat]
  <2>1. CASE FillTerm
    <3> DEFINE k == Ranked(i, j)
    <3>1. cursor' = [cursor EXCEPT ![k] = @ + 1]
      BY <2>1 DEF FillTerm
    <3>2. cursor \in [DOMAIN cursor -> Nat]
      BY DEF Typed
    <3> HIDE DEF k
    <3> QED  BY <3>1, <3>2, Incremented
  <2>2. CASE StoreBucketStart
    <3>1. cursor' = cursor \/ cursor' = [x \in 0..(NC-1) |-> 0]
      BY <2>2 DEF StoreBucketStart, fillVars
    <3>2. CASE cursor' = cursor
      BY <3>2 DEF Typed
    <3>3. CASE cursor' = [x \in 0..(NC-1) |-> 0]
      BY <3>3
    <3> QED  BY <3>1, <3>2, <3>3
  <2>3. CASE NextRow \/ EndCount \/ CountTerm \/ EndFill \/ Done
    <3>1. cursor' = cursor
      BY <2>3 DEF NextRow, EndCount, CountTerm, EndFill, Done, vars, fillVars
    <3> QED  BY <3>1 DEF Typed
  <2> QED  BY <2>1, <2>2, <2>3
<1>9. terms' \in Seq(Triples)
  <2>1. CASE FillTerm
    <3> DEFINE k == Ranked(i, j)
    <3>1. terms' = Append(terms, <<i, j, k>>) /\ i < NC /\ j < JMax(i)
      BY <2>1 DEF FillTerm
    <3>2. i \in Outputs /\ j \in Nat
      BY <1>1, <3>1 DEF Typed, Outputs
    <3>3. k \in Outputs /\ j \in Outputs
      BY <1>2, <3>1, <3>2, RankedIs DEF Passing
    <3> HIDE DEF k
    <3>4. <<i, j, k>> \in Triples
      BY <3>2, <3>3 DEF Triples
    <3> QED  BY <3>1, <3>4 DEF Typed
  <2>2. CASE StoreBucketStart
    <3>1. terms' = terms \/ terms' = <<>>
      BY <2>2 DEF StoreBucketStart, fillVars
    <3>2. terms \in Seq(Triples) /\ << >> \in Seq(Triples)
      BY DEF Typed
    <3> QED  BY <3>1, <3>2
  <2>3. CASE NextRow \/ EndCount \/ CountTerm \/ EndFill \/ Done
    <3>1. terms' = terms
      BY <2>3 DEF NextRow, EndCount, CountTerm, EndFill, Done, vars, fillVars
    <3> QED  BY <3>1 DEF Typed
  <2> QED  BY <2>1, <2>2, <2>3
<1> QED  BY <1>1, <1>3, <1>5, <1>6, <1>7, <1>8, <1>9 DEF Typed

LEMMA OffsetTyped ==
  ASSUME Typed, Decodes, StoreOrderOffset
  PROVE  Typed'
<1>1. n \in Nat /\ NC \in Nat /\ NC' = NC /\ Outputs' = Outputs /\ Triples' = Triples /\ n' = n
  BY Shape, NCoeffsIs DEF StoreOrderOffset, Decodes, NC, Outputs, Triples
<1>2. degree' \in 0..(n + 1)
  <2>1. degree' = 0 \/ (degree <= n /\ degree' = degree + 1)
    BY DEF StoreOrderOffset
  <2> QED  BY <1>1, <2>1 DEF Typed
<1>3. counts' \in [DOMAIN counts' -> Nat]
  <2>1. counts' = counts \/ counts' = [k \in 0..(NC-1) |-> 0]
    BY DEF StoreOrderOffset
  <2>2. CASE counts' = counts
    BY <2>2 DEF Typed
  <2>3. CASE counts' = [k \in 0..(NC-1) |-> 0]
    BY <2>3
  <2> QED  BY <2>1, <2>2, <2>3
<1>4. /\ local' = local /\ dec' = dec /\ i' = i /\ j' = j /\ productOffset' = productOffset
      /\ cursor' = cursor /\ terms' = terms /\ pc = "offset"
  BY DEF StoreOrderOffset, fillVars
<1> QED  BY <1>1, <1>2, <1>3, <1>4 DEF Typed

LEMMA StepTyped ==
  ASSUME Typed, Decodes, RanksInRange, Inv, [Next]_vars
  PROVE  Typed'
<1>1. CASE \/ BeginIndex \/ NextBand \/ Bisect \/ PositionFound \/ LowerExponent
           \/ ExponentFound \/ StoreIndex
  <2>1. UNCHANGED <<m, n, i, j, counts, productOffset, cursor, terms>>
    BY <1>1 DEF BeginIndex, NextBand, Bisect, PositionFound, LowerExponent, ExponentFound,
                StoreIndex, countVars, fillVars
  <2> QED  BY <1>1, <2>1, DecodingTyped
<1>2. CASE NextRow \/ CountTerm \/ EndCount \/ StoreBucketStart \/ FillTerm \/ EndFill \/ Done
  <2>1. UNCHANGED <<m, n, degree, local, dec>>
    BY <1>2 DEF NextRow, CountTerm, EndCount, StoreBucketStart, FillTerm, EndFill, Done, vars,
                decodeVars
  <2> QED  BY <1>2, <2>1, PassesTyped
<1>3. CASE StoreOrderOffset
  BY <1>3, OffsetTyped
<1>4. CASE UNCHANGED vars
  BY <1>4 DEF vars, decodeVars, countVars, fillVars, Typed, NC, Outputs, Triples
<1> QED  BY <1>1, <1>2, <1>3, <1>4 DEF Next

(* No exponent exceeds the order.                                          *)
LEMMA ExponentsBounded ==
  ASSUME NEW mm \in Nat \ {0}, NEW nn \in Nat, NEW s \in SparseIndices(mm),
         Spent(s, Len(s)) <= nn
  PROVE  s \in Seq([pos : 0..(mm-1), exp : 1..nn])
<1>1. s \in Seq(Entries(mm)) /\ Len(s) \in Nat
  BY DEF SparseIndices
<1>2. ASSUME NEW t \in 1..Len(s)
      PROVE  s[t] \in [pos : 0..(mm-1), exp : 1..nn]
  <2>1. s[t] \in Entries(mm) /\ t \in 0..Len(s) /\ t - 1 \in 0..Len(s) /\ Len(s) \in 0..Len(s)
    BY <1>1
  <2>2. Spent(s, t) = Spent(s, t - 1) + s[t].exp /\ Spent(s, t - 1) \in Nat /\ Spent(s, t) \in Nat
    BY <1>1, <2>1, SpentStep
  <2>3. Spent(s, t) <= Spent(s, Len(s)) /\ Spent(s, Len(s)) \in Nat
    BY <1>1, <2>1, SpentGrows, SpentStep
  <2>4. s[t].exp \in Nat \ {0}
    BY <2>1 DEF Entries
  <2>5. s[t].exp \in 1..nn
    BY <2>2, <2>3, <2>4
  <2>6. s[t] = [pos |-> s[t].pos, exp |-> s[t].exp] /\ s[t].pos \in 0..(mm-1)
    BY <2>1 DEF Entries
  <2> QED  BY <2>5, <2>6
<1> QED  BY <1>1, <1>2, ElementsOf

LEMMA TypedTypeOK ==
  ASSUME Typed, Decodes
  PROVE  TypeOK
<1>1. m \in Nat \ {0} /\ n \in Nat /\ <<m, n>> \in Shapes
  BY Shape DEF Decodes, ShapeIs
<1>2. pc \in {"unrank", "search", "expo", "offset", "count", "start", "fill", "done"}
  BY DEF Decodes, PcIs
<1> DEFINE Exponents == [pos : 0..(m-1), exp : 1..n]
<1>3. NC \in Nat /\ NC = LowerOrders(m, n + 1)
  <2>1. LowerOrders(m, n + 1) = Ways(m, (n + 1) - 1)
    BY <1>1, LowerOrdersAre
  <2>2. (n + 1) - 1 = n
    BY <1>1
  <2> QED  BY <1>1, <2>1, <2>2, NCoeffsIs DEF NC
<1>4. dec \in [remaining : 0..n, c : Nat, p : 0..m, lo : 0..m, hi : 0..m, value : 0..n,
               s : Seq(Exponents)]
  <2>1. dec \in DecodeStates(m, n)
    BY DEF Decodes, DecIs
  <2>2. dec.s \in Seq(Exponents)
    <3>1. CASE pc \in {"search", "expo"}
      <4>1. Decoded(degree, dec) /\ degree \in 0..n
        BY <3>1, WhileDecoding
      <4>2. dec.remaining \in 0..n /\ dec.s \in SparseIndices(m) /\ dec.s \in Seq(Entries(m)) /\ Len(dec.s) \in Nat
        BY <2>1, DecodeStateIs
      <4>3. Spent(dec.s, Len(dec.s)) \in Nat
        BY <4>2, SpentStep
      <4>4. Spent(dec.s, Len(dec.s)) <= n
        BY <1>1, <4>1, <4>2, <4>3 DEF Decoded
      <4> QED  BY <1>1, <4>2, <4>4, ExponentsBounded
    <3>2. CASE pc \notin {"search", "expo"}
      <4>1. dec.s = << >>
        BY <3>2 DEF Typed, Idle
      <4> QED  BY <4>1
    <3> QED  BY <3>1, <3>2
  <2> HIDE DEF Exponents
  <2> QED  BY <2>1, <2>2 DEF DecodeStates
<1>5. sparse \in Seq(Seq(Exponents))
  <2>1. sparse \in Seq(SparseIndices(m)) /\ Len(sparse) \in Nat
    BY DEF Decodes, Stored
  <2>2. ASSUME NEW t \in 1..Len(sparse)
        PROVE  sparse[t] \in Seq(Exponents)
    <3>1. t - 1 \in 0..(Len(sparse) - 1) /\ (t - 1) + 1 = t
      BY <2>1
    <3>2. sparse[t] \in SparseIndices(m) /\ SparseOrder(sparse[t]) <= n
      <4>1. OrderOf(t - 1) <= n
        BY <3>1 DEF Decodes, Stored
      <4>2. OrderOf(t - 1) = SparseOrder(sparse[t])
        BY <3>1 DEF OrderOf, Sparse
      <4> QED  BY <2>1, <4>1, <4>2
    <3>3. sparse[t] \in Seq(Entries(m)) /\ Len(sparse[t]) \in Nat
      BY <3>2 DEF SparseIndices
    <3>4. Spent(sparse[t], Len(sparse[t])) = SparseOrder(sparse[t])
      BY <3>3, SpentStep
    <3> HIDE DEF Exponents
    <3> QED  BY <1>1, <3>2, <3>4, ExponentsBounded DEF Exponents
  <2> HIDE DEF Exponents
  <2> QED  BY <2>1, <2>2
<1>6. Len(sparse) <= NC
  <2>1. CASE Unranking
    <3>1. degree \in 0..n /\ local <= CompositionCount(m, degree) /\ local \in Int
          /\ Len(sparse) = LowerOrders(m, degree) + local
      BY <2>1 DEF Decodes, Banded, Typed
    <3>2. degree \in Nat /\ degree + 1 \in Nat /\ n + 1 \in Nat /\ degree + 1 <= n + 1
      BY <1>1, <3>1
    <3>3. /\ LowerOrders(m, degree + 1) = LowerOrders(m, degree) + CompositionCount(m, degree)
          /\ LowerOrders(m, degree) \in Nat /\ LowerOrders(m, degree + 1) \in Nat
          /\ CompositionCount(m, degree) \in Nat
      BY <1>1, <3>2, LowerOrdersAre, CompositionsAre
    <3>4. LowerOrders(m, degree + 1) <= LowerOrders(m, n + 1)
      BY <1>1, <3>2, LowerOrdersMonotone
    <3> QED  BY <1>3, <3>1, <3>3, <3>4
  <2>2. CASE ~Unranking
    BY <1>3, <2>2 DEF Decodes, Offsets
  <2> QED  BY <2>1, <2>2
<1>7. orderOffset \in Seq(0..NC)
  <2>1. orderOffset \in Seq(Nat) /\ Len(orderOffset) \in Nat
    BY DEF Decodes, Offsets
  <2>2. Len(orderOffset) <= n + 2
    <3>1. Len(orderOffset) = IF Unranking THEN 0 ELSE IF pc = "offset" THEN degree ELSE n + 2
      BY DEF Decodes, Offsets
    <3>2. degree \in 0..(n + 1)
      BY DEF Typed
    <3> HIDE DEF Decodes, Typed
    <3> QED  BY <1>1, <3>1, <3>2, SMTT(30)
  <2>3. ASSUME NEW d \in 1..Len(orderOffset)
        PROVE  orderOffset[d] \in 0..NC
    <3>1. d - 1 \in Nat /\ n + 1 \in Nat /\ d - 1 <= n + 1
      BY <1>1, <2>1, <2>2
    <3>2. orderOffset[d] = LowerOrders(m, d - 1)
      BY DEF Decodes, Offsets
    <3>3. LowerOrders(m, d - 1) \in Nat /\ LowerOrders(m, d - 1) <= LowerOrders(m, n + 1)
      BY <1>1, <3>1, LowerOrdersAre, LowerOrdersMonotone
    <3> QED  BY <1>3, <3>2, <3>3
  <2> QED  BY <2>1, <2>3, ElementsOf
<1> QED  BY <1>1, <1>2, <1>4, <1>5, <1>6, <1>7 DEF Typed, TypeOK, Triples, Outputs

(* The builders' loop variables stay in their ranges and their tables hold *)
(* what indexes others, for every shape.                                   *)
THEOREM TypeCorrect == Spec => []TypeOK
<1>1. Init => Typed
  BY StartsTyped
<1>2. Typed /\ (Decodes /\ Inv /\ RanksInRange) /\ [Next]_vars => Typed'
  BY StepTyped
<1>3. Typed /\ (Decodes /\ Inv /\ RanksInRange) => TypeOK
  BY TypedTypeOK
<1> QED  BY <1>1, <1>2, <1>3, InvHolds, PTL DEF Spec

-----------------------------------------------------------------------------
(* The terms.  Those of the two passes are the truncated products: a pair  *)
(* is visited when its orders add up to at most N, and what the rank of the*)
(* merge stores is the sum of the two multi-indices.                       *)
LEMMA IndexAt ==
  ASSUME Decodes, Passing, NEW z \in Outputs, NEW c \in SparseIndices(m)
  PROVE  Sparse(z) = c <=> SparseRank(m, c) = z
<1>1. ~Unranking /\ m \in Nat \ {0}
  BY Shape DEF Unranking, Passing, Decodes
<1>2. Sparse(z) \in SparseIndices(m) /\ SparseRank(m, Sparse(z)) = z
  BY <1>1, InItsBand
<1>3. ASSUME SparseRank(m, c) = z PROVE Sparse(z) = c
  BY <1>1, <1>2, <1>3, RankTellsApart
<1> QED  BY <1>2, <1>3

LEMMA TermsAre ==
  ASSUME Decodes, Passing
  PROVE  \A t : t \in AllTerms <=> IsTerm(t)
<1>1. ~Unranking /\ m \in Nat \ {0} /\ n \in Nat /\ NC \in Nat
  BY Shape, NCoeffsIs DEF Unranking, Passing, Decodes, NC
<1>2. \A x \in Outputs : Sparse(x) \in SparseIndices(m) /\ OrderOf(x) \in 0..n
  BY <1>1, InItsBand
<1>3. ASSUME NEW t, IsTerm(t) PROVE t \in AllTerms
  <2>1. PICK x \in Outputs, y \in Outputs : y < JMax(x) /\ t = <<x, y, Ranked(x, y)>>
    BY <1>3 DEF IsTerm
  <2> DEFINE z == Ranked(x, y)
             c == MergeSparse(Sparse(x), Sparse(y))
  <2>2. y \in Nat /\ z \in Outputs
    BY <2>1, RankedIs DEF Outputs
  <2>3. c \in SparseIndices(m) /\ SparseRank(m, c) = z
    BY <1>2, MergeSparseIn DEF Ranked
  <2>4. Sparse(z) = c
    <3> HIDE DEF c, z
    <3> QED  BY <2>2, <2>3, IndexAt
  <2>5. \A p \in 0..(m-1) : Dense(m, c)[p] = Dense(m, Sparse(x))[p] + Dense(m, Sparse(y))[p]
    BY <1>2, MergeDense
  <2> HIDE DEF z, c
  <2>6. t = <<x, y, z>> /\ t[1] = x /\ t[2] = y /\ t[3] = z
    BY <2>1 DEF z
  <2> QED  BY <2>2, <2>4, <2>5, <2>6 DEF AllTerms, Outputs
<1>4. ASSUME NEW t \in AllTerms PROVE IsTerm(t)
  <2> DEFINE x == t[1]
             y == t[2]
             z == t[3]
             c == MergeSparse(Sparse(x), Sparse(y))
  <2>1. /\ x \in Outputs /\ y \in Outputs /\ z \in Outputs /\ t = <<x, y, z>>
        /\ \A p \in 0..(m-1) :
             Dense(m, Sparse(x))[p] + Dense(m, Sparse(y))[p] = Dense(m, Sparse(z))[p]
    BY DEF AllTerms, Outputs
  <2> HIDE DEF x, y, z
  <2>2. c \in SparseIndices(m) /\ SparseOrder(c) = OrderOf(x) + OrderOf(y)
    BY <1>2, <2>1, MergeSparseIn DEF OrderOf
  <2>3. \A p \in 0..(m-1) : Dense(m, c)[p] = Dense(m, Sparse(z))[p]
    <3> SUFFICES ASSUME NEW p \in 0..(m-1) PROVE Dense(m, c)[p] = Dense(m, Sparse(z))[p]
      OBVIOUS
    <3>1. Dense(m, c)[p] = Dense(m, Sparse(x))[p] + Dense(m, Sparse(y))[p]
      BY <1>2, <2>1, MergeDense
    <3> QED  BY <2>1, <3>1
  <2>4. c = Sparse(z)
    <3> HIDE DEF c
    <3>1. Sparse(z) \in SparseIndices(m)
      BY <1>2, <2>1
    <3> QED  BY <2>2, <2>3, <3>1, DenseTellsApart DEF SameDense
  <2>5. Ranked(x, y) = z
    <3>1. SparseRank(m, c) = z
      <4> HIDE DEF c
      <4> QED  BY <2>1, <2>2, <2>4, IndexAt
    <3> QED  BY <3>1 DEF Ranked
  <2>6. OrderOf(x) + OrderOf(y) = OrderOf(z)
    BY <2>2, <2>4 DEF OrderOf
  <2>7. y < JMax(x)
    <3>1. OrderOf(x) \in 0..n /\ OrderOf(y) \in 0..n /\ OrderOf(z) \in 0..n
      BY <1>2, <2>1
    <3>2. /\ OrderOf(y) + 1 \in Nat /\ n - OrderOf(x) + 1 \in Nat
          /\ OrderOf(y) + 1 <= n - OrderOf(x) + 1
      BY <1>1, <2>6, <3>1
    <3>3. LowerOrders(m, OrderOf(y) + 1) <= LowerOrders(m, n - OrderOf(x) + 1)
      BY <1>1, <3>2, LowerOrdersMonotone
    <3>4. y < LowerOrders(m, OrderOf(y) + 1) /\ y \in Nat
      BY <1>1, <2>1, InItsBand DEF Outputs
    <3>5. LowerOrders(m, OrderOf(y) + 1) \in Nat /\ LowerOrders(m, n - OrderOf(x) + 1) \in Nat
      BY <1>1, <3>2, LowerOrdersAre
    <3>6. JMax(x) = LowerOrders(m, n - OrderOf(x) + 1)
      BY <2>1, JMaxIs
    <3> QED  BY <3>3, <3>4, <3>5, <3>6
  <2> QED  BY <2>1, <2>5, <2>7 DEF IsTerm
<1> QED  BY <1>3, <1>4

(* The terms emitted before the loops are at (x, y).                       *)
Emitted(x, y) == {t \in AllTerms : t[1] < x \/ (t[1] = x /\ t[2] < y)}

LEMMA TermIs ==
  ASSUME Decodes, Passing, NEW t \in AllTerms
  PROVE  /\ t[1] \in Outputs /\ t[2] \in Outputs /\ t[2] < JMax(t[1])
         /\ t = <<t[1], t[2], Ranked(t[1], t[2])>>
         /\ t # NoTerm
<1>1. PICK x \in Outputs, y \in Outputs : y < JMax(x) /\ t = <<x, y, Ranked(x, y)>>
  BY TermsAre DEF IsTerm
<1>2. DOMAIN << >> = {} /\ 1 \in DOMAIN <<x, y, Ranked(x, y)>>
  OBVIOUS
<1>3. t # << >>
  BY <1>1, <1>2
<1> QED  BY <1>1, <1>3 DEF NoTerm

LEMMA EmittedStart ==
  ASSUME Decodes, Passing
  PROVE  Emitted(0, 0) = {}
<1>1. \A t \in AllTerms : ~(t[1] < 0) /\ ~(t[2] < 0)
  <2> SUFFICES ASSUME NEW t \in AllTerms PROVE ~(t[1] < 0) /\ ~(t[2] < 0)
    OBVIOUS
  <2>1. t[1] \in Outputs /\ t[2] \in Outputs
    BY TermIs
  <2> QED  BY <2>1 DEF Outputs
<1> QED  BY <1>1 DEF Emitted

LEMMA EmittedEnd ==
  ASSUME Decodes, Passing, NEW y
  PROVE  Emitted(NC, y) = AllTerms
<1>1. ASSUME NEW t \in AllTerms PROVE t[1] < NC
  <2>1. t[1] \in Outputs /\ NC \in Nat
    BY TermIs, Shape, NCoeffsIs DEF Decodes, NC
  <2> QED  BY <2>1 DEF Outputs
<1> QED  BY <1>1 DEF Emitted

LEMMA EmittedNextRow ==
  ASSUME Decodes, Passing, NEW x \in Outputs, NEW y \in Nat, y >= JMax(x)
  PROVE  Emitted(x + 1, 0) = Emitted(x, y)
<1>1. ASSUME NEW t \in AllTerms
      PROVE  (t[1] < x + 1 \/ (t[1] = x + 1 /\ t[2] < 0)) <=> (t[1] < x \/ (t[1] = x /\ t[2] < y))
  <2>1. t[1] \in Outputs /\ t[2] \in Outputs /\ t[2] < JMax(t[1]) /\ JMax(x) \in 0..NC /\ NC \in Nat
    BY TermIs, JMaxIs, Shape, NCoeffsIs DEF Decodes, NC
  <2>2. t[1] = x => t[2] < y
    BY <2>1 DEF Outputs
  <2> QED  BY <2>1, <2>2 DEF Outputs
<1> QED  BY <1>1 DEF Emitted

LEMMA EmittedNextTerm ==
  ASSUME Decodes, Passing, NEW x \in Outputs, NEW y \in Nat, y < JMax(x)
  PROVE  /\ <<x, y, Ranked(x, y)>> \in AllTerms /\ <<x, y, Ranked(x, y)>> \notin Emitted(x, y)
         /\ Emitted(x, y + 1) = Emitted(x, y) \cup {<<x, y, Ranked(x, y)>>}
<1> DEFINE new == <<x, y, Ranked(x, y)>>
<1>1. new \in AllTerms /\ new[1] = x /\ new[2] = y
  <2>1. y \in Outputs
    BY RankedIs
  <2>2. IsTerm(new)
    BY <2>1 DEF IsTerm
  <2> QED  BY <2>2, TermsAre
<1>2. new \notin Emitted(x, y)
  BY <1>1 DEF Emitted, Outputs
<1>3. ASSUME NEW t \in AllTerms
      PROVE  (t[1] < x \/ (t[1] = x /\ t[2] < y + 1))
               <=> (t[1] < x \/ (t[1] = x /\ t[2] < y) \/ t = new)
  <2>1. t[1] \in Int /\ t[2] \in Int /\ t = <<t[1], t[2], Ranked(t[1], t[2])>>
    BY TermIs DEF Outputs
  <2>2. t[1] = x /\ t[2] = y => t = new
    BY <2>1
  <2>3. t = new => t[1] = x /\ t[2] = y
    BY <1>1
  <2> HIDE DEF new
  <2> QED  BY <2>1, <2>2, <2>3 DEF Outputs
<1> HIDE DEF new
<1>4. Emitted(x, y + 1) = Emitted(x, y) \cup {new}
  BY <1>1, <1>3 DEF Emitted
<1> QED  BY <1>1, <1>2, <1>4 DEF new

LEMMA EmittedFixed ==
  ASSUME UNCHANGED TableVars
  PROVE  AllTerms' = AllTerms /\ Emitted(i, j)' = Emitted(i', j')
BY TablesFixed DEF AllTerms, Emitted, Sparse, TableVars, NC

-----------------------------------------------------------------------------
(* What the filling pass knows.  The buckets follow one another from slot 0*)
(* on, every filled slot holds a term of its bucket's output, and the terms*)
(* emitted are all there.                                                  *)
BucketStarts ==
  pc \in {"start", "fill"} =>
    /\ Len(productOffset) > 0 => productOffset[1] = 0
    /\ \A a \in 1..(Len(productOffset) - 1) :
         productOffset[a + 1] = productOffset[a] + counts[a - 1]

Emitting ==
  pc = "fill" =>
    /\ terms \in Seq(Triples)
    /\ IsFiniteSet(Emitted(i, j))
    /\ {terms[t] : t \in DOMAIN terms} = Emitted(i, j)
    /\ Len(terms) = Cardinality(Emitted(i, j))

Placing ==
  pc = "fill" =>
    /\ DOMAIN byOutput = 0..(productOffset[NC + 1] - 1)
    /\ \A k \in Outputs, slot \in DOMAIN byOutput :
         Filled(slot, k) => byOutput[slot] # NoTerm /\ byOutput[slot][3] = k
    /\ \A t \in Emitted(i, j) : \E slot \in DOMAIN byOutput : byOutput[slot] = t

Completing == BucketStarts /\ Emitting /\ Placing /\ TermsComplete

(* A slot of the table lies in the bucket of some output.                  *)
LEMMA BucketEnds ==
  ASSUME NC \in Nat, pc = "fill", BucketStarts, Counted, Filling
  PROVE  /\ \A k \in 0..NC : productOffset[k + 1] \in Nat
         /\ \A k \in Outputs : /\ productOffset[k + 2] = productOffset[k + 1] + counts[k]
                               /\ counts[k] \in Nat
                               /\ productOffset[k + 2] <= productOffset[NC + 1]
<1>1. productOffset \in Seq(Nat) /\ Len(productOffset) = NC + 1 /\ counts \in [Outputs -> Nat]
  BY DEF Counted, Filling
<1>2. \A k \in 0..NC : k + 1 \in 1..Len(productOffset) /\ productOffset[k + 1] \in Nat
  BY <1>1
<1>3. ASSUME NEW k \in Outputs
      PROVE  /\ productOffset[k + 2] = productOffset[k + 1] + counts[k]
             /\ productOffset[k + 2] <= productOffset[NC + 1]
             /\ counts[k] \in Nat
  <2>1. /\ k + 1 \in 1..(Len(productOffset) - 1) /\ (k + 1) + 1 = k + 2 /\ (k + 1) - 1 = k
        /\ k + 1 \in 0..NC
    BY <1>1 DEF Outputs
  <2>2. productOffset[k + 2] = productOffset[k + 1] + counts[k]
    BY <2>1 DEF BucketStarts
  <2>3. productOffset[k + 2] <= productOffset[NC + 1]
    <3>1. CASE k + 2 = NC + 1
      BY <1>2, <2>1, <3>1
    <3>2. CASE k + 2 # NC + 1
      <4>1. /\ k + 2 \in 1..Len(productOffset) /\ NC + 1 \in 1..Len(productOffset) /\ k + 2 < NC + 1
            /\ (k + 2) - 1 \in Outputs
        BY <1>1, <2>1, <3>2 DEF Outputs
      <4>2. productOffset[k + 2] + counts[(k + 2) - 1] <= productOffset[NC + 1]
        BY <4>1 DEF Counted
      <4>3. counts[(k + 2) - 1] \in Nat /\ productOffset[k + 2] \in Nat /\ productOffset[NC + 1] \in Nat
        BY <1>1, <4>1
      <4> QED  BY <4>2, <4>3
    <3> QED  BY <3>1, <3>2
  <2> QED  BY <1>1, <2>2, <2>3
<1> QED  BY <1>2, <1>3

LEMMA BucketOf ==
  ASSUME NC \in Nat, pc = "fill", BucketStarts, Counted, Filling,
         NEW slot \in 0..(productOffset[NC + 1] - 1)
  PROVE  \E k \in Outputs : productOffset[k + 1] <= slot /\ slot < productOffset[k + 2]
<1> DEFINE T == {a \in Nat : a <= NC /\ slot < productOffset[a + 1] =>
                   \E k \in Outputs : productOffset[k + 1] <= slot /\ slot < productOffset[k + 2]}
<1>1. Len(productOffset) = NC + 1 /\ \A k \in 0..NC : productOffset[k + 1] \in Nat
  BY BucketEnds DEF Filling
<1>2. 0 \in T
  <2>1. productOffset[0 + 1] = 0
    <3>1. 0 + 1 = 1 /\ Len(productOffset) > 0
      BY <1>1
    <3> QED  BY <3>1 DEF BucketStarts
  <2>2. ~(slot < productOffset[0 + 1])
    BY <2>1
  <2> QED  BY <2>2
<1>3. ASSUME NEW a \in Nat, a \in T PROVE a + 1 \in T
  <2> SUFFICES ASSUME a + 1 <= NC, slot < productOffset[(a + 1) + 1]
               PROVE  \E k \in Outputs : productOffset[k + 1] <= slot /\ slot < productOffset[k + 2]
    OBVIOUS
  <2>1. a \in Outputs /\ a \in 0..NC /\ (a + 1) + 1 = a + 2 /\ a <= NC
    BY DEF Outputs
  <2>2. productOffset[a + 1] \in Nat
    BY <1>1, <2>1
  <2>3. CASE slot < productOffset[a + 1]
    BY <1>3, <2>1, <2>3
  <2>4. CASE ~(slot < productOffset[a + 1])
    <3>1. productOffset[a + 1] <= slot /\ slot < productOffset[a + 2]
      BY <2>1, <2>2, <2>4
    <3> QED  BY <2>1, <3>1
  <2> QED  BY <2>3, <2>4
<1>4. Nat \subseteq T
  <2> HIDE DEF T
  <2> QED  BY <1>2, <1>3, Sums!NatInductionOn
<1>5. NC \in T /\ slot < productOffset[NC + 1]
  <2>1. productOffset[NC + 1] \in Nat
    BY <1>1
  <2> QED  BY <1>4, <2>1
<1> QED  BY <1>5

LEMMA FillTermCompletes ==
  ASSUME Completing, Decodes, Inv, RanksInRange, FillTerm
  PROVE  Completing'
<1> DEFINE k == Ranked(i, j)
           new == <<i, j, k>>
<1>1. /\ pc = "fill" /\ pc' = "fill" /\ Passing /\ NC \in Nat /\ i \in Outputs /\ j \in Nat
      /\ j < JMax(i) /\ k \in Outputs
      /\ i' = i /\ j' = j + 1
  BY DEF FillTerm, Inv, Filling, LoopIndices, RanksInRange, Outputs, Passing
<1>2. UNCHANGED TableVars /\ counts' = counts /\ productOffset' = productOffset
  BY DEF FillTerm, TableVars, decodeVars, countVars
<1>3. /\ cursor' = [cursor EXCEPT ![k] = @ + 1]
      /\ byOutput' = [byOutput EXCEPT ![Slot(k)] = new]
      /\ terms' = Append(terms, new)
  BY DEF FillTerm
<1>4. Outputs' = Outputs /\ NC' = NC /\ Triples' = Triples /\ Emitted(i, j)' = Emitted(i, j + 1)
  BY <1>1, <1>2, TablesFixed, EmittedFixed DEF Triples
<1>5. /\ new \in AllTerms /\ new \notin Emitted(i, j)
      /\ Emitted(i, j + 1) = Emitted(i, j) \cup {new}
      /\ new # NoTerm /\ new[3] = k /\ new \in Triples
  <2>1. new \in AllTerms
    BY <1>1, EmittedNextTerm
  <2>2. new \notin Emitted(i, j) /\ Emitted(i, j + 1) = Emitted(i, j) \cup {new}
    BY <1>1, EmittedNextTerm
  <2>3. new # NoTerm
    BY <1>1, <2>1, TermIs
  <2>4. new \in Triples
    BY <2>1 DEF AllTerms, Triples, Outputs
  <2> QED  BY <2>1, <2>2, <2>3, <2>4
<1> HIDE DEF k, new
<1>6. /\ terms \in Seq(Triples) /\ IsFiniteSet(Emitted(i, j))
      /\ {terms[t] : t \in DOMAIN terms} = Emitted(i, j)
      /\ Len(terms) = Cardinality(Emitted(i, j))
  BY <1>1 DEF Completing, Emitting
<1>7. Emitting'
  <2>1. terms' \in Seq(Triples) /\ Len(terms') = Len(terms) + 1
    BY <1>3, <1>5, <1>6
  <2>2. /\ DOMAIN terms' = DOMAIN terms \cup {Len(terms) + 1}
        /\ terms'[Len(terms) + 1] = new
        /\ \A t \in DOMAIN terms : terms'[t] = terms[t]
    BY <1>3, <1>5, <1>6
  <2>3. {terms'[t] : t \in DOMAIN terms'} = Emitted(i, j + 1)
    BY <1>5, <1>6, <2>2
  <2>4. /\ IsFiniteSet(Emitted(i, j + 1))
        /\ Cardinality(Emitted(i, j + 1)) = Cardinality(Emitted(i, j)) + 1
    BY <1>5, <1>6, FS_AddElement
  <2> QED  BY <1>1, <1>4, <1>6, <2>1, <2>3, <2>4 DEF Emitting
<1>8. /\ BucketStarts /\ Counted /\ Filling
      /\ cursor \in [Outputs -> Nat]
      /\ \A h \in Outputs : productOffset[h+1] \in Nat
  <2>1. BucketStarts /\ Counted /\ Filling
    BY DEF Completing, Inv
  <2>2. \A h \in Outputs : h \in 0..NC
    BY <1>1 DEF Outputs
  <2> QED  BY <1>1, <2>1, <2>2, BucketEnds DEF Filling
<1>9. cursor[k] < counts[k] /\ \A h \in Outputs : ~Filled(Slot(k), h)
  <2>1. cursor[k] < counts[k]
    BY <1>1, <1>8, BucketHasRoom, JMaxIs DEF k
  <2> QED  BY <1>1, <1>8, <2>1, BucketsDisjoint
<1>10. Slot(k) \in DOMAIN byOutput
  <2>1. /\ productOffset[k + 2] = productOffset[k + 1] + counts[k] /\ counts[k] \in Nat
        /\ productOffset[k + 2] <= productOffset[NC + 1]
    BY <1>1, <1>8, BucketEnds
  <2>2. productOffset[k + 1] \in Nat /\ cursor[k] \in Nat /\ productOffset[NC + 1] \in Nat
    <3>1. NC \in 0..NC
      BY <1>1
    <3> QED  BY <1>1, <1>8, <3>1, BucketEnds
  <2>3. Slot(k) \in 0..(productOffset[NC + 1] - 1)
    BY <1>9, <2>1, <2>2 DEF Slot
  <2> QED  BY <1>1, <2>3 DEF Completing, Placing
<1>11. ASSUME NEW h \in Outputs, NEW slot \in DOMAIN byOutput', Filled(slot, h)'
       PROVE  byOutput'[slot] # NoTerm /\ byOutput'[slot][3] = h
  <2>1. slot \in DOMAIN byOutput /\ slot \in Int
    <3>1. slot \in DOMAIN byOutput
      BY <1>3
    <3>2. productOffset[NC + 1] \in Nat
      BY <1>1, <1>8, BucketEnds
    <3> QED  BY <1>1, <3>1, <3>2 DEF Completing, Placing
  <2>2. productOffset[h+1] <= slot /\ slot < productOffset[h+1] + cursor'[h]
    BY <1>2, <1>11 DEF Filled
  <2>3. CASE slot = Slot(k)
    <3>1. byOutput'[slot] = new
      BY <1>3, <1>10, <2>3
    <3>2. h = k
      <4> SUFFICES ASSUME h # k PROVE FALSE
        OBVIOUS
      <4>1. cursor'[h] = cursor[h]
        BY <1>3, <1>8
      <4>2. Filled(Slot(k), h)
        BY <2>2, <2>3, <4>1 DEF Filled
      <4> QED  BY <1>9, <4>2
    <3> QED  BY <1>5, <3>1, <3>2
  <2>4. CASE slot # Slot(k)
    <3>1. byOutput'[slot] = byOutput[slot]
      BY <1>3, <2>1, <2>4
    <3>2. Filled(slot, h)
      <4>1. CASE h # k
        <5>1. cursor'[h] = cursor[h]
          BY <1>3, <1>8, <4>1
        <5> QED  BY <2>2, <5>1 DEF Filled
      <4>2. CASE h = k
        <5>1. cursor'[h] = cursor[h] + 1 /\ cursor[h] \in Nat /\ productOffset[h+1] \in Nat
          BY <1>1, <1>3, <1>8, <4>2
        <5>2. slot # productOffset[h+1] + cursor[h]
          BY <2>4, <4>2 DEF Slot
        <5> QED  BY <2>1, <2>2, <5>1, <5>2 DEF Filled
      <4> QED  BY <4>1, <4>2
    <3> QED  BY <1>1, <2>1, <3>1, <3>2 DEF Completing, Placing
  <2> QED  BY <2>3, <2>4
<1>12. ASSUME NEW t \in Emitted(i, j + 1)
       PROVE  \E slot \in DOMAIN byOutput' : byOutput'[slot] = t
  <2>1. DOMAIN byOutput' = DOMAIN byOutput
    BY <1>3
  <2>2. CASE t = new
    <3>1. byOutput'[Slot(k)] = new
      BY <1>3, <1>10
    <3> QED  BY <1>10, <2>1, <2>2, <3>1
  <2>3. CASE t \in Emitted(i, j)
    <3>1. PICK slot \in DOMAIN byOutput : byOutput[slot] = t
      BY <1>1, <2>3 DEF Completing, Placing
    <3>2. t # NoTerm
      BY <1>1, <2>3, TermIs DEF Emitted
    <3>3. byOutput'[slot] = byOutput[slot]
      BY <3>1, <3>2, FillTermInv
    <3> QED  BY <2>1, <3>1, <3>3
  <2> QED  BY <1>5, <2>2, <2>3
<1>13. Placing'
  <2>1. DOMAIN byOutput' = DOMAIN byOutput
    BY <1>3
  <2>2. DOMAIN byOutput = 0..(productOffset[NC + 1] - 1)
    BY <1>1 DEF Completing, Placing
  <2> QED  BY <1>1, <1>2, <1>4, <1>11, <1>12, <2>1, <2>2 DEF Placing
<1>14. BucketStarts'
  BY <1>1, <1>2, <1>8 DEF BucketStarts
<1> QED  BY <1>1, <1>7, <1>13, <1>14 DEF Completing, TermsComplete

LEMMA NextRowCompletes ==
  ASSUME Completing, Decodes, Inv, RanksInRange, NextRow
  PROVE  Completing'
<1>1. /\ pc \in {"count", "fill"} /\ pc' = pc /\ Passing /\ NC \in Nat /\ i \in Outputs /\ j \in Nat
      /\ j >= JMax(i) /\ i' = i + 1 /\ j' = 0
  BY DEF NextRow, Inv, Counting, Filling, LoopIndices, RanksInRange, Outputs, Passing
<1>2. UNCHANGED TableVars
  BY DEF NextRow, TableVars, decodeVars
<1>3. Emitted(i, j)' = Emitted(i, j)
  BY <1>1, <1>2, EmittedFixed, EmittedNextRow
<1>4. /\ Outputs' = Outputs /\ NC' = NC /\ Triples' = Triples
      /\ counts' = counts /\ productOffset' = productOffset
      /\ cursor' = cursor /\ byOutput' = byOutput /\ terms' = terms
  BY <1>2, TablesFixed DEF NextRow, countVars, fillVars, Triples
<1>5. BucketStarts'
  BY <1>1, <1>4 DEF Completing, BucketStarts
<1>6. Emitting'
  BY <1>1, <1>3, <1>4 DEF Completing, Emitting
<1>7. Placing'
  BY <1>1, <1>3, <1>4 DEF Completing, Placing, Filled
<1> QED  BY <1>1, <1>5, <1>6, <1>7 DEF Completing, TermsComplete

LEMMA StoreBucketStartCompletes ==
  ASSUME Completing, Decodes, Inv, RanksInRange, StoreBucketStart
  PROVE  Completing'
<1> DEFINE l == Len(productOffset)
           next == IF l = 0 THEN 0 ELSE productOffset[l] + counts[l-1]
<1>1. /\ pc = "start" /\ pc' \in {"start", "fill"} /\ Passing /\ NC \in Nat
      /\ productOffset \in Seq(Nat) /\ l \in 0..NC /\ counts \in [Outputs -> Nat]
      /\ i = 0 /\ j = 0
  BY DEF StoreBucketStart, RanksInRange, Inv, Starting, Counted, Passing
<1>2. UNCHANGED TableVars /\ counts' = counts /\ i' = i /\ j' = j
  BY DEF StoreBucketStart, TableVars, decodeVars
<1>3. productOffset' = Append(productOffset, next)
  BY DEF StoreBucketStart
<1>4. next \in Nat
  BY <1>1 DEF Outputs
<1>5. /\ Len(productOffset') = l + 1 /\ productOffset' \in Seq(Nat)
      /\ productOffset'[l + 1] = next
      /\ \A a \in 1..l : productOffset'[a] = productOffset[a]
  BY <1>1, <1>3, <1>4
<1>6. BucketStarts'
  <2>1. productOffset'[1] = 0
    <3>1. CASE l = 0
      BY <1>5, <3>1
    <3>2. CASE l # 0
      <4>1. 1 \in 1..l /\ l > 0
        BY <1>1, <3>2
      <4> QED  BY <1>1, <1>5, <4>1 DEF Completing, BucketStarts
    <3> QED  BY <3>1, <3>2
  <2>2. ASSUME NEW a \in 1..l
        PROVE  productOffset'[a + 1] = productOffset'[a] + counts[a - 1]
    <3>1. CASE a = l
      BY <1>1, <1>5, <3>1
    <3>2. CASE a # l
      <4>1. a \in 1..(l - 1) /\ a + 1 \in 1..l
        BY <1>1, <3>2
      <4>2. productOffset[a + 1] = productOffset[a] + counts[a - 1]
        BY <1>1, <4>1 DEF Completing, BucketStarts
      <4> QED  BY <1>5, <4>1, <4>2
    <3> QED  BY <3>1, <3>2
  <2>3. Len(productOffset') - 1 = l
    BY <1>1, <1>5
  <2> HIDE DEF l, next
  <2> QED  BY <1>2, <2>1, <2>2, <2>3 DEF BucketStarts
<1>7. CASE pc' = "start"
  BY <1>6, <1>7 DEF Completing, Emitting, Placing, TermsComplete
<1>8. CASE pc' = "fill"
  <2>1. /\ cursor' = [x \in Outputs |-> 0] /\ terms' = << >>
        /\ byOutput' = [slot \in 0..(productOffset'[NC + 1] - 1) |-> NoTerm]
        /\ l = NC
    BY <1>1, <1>8 DEF StoreBucketStart, Outputs
  <2>2. Outputs' = Outputs /\ NC' = NC /\ Triples' = Triples
    BY <1>2, TablesFixed DEF Triples
  <2>3. Emitted(i, j)' = {}
    BY <1>1, <1>2, EmittedFixed, EmittedStart
  <2>4. Emitting'
    <3>1. Len(<< >>) = 0 /\ DOMAIN << >> = {} /\ << >> \in Seq(Triples)
      OBVIOUS
    <3>2. IsFiniteSet({}) /\ Cardinality({}) = 0
      BY FS_EmptySet
    <3>3. {terms'[t] : t \in DOMAIN terms'} = {}
      BY <2>1, <3>1
    <3> QED  BY <2>1, <2>2, <2>3, <3>1, <3>2, <3>3 DEF Emitting
  <2>5. Placing'
    <3>1. DOMAIN byOutput' = 0..(productOffset'[NC + 1] - 1)
      BY <2>1
    <3>2. ASSUME NEW k \in Outputs, NEW slot \in DOMAIN byOutput' PROVE ~Filled(slot, k)'
      <4>1. k + 1 \in 1..Len(productOffset') /\ cursor'[k] = 0
        BY <1>1, <1>5, <2>1 DEF Outputs
      <4>2. productOffset'[k + 1] \in Nat /\ productOffset'[NC + 1] \in Nat
        <5>1. NC + 1 \in 1..Len(productOffset')
          BY <1>1, <1>5, <2>1
        <5> QED  BY <1>5, <4>1, <5>1
      <4>3. slot \in Int
        BY <3>1, <4>2
      <4>4. ~(productOffset'[k + 1] <= slot /\ slot < productOffset'[k + 1] + 0)
        BY <4>2, <4>3
      <4> QED  BY <4>1, <4>4 DEF Filled
    <3> QED  BY <2>2, <2>3, <3>1, <3>2 DEF Placing
  <2> QED  BY <1>6, <1>8, <2>4, <2>5 DEF Completing, TermsComplete
<1> QED  BY <1>1, <1>7, <1>8

LEMMA EndFillCompletes ==
  ASSUME Completing, TermsKnown, Decodes, Inv, RanksInRange, EndFill
  PROVE  Completing'
<1>1. /\ pc = "fill" /\ pc' = "done" /\ Passing /\ NC \in Nat /\ i = NC
      /\ BucketStarts /\ Emitting /\ Placing /\ Counted /\ Filling
  BY DEF EndFill, RanksInRange, Passing, Completing, Inv
<1>2. UNCHANGED TableVars
  BY DEF EndFill, TableVars, decodeVars
<1>3. AllTerms' = AllTerms /\ NC' = NC
  BY <1>2, EmittedFixed, TablesFixed
<1>4. productOffset' = productOffset /\ byOutput' = byOutput /\ terms' = terms
  BY DEF EndFill, countVars, fillVars
<1>5. Emitted(i, j) = AllTerms
  BY <1>1, EmittedEnd
<1>6. {terms[t] : t \in DOMAIN terms} = AllTerms /\ Len(terms) = Cardinality(AllTerms)
  BY <1>1, <1>5 DEF Emitting
<1>7. DOMAIN byOutput = 0..(productOffset[NC + 1] - 1)
  BY <1>1 DEF Placing
<1>8. /\ \A k \in 0..NC : productOffset[k + 1] \in Nat
      /\ \A k \in Outputs : /\ productOffset[k + 2] = productOffset[k + 1] + counts[k]
                            /\ productOffset[k + 2] <= productOffset[NC + 1]
  BY <1>1, BucketEnds
<1>9. ASSUME NEW k \in Outputs, NEW slot, productOffset[k + 1] <= slot, slot < productOffset[k + 2]
      PROVE  Filled(slot, k)
  <2>1. cursor[k] = Cardinality(Visited(i, j, k)) /\ counts[k] = Cardinality(All(k))
    BY <1>1 DEF Counted, Filling
  <2>2. cursor[k] = counts[k]
    BY <1>1, <2>1, VisitedEnd
  <2> QED  BY <1>8, <1>9, <2>2 DEF Filled
<1>10. {byOutput[slot] : slot \in DOMAIN byOutput} = AllTerms
  <2>1. ASSUME NEW slot \in DOMAIN byOutput PROVE byOutput[slot] \in AllTerms
    <3>1. PICK k \in Outputs : productOffset[k + 1] <= slot /\ slot < productOffset[k + 2]
      BY <1>1, <1>7, BucketOf
    <3>2. byOutput[slot] # NoTerm
      BY <1>1, <1>9, <3>1 DEF Placing
    <3> QED  BY <1>1, <3>2, TermsAre DEF TermsKnown
  <2>2. \A t \in AllTerms : \E slot \in DOMAIN byOutput : byOutput[slot] = t
    BY <1>1, <1>5 DEF Placing
  <2> QED  BY <2>1, <2>2
<1>11. ASSUME NEW k \in Outputs, NEW slot \in productOffset[k+1]..(productOffset[k+2] - 1)
       PROVE  byOutput[slot][3] = k
  <2>1. k \in 0..NC /\ k + 1 \in 0..NC /\ (k + 1) + 1 = k + 2 /\ NC \in 0..NC
    BY <1>1 DEF Outputs
  <2>2. /\ productOffset[k + 1] \in Nat /\ productOffset[k + 2] \in Nat
        /\ productOffset[NC + 1] \in Nat /\ productOffset[k + 2] <= productOffset[NC + 1]
    BY <1>8, <2>1
  <2>3. productOffset[k + 1] <= slot /\ slot < productOffset[k + 2]
    BY <2>2
  <2>4. slot \in DOMAIN byOutput
    BY <1>7, <2>2, <2>3
  <2> QED  BY <1>1, <1>9, <2>3, <2>4 DEF Placing
<1>12. TermsComplete'
  BY <1>3, <1>4, <1>6, <1>10, <1>11 DEF TermsComplete, Outputs
<1> QED  BY <1>1, <1>12 DEF Completing, BucketStarts, Emitting, Placing

LEMMA StepCompletes ==
  ASSUME Completing, TermsKnown, Decodes, Inv, RanksInRange, [Next]_vars
  PROVE  Completing'
<1>1. CASE FillTerm
  BY <1>1, FillTermCompletes
<1>2. CASE NextRow
  BY <1>2, NextRowCompletes
<1>3. CASE StoreBucketStart
  BY <1>3, StoreBucketStartCompletes
<1>4. CASE EndFill
  BY <1>4, EndFillCompletes
<1>5. CASE EndCount
  <2>1. pc = "count" /\ pc' = "start" /\ productOffset' = productOffset
    BY <1>5 DEF EndCount, countVars
  <2>2. productOffset' = << >> /\ Len(<< >>) = 0
    BY <2>1 DEF Inv, Counting
  <2> QED  BY <2>1, <2>2 DEF Completing, BucketStarts, Emitting, Placing, TermsComplete
<1>6. CASE \/ BeginIndex \/ NextBand \/ Bisect \/ PositionFound \/ LowerExponent
           \/ ExponentFound \/ StoreIndex \/ StoreOrderOffset \/ CountTerm
  <2>1. pc' \in {"unrank", "search", "expo", "offset", "count"}
    BY <1>6 DEF BeginIndex, NextBand, Bisect, PositionFound, LowerExponent, ExponentFound,
                StoreIndex, StoreOrderOffset, CountTerm
  <2> QED  BY <2>1 DEF Completing, BucketStarts, Emitting, Placing, TermsComplete
<1>7. CASE Done \/ UNCHANGED vars
  <2>1. UNCHANGED vars
    BY <1>7 DEF Done
  <2>2. UNCHANGED TableVars
    BY <2>1 DEF vars, TableVars, decodeVars
  <2>3. /\ pc' = pc /\ byOutput' = byOutput /\ productOffset' = productOffset /\ terms' = terms
        /\ counts' = counts /\ cursor' = cursor /\ i' = i /\ j' = j
        /\ Outputs' = Outputs /\ NC' = NC /\ AllTerms' = AllTerms
        /\ Triples' = Triples /\ Emitted(i, j)' = Emitted(i, j)
    BY <2>1, <2>2, TablesFixed, EmittedFixed DEF vars, countVars, fillVars, Triples
  <2>4. BucketStarts' /\ Emitting'
    BY <2>3 DEF Completing, BucketStarts, Emitting
  <2>5. Placing'
    BY <2>3 DEF Completing, Placing, Filled
  <2>6. TermsComplete'
    BY <2>3 DEF Completing, TermsComplete
  <2> QED  BY <2>4, <2>5, <2>6 DEF Completing
<1> QED  BY <1>1, <1>2, <1>3, <1>4, <1>5, <1>6, <1>7 DEF Next

(* The finished tables hold every truncated product of two multi-indices   *)
(* exactly once, and the by-output table holds those of an output in its   *)
(* own bucket, for every number of variables and every order.              *)
THEOREM TermsCompleteHolds == Spec => []TermsComplete
<1>1. Init => Completing
  BY DEF Init, Completing, BucketStarts, Emitting, Placing, TermsComplete
<1>2. Completing /\ TermsKnown /\ (Decodes /\ Inv /\ RanksInRange) /\ [Next]_vars => Completing'
  BY StepCompletes
<1>3. Completing => TermsComplete
  BY DEF Completing
<1> QED  BY <1>1, <1>2, <1>3, InvHolds, TermsKnownHolds, PTL DEF Spec

-----------------------------------------------------------------------------
(* The ranks are the positions of the graded order, and the dense rank()   *)
(* is the sparse one.                                                      *)
LEMMA WithinInt == ShapeIs => n \in 0..IntMax
BY ShapesAssumption DEF ShapeIs

LEMMA CodedIs ==
  ASSUME Decodes, NEW x \in 0..(Len(sparse) - 1)
  PROVE  /\ Dense(m, Sparse(x)) \in DenseIndices(m)
         /\ Summed(Dense(m, Sparse(x)), m) \in 0..n
         /\ PlaceOf(m, Dense(m, Sparse(x))) = x
<1>1. m \in Nat \ {0} /\ n \in Nat
  BY Shape DEF Decodes
<1>2. Sparse(x) \in SparseIndices(m) /\ OrderOf(x) <= n /\ SparseRank(m, Sparse(x)) = x
  <2>1. sparse \in Seq(SparseIndices(m)) /\ Len(sparse) \in Nat
    BY DEF Decodes, Stored
  <2>2. x + 1 \in 1..Len(sparse)
    BY <2>1
  <2>3. Sparse(x) \in SparseIndices(m)
    BY <2>1, <2>2 DEF Sparse
  <2> QED  BY <2>3 DEF Decodes, Stored
<1> DEFINE s == Sparse(x)
           a == Dense(m, s)
<1>3. a \in DenseIndices(m)
  BY <1>1, <1>2, DenseIn
<1>4. Summed(a, m) = SparseOrder(s) /\ SparseRank(m, s) = LowerOrders(m, SparseOrder(s)) + DensePassed(m, a, SparseOrder(s), m)
  BY <1>1, <1>2, SparseAndDense
<1>5. SparseOrder(s) \in Nat /\ SparseOrder(s) <= n
  BY <1>1, <1>2, SparseRankBand DEF OrderOf
<1>6. Summed(a, m) \in 0..n
  BY <1>1, <1>4, <1>5
<1>7. PlaceOf(m, a) = x
  BY <1>2, <1>4 DEF PlaceOf
<1> QED  BY <1>3, <1>6, <1>7

(* The multi-indices of the layout and the graded order, in the terms of   *)
(* the lemmas.                                                             *)
LEMMA AlphasAre ==
  ASSUME m \in Nat \ {0}, n \in Nat
  PROVE  \A a : a \in AlphaSet(m, n) <=> a \in DenseIndices(m) /\ Summed(a, m) <= n
<1> TAKE a
<1>1. a \in AlphaSet(m, n) <=> a \in [0..(m-1) -> 0..n] /\ Summed(a, m) <= n
  BY DEF AlphaSet, Summed, Sums!Fold, Sums!FoldFunctionOnSet, MapThenSumSet, MapThenFoldSet,
         Sums!MapThenFoldSet
<1>2. a \in [0..(m-1) -> 0..n] => a \in DenseIndices(m)
  BY DEF DenseIndices
<1>3. ASSUME a \in DenseIndices(m), Summed(a, m) <= n PROVE a \in [0..(m-1) -> 0..n]
  <2>1. \A p \in 0..(m-1) : a[p] \in 0..n
    <3> TAKE p \in 0..(m-1)
    <3>1. a[p] \in Nat /\ a[p] <= Summed(a, m) /\ m \in 0..m
      BY <1>3, ExponentBounds
    <3>2. Summed(a, m) \in Nat
      BY <1>3, <3>1, SummedStep
    <3> QED  BY <1>3, <3>1, <3>2
  <2> QED  BY <1>3, <2>1 DEF DenseIndices
<1> QED  BY <1>1, <1>2, <1>3

LEMMA PrecedesIs ==
  ASSUME NEW a, NEW b
  PROVE  Precedes(a, b) <=> Earlier(m, a, b)
BY DEF Precedes, Earlier, Summed, Sums!Fold, Sums!FoldFunctionOnSet, MapThenSumSet,
       MapThenFoldSet, Sums!MapThenFoldSet

LEMMA PlacePosition ==
  ASSUME m \in Nat \ {0}, n \in Nat, NEW a \in DenseIndices(m), Summed(a, m) <= n
  PROVE  Position(a) = PlaceOf(m, a)
<1> DEFINE B == {b \in AlphaSet(m, n) : Precedes(b, a)}
<1>1. \A b : b \in B <=> b \in DenseIndices(m) /\ Summed(b, m) <= n /\ Earlier(m, b, a)
  BY AlphasAre, PrecedesIs
<1> HIDE DEF B
<1>2. Cardinality(B) = PlaceOf(m, a)
  BY <1>1, PlaceCounts
<1> QED  BY <1>2 DEF Position, B

(* The place an index is stored at is the one the graded order gives it,   *)
(* and what the dense rank() returns for it, of which the order must fit   *)
(* an int: three algorithms, the unranking by bisection, the hockey-stick  *)
(* sparse_rank() and rank() that counts value by value, agree with the     *)
(* order every kernel of the library assumes.                              *)
THEOREM RankIsPositionHolds == Spec => []RankIsPosition
<1>1. Decodes => RankIsPosition
  <2> SUFFICES ASSUME Decodes, NEW x \in 0..(Len(sparse) - 1)
               PROVE  Position(Dense(m, Sparse(x))) = x /\ Rank(m, n, Dense(m, Sparse(x))) = x
    BY DEF RankIsPosition
  <2> DEFINE a == Dense(m, Sparse(x))
  <2>2. m \in Nat \ {0} /\ n \in Nat /\ n \in 0..IntMax
    BY Shape, WithinInt DEF Decodes
  <2>3. a \in DenseIndices(m) /\ Summed(a, m) \in 0..n /\ PlaceOf(m, a) = x
    BY CodedIs
  <2> HIDE DEF a
  <2>4. Summed(a, m) <= n
    BY <2>2, <2>3
  <2>5. Rank(m, n, a) = PlaceOf(m, a)
    BY <2>2, <2>3, <2>4, RankIs DEF PlaceOf
  <2>6. Position(a) = PlaceOf(m, a)
    BY <2>2, <2>3, <2>4, PlacePosition
  <2> QED  BY <2>3, <2>5, <2>6 DEF a
<1> QED  BY <1>1, DecodesHolds, PTL

-----------------------------------------------------------------------------
(* The search for the next index.  The one wanted is that of the place     *)
(* decoded next.                                                           *)
LEMMA TargetIs ==
  ASSUME m \in Nat \ {0}, n \in Nat, NEW t \in DenseIndices(m), Summed(t, m) <= n
  PROVE  (CHOOSE alpha \in AlphaSet(m, n) : Position(alpha) = PlaceOf(m, t)) = t
<1>1. \A a : a \in AlphaSet(m, n) <=> a \in DenseIndices(m) /\ Summed(a, m) <= n
  BY AlphasAre
<1>2. \A a \in AlphaSet(m, n) : Position(a) = PlaceOf(m, a)
  BY <1>1, PlacePosition
<1>3. \A a \in AlphaSet(m, n) : PlaceOf(m, a) = PlaceOf(m, t) => a = t
  BY <1>1, PlacesOrder
<1>4. t \in AlphaSet(m, n) /\ Position(t) = PlaceOf(m, t)
  BY <1>1, <1>2
<1> QED  BY <1>2, <1>3, <1>4

LEMMA LeastWanted ==
  ASSUME NEW W \in SUBSET Nat, NEW l \in Nat, NEW q \in W, \A w \in W : l <= w
  PROVE  /\ l <= Min(W) /\ Min(W) <= q /\ Min(W) \in W
         /\ l \in W => Min(W) = l
<1>1. PICK w \in W : \A y \in W : w <= y
  BY Sums!LeastNatural
<1>2. Min(W) \in W /\ \A y \in W : Min(W) <= y
  BY <1>1 DEF Min
<1>3. l <= Min(W) /\ Min(W) <= q
  BY <1>2
<1>4. l \in W => Min(W) = l
  <2> SUFFICES ASSUME l \in W PROVE Min(W) = l
    OBVIOUS
  <2>1. Min(W) <= l /\ Min(W) \in Nat
    BY <1>2
  <2> QED  BY <1>3, <2>1
<1> QED  BY <1>2, <1>3, <1>4

(* The bracket is closed when the exponent is looked for.                  *)
Closed == pc = "expo" => dec.hi = dec.lo

LEMMA StepCloses ==
  ASSUME Decodes, Closed, [Next]_vars
  PROVE  Closed'
<1>1. CASE PositionFound
  <2>1. pc = "search" /\ dec.remaining > 0 /\ dec.lo >= dec.hi
    BY <1>1 DEF PositionFound
  <2>2. dec \in DecodeStates(m, n) /\ Searching(m, degree, local, dec)
    BY <2>1, WhileDecoding
  <2>3. dec.lo <= dec.hi /\ dec.lo \in 0..m /\ dec.hi \in 0..m
    BY <2>1, <2>2, DecodeStateIs DEF Searching
  <2>4. dec.lo = dec.hi
    <3>1. m \in Nat
      BY Shape DEF Decodes
    <3> QED  BY <2>1, <2>3, <3>1
  <2>5. dec'.lo = dec.lo /\ dec'.hi = dec.hi
    BY <1>1, <2>2 DEF PositionFound, DecodeStates
  <2> QED  BY <2>4, <2>5 DEF Closed
<1>2. CASE LowerExponent
  <2>1. pc = "expo" /\ dec \in DecodeStates(m, n)
    BY <1>2, WhileDecoding DEF LowerExponent
  <2>2. dec'.lo = dec.lo /\ dec'.hi = dec.hi
    BY <1>2, <2>1 DEF LowerExponent, DecodeStates
  <2> QED  BY <2>1, <2>2 DEF Closed
<1>3. CASE UNCHANGED vars
  BY <1>3 DEF Closed, vars, decodeVars
<1>4. CASE \/ BeginIndex \/ NextBand \/ Bisect \/ ExponentFound \/ StoreIndex
           \/ StoreOrderOffset \/ NextRow \/ CountTerm \/ EndCount \/ StoreBucketStart
           \/ FillTerm \/ EndFill
  BY <1>4 DEF Closed, BeginIndex, NextBand, Bisect, ExponentFound, StoreIndex, StoreOrderOffset,
              NextRow, CountTerm, EndCount, StoreBucketStart, FillTerm, EndFill
<1> QED  BY <1>1, <1>2, <1>3, <1>4 DEF Next, Done

(* The bisection for the next position and the loop that lowers its        *)
(* exponent never lose the multi-index wanted, the one the graded order    *)
(* puts at the place decoded: what is decoded agrees with it, its next     *)
(* nonzero position stays in the bracket, and its exponent there is not    *)
(* passed.                                                                 *)
THEOREM SearchBracketsHolds == Spec => []SearchBrackets
<1>1. Decodes /\ Closed => SearchBrackets
  <2> SUFFICES ASSUME Decodes, Closed, pc \in {"search", "expo"}
               PROVE  LET target == CHOOSE alpha \in AlphaSet(m, n) : Position(alpha) = Len(sparse)
                          wanted == {q \in dec.p..(m-1) : target[q] > 0}
                      IN  /\ \A q \in 0..(dec.p - 1) : Dense(m, dec.s)[q] = target[q]
                          /\ dec.remaining > 0 => wanted # {} /\ Min(wanted) \in dec.lo..dec.hi
                          /\ pc = "expo" => Min(wanted) = dec.lo /\ target[dec.lo] <= dec.value
    BY DEF SearchBrackets
  <2>1. /\ m \in Nat \ {0} /\ n \in Nat /\ degree \in 0..n /\ local \in Nat
        /\ local < CompositionCount(m, degree)
        /\ dec \in DecodeStates(m, n) /\ Decoded(degree, dec)
        /\ pc = "search" => Searching(m, degree, local, dec)
        /\ pc = "expo" => Lowering(m, degree, local, dec)
    BY WhileDecoding
  <2>2. degree \in Nat /\ degree <= n
    BY <2>1
  <2>3. PICK t \in DenseIndices(m) : Summed(t, m) = degree /\ DensePassed(m, t, degree, m) = local
    BY <2>1, <2>2, PlaceInBand
  <2>4. PlaceOf(m, t) = Len(sparse)
    <3>1. Len(sparse) = LowerOrders(m, degree) + local
      BY DEF Decodes, Banded, Unranking
    <3> QED  BY <2>3, <3>1 DEF PlaceOf
  <2>5. (CHOOSE alpha \in AlphaSet(m, n) : Position(alpha) = Len(sparse)) = t
    BY <2>1, <2>2, <2>3, <2>4, TargetIs
  <2> DEFINE W == {q \in dec.p..(m-1) : t[q] > 0}
  <2>6. /\ dec.remaining \in Nat /\ dec.p \in 0..m /\ dec.lo \in 0..m /\ dec.hi \in 0..m
    BY <2>1, DecodeStateIs
  <2>7. W \in SUBSET Nat /\ \A q \in W : q \in dec.p..(m-1) /\ t[q] > 0
    BY <2>6
  <2> SUFFICES /\ \A q \in 0..(dec.p - 1) : Dense(m, dec.s)[q] = t[q]
               /\ dec.remaining > 0 => W # {} /\ Min(W) \in dec.lo..dec.hi
               /\ pc = "expo" => Min(W) = dec.lo /\ t[dec.lo] <= dec.value
    BY <2>5
  <2>8. CASE pc = "search"
    <3>1. Searching(m, degree, DensePassed(m, t, degree, m), dec)
      BY <2>1, <2>3, <2>8
    <3>2. /\ \A q \in 0..(dec.p - 1) : t[q] = Dense(m, dec.s)[q]
          /\ dec.remaining > 0 => /\ \A q \in dec.p..(dec.lo - 1) : t[q] = 0
                                  /\ \E q \in dec.lo..dec.hi : t[q] > 0
      BY <2>1, <2>2, <2>3, <3>1, SearchHolds
    <3>3. ASSUME dec.remaining > 0 PROVE W # {} /\ Min(W) \in dec.lo..dec.hi
      <4>1. PICK q \in dec.lo..dec.hi : t[q] > 0
        BY <3>2, <3>3
      <4>2. dec.p <= dec.lo /\ dec.hi <= m - 1
        BY <3>1, <3>3 DEF Searching
      <4>3. q \in W /\ q <= dec.hi
        BY <2>1, <2>6, <4>1, <4>2
      <4>4. \A w \in W : dec.lo <= w
        <5> SUFFICES ASSUME NEW w \in W, w < dec.lo PROVE FALSE
          BY <2>6, <2>7
        <5>1. w \in dec.p..(dec.lo - 1) /\ t[w] > 0
          BY <2>6, <2>7
        <5> QED  BY <3>2, <3>3, <5>1
      <4> HIDE DEF W
      <4>5. dec.lo <= Min(W) /\ Min(W) <= q /\ Min(W) \in W
        BY <2>6, <2>7, <4>3, <4>4, LeastWanted
      <4>6. Min(W) \in Nat
        BY <2>7, <4>5
      <4> QED  BY <2>6, <4>1, <4>3, <4>5, <4>6
    <3> QED  BY <2>8, <3>2, <3>3
  <2>9. CASE pc = "expo"
    <3>1. Lowering(m, degree, DensePassed(m, t, degree, m), dec)
      BY <2>1, <2>3, <2>9
    <3>2. /\ \A q \in 0..(dec.p - 1) : t[q] = Dense(m, dec.s)[q]
          /\ \A q \in dec.p..(dec.lo - 1) : t[q] = 0
          /\ dec.lo \in dec.p..(m-1) /\ t[dec.lo] > 0 /\ t[dec.lo] <= dec.value
      BY <2>1, <2>2, <2>3, <3>1, LoweringHolds
    <3>3. dec.lo \in W
      BY <3>2
    <3>4. \A w \in W : dec.lo <= w
      <4> SUFFICES ASSUME NEW w \in W, w < dec.lo PROVE FALSE
        BY <2>6, <2>7
      <4>1. w \in dec.p..(dec.lo - 1) /\ t[w] > 0
        BY <2>6, <2>7
      <4> QED  BY <3>2, <4>1
    <3> HIDE DEF W
    <3>5. Min(W) = dec.lo
      BY <2>6, <2>7, <3>3, <3>4, LeastWanted
    <3>6. Min(W) \in dec.lo..dec.hi
      BY <2>6, <2>9, <3>5 DEF Closed
    <3> QED  BY <3>2, <3>3, <3>5, <3>6
  <2> QED  BY <2>8, <2>9
<1>2. Init => Closed
  BY DEF Init, Closed
<1>3. Decodes /\ Closed /\ [Next]_vars => Closed'
  BY StepCloses
<1> QED  BY <1>1, <1>2, <1>3, DecodesHolds, PTL DEF Spec

=============================================================================
