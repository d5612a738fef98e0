---------------------------- MODULE SoaSpanProofs ----------------------------
(***************************************************************************)
(* Proofs about SoaSpan for every extent, shape, arithmetic and number of  *)
(* passes: no store leaves the buffers, and the threads that interleave in *)
(* them implement the array of jets whose bodies run at one instant.       *)
(***************************************************************************)
EXTENDS SoaSpan, TLAPS

Buffer == [0..(required_size-1) -> Values]

-----------------------------------------------------------------------------
(* The layout: places of the coefficients lie in the buffer and differ.    *)

LEMMA PlaceInBuffer ==
  ASSUME NEW c \in Orders, NEW i \in Elements
  PROVE  Address(c, i) \in 0..(required_size-1)
<1>1. c \in Nat /\ c + 1 <= ncoeffs /\ i \in Nat /\ i < Extent /\ Extent \in Nat /\ ncoeffs \in Nat
  BY ExtentAssumption DEF Orders, Elements
<1>2. c * Extent \in Nat /\ Extent * ncoeffs \in Nat /\ (c + 1) * Extent = c * Extent + Extent
  BY <1>1
<1>3. (c + 1) * Extent <= Extent * ncoeffs
  BY <1>1
<1> QED
  BY <1>1, <1>2, <1>3 DEF Address, required_size

LEMMA PlacesDiffer ==
  ASSUME NEW c \in Orders, NEW d \in Orders, NEW i \in Elements, NEW j \in Elements,
         Address(c, i) = Address(d, j)
  PROVE  c = d /\ i = j
<1>1. /\ c \in Nat /\ d \in Nat /\ Extent \in Nat
      /\ i \in Nat /\ i < Extent /\ j \in Nat /\ j < Extent
  BY ExtentAssumption DEF Orders, Elements
<1>2. c * Extent \in Nat /\ d * Extent \in Nat
  BY <1>1
<1>3. ASSUME c < d PROVE FALSE
  <2>1. (c + 1) * Extent <= d * Extent /\ (c + 1) * Extent = c * Extent + Extent
    BY <1>1, <1>3
  <2> QED
    BY <1>1, <1>2, <2>1 DEF Address
<1>4. ASSUME d < c PROVE FALSE
  <2>1. (d + 1) * Extent <= c * Extent /\ (d + 1) * Extent = d * Extent + Extent
    BY <1>1, <1>4
  <2> QED
    BY <1>1, <1>2, <2>1 DEF Address
<1>5. c = d
  BY <1>1, <1>3, <1>4
<1> QED
  BY <1>1, <1>2, <1>5 DEF Address

(* A store changes one coefficient of one element.                         *)
LEMMA StoreOne ==
  ASSUME NEW data \in Buffer, NEW c \in Orders, NEW i \in Elements, NEW v \in Values
  PROVE  /\ Put(data, Address(c, i), v) \in Buffer
         /\ \A d \in Orders : Loaded(Put(data, Address(c, i), v), i)[d] =
                                IF d = c THEN v ELSE Loaded(data, i)[d]
         /\ \A j \in Elements \ {i} : Loaded(Put(data, Address(c, i), v), j) = Loaded(data, j)
<1> DEFINE new == Put(data, Address(c, i), v)
<1>1. Address(c, i) \in 0..(required_size-1)
  BY PlaceInBuffer
<1>2. new = [b \in 0..(required_size-1) |-> IF b = Address(c, i) THEN v ELSE data[b]]
  BY <1>1 DEF Put, Buffer
<1>3. new \in Buffer
  BY <1>2 DEF Buffer
<1>4. \A d \in Orders : \A j \in Elements :
        new[Address(d, j)] = IF d = c /\ j = i THEN v ELSE data[Address(d, j)]
  <2> TAKE d \in Orders
  <2> TAKE j \in Elements
  <2>1. Address(d, j) \in 0..(required_size-1)
    BY PlaceInBuffer
  <2>2. Address(d, j) = Address(c, i) <=> d = c /\ j = i
    BY PlacesDiffer
  <2> QED
    BY <1>2, <2>1, <2>2
<1> HIDE DEF new
<1>5. \A d \in Orders : Loaded(new, i)[d] = IF d = c THEN v ELSE Loaded(data, i)[d]
  BY <1>4 DEF Loaded
<1>6. \A j \in Elements \ {i} : Loaded(new, j) = Loaded(data, j)
  BY <1>4 DEF Loaded
<1> QED
  BY <1>3, <1>5, <1>6 DEF new

LEMMA LoadedJet ==
  ASSUME NEW data \in Buffer, NEW i \in Elements
  PROVE  /\ Loaded(data, i) \in Jets
         /\ \A c \in Orders : data[Address(c, i)] = Loaded(data, i)[c] /\ data[Address(c, i)] \in Values
  BY PlaceInBuffer DEF Loaded, Jets, Buffer

-----------------------------------------------------------------------------
(* The step of a thread, with the buffers seen only through Loaded.        *)

LEMMA TypeStep == ASSUME TypeOK, [Next]_vars PROVE TypeOK'
<1> USE DEF TypeOK
<1>0. 0 \in Orders /\ BlankJet \in Jets
  BY ExtentAssumption, ValuesAssumption DEF Orders, BlankJet, Jets
<1>1. ASSUME NEW i \in Elements PROVE k[i] + 1 < ncoeffs => k[i] + 1 \in Orders
  BY ExtentAssumption DEF Orders
<1>2. ASSUME NEW i \in Elements, Start(i) PROVE TypeOK'
  BY <1>0, <1>2, ValuesAssumption DEF Start, Goto, Labels
<1>3. ASSUME NEW i \in Elements, LoadX(i) PROVE TypeOK'
  <2>1. xs[Address(k[i], i)] \in Values
    BY PlaceInBuffer
  <2>2. xi' \in [Elements -> Jets]
    BY <1>3, <2>1 DEF LoadX, Jets
  <2>3. k' \in [Elements -> Orders] /\ pc' \in [Elements -> Labels]
    BY <1>0, <1>1, <1>3 DEF LoadX, Loop, Goto, Labels
  <2> QED
    BY <1>3, <2>2, <2>3 DEF LoadX
<1>4. ASSUME NEW i \in Elements, LoadY(i) PROVE TypeOK'
  <2>1. ys[Address(k[i], i)] \in Values
    BY PlaceInBuffer
  <2>2. yi' \in [Elements -> Jets]
    BY <1>4, <2>1 DEF LoadY, Jets
  <2>3. k' \in [Elements -> Orders] /\ pc' \in [Elements -> Labels]
    BY <1>0, <1>1, <1>4 DEF LoadY, Loop, Goto, Labels
  <2> QED
    BY <1>4, <2>2, <2>3 DEF LoadY
<1>5. ASSUME NEW i \in Elements, Compute(i) PROVE TypeOK'
  BY <1>0, <1>5, ValuesAssumption DEF Compute, Goto, Labels
<1>6. ASSUME NEW i \in Elements, StoreX(i) PROVE TypeOK'
  <2>1. xi[i][k[i]] \in Values
    BY DEF Jets
  <2>2. xs' \in Buffer
    BY <1>6, <2>1, StoreOne DEF StoreX, Buffer
  <2>3. k' \in [Elements -> Orders] /\ pc' \in [Elements -> Labels]
    BY <1>0, <1>1, <1>6 DEF StoreX, Loop, Goto, Labels
  <2> QED
    BY <1>6, <2>2, <2>3 DEF StoreX, Buffer
<1>7. ASSUME NEW i \in Elements, FillNext(i) PROVE TypeOK'
  BY <1>0, <1>7, ValuesAssumption DEF FillNext, Goto, Labels
<1>8. ASSUME NEW i \in Elements, StoreY(i) PROVE TypeOK'
  <2>1. out[i][k[i]] \in Values
    BY DEF Jets
  <2>2. ys' \in Buffer
    BY <1>8, <2>1, StoreOne DEF StoreY, Buffer
  <2>3. k' \in [Elements -> Orders] /\ pc' \in [Elements -> Labels]
    BY <1>0, <1>1, <1>8 DEF StoreY, Loop, Goto, Labels
  <2> QED
    BY <1>8, <2>2, <2>3 DEF StoreY, Buffer
<1>9. ASSUME Fence PROVE TypeOK'
  BY <1>9, ExtentAssumption DEF Fence, Labels
<1>10. ASSUME Finished \/ UNCHANGED vars PROVE TypeOK'
  BY <1>10 DEF Finished, vars
<1> QED
  BY <1>2, <1>3, <1>4, <1>5, <1>6, <1>7, <1>8, <1>9, <1>10 DEF Next, Step

LEMMA TypeInit == Init => TypeOK
<1>1. BlankJet \in Jets /\ 0 \in Orders
  BY ExtentAssumption, ValuesAssumption DEF BlankJet, Jets, Orders
<1> QED
  BY <1>1, ExtentAssumption, ValuesAssumption DEF Init, TypeOK, Labels

(* The buffers keep the size required_size() gives them, every store hits  *)
(* them, and only coefficients are stored, whatever the extent and shape.  *)
THEOREM TypeCorrect == Spec => []TypeOK
<1> QED
  BY TypeInit, TypeStep, PTL DEF Spec

-----------------------------------------------------------------------------
(* What a thread knows: the jets it has loaded are still what the buffers  *)
(* hold, since no other thread stores there, and a store loop has written  *)
(* the coefficients behind it.                                             *)
Upto(i, jet, data) == \A c \in Orders : c < k[i] => jet[c] = Loaded(data, i)[c]

ThreadInv(i) ==
  /\ pass = 0 => pc[i] \in {"ready", "storeX", "filled", "storeY", "done"}
  /\ pass > 0 => pc[i] \in {"ready", "loadX", "loadY", "combine", "storeY", "done"}
  /\ pass = 0 /\ pc[i] = "storeX" => xi[i] = FillX(i) /\ Upto(i, xi[i], xs)
  /\ pass = 0 /\ pc[i] \in {"filled", "storeY"} => Loaded(xs, i) = FillX(i)
  /\ pass = 0 /\ pc[i] = "storeY" => out[i] = FillY(i)
  /\ pc[i] = "loadX" => Upto(i, xi[i], xs)
  /\ pass > 0 /\ pc[i] \in {"loadY", "combine", "storeY"} => xi[i] = Loaded(xs, i)
  /\ pc[i] = "loadY" => Upto(i, yi[i], ys)
  /\ pc[i] = "combine" => yi[i] = Loaded(ys, i)
  /\ pass > 0 /\ pc[i] = "storeY" => out[i] = Combine(xi[i], yi[i])
  /\ pc[i] = "storeY" => Upto(i, out[i], ys)

Inv == TypeOK /\ \A i \in Elements : ThreadInv(i)

(* After the loop over the coefficients two jets are equal.                *)
LEMMA SameJet ==
  ASSUME NEW a \in Jets, NEW b \in Jets, NEW n \in Orders, ~(n + 1 < ncoeffs),
         \A c \in Orders : c < n \/ c = n => a[c] = b[c]
  PROVE  a = b
<1>1. \A c \in Orders : c < n \/ c = n
  BY ExtentAssumption DEF Orders
<1> QED
  BY <1>1 DEF Jets

(* A step of one thread leaves what the others know and load alone.        *)
LEMMA OtherThreads ==
  ASSUME Inv, NEW i \in Elements, Step(i), NEW j \in Elements, j # i
  PROVE  /\ pc'[j] = pc[j] /\ k'[j] = k[j] /\ xi'[j] = xi[j] /\ yi'[j] = yi[j] /\ out'[j] = out[j]
         /\ Loaded(xs', j) = Loaded(xs, j) /\ Loaded(ys', j) = Loaded(ys, j)
         /\ pass' = pass
<1>1. TypeOK
  BY DEF Inv
<1>2. xs \in Buffer /\ ys \in Buffer /\ k[i] \in Orders /\ xi[i][k[i]] \in Values /\ out[i][k[i]] \in Values
  BY <1>1 DEF TypeOK, Buffer, Jets
<1>3. StoreX(i) => Loaded(xs', j) = Loaded(xs, j)
  BY <1>2, StoreOne DEF StoreX
<1>4. StoreY(i) => Loaded(ys', j) = Loaded(ys, j)
  BY <1>2, StoreOne DEF StoreY
<1>5. (xs' = xs \/ StoreX(i)) /\ (ys' = ys \/ StoreY(i)) /\ pass' = pass
  BY DEF Step, Start, LoadX, LoadY, Compute, StoreX, FillNext, StoreY
<1>6. pc'[j] = pc[j] /\ k'[j] = k[j] /\ xi'[j] = xi[j] /\ yi'[j] = yi[j] /\ out'[j] = out[j]
  BY <1>1 DEF Step, Start, LoadX, LoadY, Compute, StoreX, FillNext, StoreY, Loop, Goto, TypeOK
<1> QED
  BY <1>3, <1>4, <1>5, <1>6

LEMMA OthersKeep ==
  ASSUME Inv, NEW i \in Elements, Step(i), NEW j \in Elements, j # i
  PROVE  ThreadInv(j)'
<1>1. ThreadInv(j)
  BY DEF Inv
<1> QED
  BY <1>1, OtherThreads DEF ThreadInv, Upto

(* What a step of a thread makes of its own registers and jets.            *)
LEMMA OwnStep ==
  ASSUME Inv, NEW i \in Elements, Step(i)
  PROVE  ThreadInv(i)'
<1>1. TypeOK /\ ThreadInv(i) /\ TypeOK'
  BY TypeStep DEF Inv, Next
<1>2. /\ xs \in Buffer /\ ys \in Buffer /\ xi[i] \in Jets /\ yi[i] \in Jets /\ out[i] \in Jets
      /\ k[i] \in Orders /\ xi[i][k[i]] \in Values /\ out[i][k[i]] \in Values /\ pass \in Nat
  BY <1>1, ExtentAssumption DEF TypeOK, Buffer, Jets
<1>3. /\ xs' \in Buffer /\ ys' \in Buffer /\ xi'[i] \in Jets /\ yi'[i] \in Jets /\ out'[i] \in Jets
      /\ k'[i] \in Orders
  BY <1>1 DEF TypeOK, Buffer
<1>4. /\ Loaded(xs, i) \in Jets /\ Loaded(ys, i) \in Jets
      /\ Loaded(xs', i) \in Jets /\ Loaded(ys', i) \in Jets
      /\ \A c \in Orders : xs[Address(c, i)] = Loaded(xs, i)[c] /\ ys[Address(c, i)] = Loaded(ys, i)[c]
  BY <1>2, <1>3, LoadedJet
<1>5. 0 \in Orders /\ \A c \in Orders : c \in Int /\ ~(c < 0) /\ (c < k[i] + 1 => c < k[i] \/ c = k[i])
  BY <1>2, ExtentAssumption DEF Orders
<1>6. CASE Start(i)
  BY <1>1, <1>2, <1>5, <1>6 DEF Start, Goto, ThreadInv, Upto, TypeOK
<1>7. CASE LoadX(i)
  <2>1. xi'[i] = [xi[i] EXCEPT ![k[i]] = Loaded(xs, i)[k[i]]] /\ xs' = xs /\ pass' = pass
    BY <1>1, <1>2, <1>4, <1>7 DEF LoadX, TypeOK
  <2>2. \A c \in Orders : c < k[i] \/ c = k[i] => xi'[i][c] = Loaded(xs, i)[c]
    BY <1>1, <1>2, <1>7, <2>1 DEF LoadX, ThreadInv, Upto, Jets
  <2>3. CASE k[i] + 1 < ncoeffs
    BY <1>1, <1>2, <1>5, <1>7, <2>1, <2>2, <2>3 DEF LoadX, Loop, ThreadInv, Upto, TypeOK
  <2>4. CASE ~(k[i] + 1 < ncoeffs)
    <3>1. xi'[i] = Loaded(xs, i)
      BY <1>2, <1>3, <1>4, <2>2, <2>4, SameJet
    <3> QED
      BY <1>1, <1>2, <1>5, <1>7, <2>1, <2>4, <3>1 DEF LoadX, Loop, Goto, ThreadInv, Upto, TypeOK
  <2> QED
    BY <2>3, <2>4
<1>8. CASE LoadY(i)
  <2>1. /\ yi'[i] = [yi[i] EXCEPT ![k[i]] = Loaded(ys, i)[k[i]]]
        /\ xs' = xs /\ ys' = ys /\ xi' = xi /\ pass' = pass
    BY <1>1, <1>2, <1>4, <1>8 DEF LoadY, TypeOK
  <2>2. \A c \in Orders : c < k[i] \/ c = k[i] => yi'[i][c] = Loaded(ys, i)[c]
    BY <1>1, <1>2, <1>8, <2>1 DEF LoadY, ThreadInv, Upto, Jets
  <2>3. CASE k[i] + 1 < ncoeffs
    BY <1>1, <1>2, <1>5, <1>8, <2>1, <2>2, <2>3 DEF LoadY, Loop, ThreadInv, Upto, TypeOK
  <2>4. CASE ~(k[i] + 1 < ncoeffs)
    <3>1. yi'[i] = Loaded(ys, i)
      BY <1>2, <1>3, <1>4, <2>2, <2>4, SameJet
    <3> QED
      BY <1>1, <1>2, <1>5, <1>8, <2>1, <2>4, <3>1 DEF LoadY, Loop, Goto, ThreadInv, Upto, TypeOK
  <2> QED
    BY <2>3, <2>4
<1>9. CASE Compute(i)
  BY <1>1, <1>2, <1>5, <1>9 DEF Compute, Goto, ThreadInv, Upto, TypeOK
<1>10. CASE StoreX(i)
  <2>1. \A c \in Orders : Loaded(xs', i)[c] = IF c = k[i] THEN xi[i][k[i]] ELSE Loaded(xs, i)[c]
    BY <1>2, <1>10, StoreOne DEF StoreX
  <2>2. \A c \in Orders : c < k[i] \/ c = k[i] => xi[i][c] = Loaded(xs', i)[c]
    BY <1>1, <1>2, <1>10, <2>1 DEF StoreX, ThreadInv, Upto
  <2>3. ys' = ys /\ xi' = xi /\ yi' = yi /\ out' = out /\ pass' = pass /\ pass = 0 /\ xi[i] = FillX(i)
    BY <1>1, <1>2, <1>10 DEF StoreX, ThreadInv
  <2>4. CASE k[i] + 1 < ncoeffs
    BY <1>1, <1>2, <1>5, <1>10, <2>2, <2>3, <2>4 DEF StoreX, Loop, ThreadInv, Upto, TypeOK
  <2>5. CASE ~(k[i] + 1 < ncoeffs)
    <3>1. xi[i] = Loaded(xs', i)
      BY <1>2, <1>4, <2>2, <2>5, SameJet
    <3> QED
      BY <1>1, <1>2, <1>5, <1>10, <2>3, <2>5, <3>1 DEF StoreX, Loop, Goto, ThreadInv, Upto, TypeOK
  <2> QED
    BY <2>4, <2>5
<1>11. CASE FillNext(i)
  BY <1>1, <1>2, <1>5, <1>11 DEF FillNext, Goto, ThreadInv, Upto, TypeOK
<1>12. CASE StoreY(i)
  <2>1. \A c \in Orders : Loaded(ys', i)[c] = IF c = k[i] THEN out[i][k[i]] ELSE Loaded(ys, i)[c]
    BY <1>2, <1>12, StoreOne DEF StoreY
  <2>2. \A c \in Orders : c < k[i] \/ c = k[i] => out[i][c] = Loaded(ys', i)[c]
    BY <1>1, <1>2, <1>12, <2>1 DEF StoreY, ThreadInv, Upto
  <2>3. xs' = xs /\ xi' = xi /\ yi' = yi /\ out' = out /\ pass' = pass
    BY <1>12 DEF StoreY
  <2>4. CASE k[i] + 1 < ncoeffs
    BY <1>1, <1>2, <1>5, <1>12, <2>2, <2>3, <2>4 DEF StoreY, Loop, ThreadInv, Upto, TypeOK
  <2>5. CASE ~(k[i] + 1 < ncoeffs)
    BY <1>1, <1>2, <1>5, <1>12, <2>3, <2>5 DEF StoreY, Loop, Goto, ThreadInv, Upto, TypeOK
  <2> QED
    BY <2>4, <2>5
<1> QED
  BY <1>6, <1>7, <1>8, <1>9, <1>10, <1>11, <1>12 DEF Step

LEMMA InvStep == ASSUME Inv, [Next]_vars PROVE Inv'
<1>1. TypeOK'
  BY TypeStep DEF Inv
<1>2. ASSUME NEW i \in Elements, Step(i) PROVE Inv'
  BY <1>1, <1>2, OwnStep, OthersKeep DEF Inv
<1>3. ASSUME Fence PROVE Inv'
  BY <1>1, <1>3 DEF Fence, Inv, TypeOK, ThreadInv, Upto
<1>4. ASSUME Finished \/ UNCHANGED vars PROVE Inv'
  BY <1>1, <1>4 DEF Finished, vars, Inv, ThreadInv, Upto, Loaded, Address
<1> QED
  BY <1>2, <1>3, <1>4 DEF Next

LEMMA InvInit == Init => Inv
  BY TypeInit DEF Init, Inv, ThreadInv

-----------------------------------------------------------------------------
(* The refinement: a body runs at the step that stores its last            *)
(* coefficient, a fence at the fence, and every other step is a stutter.   *)

(* The last store of a thread completes the jet it computed.               *)
LEMMA LastStore ==
  ASSUME Inv, NEW i \in Elements, StoreY(i), ~(k[i] + 1 < ncoeffs)
  PROVE  Loaded(ys', i) = out[i]
<1>1. TypeOK /\ ThreadInv(i) /\ Inv'
  BY InvStep DEF Inv, Next, Step
<1>2. /\ ys \in Buffer /\ ys' \in Buffer /\ out[i] \in Jets /\ k[i] \in Orders
      /\ out[i][k[i]] \in Values
  BY <1>1 DEF Inv, TypeOK, Buffer, Jets
<1>3. \A c \in Orders : Loaded(ys', i)[c] = IF c = k[i] THEN out[i][k[i]] ELSE Loaded(ys, i)[c]
  BY <1>2, StoreOne DEF StoreY
<1>4. \A c \in Orders : c < k[i] \/ c = k[i] => Loaded(ys', i)[c] = out[i][c]
  BY <1>1, <1>2, <1>3 DEF StoreY, ThreadInv, Upto
<1>5. Loaded(ys', i) \in Jets
  BY <1>2, LoadedJet
<1> QED
  BY <1>2, <1>4, <1>5, SameJet

(* The arrays see nothing of a step that does not end a body.              *)
LEMMA Invisible ==
  ASSUME Inv, NEW i \in Elements, Step(i), pc'[i] # "done"
  PROVE  UNCHANGED <<ArrayX, ArrayY, Ended, pass>>
<1>1. TypeOK /\ ThreadInv(i) /\ pass \in Nat
  BY ExtentAssumption DEF Inv, TypeOK
<1>2. pass' = pass /\ pc[i] # "done"
  BY DEF Step, Start, LoadX, LoadY, Compute, StoreX, FillNext, StoreY
<1>3. \A j \in Elements \ {i} :
        /\ pc'[j] = pc[j] /\ yi'[j] = yi[j]
        /\ Loaded(xs', j) = Loaded(xs, j) /\ Loaded(ys', j) = Loaded(ys, j)
  BY OtherThreads
<1>4. Ended' = Ended
  BY <1>2, <1>3 DEF Ended
<1>5. CASE pass = 0
  BY <1>2, <1>3, <1>4, <1>5 DEF ArrayX, ArrayY
<1>6. CASE pass > 0
  <2>1. xs' = xs /\ (pc[i] # "storeY" => ys' = ys)
    BY <1>1, <1>6 DEF Step, Start, LoadX, LoadY, Compute, StoreX, FillNext, StoreY, ThreadInv
  <2>2. Loaded(xs', i) = Loaded(xs, i) /\ (pc[i] # "storeY" => Loaded(ys', i) = Loaded(ys, i))
    BY <2>1 DEF Loaded
  <2>3. pc[i] = "storeY" => pc'[i] = "storeY" /\ yi'[i] = yi[i]
    BY <1>1 DEF Step, Start, LoadX, LoadY, Compute, StoreX, FillNext, StoreY, Loop, Goto, TypeOK
  <2>4. pc[i] # "storeY" /\ pc'[i] = "storeY" => yi'[i] = Loaded(ys, i)
    BY <1>1, <1>6 DEF Step, Start, LoadX, LoadY, Compute, StoreX, FillNext, StoreY, Loop, Goto,
                      ThreadInv, TypeOK
  <2> QED
    BY <1>2, <1>3, <1>4, <1>6, <2>2, <2>3, <2>4 DEF ArrayX, ArrayY
<1> QED
  BY <1>1, <1>5, <1>6

LEMMA EndsBody ==
  ASSUME Inv, NEW i \in Elements, Step(i), pc'[i] = "done"
  PROVE  Arrays!Body(i)
<1>1. TypeOK /\ ThreadInv(i) /\ pass \in Nat
  BY ExtentAssumption DEF Inv, TypeOK
<1>2. /\ StoreY(i) /\ ~(k[i] + 1 < ncoeffs)
  BY <1>1 DEF Step, Start, LoadX, LoadY, Compute, StoreX, FillNext, StoreY, Loop, Goto, TypeOK
<1>3. pc[i] = "storeY" /\ pass' = pass /\ xs' = xs
  BY <1>2 DEF StoreY
<1>4. \A j \in Elements \ {i} :
        /\ pc'[j] = pc[j] /\ yi'[j] = yi[j]
        /\ Loaded(xs', j) = Loaded(xs, j) /\ Loaded(ys', j) = Loaded(ys, j)
  BY OtherThreads
<1>5. Loaded(ys', i) = out[i] /\ Loaded(xs', i) = Loaded(xs, i)
  BY <1>2, <1>3, LastStore DEF Loaded
<1>6. i \notin Ended /\ Ended' = Ended \cup {i}
  BY <1>3, <1>4 DEF Ended
<1>7. CASE pass = 0
  <2>1. Loaded(xs, i) = FillX(i) /\ out[i] = FillY(i)
    BY <1>1, <1>3, <1>7 DEF ThreadInv
  <2>2. ArrayX' = [ArrayX EXCEPT ![i] = FillX(i)]
    BY <1>3, <1>4, <1>5, <1>7, <2>1 DEF ArrayX
  <2>3. ArrayY' = [ArrayY EXCEPT ![i] = FillY(i)]
    BY <1>3, <1>4, <1>5, <1>7, <2>1 DEF ArrayY
  <2> QED
    BY <1>3, <1>6, <1>7, <2>2, <2>3 DEF Arrays!Body
<1>8. CASE pass > 0
  <2>1. xi[i] = Loaded(xs, i) /\ out[i] = Combine(xi[i], yi[i])
    BY <1>1, <1>3, <1>8 DEF ThreadInv
  <2>2. ArrayX' = ArrayX /\ ArrayX[i] = xi[i]
    BY <1>3, <1>4, <1>5, <1>8, <2>1 DEF ArrayX
  <2>3. ArrayY' = [ArrayY EXCEPT ![i] = Combine(xi[i], yi[i])]
    BY <1>3, <1>4, <1>5, <1>8, <2>1 DEF ArrayY
  <2>4. ArrayY[i] = yi[i]
    BY <1>3, <1>8 DEF ArrayY
  <2> QED
    BY <1>3, <1>6, <1>8, <2>2, <2>3, <2>4 DEF Arrays!Body
<1> QED
  BY <1>1, <1>7, <1>8

LEMMA FenceSeen == ASSUME Inv, Fence PROVE Arrays!Fence
<1>1. pass \in Nat /\ pass' = pass + 1 /\ xs' = xs /\ ys' = ys
  BY ExtentAssumption DEF Inv, TypeOK, Fence
<1>2. Ended = Elements /\ Ended' = {} /\ pass < Passes
  BY DEF Fence, Ended
<1>3. \A i \in Elements : pc[i] = "done" /\ pc'[i] = "ready"
  BY DEF Fence
<1>4. \A i \in Elements : Loaded(xs', i) = Loaded(xs, i) /\ Loaded(ys', i) = Loaded(ys, i)
  BY <1>1
<1>5. ArrayX' = ArrayX /\ ArrayY' = ArrayY
  BY <1>1, <1>3, <1>4 DEF ArrayX, ArrayY
<1> QED
  BY <1>1, <1>2, <1>5 DEF Arrays!Fence, Arrays!Elements, Elements

LEMMA Unseen == ASSUME UNCHANGED vars PROVE UNCHANGED <<ArrayX, ArrayY, Ended, pass>>
<1>1. xs' = xs /\ ys' = ys /\ pc' = pc /\ yi' = yi /\ pass' = pass
  BY DEF vars
<1> QED
  BY <1>1 DEF ArrayX, ArrayY, Ended, Loaded, Address

LEMMA Simulates ==
  ASSUME Inv, [Next]_vars PROVE [Arrays!Next]_<<ArrayX, ArrayY, Ended, pass>>
<1>1. ASSUME NEW i \in Elements, Step(i) PROVE [Arrays!Next]_<<ArrayX, ArrayY, Ended, pass>>
  BY <1>1, Invisible, EndsBody DEF Arrays!Next, Arrays!Elements, Elements
<1>2. ASSUME Fence PROVE Arrays!Next
  BY <1>2, FenceSeen DEF Arrays!Next
<1>3. ASSUME Finished \/ UNCHANGED vars PROVE UNCHANGED <<ArrayX, ArrayY, Ended, pass>>
  BY <1>3, Unseen DEF Finished
<1> QED
  BY <1>1, <1>2, <1>3 DEF Next

LEMMA StartsBlank == Init => Arrays!Init
<1> SUFFICES ASSUME Init PROVE Arrays!Init
  OBVIOUS
<1>1. pass = 0 /\ \A i \in Elements : pc[i] = "ready"
  BY DEF Init
<1>2. /\ ArrayX = [i \in Elements |-> BlankJet] /\ ArrayY = [i \in Elements |-> BlankJet]
      /\ Ended = {}
  BY <1>1 DEF ArrayX, ArrayY, Ended
<1> QED
  BY <1>1, <1>2 DEF Arrays!Init, Arrays!Elements, Elements, Arrays!BlankJet, Arrays!Orders,
                    BlankJet, Orders

(* Threads that load and store the transposed buffers one coefficient at a *)
(* time implement bodies that run at one instant on an array of jets, for  *)
(* every extent, shape, arithmetic and number of passes.                   *)
THEOREM ImplementsArraysHolds == Spec => ImplementsArrays
<1>1. Init => Inv /\ Arrays!Init
  BY InvInit, StartsBlank
<1>2. Inv /\ [Next]_vars => Inv' /\ [Arrays!Next]_<<ArrayX, ArrayY, Ended, pass>>
  BY InvStep, Simulates
<1> QED
  BY <1>1, <1>2, PTL DEF Spec, ImplementsArrays, Arrays!Spec

=============================================================================
