------------------------------- MODULE SweepJets -------------------------------
(***************************************************************************)
(* What the two distributed Jacobi solvers of examples/mpi share: jets     *)
(* <2, 1>, a value with its derivatives by two seeded boundary values, and *)
(* the block partition.  Coefficients are numbers modulo the prime P, so a *)
(* weight 1/k is exact.                                                    *)
(***************************************************************************)
EXTENDS Integers, Sequences, SequencesExt, FiniteSetsExt

CONSTANT P

ASSUME SweepAssumption == P \in Nat \ (0..4) /\ \A d \in 2..(P-1) : P % d # 0

Coeffs == 0..(P-1)
Jet == [0..2 -> Coeffs]

Lift(s) == [k \in 0..2 |-> IF k = 0 THEN s ELSE 0]
Seeded(variable, s) == [k \in 0..2 |-> IF k = 0 THEN s ELSE IF k = variable + 1 THEN 1 ELSE 0]

OneOver(k) == CHOOSE w \in Coeffs : (w * k) % P = 1

MeanOf(jets) ==
  [k \in 0..2 |-> (OneOver(Len(jets)) * SumFunction([n \in DOMAIN jets |-> jets[n][k]])) % P]

(* The mean of the jets found in the places `where` of a field.            *)
Mean(field, where) == MeanOf([n \in DOMAIN where |-> field[where[n]]])

(* The fields after 0, 1, ... sweeps over the places that read others:     *)
(* each becomes the mean of those.                                         *)
SweptFields(start, reads, sweeps) ==
  LET Swept(f) ==
        [place \in DOMAIN f |-> IF place \in DOMAIN reads THEN Mean(f, reads[place]) ELSE f[place]]
      upto[t \in 0..sweeps] ==
        IF t = 0 THEN <<start>> ELSE LET fields == upto[t-1] IN Append(fields, Swept(Last(fields)))
      all == upto[sweeps]
  IN  [t \in 0..sweeps |-> all[t + 1]]

(* block_1d: the first n % parts blocks have one item more.                *)
BlockCount(coord, parts, n) == (n \div parts) + (IF coord < n % parts THEN 1 ELSE 0)
BlockStart(coord, parts, n) == coord * (n \div parts) + Min({coord, n % parts})

=============================================================================
