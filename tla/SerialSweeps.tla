------------------------------ MODULE SerialSweeps ------------------------------
(***************************************************************************)
(* What a distributed Jacobi solver promises: the tile of every rank is    *)
(* the part of the serial field after the sweeps the rank has made, and no *)
(* rank makes a sweep for which a neighbour has not made the one before.   *)
(***************************************************************************)
EXTENDS Integers

CONSTANTS
  Problems,             (* what may be solved                              *)
  RanksOf(_),           (* the ranks a problem is distributed over         *)
  NeighboursOf(_, _),   (* the ranks whose cells a rank reads              *)
  SerialTile(_, _, _),  (* a rank's part of the serial field, sweep by sweep *)
  Sweeps                (* sweeps to make                                  *)

VARIABLES problem, clock, tile

vars == <<problem, clock, tile>>

Init ==
  /\ problem \in Problems
  /\ clock = [r \in RanksOf(problem) |-> 0]
  /\ tile = [r \in RanksOf(problem) |-> SerialTile(problem, r, 0)]

Sweep(r) ==
  /\ clock[r] < Sweeps
  /\ \A q \in NeighboursOf(problem, r) : clock[q] >= clock[r]
  /\ clock' = [clock EXCEPT ![r] = @ + 1]
  /\ tile' = [tile EXCEPT ![r] = SerialTile(problem, r, clock[r] + 1)]
  /\ UNCHANGED problem

Next == \E r \in RanksOf(problem) : Sweep(r)

Spec == Init /\ [][Next]_vars

-----------------------------------------------------------------------------
(* Neighbours are never more than a sweep apart: the ghosts a rank gets    *)
(* are those of its own sweep or, waiting in the channel, of the next.     *)
NeighbourSkew ==
  \A r \in RanksOf(problem) : \A q \in NeighboursOf(problem, r) : clock[q] <= clock[r] + 1

=============================================================================
