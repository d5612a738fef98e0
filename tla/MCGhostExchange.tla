---------------------------- MODULE MCGhostExchange ----------------------------
(* Grids of 2 x 1, 3 x 1 and 2 x 2 tiles of different extents, and a graph  *)
(* on which three or four ranks exchange scattered nodes with each other.  *)
EXTENDS GhostExchange

Halo(n, size) == [kind |-> "halo", n |-> n, size |-> size]
Graph(v, chords, size) == [kind |-> "graph", v |-> v, chords |-> chords, size |-> size]

Chords == {{0, 3}, {0, 5}, {1, 3}, {2, 5}}
MCProblems == {Halo(3, 2), Halo(3, 3), Halo(3, 4), Graph(7, Chords, 3), Graph(7, Chords, 4)}
=============================================================================
