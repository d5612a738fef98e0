-------------------------------- MODULE HaloPlan --------------------------------
(***************************************************************************)
(* The structured solver, examples/mpi/halo/main.cpp: Laplace's equation   *)
(* on an n x n interior, in tiles of a Cartesian grid of ranks.  What a    *)
(* rank works out before its loop: its tile, its neighbours, the walls in  *)
(* its ghost cells, and the four MPI_Sendrecv of an iteration.             *)
(***************************************************************************)
EXTENDS SweepJets

ProcNull == -1   (* MPI_PROC_NULL *)

T_WEST == Seeded(0, 1)
T_SOUTH == Seeded(1, 1)
T_COLD == Lift(0)

(* MPI_Dims_create: the factors as close as they get, the larger first.    *)
Dims(size) ==
  LET py == Max({d \in 1..size : size % d = 0 /\ d * d <= size}) IN <<size \div py, py>>
CartCoords(size, r) == <<r \div Dims(size)[2], r % Dims(size)[2]>>
CartRank(size, at) ==
  IF at[1] \in 0..(Dims(size)[1] - 1) /\ at[2] \in 0..(Dims(size)[2] - 1)
  THEN at[1] * Dims(size)[2] + at[2] ELSE ProcNull

(* MPI_Cart_shift, non-periodic: the rank before and after along a         *)
(* dimension.                                                              *)
Up(size, r)    == LET c == CartCoords(size, r) IN CartRank(size, <<c[1] - 1, c[2]>>)
Down(size, r)  == LET c == CartCoords(size, r) IN CartRank(size, <<c[1] + 1, c[2]>>)
Left(size, r)  == LET c == CartCoords(size, r) IN CartRank(size, <<c[1], c[2] - 1>>)
Right(size, r) == LET c == CartCoords(size, r) IN CartRank(size, <<c[1], c[2] + 1>>)

(* The tile of rank r: nx x ny cells from the global cell (gi0, gj0) on.   *)
TileOf(n, size, r) ==
  LET c == CartCoords(size, r)  d == Dims(size) IN
  [gi0 |-> 1 + BlockStart(c[1], d[1], n), nx |-> BlockCount(c[1], d[1], n),
   gj0 |-> 1 + BlockStart(c[2], d[2], n), ny |-> BlockCount(c[2], d[2], n)]

Interior(t) == (1..t.nx) \X (1..t.ny)
LocalCells(t) == (0..(t.nx + 1)) \X (0..(t.ny + 1))

(* set_boundary, the later walls over the earlier ones, on a cold field.   *)
SetBoundary(n, size, r) ==
  LET t == TileOf(n, size, r)  c == CartCoords(size, r)  d == Dims(size) IN
  [cell \in LocalCells(t) |->
     IF cell[2] = t.ny + 1 /\ c[2] = d[2] - 1 THEN T_COLD
     ELSE IF cell[2] = 0 /\ c[2] = 0 THEN T_SOUTH
     ELSE IF cell[1] = t.nx + 1 /\ c[1] = d[1] - 1 THEN T_COLD
     ELSE IF cell[1] = 0 /\ c[1] = 0 THEN T_WEST ELSE T_COLD]

(* A contiguous row of ny jets, and the strided column MPI_COL of nx.      *)
Row(t, i) == [k \in 1..t.ny |-> <<i, k>>]
Column(t, j) == [k \in 1..t.nx |-> <<k, j>>]

(* The MPI_Sendrecv calls: where a message goes and which cells it takes,  *)
(* where one comes from and which cells it fills.                          *)
HaloCalls(n, size, r) ==
  LET t == TileOf(n, size, r)
      up == Up(size, r)  down == Down(size, r)  left == Left(size, r)  right == Right(size, r) IN
  << [to |-> down,  out |-> Row(t, t.nx),    from |-> up,    in |-> Row(t, 0),           tag |-> 0],
     [to |-> up,    out |-> Row(t, 1),       from |-> down,  in |-> Row(t, t.nx + 1),    tag |-> 1],
     [to |-> right, out |-> Column(t, t.ny), from |-> left,  in |-> Column(t, 0),        tag |-> 2],
     [to |-> left,  out |-> Column(t, 1),    from |-> right, in |-> Column(t, t.ny + 1), tag |-> 3] >>

(* jacobi_sweep: the places a cell is the mean of.                         *)
Stencil(cell) ==
  << <<cell[1] - 1, cell[2]>>, <<cell[1] + 1, cell[2]>>, <<cell[1], cell[2] - 1>>, <<cell[1], cell[2] + 1>> >>

HaloPlan(n, size, r) ==
  LET t == TileOf(n, size, r) IN
  [calls  |-> HaloCalls(n, size, r),
   start  |-> SetBoundary(n, size, r),
   reads  |-> [cell \in Interior(t) |-> Stencil(cell)],
   global |-> [cell \in LocalCells(t) |-> <<t.gi0 + cell[1] - 1, t.gj0 + cell[2] - 1>>]]

(* solve_serial on the whole domain, and solve_serial_double: a field per  *)
(* sweep, from the walls `west` and `south`.                               *)
SerialStart(n, west, south) ==
  [cell \in (0..(n+1)) \X (0..(n+1)) |->
     IF cell[1] = 0 THEN west ELSE IF cell[2] = 0 THEN south ELSE T_COLD]
SolveHalo(n, west, south, sweeps) ==
  SweptFields(SerialStart(n, west, south), [cell \in (1..n) \X (1..n) |-> Stencil(cell)], sweeps)

=============================================================================
