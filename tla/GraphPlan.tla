------------------------------- MODULE GraphPlan -------------------------------
(***************************************************************************)
(* The unstructured solver, examples/mpi/unstructured/main.cpp: diffusion  *)
(* on a graph of v nodes, a ring and some chords, in contiguous blocks of  *)
(* nodes.  What a rank works out before its loop: the ghosts it needs, the *)
(* local slot of every node, and one MPI_Sendrecv per neighbour.           *)
(***************************************************************************)
EXTENDS SweepJets

SRC_A == 0
SRC_B(v) == v - 1
T_A == Seeded(0, 1)
T_B == Seeded(1, 1)
Source(v, g) == g \in {SRC_A, SRC_B(v)}

Nodes(v) == 0..(v-1)

(* A set of global ids from the smallest to the largest: a sorted list of  *)
(* neighbours, the std::set of the ghosts or of the nodes needed.          *)
Ascending(ids) ==
  [k \in 1..Cardinality(ids) |-> CHOOSE g \in ids : Cardinality({h \in ids : h < g}) = k - 1]

(* build_adjacency: no loops, no repeated edge, neighbours by global id.   *)
Edges(v, chords) == {{i, (i + 1) % v} : i \in Nodes(v)} \cup {e \in chords : Cardinality(e) = 2}
Adjacent(v, chords, g) == {x \in Nodes(v) \ {g} : {g, x} \in Edges(v, chords)}
Adj(v, chords, g) == Ascending(Adjacent(v, chords, g))

Owned(v, size, r) == {BlockStart(r, size, v) + k : k \in 0..(BlockCount(r, size, v) - 1)}
OwnerOf(v, size, g) == CHOOSE r \in 0..(size-1) : g \in Owned(v, size, r)

(* The nodes of q next to a node of r: what r receives.                    *)
GhostsFrom(v, chords, size, r, q) ==
  {x \in Owned(v, size, q) : \E u \in Owned(v, size, r) : x \in Adjacent(v, chords, u)}

(* The nodes of r next to a node of q: what r sends.                       *)
MutNeededAtBorder(v, chords, size, r, q) ==
  {u \in Owned(v, size, r) : Adjacent(v, chords, u) \ Owned(v, size, r) # {}}
Needed(v, chords, size, r, q) ==
  {u \in Owned(v, size, r) : \E x \in Adjacent(v, chords, u) : OwnerOf(v, size, x) = q}

(* g2l: the owned nodes first, then the ghosts of each owner in a run.     *)
LocalNodes(v, chords, size, r) ==
  LET ghosts == [q \in 0..(size-1) |->
                   IF q = r THEN << >> ELSE Ascending(GhostsFrom(v, chords, size, r, q))]
  IN  Ascending(Owned(v, size, r)) \o FlattenSeq([q \in 1..size |-> ghosts[q - 1]])
SlotOf(v, chords, size, r) ==
  LET nodes == LocalNodes(v, chords, size, r) IN
  [g \in ToSet(nodes) |-> (CHOOSE k \in DOMAIN nodes : nodes[k] = g) - 1]

(* The neighbours in ascending rank.                                       *)
MutNeighboursOnward(v, chords, size, r) ==
  LET with == {q \in 0..(size-1) : q # r /\ GhostsFrom(v, chords, size, r, q) # {}} IN
  SetToSortSeq(with, LAMBDA p, q : (p - r) % size < (q - r) % size)
Neighbours(v, chords, size, r) ==
  Ascending({q \in 0..(size-1) : q # r /\ GhostsFrom(v, chords, size, r, q) # {}})

(* displ, what MPI_Type_indexed gathers: by global id, the order in which  *)
(* the receiver laid its ghosts out.                                       *)
MutDispl(v, chords, size, r, q) ==
  LET needed == SetToSortSeq(Needed(v, chords, size, r, q), >) IN
  [k \in DOMAIN needed |-> SlotOf(v, chords, size, r)[needed[k]]]
Displ(v, chords, size, r, q) ==
  LET needed == Ascending(Needed(v, chords, size, r, q)) IN
  [k \in DOMAIN needed |-> SlotOf(v, chords, size, r)[needed[k]]]
MutGhostBlockLate(v, chords, size, r, q) ==
  LET ghosts == Ascending(GhostsFrom(v, chords, size, r, q)) IN
  [k \in DOMAIN ghosts |-> SlotOf(v, chords, size, r)[ghosts[1]] + k]
GhostBlock(v, chords, size, r, q) ==
  LET ghosts == Ascending(GhostsFrom(v, chords, size, r, q)) IN
  [k \in DOMAIN ghosts |-> SlotOf(v, chords, size, r)[ghosts[1]] + k - 1]

MutTagOfSender(v, chords, size, r) ==
  LET nbs == Neighbours(v, chords, size, r) IN
  [k \in DOMAIN nbs |->
     [to |-> nbs[k], out |-> Displ(v, chords, size, r, nbs[k]),
      from |-> nbs[k], in |-> GhostBlock(v, chords, size, r, nbs[k]), tag |-> r]]
GraphCalls(v, chords, size, r) ==
  LET nbs == Neighbours(v, chords, size, r) IN
  [k \in DOMAIN nbs |->
     [to |-> nbs[k], out |-> Displ(v, chords, size, r, nbs[k]),
      from |-> nbs[k], in |-> GhostBlock(v, chords, size, r, nbs[k]), tag |-> 7]]

(* seed_sources on a zero field: a rank sets the sources it owns, the      *)
(* second one last; the ghost of a source is zero until a message comes.   *)
MutSeedByRankZero(v, size, r, nodes) ==
  LET Seeds(g) == r = 0 /\ g \in ToSet(nodes) IN
  [u \in 0..(Len(nodes) - 1) |->
     IF nodes[u + 1] = SRC_B(v) /\ Seeds(SRC_B(v)) THEN T_B
     ELSE IF nodes[u + 1] = SRC_A /\ Seeds(SRC_A) THEN T_A ELSE Lift(0)]
SeedSources(v, size, r, nodes) ==
  [u \in 0..(Len(nodes) - 1) |->
     IF nodes[u + 1] = SRC_B(v) /\ OwnerOf(v, size, SRC_B(v)) = r THEN T_B
     ELSE IF nodes[u + 1] = SRC_A /\ OwnerOf(v, size, SRC_A) = r THEN T_A ELSE Lift(0)]

(* relax_node: a source keeps its value, another node is the mean of its   *)
(* neighbours, found in their slots.                                       *)
ReadsOf(v, chords, g, slot) ==
  IF Source(v, g) THEN <<slot[g]>>
  ELSE [k \in DOMAIN Adj(v, chords, g) |-> slot[Adj(v, chords, g)[k]]]

GraphPlan(v, chords, size, r) ==
  LET nodes == LocalNodes(v, chords, size, r)
      slot == SlotOf(v, chords, size, r) IN
  [calls  |-> GraphCalls(v, chords, size, r),
   start  |-> SeedSources(v, size, r, nodes),
   reads  |-> [u \in 0..(BlockCount(r, size, v) - 1) |-> ReadsOf(v, chords, nodes[u + 1], slot)],
   global |-> [u \in 0..(Len(nodes) - 1) |-> nodes[u + 1]]]

(* solve_serial over all nodes, for jets and for plain doubles.            *)
SolveGraph(v, chords, a, b, sweeps) ==
  LET start == [g \in Nodes(v) |-> IF g = SRC_B(v) THEN b ELSE IF g = SRC_A THEN a ELSE Lift(0)]
      self == [g \in Nodes(v) |-> g]
  IN  SweptFields(start, [g \in Nodes(v) |-> ReadsOf(v, chords, g, self)], sweeps)

=============================================================================
