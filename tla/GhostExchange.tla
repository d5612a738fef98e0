------------------------------ MODULE GhostExchange ------------------------------
(***************************************************************************)
(* The loop that both distributed solvers run on every rank: the           *)
(* MPI_Sendrecv calls of an iteration one after another, a sweep from one  *)
(* buffer to the other, a swap; at the end every rank compares its tile    *)
(* with the serial solution and rank 0 reports.                            *)
(*                                                                         *)
(* MPI (external) keeps the messages from one rank to another with one tag *)
(* in order.  An MPI_Sendrecv copies its message out, waits for the one it *)
(* receives, and returns when its own has been received or, if MPI buffers *)
(* it, before: no program may rely on the latter.                          *)
(***************************************************************************)
EXTENDS HaloPlan, GraphPlan

CONSTANTS
  Problems,    (* [kind |-> "halo", n, size], [kind |-> "graph", v, chords, size] *)
  Iterations   (* ITERS                                                     *)

ASSUME IterationsAssumption == Iterations \in Nat
(* No tile is empty: at most one rank for every row, column or node.       *)
ASSUME ProblemsAssumption ==
  \A p \in Problems :
    /\ p.size \in Nat \ {0}
    /\ IF p.kind = "halo" THEN p.n \in Nat /\ Dims(p.size)[1] <= p.n
                          ELSE p.v \in Nat /\ p.size <= p.v
(* A weight 1/k is exact: a node has fewer than P neighbours.              *)
ASSUME WeightsAssumption == \A p \in Problems : p.kind # "halo" => p.v <= P

RanksOf(p) == 0..(p.size - 1)
Plan == [p \in Problems |-> [r \in RanksOf(p) |->
           IF p.kind = "halo" THEN HaloPlan(p.n, p.size, r) ELSE GraphPlan(p.v, p.chords, p.size, r)]]

(* The serial field after every sweep, from two boundary values.           *)
Solve(p, first, second) ==
  IF p.kind = "halo" THEN SolveHalo(p.n, first, second, Iterations)
                     ELSE SolveGraph(p.v, p.chords, first, second, Iterations)
Serial == [p \in Problems |-> Solve(p, Seeded(0, 1), Seeded(1, 1))]

(* Rank 0 repeats the serial solution on plain numbers with one boundary   *)
(* value at 1 + h and 1 - h; the map is linear, so any h will do.          *)
FD_H == 1
DifferenceOf(p, plus, minus, at) ==
  (OneOver(2 * FD_H) * (plus[Iterations][at][0] - minus[Iterations][at][0])) % P
FdPass ==
  [p \in Problems |->
     LET up == 1 + FD_H  down == 1 - FD_H
         west == <<Solve(p, Lift(up), Lift(1)), Solve(p, Lift(down), Lift(1))>>
         south == <<Solve(p, Lift(1), Lift(up)), Solve(p, Lift(1), Lift(down))>> IN
     \A at \in DOMAIN Serial[p][Iterations] :
       /\ Serial[p][Iterations][at][1] = DifferenceOf(p, west[1], west[2], at)
       /\ Serial[p][Iterations][at][2] = DifferenceOf(p, south[1], south[2], at)]

Setup == [p \in Problems |-> [plan |-> Plan[p], ref |-> Serial[p][Iterations], fd_pass |-> FdPass[p]]]

VARIABLES
  problem,    (* the problem solved                                        *)
  setup,      (* what is computed from it alone: the plan of every rank    *)
              (* before the loop, the serial solution and the verdict on   *)
              (* its derivatives after it                                  *)
  cur, next,  (* the two buffers of every rank, owned cells and ghosts     *)
  it,         (* iterations a rank has completed                           *)
  call,       (* the MPI_Sendrecv it is at                                 *)
  stage,      (* "idle", "posted": sent and waiting, "received"            *)
  net,        (* the messages on every channel <<from, to, tag>>           *)
  mismatch,   (* cells that differ from the serial field, -1 before that   *)
  exit        (* what the rank's main() returns                            *)

vars == <<problem, setup, cur, next, it, call, stage, net, mismatch, exit>>

Ranks == RanksOf(problem)
CallsOf(r) == setup.plan[r].calls
CurrentCall(r) == CallsOf(r)[call[r]]

ChannelsOf(p) ==
  UNION {{<<r, c.to, c.tag>> : c \in ToSet(Plan[p][r].calls)} : r \in RanksOf(p)}

-----------------------------------------------------------------------------
(* Both buffers hold the boundary: after a swap the ghosts that no message *)
(* refreshes are read from the other one.                                  *)
MutBlankNext(p, r) == [place \in DOMAIN Plan[p][r].start |-> Lift(0)]
SecondBuffer(p, r) == Plan[p][r].start

Init ==
  /\ problem \in Problems /\ setup = Setup[problem]
  /\ cur = [r \in Ranks |-> setup.plan[r].start]
  /\ next = [r \in Ranks |-> SecondBuffer(problem, r)]
  /\ it = [r \in Ranks |-> 0] /\ call = [r \in Ranks |-> 1]
  /\ stage = [r \in Ranks |-> "idle"]
  /\ net = [ch \in ChannelsOf(problem) |-> << >>]
  /\ mismatch = [r \in Ranks |-> -1]
  /\ exit = [r \in Ranks |-> "running"]

InLoop(r) == it[r] < Iterations

(* A send to, or a receive from, MPI_PROC_NULL does nothing.               *)
Post(r) ==
  /\ InLoop(r) /\ call[r] <= Len(CallsOf(r)) /\ stage[r] = "idle"
  /\ LET c == CurrentCall(r)
         message == [k \in DOMAIN c.out |-> cur[r][c.out[k]]] IN
     /\ net' = IF c.to = ProcNull THEN net ELSE [net EXCEPT ![<<r, c.to, c.tag>>] = Append(@, message)]
     /\ stage' = [stage EXCEPT ![r] = IF c.from = ProcNull THEN "received" ELSE "posted"]
  /\ UNCHANGED <<problem, setup, cur, next, it, call, mismatch, exit>>

(* A message longer than the receive is an error that ends the program;    *)
(* what it holds goes where the call says, in or beyond the buffer.        *)
Filled(field, places, message) ==
  [place \in DOMAIN field \cup {places[k] : k \in DOMAIN message} |->
     IF \E k \in DOMAIN message : places[k] = place
     THEN message[CHOOSE k \in DOMAIN message : places[k] = place] ELSE field[place]]
Receive(r) ==
  /\ InLoop(r) /\ stage[r] = "posted"
  /\ LET c == CurrentCall(r)  ch == <<c.from, r, c.tag>> IN
     /\ ch \in DOMAIN net /\ net[ch] # << >>
     /\ Len(Head(net[ch])) <= Len(c.in)
     /\ cur' = [cur EXCEPT ![r] = Filled(@, c.in, Head(net[ch]))]
     /\ net' = [net EXCEPT ![ch] = Tail(@)]
  /\ stage' = [stage EXCEPT ![r] = "received"]
  /\ UNCHANGED <<problem, setup, next, it, call, mismatch, exit>>

Sent(r) ==
  LET c == CurrentCall(r) IN c.to = ProcNull \/ net[<<r, c.to, c.tag>>] = << >>
LeaveCall(r) ==
  /\ InLoop(r) /\ stage[r] = "received"
  /\ stage' = [stage EXCEPT ![r] = "idle"] /\ call' = [call EXCEPT ![r] = @ + 1]
  /\ UNCHANGED <<problem, setup, cur, next, it, net, mismatch, exit>>
Return(r) == LeaveCall(r) /\ Sent(r)
ReturnBuffered(r) == LeaveCall(r) /\ ~Sent(r)

(* jacobi_sweep, or relax_node on every owned node, and the swap.          *)
Relax(r) ==
  LET reads == setup.plan[r].reads IN
  /\ InLoop(r) /\ call[r] > Len(CallsOf(r))
  /\ cur' = [cur EXCEPT ![r] =
       [place \in DOMAIN @ |-> IF place \in DOMAIN reads THEN Mean(@, reads[place]) ELSE next[r][place]]]
  /\ next' = [next EXCEPT ![r] = cur[r]]
  /\ it' = [it EXCEPT ![r] = @ + 1] /\ call' = [call EXCEPT ![r] = 1]
  /\ UNCHANGED <<problem, setup, stage, net, mismatch, exit>>

Tile(r) == [place \in DOMAIN setup.plan[r].reads |-> cur[r][place]]

Verify(r) ==
  /\ ~InLoop(r) /\ mismatch[r] = -1
  /\ mismatch' = [mismatch EXCEPT ![r] =
       Cardinality({place \in DOMAIN Tile(r) : Tile(r)[place] # setup.ref[setup.plan[r].global[place]]})]
  /\ UNCHANGED <<problem, setup, cur, next, it, call, stage, net, exit>>

(* MPI_Reduce to rank 0, MPI_Barrier, MPI_Bcast of rank 0's verdict on the *)
(* derivatives; only rank 0 has the sum.                                   *)
Conclude ==
  /\ \A r \in Ranks : mismatch[r] # -1 /\ exit[r] = "running"
  /\ LET total == MapThenSumSet(LAMBDA r : mismatch[r], Ranks) IN
     exit' = [r \in Ranks |->
                IF setup.fd_pass /\ (r = 0 => total = 0) THEN "PASS" ELSE "FAIL"]
  /\ UNCHANGED <<problem, setup, cur, next, it, call, stage, net, mismatch>>

Ended == (\A r \in Ranks : exit[r] # "running") /\ UNCHANGED vars

Next ==
  \/ \E r \in Ranks : Post(r) \/ Receive(r) \/ Return(r) \/ Relax(r) \/ Verify(r)
  \/ \E r \in Ranks : ReturnBuffered(r)
  \/ Conclude
  \/ Ended

(* As long as a process can go on, one does, and MPI delivers; that it     *)
(* buffers is not assumed.                                                 *)
Progress(r) == Post(r) \/ Receive(r) \/ Return(r) \/ Relax(r) \/ Verify(r)
Unbuffered == Conclude \/ \E r \in Ranks : Progress(r)
Fairness == WF_vars(Unbuffered)

Spec == Init /\ [][Next]_vars /\ Fairness

-----------------------------------------------------------------------------
TypeOK ==
  /\ problem \in Problems /\ setup = Setup[problem]
  /\ \A r \in Ranks :
       /\ \A buffer \in {cur[r], next[r]} : buffer \in [DOMAIN setup.plan[r].start -> Jet]
       /\ it[r] \in 0..Iterations /\ call[r] \in 1..(Len(CallsOf(r)) + 1)
       /\ stage[r] \in {"idle", "posted", "received"}
       /\ stage[r] # "idle" => call[r] <= Len(CallsOf(r))
       /\ mismatch[r] \in -1..Cardinality(DOMAIN setup.plan[r].reads)
       /\ exit[r] \in {"running", "PASS", "FAIL"}
  /\ DOMAIN net = ChannelsOf(problem)

(* Every rank finds its partners on its own, in the grid or in the graph.  *)
(* The findings agree: what a rank sends on a channel in one place of its  *)
(* chain of calls, the other end takes in one place of its own, in the     *)
(* same size, and it sends something back; and nothing else is waited for. *)
SendsOn(plan, ch) ==
  {k \in DOMAIN plan[ch[1]].calls : plan[ch[1]].calls[k].to = ch[2] /\ plan[ch[1]].calls[k].tag = ch[3]}
TakesOn(plan, ch) ==
  {k \in DOMAIN plan[ch[2]].calls : plan[ch[2]].calls[k].from = ch[1] /\ plan[ch[2]].calls[k].tag = ch[3]}
IsSeq(s) == s \in Seq({s[i] : i \in DOMAIN s})
Matched(p, plan) ==
  /\ \A r \in RanksOf(p) :
       /\ IsSeq(plan[r].calls)
       /\ \A k \in DOMAIN plan[r].calls : IsSeq(plan[r].calls[k].out) /\ IsSeq(plan[r].calls[k].in)
  /\ \A ch \in ChannelsOf(p) : ch[2] # ProcNull =>
       /\ ch[2] \in RanksOf(p)
       /\ \E i \in SendsOn(plan, ch) : \E j \in TakesOn(plan, ch) :
            /\ SendsOn(plan, ch) = {i} /\ TakesOn(plan, ch) = {j}
            /\ Len(plan[ch[1]].calls[i].out) = Len(plan[ch[2]].calls[j].in)
       /\ \E back \in ChannelsOf(p) : back[1] = ch[2] /\ back[2] = ch[1]
  /\ \A r \in RanksOf(p) : \A k \in DOMAIN plan[r].calls :
       LET c == plan[r].calls[k] IN c.from # ProcNull => <<c.from, r, c.tag>> \in ChannelsOf(p)
CallsPair == Matched(problem, setup.plan)

(* What a rank has worked out before its loop, its own.                    *)
(* A cell it owns starts and goes on as the serial field does in the cell  *)
(* of its global name; it reads cells owned, cells that a message          *)
(* refreshes and, in a grid, the walls on the frame of the domain: a graph *)
(* has none.  A message takes owned cells and fills others, each of them   *)
(* once.                                                                   *)
Refreshed(own) == UNION {ToSet(c.in) : c \in {d \in ToSet(own.calls) : d.from # ProcNull}}
Walls(p, own) ==
  {place \in DOMAIN own.start \ Refreshed(own) :
     /\ p.kind = "halo" /\ own.global[place] \notin (1..p.n) \X (1..p.n)
     /\ \A t \in 0..Iterations : own.start[place] = Serial[p][t][own.global[place]]}
SweepsSerially(p, own) ==
  \A place \in DOMAIN own.reads : LET reads == own.reads[place] IN
    /\ own.start[place] = Serial[p][0][own.global[place]]
    /\ \A t \in 0..(Iterations - 1) :
         Serial[p][t + 1][own.global[place]] =
           MeanOf([n \in DOMAIN reads |-> Serial[p][t][own.global[reads[n]]]])
    /\ \A n \in DOMAIN reads : reads[n] \in DOMAIN own.reads \cup Refreshed(own) \cup Walls(p, own)
FillsOnce(own) ==
  /\ DOMAIN own.reads \subseteq DOMAIN own.start
  /\ Refreshed(own) \subseteq DOMAIN own.start \ DOMAIN own.reads
  /\ \A k, l \in DOMAIN own.calls :
       own.calls[k].from # ProcNull /\ own.calls[l].from # ProcNull =>
       \A m \in DOMAIN own.calls[k].in, n \in DOMAIN own.calls[l].in :
         own.calls[k].in[m] = own.calls[l].in[n] => k = l /\ m = n
  /\ \A k \in DOMAIN own.calls : ToSet(own.calls[k].out) \subseteq DOMAIN own.reads

(* The cells of a message have the same global names at both ends.         *)
SameNames(p, plan) ==
  \A ch \in ChannelsOf(p) : ch[2] # ProcNull =>
    \A i \in SendsOn(plan, ch) : \A j \in TakesOn(plan, ch) :
      \A n \in DOMAIN plan[ch[1]].calls[i].out :
        plan[ch[1]].global[plan[ch[1]].calls[i].out[n]] = plan[ch[2]].global[plan[ch[2]].calls[j].in[n]]

Mirrored ==
  [p \in Problems |->
     /\ \A r \in RanksOf(p) : SweepsSerially(p, Plan[p][r]) /\ FillsOnce(Plan[p][r])
     /\ SameNames(p, Plan[p])]

(* The local views of all ranks are pieces of the serial solver's, cut so  *)
(* that the messages of an iteration make up for the cuts.                 *)
ViewsMirror == Mirrored[problem]

(* Sender and receiver work the size of a message out on their own, from   *)
(* different data: every message waiting is what a call of its receiver    *)
(* expects.  A rank may post a second message before the first is taken,   *)
(* and never a third: the order in which MPI keeps the two is all that     *)
(* tells the iterations apart, as the tags are the same.                   *)
ReceiveFits ==
  \A ch \in DOMAIN net :
    /\ Len(net[ch]) <= 2
    /\ \A k \in DOMAIN net[ch] :
         \E c \in ToSet(CallsOf(ch[2])) :
           c.from = ch[1] /\ c.tag = ch[3] /\ Len(c.in) = Len(net[ch][k])

(* Inside an iteration, a ghost refreshed holds what its owner had after   *)
(* as many sweeps as the reader has made, though the owner may be ahead.   *)
GhostsCurrent ==
  \A r \in Ranks : \A k \in DOMAIN CallsOf(r) :
    LET c == CallsOf(r)[k] IN
    /\ InLoop(r) /\ c.from # ProcNull
    /\ k < call[r] \/ (k = call[r] /\ stage[r] = "received")
    => \A n \in DOMAIN c.in :
         cur[r][c.in[n]] = Serial[problem][it[r]][setup.plan[r].global[c.in[n]]]

(* The tiles are those of the serial solver, whatever the interleaving.    *)
SerialTile(p, r, t) ==
  [place \in DOMAIN Plan[p][r].reads |-> Serial[p][t][Plan[p][r].global[place]]]
NeighboursOf(p, r) == {c.from : c \in ToSet(Plan[p][r].calls)} \ {ProcNull}
Serially == INSTANCE SerialSweeps
  WITH Sweeps <- Iterations, clock <- it, tile <- [r \in Ranks |-> Tile(r)]
ImplementsSerialSweeps == Serially!Spec

(* Without relying on buffered sends, every run ends, and with the verdict *)
(* the program prints for a correct exchange: PASS (bit-exact).            *)
EndsInPass == <>(\A r \in Ranks : exit[r] = "PASS")

=============================================================================
