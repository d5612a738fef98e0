----------------------------- MODULE MCJetReduce -----------------------------
(* Instances of JetReduce: three ranks combining buffers of two elements,  *)
(* whole or cut into segments, in any order; and jets on a singular point  *)
(* among the contributions.                                                *)
EXTENDS JetReduce

MCThree == 0..2
MCLocOps == LocOps
MCAllOps == AllOps

Loc(re, der, loc) == [re |-> re, der |-> der, loc |-> loc]
Jet(re, der) == [re |-> re, der |-> der]

(* First element: the real parts all tie, or the best two do; nothing else *)
(* tells the ranks apart.  Second element: a clear winner.                 *)
MCInputs(o) ==
  LET firsts == CASE o = "maxloc" -> {<<1, 1, 1>>, <<1, 2, 2>>}
                  [] o = "minloc" -> {<<1, 1, 2>>}
                  [] OTHER        -> {<<2, 3, 4>>}
  IN  IF o \in LocOps
      THEN {[r \in Ranks |-> <<Loc(f[r + 1], r + 1, r), Loc(r, r + 2, r)>>] : f \in firsts}
      ELSE {[r \in Ranks |-> <<Jet(f[r + 1], 2 * r + 1), Jet(3 * r, r + 2)>>] : f \in firsts}

MCNaNInputs(o) ==
  {[r \in Ranks |-> [e \in Elements |-> Loc(IF r = 1 THEN NaN ELSE r + 1, r + 1, r)]]}
=============================================================================
