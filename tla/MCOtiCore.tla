------------------------------ MODULE MCOtiCore ------------------------------
EXTENDS OtiCore

CONSTANTS X, Y

(* A jet with every coefficient set, and one on a pole: zero real part.    *)
Full == (0 :> 2) @@ (1 :> 3) @@ (2 :> 1) @@ (3 :> 4) @@ (4 :> 2) @@ (5 :> 1)
Pole == (0 :> 0) @@ (1 :> 1) @@ (2 :> 0) @@ (3 :> 2) @@ (4 :> 0) @@ (5 :> 3)

MCRegs == {X, Y}
MCSeeds == {[r \in MCRegs |-> IF r = X THEN Full ELSE Pole]}
MCPaths == {0, 2}
(* Zero, a unit, and what puts one lone infinity or NaN into a jet.        *)
MCScalars == {0, 3, NonFin}

Alpha(p, q) == (0 :> p) @@ (1 :> q)
Term(v, o) == [variable |-> v, order |-> o]

(* Inside the order, outside it, and with a negative exponent.             *)
MCDenseInputs == {Alpha(2, 0), Alpha(1, 2), Alpha(2, -1)}
(* A repeated variable, an unknown one, one that cancels.                  *)
MCSparseInputs == {<<Term(1, 1), Term(1, 1)>>, <<Term(2, 1)>>, <<Term(0, 2), Term(0, -1)>>}

(* Exponents whose int sum wraps at IntMax = 7.                            *)
MCWrappingInputs == {Alpha(7, 7), Alpha(1, 2)}
MCNoSparse == {}

(* With an int this wide the requests above are none that wrap.            *)
ASSUME RequestsFit == IntMax >= 127 => InputsFit

=============================================================================
