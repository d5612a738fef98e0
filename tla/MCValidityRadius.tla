--------------------------- MODULE MCValidityRadius ---------------------------
EXTENDS ValidityRadius

FromSeq(s) == [x \in Idx |-> s[x + 1]]

(* Value; first, second and third order.  The steps of interest lie       *)
(* between 8 and 128.                                                      *)
MCJets ==
  {FromSeq(s) : s \in {
     <<2000,   50, -150,    8,  7,   5,  1,  3, -2,   2>>,   (* all orders, one sign    *)
     <<-1500,  90,    0,    0, 11,  -5,  1,  0,  2,   0>>,   (* vanishing terms         *)
     <<500,     0,   60,    0,  9,   0,  0,  2,  1,  -2>>,   (* exact along axis 0      *)
     <<1100,   70,  200,   20,  1,  -9, -1, -1,  1,   1>>,   (* opposite signs          *)
     <<0,      55,   80,   15,  0,  20,  0,  1,  0,   0>>}}  (* a value of zero         *)
MCTolerances == {<<1, 0>>, <<0, 0>>, <<0, 700>>, <<0, 40000>>}

(* Along axis 0 the error of the linear model is 21 r^2 - r^3: above the   *)
(* budget for a while between the seed, sqrt(budget / 21) = 8 exactly, and *)
(* its double, and below it in both.                                       *)
MCInnerJets == {FromSeq(<<1344, 90, 50, 21, 3, 21, -1, 0, 2, 0>>)}
MCInnerTolerances == {<<1, 0>>}
=============================================================================
