---------------------------- MODULE MCLayoutTables ----------------------------
(* Shapes at the edges (no derivatives, one variable, first order) and the *)
(* smallest ones where a band holds runs of zeros between two exponents.   *)
EXTENDS LayoutTables

MCShapes == {<<1, 0>>, <<3, 0>>, <<1, 3>>, <<2, 2>>, <<2, 3>>, <<3, 2>>, <<5, 1>>, <<5, 2>>}
=============================================================================
