--------------------------- MODULE MCMultiSetSolve ---------------------------
(* A first solve and two variants on two threads, with interim results, all  *)
(* of them or cut off at two.                                                *)
EXTENDS MultiSetSolve
=============================================================================
