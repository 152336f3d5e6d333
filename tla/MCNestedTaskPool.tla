-------------------------- MODULE MCNestedTaskPool --------------------------
(* Two clients, one that goes on after errors and one that does not, with    *)
(* two tasks and one, and a pool of one thread.                              *)
EXTENDS NestedTaskPool, TLC

CONSTANTS sim, solve, t1, t2, t3

MCOwner == (t1 :> sim) @@ (t2 :> sim) @@ (t3 :> solve)

Symmetric == Permutations(Workers)
=============================================================================
