--------------------------- MODULE MCCancelChain ---------------------------
(* The chain of a solver run: the signal of the whole job (cancelled by a   *)
(* key), a signal with a time limit chained to it, a future mapped from the *)
(* future of the solver, and a second future chained to the same signal,    *)
(* to which the solver is chained as well, perhaps when it is complete.     *)
EXTENDS CancelChain

CONSTANTS job, limit, outer, inner, other, key, timer

MCLinks == {<<job, limit>>, <<limit, outer>>, <<outer, inner>>, <<limit, other>>, <<other, inner>>}
MCMaps == {<<outer, inner>>}
MCTarget == (key :> job) @@ (timer :> limit)
MCRank == (job :> 0) @@ (limit :> 1) @@ (outer :> 2) @@ (other :> 2) @@ (inner :> 3)
=============================================================================
