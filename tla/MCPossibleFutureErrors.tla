----------------------- MODULE MCPossibleFutureErrors -----------------------
(* The wiring of a job: the collectors of two solver runs are forwarded to   *)
(* that of the proposals (multi/proposal.go), which is forwarded to that of  *)
(* the working groups (multi/run.go), which finalMultiReport reads.  A       *)
(* second reader and a second forwarding of the same collector, which the    *)
(* panics of the class are there to stop, may race with it.                  *)
EXTENDS PossibleFutureErrors

CONSTANTS run1, run2, more, prep, solve1, solve2, setup, prepare, final, early

MCAt == (solve1 :> run1) @@ (solve2 :> run2) @@ (setup :> more) @@ (prepare :> prep)
MCLinks == {<<run1, more>>, <<run2, more>>, <<more, prep>>, <<run1, prep>>}
MCReadAt == (final :> prep) @@ (early :> more)
MCCareless == {<<run1, prep>>, early}

\* The wiring as it is, without the careless calls.
PlainLinks == MCLinks \ MCCareless
PlainReadAt == final :> prep
=============================================================================
