----------------------------- MODULE MCSimJobs -----------------------------
(* Three proposals for two labels, where each job of the first proposal has *)
(* an equal one in another.                                                 *)
EXTENDS SimJobs, TLC

CONSTANTS p1, p2, p3, tank, dps

MCSimJob ==
  (p1 :> (tank :> "A" @@ dps :> "B")) @@
  (p2 :> (tank :> "A" @@ dps :> "C")) @@
  (p3 :> (tank :> "D" @@ dps :> "B"))

\* The pipeline may stop when the report is done, and nowhere else.
Finish == report = "done" /\ UNCHANGED vars

MCSpec == Init /\ [][Next \/ Finish]_vars

Symmetric == Permutations(Mergers) \union Permutations(Simulators)
=============================================================================
