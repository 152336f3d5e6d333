---------------------------- MODULE MCSolverRuns ----------------------------
(* Three runs with every way to the GPU, one of them with a callback.        *)
EXTENDS SolverRuns
=============================================================================
