------------------------ MODULE MCFutureCancellable ------------------------
(* FutureCancellable on a small instance: two producers race a caller of    *)
(* Cancel, two goroutines that add handlers and a waiter that may wait in   *)
(* every way. The constants are given in the .cfg files.                    *)
EXTENDS FutureCancellable
=============================================================================
