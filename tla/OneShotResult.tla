--------------------------- MODULE OneShotResult ---------------------------
(***************************************************************************)
(* What a cancellable future promises to its users, without its lock, its  *)
(* channel or its flags: an outcome that is settled at most once, either   *)
(* by a producer or by a cancellation, that reaches the waiter unchanged   *)
(* and at most once, and cancel handlers that fire only for a              *)
(* cancellation and at most once each.                                     *)
(***************************************************************************)

CONSTANTS
  Results,      \* everything a waiter can be given
  Empty,        \* the result without a value: what a cancellation delivers
  Handlers,     \* callbacks registered to run on cancellation
  NoResult      \* stands for "not settled" and "not delivered"

VARIABLES
  outcome,      \* the settled result, NoResult before
  cancelled,    \* was the outcome settled by a cancellation?
  delivered,    \* what the waiter was given, NoResult before
  fired         \* the handlers that were called

vars == <<outcome, cancelled, delivered, fired>>

Init ==
  /\ outcome = NoResult
  /\ cancelled = FALSE
  /\ delivered = NoResult
  /\ fired = {}

\* A producer settles the outcome.
Settle(r) ==
  /\ outcome = NoResult
  /\ outcome' = r
  /\ UNCHANGED <<cancelled, delivered, fired>>

\* A cancellation settles the outcome as Empty.
Cancel ==
  /\ outcome = NoResult
  /\ outcome' = Empty
  /\ cancelled' = TRUE
  /\ UNCHANGED <<delivered, fired>>

\* The waiter obtains the outcome.
Deliver ==
  /\ outcome # NoResult
  /\ delivered = NoResult
  /\ delivered' = outcome
  /\ UNCHANGED <<outcome, cancelled, fired>>

\* A cancellation calls a handler.
Fire(h) ==
  /\ cancelled
  /\ h \notin fired
  /\ fired' = fired \union {h}
  /\ UNCHANGED <<outcome, cancelled, delivered>>

Next ==
  \/ \E r \in Results : Settle(r)
  \/ Cancel
  \/ Deliver
  \/ \E h \in Handlers : Fire(h)

Spec == Init /\ [][Next]_vars
=============================================================================
