---------------------------- MODULE CancelChain ----------------------------
(***************************************************************************)
(* Cancellation through chained signals (util_async/CancelSignal.go and    *)
(* the cancel half of util_async/Future.go).                               *)
(*                                                                         *)
(* A node is a CancelSignalBasic or a FutureCancellable.  ChainCancel      *)
(* (outer, inner) registers inner.Cancel as a cancel handler of outer, and *)
(* handlers run while the lock of their node is held: cancelling the root  *)
(* of a chain walks down it, holding every lock on the way.  The nodes on  *)
(* the way of a goroutine are its stack; it holds the locks of all of them *)
(* but, while it waits for it, the last.                                   *)
(*                                                                         *)
(* FutureCancellable cuts Cancel and SetResult of one future finer; here   *)
(* only what the chain can see is kept, and a SetResult is one step.       *)
(***************************************************************************)
EXTENDS Naturals, Sequences, SequencesExt

CONSTANTS
  Signals,      \* nodes that are a CancelSignalBasic
  Futures,      \* nodes that are a FutureCancellable
  Links,        \* the pairs <<outer, inner>> given to ChainCancel
  Maps,         \* the links made by FutureCancellable_MapValue and its kin
  Solved,       \* futures that a producer completes
  Cancellers,   \* goroutines that call Cancel: key press, timer, ...
  Target,       \* the node each of them cancels
  Rank,         \* a numbering of the nodes that grows along every link
  NoThread      \* a lock that is free

Nodes == Signals \union Futures

Threads == Cancellers \union Links

ASSUME ChainAssumption ==
  /\ Signals \intersect Futures = {}
  /\ Links \subseteq Nodes \X Nodes
  /\ Maps \subseteq Links \intersect (Futures \X Futures)
  /\ Solved \subseteq Futures
  /\ Cancellers \intersect Links = {}
  /\ Target \in [Cancellers -> Nodes]
  /\ Rank \in [Nodes -> Nat]
  /\ \A l \in Links : Rank[l[1]] < Rank[l[2]]
  /\ NoThread \notin Threads

VARIABLES
  owner,        \* holder of each node's lock
  cancelled,    \* isCancelled of each node
  settled,      \* isComplete of a future, isCancelled of a signal
  handlers,     \* onCancel of each node: the inner nodes still to cancel
  closed,       \* is the channel of CancelSignalChannel closed?
  value,        \* was the future completed with a usable value?
  called,       \* goroutines whose call has begun
  stack         \* the nodes each goroutine is cancelling, innermost last

node == <<cancelled, settled, handlers, closed, value>>
vars == <<owner, node, called, stack>>

\* The Cancel that t is in, if any.
Top(t) == Last(stack[t])
Inside(t) == stack[t] # <<>> /\ owner[Top(t)] = t
Waiting(t) == stack[t] # <<>> /\ owner[Top(t)] # t

Returned(t) == t \in called /\ stack[t] = <<>>

Init ==
  /\ owner = [n \in Nodes |-> NoThread]
  /\ cancelled = [n \in Nodes |-> FALSE]
  /\ settled = [n \in Nodes |-> FALSE]
  /\ handlers = [n \in Nodes |-> <<>>]
  /\ closed = [n \in Nodes |-> FALSE]
  /\ value = [n \in Nodes |-> FALSE]
  /\ called = {}
  /\ stack = [t \in Threads |-> <<>>]
-----------------------------------------------------------------------------
(* Cancel: take the lock, mark the node, run the handlers, release. *)

CallCancel(c) ==
  /\ c \notin called
  /\ called' = called \union {c}
  /\ stack' = [stack EXCEPT ![c] = <<Target[c]>>]
  /\ UNCHANGED <<owner, node>>

\* The node was cancelled or completed before: nothing to do.
CancelIgnored(t) ==
  /\ Waiting(t)
  /\ owner[Top(t)] = NoThread
  /\ settled[Top(t)]
  /\ stack' = [stack EXCEPT ![t] = Front(@)]
  /\ UNCHANGED <<owner, node, called>>

\* Mutant: the channel is closed before the handlers run, on a signal too.
CancelEnterCloses(t) ==
  LET n == Top(t) IN
  /\ Waiting(t)
  /\ owner[n] = NoThread
  /\ ~settled[n]
  /\ owner' = [owner EXCEPT ![n] = t]
  /\ cancelled' = [cancelled EXCEPT ![n] = TRUE]
  /\ settled' = [settled EXCEPT ![n] = TRUE]
  /\ closed' = [closed EXCEPT ![n] = TRUE]
  /\ UNCHANGED <<handlers, value, called, stack>>

\* A future closes its signal channel before its handlers run.
CancelEnter(t) ==
  LET n == Top(t) IN
  /\ Waiting(t)
  /\ owner[n] = NoThread
  /\ ~settled[n]
  /\ owner' = [owner EXCEPT ![n] = t]
  /\ cancelled' = [cancelled EXCEPT ![n] = TRUE]
  /\ settled' = [settled EXCEPT ![n] = TRUE]
  /\ closed' = [closed EXCEPT ![n] = n \in Futures]
  /\ UNCHANGED <<handlers, value, called, stack>>

RunHandler(t) ==
  LET n == Top(t) IN
  /\ Inside(t)
  /\ handlers[n] # <<>>
  /\ handlers' = [handlers EXCEPT ![n] = Tail(@)]
  /\ stack' = [stack EXCEPT ![t] = Append(@, Head(handlers[n]))]
  /\ UNCHANGED <<owner, cancelled, settled, closed, value, called>>

\* Mutant: a return without the deferred unlock.
CancelLeaveLocked(t) ==
  LET n == Top(t) IN
  /\ Inside(t)
  /\ handlers[n] = <<>>
  /\ closed' = [closed EXCEPT ![n] = TRUE]
  /\ stack' = [stack EXCEPT ![t] = Front(@)]
  /\ UNCHANGED <<owner, cancelled, settled, handlers, value, called>>

\* The end of the critical section; a CancelSignalBasic closes its channel here.
CancelLeave(t) ==
  LET n == Top(t) IN
  /\ Inside(t)
  /\ handlers[n] = <<>>
  /\ owner' = [owner EXCEPT ![n] = NoThread]
  /\ closed' = [closed EXCEPT ![n] = TRUE]
  /\ stack' = [stack EXCEPT ![t] = Front(@)]
  /\ UNCHANGED <<cancelled, settled, handlers, value, called>>
-----------------------------------------------------------------------------
(* ChainCancel(outer, inner) = outer.AddCancelHandler(inner.Cancel) *)

\* Mutant: the link itself is kept instead of the function to call.
ChainKeptUnbound(l) ==
  /\ l \notin called
  /\ owner[l[1]] = NoThread
  /\ ~settled[l[1]]
  /\ called' = called \union {l}
  /\ handlers' = [handlers EXCEPT ![l[1]] = Append(@, l)]
  /\ UNCHANGED <<owner, cancelled, settled, closed, value, stack>>

\* Mutant: the flag is not looked at under the lock.
ChainKeptAlways(l) ==
  /\ l \notin called
  /\ owner[l[1]] = NoThread
  /\ called' = called \union {l}
  /\ handlers' = [handlers EXCEPT ![l[1]] = Append(@, l[2])]
  /\ UNCHANGED <<owner, cancelled, settled, closed, value, stack>>

\* Mutant: cancelling either end cancels the other.
ChainKeptBothWays(l) ==
  /\ l \notin called
  /\ owner[l[1]] = NoThread
  /\ ~settled[l[1]]
  /\ called' = called \union {l}
  /\ handlers' = [handlers EXCEPT ![l[1]] = Append(@, l[2]), ![l[2]] = Append(@, l[1])]
  /\ UNCHANGED <<owner, cancelled, settled, closed, value, stack>>

ChainKept(l) ==
  /\ l \notin called
  /\ owner[l[1]] = NoThread
  /\ ~settled[l[1]]
  /\ called' = called \union {l}
  /\ handlers' = [handlers EXCEPT ![l[1]] = Append(@, l[2])]
  /\ UNCHANGED <<owner, cancelled, settled, closed, value, stack>>

\* A future that completed without being cancelled drops the handler.
ChainDropped(l) ==
  /\ l \notin called
  /\ owner[l[1]] = NoThread
  /\ settled[l[1]]
  /\ ~cancelled[l[1]]
  /\ called' = called \union {l}
  /\ UNCHANGED <<owner, node, stack>>

\* Too late to wait for a cancellation: inner.Cancel runs now, under outer's lock.
ChainLate(l) ==
  /\ l \notin called
  /\ owner[l[1]] = NoThread
  /\ cancelled[l[1]]
  /\ called' = called \union {l}
  /\ owner' = [owner EXCEPT ![l[1]] = l]
  /\ stack' = [stack EXCEPT ![l] = l]
  /\ UNCHANGED node
-----------------------------------------------------------------------------
(* SetResult, by a producer or by the goroutine that maps inner to outer. *)

Complete(f, v) ==
  /\ owner[f] = NoThread
  /\ ~settled[f]
  /\ settled' = [settled EXCEPT ![f] = TRUE]
  /\ value' = [value EXCEPT ![f] = v]
  /\ handlers' = [handlers EXCEPT ![f] = <<>>]
  /\ UNCHANGED <<owner, cancelled, closed, called, stack>>

SetResult(f) == f \in Solved /\ \E v \in BOOLEAN : Complete(f, v)

\* Mutant: the goroutine has no branch for a future without a value.
MapValueOnly(l) ==
  /\ Returned(l)
  /\ value[l[2]]
  /\ \E v \in BOOLEAN : Complete(l[1], v)

\* The goroutine of MapValue starts after its ChainCancel has returned.  It
\* forwards what the mapper makes of a value, or that there is none.
MapValue(l) ==
  /\ Returned(l)
  /\ settled[l[2]]
  /\ \E v \in BOOLEAN : (v => value[l[2]]) /\ Complete(l[1], v)
-----------------------------------------------------------------------------
CancelStep(t) == CancelIgnored(t) \/ CancelEnter(t) \/ RunHandler(t) \/ CancelLeave(t)

ChainStep(l) == ChainKept(l) \/ ChainDropped(l) \/ ChainLate(l)

Next ==
  \/ \E c \in Cancellers : CallCancel(c)
  \/ \E l \in Links : ChainStep(l)
  \/ \E t \in Threads : CancelStep(t)
  \/ \E f \in Futures : SetResult(f)
  \/ \E l \in Maps : MapValue(l)

\* Goroutines run; whether a key is pressed or a producer answers is open.
Fairness ==
  /\ \A t \in Threads : WF_vars(CancelStep(t))
  /\ \A l \in Links : WF_vars(ChainStep(l))
  /\ \A l \in Maps : WF_vars(MapValue(l))

Spec == Init /\ [][Next]_vars

FairSpec == Spec /\ Fairness
-----------------------------------------------------------------------------
(* Properties *)

TypeOK ==
  /\ owner \in [Nodes -> Threads \union {NoThread}]
  /\ cancelled \in [Nodes -> BOOLEAN]
  /\ settled \in [Nodes -> BOOLEAN]
  /\ handlers \in [Nodes -> Seq(Nodes)]
  /\ closed \in [Nodes -> BOOLEAN]
  /\ value \in [Nodes -> BOOLEAN]
  /\ called \subseteq Threads
  /\ stack \in [Threads -> Seq(Nodes)]

\* A goroutine that waits for the lock of a node waits below every lock it
\* holds, and so does the goroutine that keeps it waiting: nobody waits in a
\* circle, however the Cancel and ChainCancel calls interleave.
WaitsDownwards ==
  \A t, u \in Threads :
    Waiting(t) /\ owner[Top(t)] = u =>
      /\ stack[u] # <<>>
      /\ Waiting(u) => Rank[Top(t)] < Rank[Top(u)]

\* When a Cancel has let go of a node, every node chained to it is settled,
\* whether its ChainCancel came before, during or after the cancellation.
CancelPropagates ==
  \A l \in Links :
    Returned(l) /\ cancelled[l[1]] /\ owner[l[1]] = NoThread => settled[l[2]]

\* Whoever learns of a cancellation from the channel of a CancelSignalBasic
\* finds everything chained to it settled already.
ClosedAfterHandlers ==
  \A l \in Links :
    Returned(l) /\ l[1] \in Signals /\ closed[l[1]] => settled[l[2]]

\* A cancellation only travels down the links: a node is cancelled because
\* somebody cancelled it or a node it is chained to, directly or not.
CancelledFromAbove ==
  \A n \in Nodes : cancelled[n] =>
    \/ \E c \in Cancellers \intersect called : Target[c] = n
    \/ \E l \in Links \intersect called : l[2] = n /\ cancelled[l[1]]

\* A cancellation reaches what is chained below it and nothing else.
CancelExact == CancelPropagates /\ CancelledFromAbove

\* A future that has its result is never cancelled afterwards, and neither
\* are the futures chained to it.
ResultIsFinal ==
  [][\A n \in Nodes : settled[n] => settled'[n] /\ cancelled'[n] = cancelled[n]]_vars

\* Every Cancel and every ChainCancel returns.
CallsReturn == \A t \in Threads : t \in called ~> stack[t] = <<>>

\* A mapped future follows the future it maps.
MapFollows == \A l \in Maps : settled[l[2]] /\ l \in called ~> settled[l[1]]

\* Every call returns, and results find their way up the mapped futures.
AllSettle == CallsReturn /\ MapFollows
=============================================================================
