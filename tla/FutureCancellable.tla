------------------------- MODULE FutureCancellable -------------------------
(***************************************************************************)
(* One FutureCancellable of util_async/Future.go and the goroutines that   *)
(* use it: producers (SetResult, SetResultEmpty, SetResultError), callers  *)
(* of Cancel, callers of AddCancelHandler, and the one goroutine that      *)
(* waits for the result (WaitForResultOrError, GetResultNoWait or          *)
(* WaitForResultOrKeyPress).                                               *)
(*                                                                         *)
(* Steps are cut where another goroutine can tell the difference: at the   *)
(* lock, at the send on the result channel (the waiter receives without    *)
(* the lock) and at the flags (isCancelled and isComplete are also read    *)
(* without the lock).                                                      *)
(***************************************************************************)
EXTENDS Naturals, Sequences

CONSTANTS
  Setters,      \* goroutines that set a result
  Cancellers,   \* goroutines that call Cancel
  Handlers,     \* cancel handlers; each is added by a goroutine of its name
  Waiter,       \* the goroutine that waits
  WaitModes,    \* the ways the waiter may wait: subset of {"wait","poll","key"}
  Values,       \* results that carry a value or an error
  Empty,        \* futureResult{HasValue: false}
  NoThread,     \* the lock is free
  NoResult      \* nothing settled, nothing received

Results == Values \union {Empty}

Threads == Setters \union Cancellers \union Handlers \union {Waiter}

ASSUME FutureAssumption ==
  /\ Setters \intersect Cancellers = {}
  /\ Setters \intersect Handlers = {}
  /\ Cancellers \intersect Handlers = {}
  /\ Waiter \notin Setters \union Cancellers \union Handlers
  /\ NoThread \notin Threads
  /\ Empty \notin Values
  /\ NoResult \notin Results
  /\ WaitModes \subseteq {"wait", "poll", "key"}

VARIABLES
  lock,           \* holder of future.lock
  isComplete,     \* future.isComplete
  isCancelled,    \* future.isCancelled (cancelSignalChannel closes with it)
  hasWaiter,      \* future.hasWaiter
  resultChannel,  \* contents of the channel, capacity 1
  resultClosed,   \* close(future.resultChannel) was called
  onCancel,       \* future.onCancel
  pc,             \* where each goroutine is in its call
  calls,          \* how often each handler was called
  winner,         \* history: the goroutine that settled the future
  result,         \* history: what it settled it with
  received,       \* what the waiter got
  reported        \* what WaitForResultOrError made of it

future == <<isComplete, isCancelled, hasWaiter, resultChannel, resultClosed, onCancel>>
history == <<calls, winner, result>>
waiterVars == <<received, reported>>
vars == <<lock, future, pc, history, waiterVars>>

Goto(t, label) == pc' = [pc EXCEPT ![t] = label]

\* The lock is taken and released in one step: no other goroutine can tell.
Passing(t) == lock = NoThread /\ lock' = NoThread /\ Goto(t, "done")

Init ==
  /\ lock = NoThread
  /\ isComplete = FALSE
  /\ isCancelled = FALSE
  /\ hasWaiter = FALSE
  /\ resultChannel = <<>>
  /\ resultClosed = FALSE
  /\ onCancel = <<>>
  /\ pc = [t \in Threads |-> "call"]
  /\ calls = [h \in Handlers |-> 0]
  /\ winner = NoThread
  /\ result = NoResult
  /\ received = NoResult
  /\ reported = "nothing"
-----------------------------------------------------------------------------
(* SetResult, SetResultEmpty and SetResultError: one critical section each. *)

SetIgnored(s) ==
  /\ pc[s] = "call"
  /\ isComplete
  /\ Passing(s)
  /\ UNCHANGED <<future, history, waiterVars>>

\* Mutant: the lock is taken whatever isComplete says.
SetLockAlways(s) ==
  /\ pc[s] = "call"
  /\ lock = NoThread
  /\ lock' = s
  /\ onCancel' = <<>>
  /\ Goto(s, "send")
  /\ UNCHANGED <<isComplete, isCancelled, hasWaiter, resultChannel, resultClosed,
                 history, waiterVars>>

SetLock(s) ==
  /\ pc[s] = "call"
  /\ lock = NoThread
  /\ ~isComplete
  /\ lock' = s
  /\ onCancel' = <<>>
  /\ Goto(s, "send")
  /\ UNCHANGED <<isComplete, isCancelled, hasWaiter, resultChannel, resultClosed,
                 history, waiterVars>>

\* A send on a full channel blocks with the lock held.
Send(t, r) ==
  /\ pc[t] = "send"
  /\ resultChannel = <<>>
  /\ resultChannel' = <<r>>
  /\ winner' = t
  /\ result' = r
  /\ Goto(t, "sent")
  /\ UNCHANGED <<lock, isComplete, isCancelled, hasWaiter, resultClosed, onCancel,
                 calls, waiterVars>>

\* Mutant: what is sent was never given a value.
SetSendUnset(s) == \E r \in Results \union {NoResult} : Send(s, r)

SetSend(s) == \E r \in Results : Send(s, r)

SetUnlock(s) ==
  /\ pc[s] = "sent"
  /\ isComplete' = TRUE
  /\ lock' = NoThread
  /\ Goto(s, "done")
  /\ UNCHANGED <<isCancelled, hasWaiter, resultChannel, resultClosed, onCancel,
                 history, waiterVars>>
-----------------------------------------------------------------------------
(* Cancel, with the handlers called one by one under the lock. *)

CancelIgnored(c) ==
  /\ pc[c] = "call"
  /\ isComplete
  /\ Passing(c)
  /\ UNCHANGED <<future, history, waiterVars>>

\* Mutant: Cancel does not look at isComplete.
CancelLockAlways(c) ==
  /\ pc[c] = "call"
  /\ lock = NoThread
  /\ lock' = c
  /\ Goto(c, "send")
  /\ UNCHANGED <<future, history, waiterVars>>

CancelLock(c) ==
  /\ pc[c] = "call"
  /\ lock = NoThread
  /\ ~isComplete
  /\ lock' = c
  /\ Goto(c, "send")
  /\ UNCHANGED <<future, history, waiterVars>>

\* Mutant: Cancel settles the future without sending to the waiter.
CancelSendNothing(c) ==
  /\ pc[c] = "send"
  /\ winner' = c
  /\ result' = Empty
  /\ Goto(c, "sent")
  /\ UNCHANGED <<lock, future, calls, waiterVars>>

CancelSend(c) == Send(c, Empty)

\* The flags set by performCancelAndComplete.
Flags == isComplete' = TRUE /\ isCancelled' = TRUE

CancelFlags(c) ==
  /\ pc[c] = "sent"
  /\ Flags
  /\ Goto(c, "handlers")
  /\ UNCHANGED <<lock, hasWaiter, resultChannel, resultClosed, onCancel, history,
                 waiterVars>>

\* The loop of performCancelAndComplete; an error of a handler does not stop it.
RunHandler(t) ==
  /\ pc[t] = "handlers"
  /\ onCancel # <<>>
  /\ calls' = [calls EXCEPT ![Head(onCancel)] = @ + 1]
  /\ onCancel' = Tail(onCancel)
  /\ UNCHANGED <<lock, isComplete, isCancelled, hasWaiter, resultChannel, resultClosed,
                 pc, winner, result, waiterVars>>

\* Mutant: an early return without the deferred unlock.
CancelUnlockForgotten(c) ==
  /\ pc[c] = "handlers"
  /\ onCancel = <<>>
  /\ Goto(c, "done")
  /\ UNCHANGED <<lock, future, history, waiterVars>>

CancelUnlock(c) ==
  /\ pc[c] = "handlers"
  /\ onCancel = <<>>
  /\ lock' = NoThread
  /\ Goto(c, "done")
  /\ UNCHANGED <<future, history, waiterVars>>
-----------------------------------------------------------------------------
(* AddCancelHandler: kept, called at once, or dropped. *)

\* Mutant: the handler is kept even when nobody will come back for it.
AddKeptAlways(h) ==
  /\ pc[h] = "call"
  /\ onCancel' = Append(onCancel, h)
  /\ Passing(h)
  /\ UNCHANGED <<isComplete, isCancelled, hasWaiter, resultChannel, resultClosed,
                 history, waiterVars>>

AddKept(h) ==
  /\ pc[h] = "call"
  /\ ~isCancelled
  /\ ~isComplete
  /\ onCancel' = Append(onCancel, h)
  /\ Passing(h)
  /\ UNCHANGED <<isComplete, isCancelled, hasWaiter, resultChannel, resultClosed,
                 history, waiterVars>>

AddDropped(h) ==
  /\ pc[h] = "call"
  /\ ~isCancelled
  /\ isComplete
  /\ Passing(h)
  /\ UNCHANGED <<future, history, waiterVars>>

\* Mutant: a complete future is taken for a cancelled one.
AddLateOnComplete(h) ==
  /\ pc[h] = "call"
  /\ isComplete
  /\ lock = NoThread
  /\ lock' = h
  /\ Goto(h, "late")
  /\ UNCHANGED <<future, history, waiterVars>>

AddLate(h) ==
  /\ pc[h] = "call"
  /\ isCancelled
  /\ lock = NoThread
  /\ lock' = h
  /\ Goto(h, "late")
  /\ UNCHANGED <<future, history, waiterVars>>

RunLate(h) ==
  /\ pc[h] = "late"
  /\ calls' = [calls EXCEPT ![h] = @ + 1]
  /\ lock' = NoThread
  /\ Goto(h, "done")
  /\ UNCHANGED <<future, winner, result, waiterVars>>
-----------------------------------------------------------------------------
(* The waiter. verifyCanWait and the receive take no lock. *)

verifyCanWait == ~hasWaiter /\ hasWaiter' = TRUE

StartWait(mode, label) ==
  /\ mode \in WaitModes
  /\ pc[Waiter] = "call"
  /\ verifyCanWait
  /\ Goto(Waiter, label)
  /\ UNCHANGED <<lock, isComplete, isCancelled, resultChannel, resultClosed, onCancel,
                 history, waiterVars>>

WaitForResult == StartWait("wait", "wait")
WaitForResultOrKeyPress == StartWait("key", "select")

\* The default branch of GetResultNoWait: nothing there yet, hasWaiter stays set.
GetResultNoWaitNothing ==
  /\ resultChannel = <<>>
  /\ StartWait("poll", "polled")

TakeResult ==
  /\ resultChannel # <<>>
  /\ received' = Head(resultChannel)
  /\ resultChannel' = <<>>
  /\ resultClosed' = TRUE

GetResultNoWait ==
  /\ "poll" \in WaitModes
  /\ pc[Waiter] = "call"
  /\ verifyCanWait
  /\ TakeResult
  /\ Goto(Waiter, "done")
  /\ UNCHANGED <<lock, isComplete, isCancelled, onCancel, history, reported>>

\* Waiting again after a poll that found nothing.
DuplicateWaiter ==
  /\ pc[Waiter] = "polled"
  /\ hasWaiter
  /\ Goto(Waiter, "panic")
  /\ UNCHANGED <<lock, future, history, waiterVars>>

resultFromChannel ==
  /\ pc[Waiter] \in {"wait", "select"}
  /\ TakeResult
  /\ Goto(Waiter, IF pc[Waiter] = "wait" THEN "report" ELSE "done")
  /\ UNCHANGED <<lock, isComplete, isCancelled, hasWaiter, onCancel, history, reported>>

\* A key is pressed while the result is not there, or the select prefers the key.
KeyPress ==
  /\ pc[Waiter] = "select"
  /\ Goto(Waiter, "key")
  /\ UNCHANGED <<lock, future, history, waiterVars>>

\* Mutant: the key wins over a result that was there first.
KeyCancelledOrComplete ==
  /\ pc[Waiter] = "key"
  /\ isComplete
  /\ Passing(Waiter)
  /\ received' = Empty
  /\ resultClosed' = TRUE
  /\ UNCHANGED <<isComplete, isCancelled, hasWaiter, resultChannel, onCancel,
                 history, reported>>

\* Someone cancelled first: close the channel, whatever is in it.
KeyCancelled ==
  /\ pc[Waiter] = "key"
  /\ isCancelled
  /\ Passing(Waiter)
  /\ received' = Empty
  /\ resultClosed' = TRUE
  /\ UNCHANGED <<isComplete, isCancelled, hasWaiter, resultChannel, onCancel,
                 history, reported>>

\* A producer was first: its result counts, not the key.
KeyComplete ==
  /\ pc[Waiter] = "key"
  /\ ~isCancelled
  /\ isComplete
  /\ Passing(Waiter)
  /\ TakeResult
  /\ UNCHANGED <<isComplete, isCancelled, hasWaiter, onCancel, history, reported>>

\* Mutant: nobody looks again at the flags once the key is pressed.
KeyCancelsAlways ==
  /\ pc[Waiter] = "key"
  /\ lock = NoThread
  /\ lock' = Waiter
  /\ Flags
  /\ winner' = Waiter
  /\ result' = Empty
  /\ Goto(Waiter, "handlers")
  /\ UNCHANGED <<hasWaiter, resultChannel, resultClosed, onCancel, calls, waiterVars>>

KeyCancels ==
  /\ pc[Waiter] = "key"
  /\ lock = NoThread
  /\ ~isCancelled
  /\ ~isComplete
  /\ lock' = Waiter
  /\ Flags
  /\ winner' = Waiter
  /\ result' = Empty
  /\ Goto(Waiter, "handlers")
  /\ UNCHANGED <<hasWaiter, resultChannel, resultClosed, onCancel, calls, waiterVars>>

KeyUnlock ==
  /\ pc[Waiter] = "handlers"
  /\ onCancel = <<>>
  /\ lock' = NoThread
  /\ received' = Empty
  /\ Goto(Waiter, "done")
  /\ UNCHANGED <<future, history, reported>>

\* WaitForResultOrError: the error text for a result without a value, from a
\* read of isCancelled that is not protected by the lock.
finalError ==
  /\ pc[Waiter] = "report"
  /\ reported' = IF received # Empty THEN "value"
                 ELSE IF isCancelled THEN "cancelled" ELSE "empty result"
  /\ Goto(Waiter, "done")
  /\ UNCHANGED <<lock, future, history, received>>
-----------------------------------------------------------------------------
SetterStep(s) == SetIgnored(s) \/ SetLock(s) \/ SetSend(s) \/ SetUnlock(s)

CancellerStep(c) ==
  \/ CancelIgnored(c) \/ CancelLock(c) \/ CancelSend(c) \/ CancelFlags(c)
  \/ RunHandler(c) \/ CancelUnlock(c)

AdderStep(h) == AddKept(h) \/ AddDropped(h) \/ AddLate(h) \/ RunLate(h)

\* What the waiter does by itself once it has begun to wait.
WaiterRuns ==
  \/ resultFromChannel \/ KeyCancelled \/ KeyComplete \/ KeyCancels
  \/ RunHandler(Waiter) \/ KeyUnlock \/ finalError

WaiterStep ==
  \/ WaitForResult \/ WaitForResultOrKeyPress
  \/ GetResultNoWait \/ GetResultNoWaitNothing \/ DuplicateWaiter
  \/ KeyPress
  \/ WaiterRuns

Next ==
  \/ \E s \in Setters : SetterStep(s)
  \/ \E c \in Cancellers : CancellerStep(c)
  \/ \E h \in Handlers : AdderStep(h)
  \/ WaiterStep

\* Goroutines are scheduled and handlers return; nobody promises to wait, to
\* press a key or, beyond what Setters and Cancellers say, to settle the future.
Fairness ==
  /\ \A s \in Setters : WF_vars(SetterStep(s))
  /\ \A c \in Cancellers : WF_vars(CancellerStep(c))
  /\ \A h \in Handlers : WF_vars(AdderStep(h))
  /\ WF_vars(WaiterRuns)

Spec == Init /\ [][Next]_vars

FairSpec == Spec /\ Fairness
-----------------------------------------------------------------------------
Labels == {"call", "send", "sent", "handlers", "late", "wait", "select", "key",
           "polled", "report", "done", "panic"}

TypeOK ==
  /\ lock \in Threads \union {NoThread}
  /\ isComplete \in BOOLEAN
  /\ isCancelled \in BOOLEAN
  /\ hasWaiter \in BOOLEAN
  /\ resultChannel \in {<<>>} \union {<<r>> : r \in Results}
  /\ resultClosed \in BOOLEAN
  /\ onCancel \in Seq(Handlers)
  /\ pc \in [Threads -> Labels]
  /\ calls \in [Handlers -> Nat]
  /\ winner \in Threads \union {NoThread}
  /\ result \in Results \union {NoResult}
  /\ received \in Results \union {NoResult}
  /\ reported \in {"nothing", "value", "cancelled", "empty result"}
-----------------------------------------------------------------------------
(* Properties *)

ByCancel == winner \in Cancellers \union {Waiter}

\* A future is settled by the first call that finds it incomplete under the
\* lock and by no other: results set, or cancellations requested, later change
\* nothing (Future_test.go, CancelThenDone and DoneThenCancel).
SettledOnce == [][winner # NoThread => UNCHANGED <<winner, result>>]_vars

\* Nobody sends on resultChannel when it is full or closed, nor takes from it
\* under the lock when it is empty: with the lock held such a step would hang
\* every other caller, or panic.
ChannelNeverBlocksHolder ==
  /\ \A t \in Threads : pc[t] = "send" => resultChannel = <<>> /\ ~resultClosed
  /\ pc[Waiter] = "key" /\ lock = NoThread /\ isComplete /\ ~isCancelled
       => resultChannel # <<>>

\* A cancel handler is called at most once, and only when it was a cancellation
\* that settled the future: a producer's result disarms the handlers before it
\* becomes visible, whatever Cancel and AddCancelHandler do meanwhile.
HandlersOnlyOnCancel ==
  \A h \in Handlers : calls[h] <= 1 /\ (calls[h] = 1 => ByCancel)

\* Between critical sections of a cancelled future no handler whose
\* AddCancelHandler has returned is still to be called: it was called by the
\* cancellation if it was added before, by AddCancelHandler if it came later.
NoHandlerForgotten ==
  isCancelled /\ lock = NoThread =>
    \A h \in Handlers : pc[h] = "done" => calls[h] = 1

\* Handlers are called once after a cancellation, none is forgotten, and after a
\* result none is called.
HandlersFire == HandlersOnlyOnCancel /\ NoHandlerForgotten

\* The waiter gets what the future was settled with.
DeliveredIsSettled == received # NoResult => received = result

\* Every SetResult, Cancel and AddCancelHandler returns: none waits for ever
\* for the lock or for room in the channel.
CallsReturn == \A t \in Setters \union Cancellers \union Handlers : <>(pc[t] = "done")

\* Whoever waits is answered, by a result or by a cancellation.
WaiterServed == pc[Waiter] \in {"wait", "select", "key"} ~> pc[Waiter] = "done"

\* Nobody who calls or waits hangs.
Answered == CallsReturn /\ WaiterServed

OneShot == INSTANCE OneShotResult WITH
  outcome <- result,
  cancelled <- ByCancel,
  delivered <- received,
  fired <- {h \in Handlers : calls[h] > 0}

\* The future is a one-shot result.
ImplementsOneShot == OneShot!Spec
=============================================================================
