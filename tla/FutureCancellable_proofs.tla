---------------------- MODULE FutureCancellable_proofs ----------------------
(***************************************************************************)
(* Proofs about FutureCancellable for any number of producers, callers of  *)
(* Cancel and handlers: type correctness and the safety properties follow  *)
(* from one inductive invariant, the conjunction of the five parts below,  *)
(* and so does the refinement of OneShotResult: each step is one of its    *)
(* steps or changes nothing it tells of.                                   *)
(***************************************************************************)
EXTENDS FutureCancellable, TLAPS, SequenceTheorems

\* Each goroutine stays within the labels of its own call.
RoleInv ==
  /\ \A s \in Setters : pc[s] \in {"call", "send", "sent", "done"}
  /\ \A c \in Cancellers : pc[c] \in {"call", "send", "sent", "handlers", "done"}
  /\ \A h \in Handlers : pc[h] \in {"call", "late", "done"}
  /\ pc[Waiter] \in {"call", "wait", "select", "key", "polled", "report", "handlers",
                     "done", "panic"}

\* The lock is held exactly by the goroutine that is inside a critical section.
LockInv ==
  \A t \in Threads : pc[t] \in {"send", "sent", "handlers", "late"} <=> lock = t

\* How the flags follow the settling of the future.
PhaseInv ==
  /\ winner = NoThread => result = NoResult /\ ~isComplete /\ ~isCancelled
  /\ winner # NoThread => result \in Results /\ (isComplete \/ pc[winner] = "sent")
  /\ winner \in Setters \union Cancellers \union {Waiter, NoThread}
  /\ isCancelled => isComplete /\ ByCancel
  /\ isComplete /\ ByCancel => isCancelled
  /\ ByCancel => result = Empty
  /\ \A t \in Threads :
       /\ pc[t] = "send" => winner = NoThread
       /\ pc[t] = "sent" => winner = t /\ ~isComplete
       /\ pc[t] = "handlers" => winner = t /\ isCancelled
       /\ pc[t] = "late" => isCancelled

\* What the channel holds and what the waiter took from it.
ChannelInv ==
  /\ winner = NoThread => resultChannel = <<>> /\ ~resultClosed /\ received = NoResult
  /\ resultChannel # <<>> => resultChannel = <<result>>
  /\ winner \in Setters /\ received = NoResult => resultChannel # <<>>
  /\ pc[Waiter] \in {"call", "wait", "select", "key"} => received = NoResult
  /\ received # NoResult => received = result

\* The elements of a sequence, and that each occurs once.
Elems(q) == {q[i] : i \in 1..Len(q)}
Distinct(q) == \A i, j \in 1..Len(q) : q[i] = q[j] => i = j

\* Where a handler is between AddCancelHandler and its call.
HandlerInv ==
  /\ Distinct(onCancel)
  /\ \A h \in Elems(onCancel) : pc[h] = "done" /\ calls[h] = 0
  /\ \A h \in Handlers :
       /\ pc[h] \in {"call", "late"} => calls[h] = 0
       /\ calls[h] <= 1
       /\ calls[h] = 1 => isCancelled
       /\ pc[h] = "done" => calls[h] = 1 \/ h \in Elems(onCancel) \/ lock \in Setters
                             \/ winner \in Setters
  /\ lock \in Setters => onCancel = <<>>
  /\ isComplete /\ onCancel # <<>> => pc[winner] = "handlers"

IndInv == TypeOK /\ RoleInv /\ LockInv /\ PhaseInv /\ ChannelInv /\ HandlerInv

LEMMA Members ==
  /\ Setters \subseteq Threads /\ Cancellers \subseteq Threads /\ Handlers \subseteq Threads
  /\ Waiter \in Threads /\ Empty \in Results /\ NoThread \notin Threads /\ NoResult \notin Results
BY FutureAssumption DEF Threads, Results

LEMMA Disjoint ==
  /\ Setters \intersect Cancellers = {} /\ Setters \intersect Handlers = {}
  /\ Cancellers \intersect Handlers = {}
  /\ Waiter \notin Setters /\ Waiter \notin Cancellers /\ Waiter \notin Handlers
BY FutureAssumption
LEMMA RunHandlerEffect ==
  ASSUME TypeOK, NEW t, RunHandler(t)
  PROVE  /\ Head(onCancel) \in Handlers
         /\ onCancel' = Tail(onCancel) /\ onCancel' \in Seq(Handlers)
         /\ calls' \in [Handlers -> Nat]
         /\ \A h \in Handlers :
              calls'[h] = IF h = Head(onCancel) THEN calls[h] + 1 ELSE calls[h]
<1>1. onCancel \in Seq(Handlers) /\ onCancel # <<>> /\ calls \in [Handlers -> Nat]
  BY DEF TypeOK, RunHandler
<1>2. Head(onCancel) \in Handlers /\ Tail(onCancel) \in Seq(Handlers)
  BY <1>1, HeadTailProperties
<1>3. calls' = [calls EXCEPT ![Head(onCancel)] = @ + 1] /\ onCancel' = Tail(onCancel)
  BY DEF RunHandler
<1> QED
  BY <1>1, <1>2, <1>3

LEMMA RunLateEffect ==
  ASSUME TypeOK, NEW h \in Handlers, RunLate(h)
  PROVE  /\ calls' \in [Handlers -> Nat]
         /\ \A g \in Handlers : calls'[g] = IF g = h THEN calls[g] + 1 ELSE calls[g]
<1>1. calls \in [Handlers -> Nat]
  BY DEF TypeOK
<1>2. calls' = [calls EXCEPT ![h] = @ + 1]
  BY DEF RunLate
<1> QED
  BY <1>1, <1>2

LEMMA TakeResultEffect ==
  ASSUME TypeOK, TakeResult
  PROVE  /\ received' \in Results /\ resultChannel = <<received'>>
         /\ resultChannel' = <<>> /\ resultClosed'
<1>1. PICK r \in Results : resultChannel = <<r>>
  BY DEF TypeOK, TakeResult
<1>2. Head(resultChannel) = r
  BY <1>1
<1> QED
  BY <1>1, <1>2 DEF TakeResult
LEMMA TypeStep == TypeOK /\ [Next]_vars => TypeOK'
<1> SUFFICES ASSUME TypeOK, [Next]_vars PROVE TypeOK'
  OBVIOUS
<1> USE Members, EmptySeq DEF TypeOK, Labels, Goto, Passing, future, history, waiterVars
<1>1. ASSUME NEW s \in Setters, SetIgnored(s) PROVE TypeOK'
  BY <1>1 DEF SetIgnored
<1>2. ASSUME NEW s \in Setters, SetLock(s) PROVE TypeOK'
  BY <1>2 DEF SetLock
<1>3. ASSUME NEW s \in Setters, SetSend(s) PROVE TypeOK'
  BY <1>3 DEF SetSend, Send
<1>4. ASSUME NEW s \in Setters, SetUnlock(s) PROVE TypeOK'
  BY <1>4 DEF SetUnlock
<1>5. ASSUME NEW c \in Cancellers, CancelIgnored(c) PROVE TypeOK'
  BY <1>5 DEF CancelIgnored
<1>6. ASSUME NEW c \in Cancellers, CancelLock(c) PROVE TypeOK'
  BY <1>6 DEF CancelLock
<1>7. ASSUME NEW c \in Cancellers, CancelSend(c) PROVE TypeOK'
  BY <1>7 DEF CancelSend, Send
<1>8. ASSUME NEW c \in Cancellers, CancelFlags(c) PROVE TypeOK'
  BY <1>8 DEF CancelFlags, Flags
<1>9. ASSUME NEW c \in Cancellers, RunHandler(c) PROVE TypeOK'
  <2>1. onCancel' \in Seq(Handlers) /\ calls' \in [Handlers -> Nat]
    BY <1>9, RunHandlerEffect
  <2> QED
    BY <1>9, <2>1 DEF RunHandler
<1>10. ASSUME NEW c \in Cancellers, CancelUnlock(c) PROVE TypeOK'
  BY <1>10 DEF CancelUnlock
<1>11. ASSUME NEW h \in Handlers, AddKept(h) PROVE TypeOK'
  <2>1. onCancel' \in Seq(Handlers)
    BY <1>11, AppendProperties DEF AddKept
  <2> QED
    BY <1>11, <2>1 DEF AddKept
<1>12. ASSUME NEW h \in Handlers, AddDropped(h) PROVE TypeOK'
  BY <1>12 DEF AddDropped
<1>13. ASSUME NEW h \in Handlers, AddLate(h) PROVE TypeOK'
  BY <1>13 DEF AddLate
<1>14. ASSUME NEW h \in Handlers, RunLate(h) PROVE TypeOK'
  <2>1. calls' \in [Handlers -> Nat]
    BY <1>14, RunLateEffect
  <2> QED
    BY <1>14, <2>1 DEF RunLate
<1>15. CASE WaitForResult
  BY <1>15 DEF WaitForResult, StartWait, verifyCanWait
<1>16. CASE WaitForResultOrKeyPress
  BY <1>16 DEF WaitForResultOrKeyPress, StartWait, verifyCanWait
<1>17. CASE GetResultNoWait
  <2>1. /\ received' \in Results /\ resultChannel = <<received'>>
        /\ resultChannel' = <<>> /\ resultClosed'
    BY <1>17, TakeResultEffect DEF GetResultNoWait
  <2> QED
    BY <1>17, <2>1 DEF GetResultNoWait, verifyCanWait
<1>18. CASE GetResultNoWaitNothing
  BY <1>18 DEF GetResultNoWaitNothing, StartWait, verifyCanWait
<1>19. CASE DuplicateWaiter
  BY <1>19 DEF DuplicateWaiter
<1>20. CASE KeyPress
  BY <1>20 DEF KeyPress
<1>21. CASE resultFromChannel
  <2>1. /\ received' \in Results /\ resultChannel = <<received'>>
        /\ resultChannel' = <<>> /\ resultClosed'
    BY <1>21, TakeResultEffect DEF resultFromChannel
  <2> QED
    BY <1>21, <2>1 DEF resultFromChannel, verifyCanWait
<1>22. CASE KeyCancelled
  BY <1>22 DEF KeyCancelled
<1>23. CASE KeyComplete
  <2>1. /\ received' \in Results /\ resultChannel = <<received'>>
        /\ resultChannel' = <<>> /\ resultClosed'
    BY <1>23, TakeResultEffect DEF KeyComplete
  <2> QED
    BY <1>23, <2>1 DEF KeyComplete, verifyCanWait
<1>24. CASE KeyCancels
  BY <1>24 DEF KeyCancels, Flags
<1>25. CASE KeyUnlock
  BY <1>25 DEF KeyUnlock
<1>26. CASE finalError
  BY <1>26 DEF finalError
<1>27. CASE RunHandler(Waiter)
  <2>1. onCancel' \in Seq(Handlers) /\ calls' \in [Handlers -> Nat]
    BY <1>27, RunHandlerEffect
  <2> QED
    BY <1>27, <2>1 DEF RunHandler
<1>28. CASE UNCHANGED vars
  BY <1>28 DEF vars
<1> QED
  BY <1>1, <1>2, <1>3, <1>4, <1>5, <1>6, <1>7, <1>8, <1>9, <1>10, <1>11, <1>12, <1>13, <1>14,
     <1>15, <1>16, <1>17, <1>18, <1>19, <1>20, <1>21, <1>22, <1>23, <1>24, <1>25, <1>26, <1>27,
     <1>28
  DEF Next, SetterStep, CancellerStep, AdderStep, WaiterStep, WaiterRuns

LEMMA RoleStep == TypeOK /\ RoleInv /\ [Next]_vars => RoleInv'
<1> SUFFICES ASSUME TypeOK, RoleInv, [Next]_vars PROVE RoleInv'
  OBVIOUS
<1> USE Members, Disjoint DEF TypeOK, RoleInv, Goto, Passing, future, history, waiterVars
<1>1. ASSUME NEW s \in Setters, SetIgnored(s) PROVE RoleInv'
  BY <1>1 DEF SetIgnored
<1>2. ASSUME NEW s \in Setters, SetLock(s) PROVE RoleInv'
  BY <1>2 DEF SetLock
<1>3. ASSUME NEW s \in Setters, SetSend(s) PROVE RoleInv'
  BY <1>3 DEF SetSend, Send
<1>4. ASSUME NEW s \in Setters, SetUnlock(s) PROVE RoleInv'
  BY <1>4 DEF SetUnlock
<1>5. ASSUME NEW c \in Cancellers, CancelIgnored(c) PROVE RoleInv'
  BY <1>5 DEF CancelIgnored
<1>6. ASSUME NEW c \in Cancellers, CancelLock(c) PROVE RoleInv'
  BY <1>6 DEF CancelLock
<1>7. ASSUME NEW c \in Cancellers, CancelSend(c) PROVE RoleInv'
  BY <1>7 DEF CancelSend, Send
<1>8. ASSUME NEW c \in Cancellers, CancelFlags(c) PROVE RoleInv'
  BY <1>8 DEF CancelFlags, Flags
<1>9. ASSUME NEW c \in Cancellers, RunHandler(c) PROVE RoleInv'
  BY <1>9 DEF RunHandler
<1>10. ASSUME NEW c \in Cancellers, CancelUnlock(c) PROVE RoleInv'
  BY <1>10 DEF CancelUnlock
<1>11. ASSUME NEW h \in Handlers, AddKept(h) PROVE RoleInv'
  BY <1>11 DEF AddKept
<1>12. ASSUME NEW h \in Handlers, AddDropped(h) PROVE RoleInv'
  BY <1>12 DEF AddDropped
<1>13. ASSUME NEW h \in Handlers, AddLate(h) PROVE RoleInv'
  BY <1>13 DEF AddLate
<1>14. ASSUME NEW h \in Handlers, RunLate(h) PROVE RoleInv'
  BY <1>14 DEF RunLate
<1>15. CASE WaitForResult
  BY <1>15 DEF WaitForResult, StartWait, verifyCanWait
<1>16. CASE WaitForResultOrKeyPress
  BY <1>16 DEF WaitForResultOrKeyPress, StartWait, verifyCanWait
<1>17. CASE GetResultNoWait
  BY <1>17 DEF GetResultNoWait, TakeResult, verifyCanWait
<1>18. CASE GetResultNoWaitNothing
  BY <1>18 DEF GetResultNoWaitNothing, StartWait, verifyCanWait
<1>19. CASE DuplicateWaiter
  BY <1>19 DEF DuplicateWaiter
<1>20. CASE KeyPress
  BY <1>20 DEF KeyPress
<1>21. CASE resultFromChannel
  BY <1>21 DEF resultFromChannel, TakeResult, verifyCanWait
<1>22. CASE KeyCancelled
  BY <1>22 DEF KeyCancelled
<1>23. CASE KeyComplete
  BY <1>23 DEF KeyComplete, TakeResult, verifyCanWait
<1>24. CASE KeyCancels
  BY <1>24 DEF KeyCancels, Flags
<1>25. CASE KeyUnlock
  BY <1>25 DEF KeyUnlock
<1>26. CASE finalError
  BY <1>26 DEF finalError
<1>27. CASE RunHandler(Waiter)
  BY <1>27 DEF RunHandler
<1>28. CASE UNCHANGED vars
  BY <1>28 DEF vars
<1> QED
  BY <1>1, <1>2, <1>3, <1>4, <1>5, <1>6, <1>7, <1>8, <1>9, <1>10, <1>11, <1>12, <1>13, <1>14,
     <1>15, <1>16, <1>17, <1>18, <1>19, <1>20, <1>21, <1>22, <1>23, <1>24, <1>25, <1>26, <1>27,
     <1>28
  DEF Next, SetterStep, CancellerStep, AdderStep, WaiterStep, WaiterRuns

LEMMA LockStep == TypeOK /\ RoleInv /\ LockInv /\ [Next]_vars => LockInv'
<1> SUFFICES ASSUME TypeOK, RoleInv, LockInv, [Next]_vars PROVE LockInv'
  OBVIOUS
<1> USE Members, Disjoint DEF TypeOK, RoleInv, LockInv, Goto, Passing, future, history, waiterVars
<1>1. ASSUME NEW s \in Setters, SetIgnored(s) PROVE LockInv'
  BY <1>1 DEF SetIgnored
<1>2. ASSUME NEW s \in Setters, SetLock(s) PROVE LockInv'
  BY <1>2 DEF SetLock
<1>3. ASSUME NEW s \in Setters, SetSend(s) PROVE LockInv'
  BY <1>3 DEF SetSend, Send
<1>4. ASSUME NEW s \in Setters, SetUnlock(s) PROVE LockInv'
  BY <1>4 DEF SetUnlock
<1>5. ASSUME NEW c \in Cancellers, CancelIgnored(c) PROVE LockInv'
  BY <1>5 DEF CancelIgnored
<1>6. ASSUME NEW c \in Cancellers, CancelLock(c) PROVE LockInv'
  BY <1>6 DEF CancelLock
<1>7. ASSUME NEW c \in Cancellers, CancelSend(c) PROVE LockInv'
  BY <1>7 DEF CancelSend, Send
<1>8. ASSUME NEW c \in Cancellers, CancelFlags(c) PROVE LockInv'
  BY <1>8 DEF CancelFlags, Flags
<1>9. ASSUME NEW c \in Cancellers, RunHandler(c) PROVE LockInv'
  BY <1>9 DEF RunHandler
<1>10. ASSUME NEW c \in Cancellers, CancelUnlock(c) PROVE LockInv'
  BY <1>10 DEF CancelUnlock
<1>11. ASSUME NEW h \in Handlers, AddKept(h) PROVE LockInv'
  BY <1>11 DEF AddKept
<1>12. ASSUME NEW h \in Handlers, AddDropped(h) PROVE LockInv'
  BY <1>12 DEF AddDropped
<1>13. ASSUME NEW h \in Handlers, AddLate(h) PROVE LockInv'
  BY <1>13 DEF AddLate
<1>14. ASSUME NEW h \in Handlers, RunLate(h) PROVE LockInv'
  BY <1>14 DEF RunLate
<1>15. CASE WaitForResult
  BY <1>15 DEF WaitForResult, StartWait, verifyCanWait
<1>16. CASE WaitForResultOrKeyPress
  BY <1>16 DEF WaitForResultOrKeyPress, StartWait, verifyCanWait
<1>17. CASE GetResultNoWait
  BY <1>17 DEF GetResultNoWait, TakeResult, verifyCanWait
<1>18. CASE GetResultNoWaitNothing
  BY <1>18 DEF GetResultNoWaitNothing, StartWait, verifyCanWait
<1>19. CASE DuplicateWaiter
  BY <1>19 DEF DuplicateWaiter
<1>20. CASE KeyPress
  BY <1>20 DEF KeyPress
<1>21. CASE resultFromChannel
  BY <1>21 DEF resultFromChannel, TakeResult, verifyCanWait
<1>22. CASE KeyCancelled
  BY <1>22 DEF KeyCancelled
<1>23. CASE KeyComplete
  BY <1>23 DEF KeyComplete, TakeResult, verifyCanWait
<1>24. CASE KeyCancels
  BY <1>24 DEF KeyCancels, Flags
<1>25. CASE KeyUnlock
  BY <1>25 DEF KeyUnlock
<1>26. CASE finalError
  BY <1>26 DEF finalError
<1>27. CASE RunHandler(Waiter)
  BY <1>27 DEF RunHandler
<1>28. CASE UNCHANGED vars
  BY <1>28 DEF vars
<1> QED
  BY <1>1, <1>2, <1>3, <1>4, <1>5, <1>6, <1>7, <1>8, <1>9, <1>10, <1>11, <1>12, <1>13, <1>14,
     <1>15, <1>16, <1>17, <1>18, <1>19, <1>20, <1>21, <1>22, <1>23, <1>24, <1>25, <1>26, <1>27,
     <1>28
  DEF Next, SetterStep, CancellerStep, AdderStep, WaiterStep, WaiterRuns

LEMMA PhaseStep == TypeOK /\ RoleInv /\ LockInv /\ PhaseInv /\ [Next]_vars => PhaseInv'
<1> SUFFICES ASSUME TypeOK, RoleInv, LockInv, PhaseInv, [Next]_vars PROVE PhaseInv'
  OBVIOUS
<1> USE Members, Disjoint DEF TypeOK, RoleInv, LockInv, PhaseInv, ByCancel, Goto, Passing, future,
                                history, waiterVars
<1>1. ASSUME NEW s \in Setters, SetIgnored(s) PROVE PhaseInv'
  BY <1>1 DEF SetIgnored
<1>2. ASSUME NEW s \in Setters, SetLock(s) PROVE PhaseInv'
  BY <1>2 DEF SetLock
<1>3. ASSUME NEW s \in Setters, SetSend(s) PROVE PhaseInv'
  <2>1. PICK r \in Results : Send(s, r)
    BY <1>3 DEF SetSend
  <2> QED
    BY <2>1 DEF Send
<1>4. ASSUME NEW s \in Setters, SetUnlock(s) PROVE PhaseInv'
  BY <1>4 DEF SetUnlock
<1>5. ASSUME NEW c \in Cancellers, CancelIgnored(c) PROVE PhaseInv'
  BY <1>5 DEF CancelIgnored
<1>6. ASSUME NEW c \in Cancellers, CancelLock(c) PROVE PhaseInv'
  BY <1>6 DEF CancelLock
<1>7. ASSUME NEW c \in Cancellers, CancelSend(c) PROVE PhaseInv'
  BY <1>7 DEF CancelSend, Send
<1>8. ASSUME NEW c \in Cancellers, CancelFlags(c) PROVE PhaseInv'
  BY <1>8 DEF CancelFlags, Flags
<1>9. ASSUME NEW c \in Cancellers, RunHandler(c) PROVE PhaseInv'
  BY <1>9 DEF RunHandler
<1>10. ASSUME NEW c \in Cancellers, CancelUnlock(c) PROVE PhaseInv'
  BY <1>10 DEF CancelUnlock
<1>11. ASSUME NEW h \in Handlers, AddKept(h) PROVE PhaseInv'
  BY <1>11 DEF AddKept
<1>12. ASSUME NEW h \in Handlers, AddDropped(h) PROVE PhaseInv'
  BY <1>12 DEF AddDropped
<1>13. ASSUME NEW h \in Handlers, AddLate(h) PROVE PhaseInv'
  BY <1>13 DEF AddLate
<1>14. ASSUME NEW h \in Handlers, RunLate(h) PROVE PhaseInv'
  BY <1>14 DEF RunLate
<1>15. CASE WaitForResult
  BY <1>15 DEF WaitForResult, StartWait, verifyCanWait
<1>16. CASE WaitForResultOrKeyPress
  BY <1>16 DEF WaitForResultOrKeyPress, StartWait, verifyCanWait
<1>17. CASE GetResultNoWait
  BY <1>17 DEF GetResultNoWait, TakeResult, verifyCanWait
<1>18. CASE GetResultNoWaitNothing
  BY <1>18 DEF GetResultNoWaitNothing, StartWait, verifyCanWait
<1>19. CASE DuplicateWaiter
  BY <1>19 DEF DuplicateWaiter
<1>20. CASE KeyPress
  BY <1>20 DEF KeyPress
<1>21. CASE resultFromChannel
  BY <1>21 DEF resultFromChannel, TakeResult, verifyCanWait
<1>22. CASE KeyCancelled
  BY <1>22 DEF KeyCancelled
<1>23. CASE KeyComplete
  BY <1>23 DEF KeyComplete, TakeResult, verifyCanWait
<1>24. CASE KeyCancels
  BY <1>24 DEF KeyCancels, Flags
<1>25. CASE KeyUnlock
  BY <1>25 DEF KeyUnlock
<1>26. CASE finalError
  BY <1>26 DEF finalError
<1>27. CASE RunHandler(Waiter)
  BY <1>27 DEF RunHandler
<1>28. CASE UNCHANGED vars
  BY <1>28 DEF vars
<1> QED
  BY <1>1, <1>2, <1>3, <1>4, <1>5, <1>6, <1>7, <1>8, <1>9, <1>10, <1>11, <1>12, <1>13, <1>14,
     <1>15, <1>16, <1>17, <1>18, <1>19, <1>20, <1>21, <1>22, <1>23, <1>24, <1>25, <1>26, <1>27,
     <1>28
  DEF Next, SetterStep, CancellerStep, AdderStep, WaiterStep, WaiterRuns

LEMMA ChannelStep == TypeOK /\ RoleInv /\ LockInv /\ PhaseInv /\ ChannelInv /\ [Next]_vars => ChannelInv'
<1> SUFFICES ASSUME TypeOK, RoleInv, LockInv, PhaseInv, ChannelInv, [Next]_vars PROVE ChannelInv'
  OBVIOUS
<1> USE Members, Disjoint DEF TypeOK, RoleInv, LockInv, PhaseInv, ChannelInv, ByCancel,
        Goto, Passing, future, history, waiterVars
<1>1. ASSUME NEW s \in Setters, SetIgnored(s) PROVE ChannelInv'
  BY <1>1 DEF SetIgnored
<1>2. ASSUME NEW s \in Setters, SetLock(s) PROVE ChannelInv'
  BY <1>2 DEF SetLock
<1>3. ASSUME NEW s \in Setters, SetSend(s) PROVE ChannelInv'
  <2>1. PICK r \in Results : Send(s, r)
    BY <1>3 DEF SetSend
  <2> QED
    BY <2>1 DEF Send
<1>4. ASSUME NEW s \in Setters, SetUnlock(s) PROVE ChannelInv'
  BY <1>4 DEF SetUnlock
<1>5. ASSUME NEW c \in Cancellers, CancelIgnored(c) PROVE ChannelInv'
  BY <1>5 DEF CancelIgnored
<1>6. ASSUME NEW c \in Cancellers, CancelLock(c) PROVE ChannelInv'
  BY <1>6 DEF CancelLock
<1>7. ASSUME NEW c \in Cancellers, CancelSend(c) PROVE ChannelInv'
  BY <1>7 DEF CancelSend, Send
<1>8. ASSUME NEW c \in Cancellers, CancelFlags(c) PROVE ChannelInv'
  BY <1>8 DEF CancelFlags, Flags
<1>9. ASSUME NEW c \in Cancellers, RunHandler(c) PROVE ChannelInv'
  BY <1>9 DEF RunHandler
<1>10. ASSUME NEW c \in Cancellers, CancelUnlock(c) PROVE ChannelInv'
  BY <1>10 DEF CancelUnlock
<1>11. ASSUME NEW h \in Handlers, AddKept(h) PROVE ChannelInv'
  BY <1>11 DEF AddKept
<1>12. ASSUME NEW h \in Handlers, AddDropped(h) PROVE ChannelInv'
  BY <1>12 DEF AddDropped
<1>13. ASSUME NEW h \in Handlers, AddLate(h) PROVE ChannelInv'
  BY <1>13 DEF AddLate
<1>14. ASSUME NEW h \in Handlers, RunLate(h) PROVE ChannelInv'
  BY <1>14 DEF RunLate
<1>15. CASE WaitForResult
  BY <1>15 DEF WaitForResult, StartWait, verifyCanWait
<1>16. CASE WaitForResultOrKeyPress
  BY <1>16 DEF WaitForResultOrKeyPress, StartWait, verifyCanWait
<1>17. CASE GetResultNoWait
  <2>1. /\ received' \in Results /\ resultChannel = <<received'>>
        /\ resultChannel' = <<>> /\ resultClosed'
    BY <1>17, TakeResultEffect DEF GetResultNoWait
  <2> QED
    BY <1>17, <2>1 DEF GetResultNoWait, verifyCanWait
<1>18. CASE GetResultNoWaitNothing
  BY <1>18 DEF GetResultNoWaitNothing, StartWait, verifyCanWait
<1>19. CASE DuplicateWaiter
  BY <1>19 DEF DuplicateWaiter
<1>20. CASE KeyPress
  BY <1>20 DEF KeyPress
<1>21. CASE resultFromChannel
  <2>1. /\ received' \in Results /\ resultChannel = <<received'>>
        /\ resultChannel' = <<>> /\ resultClosed'
    BY <1>21, TakeResultEffect DEF resultFromChannel
  <2> QED
    BY <1>21, <2>1 DEF resultFromChannel, verifyCanWait
<1>22. CASE KeyCancelled
  BY <1>22 DEF KeyCancelled
<1>23. CASE KeyComplete
  <2>1. /\ received' \in Results /\ resultChannel = <<received'>>
        /\ resultChannel' = <<>> /\ resultClosed'
    BY <1>23, TakeResultEffect DEF KeyComplete
  <2> QED
    BY <1>23, <2>1 DEF KeyComplete, verifyCanWait
<1>24. CASE KeyCancels
  BY <1>24 DEF KeyCancels, Flags
<1>25. CASE KeyUnlock
  BY <1>25 DEF KeyUnlock
<1>26. CASE finalError
  BY <1>26 DEF finalError
<1>27. CASE RunHandler(Waiter)
  BY <1>27 DEF RunHandler
<1>28. CASE UNCHANGED vars
  BY <1>28 DEF vars
<1> QED
  BY <1>1, <1>2, <1>3, <1>4, <1>5, <1>6, <1>7, <1>8, <1>9, <1>10, <1>11, <1>12, <1>13, <1>14,
     <1>15, <1>16, <1>17, <1>18, <1>19, <1>20, <1>21, <1>22, <1>23, <1>24, <1>25, <1>26, <1>27,
     <1>28
  DEF Next, SetterStep, CancellerStep, AdderStep, WaiterStep, WaiterRuns

LEMMA ElemsEmpty == Elems(<<>>) = {} /\ Distinct(<<>>)
BY DEF Elems, Distinct

LEMMA ElemsAppend ==
  ASSUME NEW S, NEW q \in Seq(S), NEW e \in S, e \notin Elems(q), Distinct(q)
  PROVE  Elems(Append(q, e)) = Elems(q) \union {e} /\ Distinct(Append(q, e))
BY DEF Elems, Distinct

LEMMA ElemsTail ==
  ASSUME NEW S, NEW q \in Seq(S), q # <<>>, Distinct(q)
  PROVE  /\ Head(q) \in S /\ Head(q) \in Elems(q) /\ Tail(q) \in Seq(S)
         /\ Elems(Tail(q)) = Elems(q) \ {Head(q)} /\ Distinct(Tail(q))
BY DEF Elems, Distinct

LEMMA ElemsIn ==
  ASSUME NEW S, NEW q \in Seq(S) PROVE Elems(q) \subseteq S
BY DEF Elems

\* The three steps that change onCancel or calls need the lemmas on sequences.
LEMMA HandlerRun ==
  ASSUME TypeOK, LockInv, PhaseInv, HandlerInv, NEW t \in Threads, RunHandler(t)
  PROVE  HandlerInv'
<1> DEFINE hd == Head(onCancel)
<1>1. onCancel \in Seq(Handlers) /\ onCancel # <<>> /\ Distinct(onCancel)
  BY DEF TypeOK, RunHandler, HandlerInv
<1>2. /\ hd \in Handlers /\ hd \in Elems(onCancel)
      /\ Elems(Tail(onCancel)) = Elems(onCancel) \ {hd} /\ Distinct(Tail(onCancel))
  BY <1>1, ElemsTail
<1>3. /\ onCancel' = Tail(onCancel)
      /\ \A g \in Handlers : calls'[g] = IF g = hd THEN calls[g] + 1 ELSE calls[g]
  BY RunHandlerEffect
<1>4. UNCHANGED <<pc, lock, isComplete, isCancelled, winner>>
  BY DEF RunHandler
<1>5. pc[t] = "handlers" /\ winner = t /\ isCancelled /\ lock = t
  BY DEF RunHandler, PhaseInv, LockInv
<1>6. pc[hd] = "done" /\ calls[hd] = 0 /\ lock \notin Setters
  BY <1>1, <1>2, <1>5 DEF HandlerInv
<1>7. Elems(onCancel') = Elems(onCancel) \ {hd} /\ Distinct(onCancel')
  BY <1>2, <1>3
<1>8. ASSUME NEW g \in Elems(onCancel') PROVE pc'[g] = "done" /\ calls'[g] = 0
  <2>1. g \in Handlers /\ g # hd /\ g \in Elems(onCancel)
    BY <1>1, <1>7, ElemsIn
  <2> QED
    BY <1>3, <1>4, <2>1 DEF HandlerInv
<1>9. ASSUME NEW g \in Handlers
      PROVE  /\ pc'[g] \in {"call", "late"} => calls'[g] = 0
             /\ calls'[g] <= 1
             /\ calls'[g] = 1 => isCancelled'
             /\ pc'[g] = "done" => calls'[g] = 1 \/ g \in Elems(onCancel')
                                   \/ lock' \in Setters \/ winner' \in Setters
  <2>1. CASE g = hd
    BY <1>3, <1>4, <1>5, <1>6, <2>1
  <2>2. CASE g # hd
    BY <1>3, <1>4, <1>7, <2>2 DEF HandlerInv
  <2> QED
    BY <2>1, <2>2
<1> QED
  BY <1>4, <1>5, <1>6, <1>7, <1>8, <1>9 DEF HandlerInv

LEMMA HandlerAdd ==
  ASSUME TypeOK, LockInv, HandlerInv, NEW h \in Handlers, AddKept(h)
  PROVE  HandlerInv'
<1>1. /\ pc[h] = "call" /\ ~isComplete /\ ~isCancelled /\ onCancel' = Append(onCancel, h)
      /\ pc' = [pc EXCEPT ![h] = "done"] /\ lock' = NoThread
      /\ UNCHANGED <<calls, isComplete, isCancelled, winner>>
  BY DEF AddKept, Passing, Goto, history
<1>2. onCancel \in Seq(Handlers) /\ pc \in [Threads -> Labels] /\ Distinct(onCancel)
  BY DEF TypeOK, HandlerInv
<1>3. h \notin Elems(onCancel) /\ calls[h] = 0
  BY <1>1 DEF HandlerInv
<1>4. Elems(onCancel') = Elems(onCancel) \union {h} /\ Distinct(onCancel')
  BY <1>1, <1>2, <1>3, ElemsAppend
<1>5. \A g \in Threads : pc'[g] = IF g = h THEN "done" ELSE pc[g]
  BY <1>1, <1>2
<1>6. lock' \notin Setters /\ lock = NoThread
  BY <1>1, Members DEF AddKept, Passing
<1>7. \A g \in Elems(onCancel') : pc'[g] = "done" /\ calls'[g] = 0
  BY <1>1, <1>2, <1>3, <1>4, <1>5, ElemsIn, Members DEF HandlerInv
<1>8. ASSUME NEW g \in Handlers
      PROVE  /\ pc'[g] \in {"call", "late"} => calls'[g] = 0
             /\ calls'[g] <= 1
             /\ calls'[g] = 1 => isCancelled'
             /\ pc'[g] = "done" => calls'[g] = 1 \/ g \in Elems(onCancel')
                                   \/ lock' \in Setters \/ winner' \in Setters
  BY <1>1, <1>4, <1>5, <1>6, Members DEF HandlerInv
<1> QED
  BY <1>1, <1>4, <1>6, <1>7, <1>8 DEF HandlerInv

LEMMA HandlerLate ==
  ASSUME TypeOK, LockInv, PhaseInv, HandlerInv, NEW h \in Handlers, RunLate(h)
  PROVE  HandlerInv'
<1>1. /\ pc[h] = "late" /\ pc' = [pc EXCEPT ![h] = "done"] /\ lock' = NoThread
      /\ UNCHANGED <<onCancel, isComplete, isCancelled, winner>>
  BY DEF RunLate, Goto, future
<1>2. \A g \in Handlers : calls'[g] = IF g = h THEN calls[g] + 1 ELSE calls[g]
  BY RunLateEffect
<1>3. isCancelled /\ lock = h /\ calls[h] = 0 /\ h \notin Elems(onCancel)
  BY <1>1, Members DEF LockInv, PhaseInv, HandlerInv
<1>4. \A g \in Threads : pc'[g] = IF g = h THEN "done" ELSE pc[g]
  BY <1>1 DEF TypeOK
<1>5. Elems(onCancel) \subseteq Handlers
  BY ElemsIn DEF TypeOK
<1>6. \A g \in Elems(onCancel) : pc'[g] = "done" /\ calls'[g] = 0
  BY <1>2, <1>3, <1>4, <1>5, Members DEF HandlerInv
<1>7. winner # h /\ winner \in Threads
  BY <1>3, Members, Disjoint DEF PhaseInv, ByCancel
<1>8. ASSUME NEW g \in Handlers
      PROVE  /\ pc'[g] \in {"call", "late"} => calls'[g] = 0
             /\ calls'[g] <= 1
             /\ calls'[g] = 1 => isCancelled'
             /\ pc'[g] = "done" => calls'[g] = 1 \/ g \in Elems(onCancel')
                                   \/ lock' \in Setters \/ winner' \in Setters
  <2>1. CASE g = h
    BY <1>1, <1>2, <1>3, <1>4, <2>1, Members
  <2>2. CASE g # h
    BY <1>1, <1>2, <1>3, <1>4, <2>2, Members, Disjoint DEF HandlerInv
  <2> QED
    BY <2>1, <2>2
<1> QED
  BY <1>1, <1>3, <1>4, <1>6, <1>7, <1>8, Members DEF HandlerInv

LEMMA HandlerStep == TypeOK /\ RoleInv /\ LockInv /\ PhaseInv /\ HandlerInv /\ [Next]_vars => HandlerInv'
<1> SUFFICES ASSUME TypeOK, RoleInv, LockInv, PhaseInv, HandlerInv, [Next]_vars PROVE HandlerInv'
  OBVIOUS
<1> USE Members, Disjoint, ElemsEmpty DEF TypeOK, RoleInv, LockInv, PhaseInv, HandlerInv, ByCancel,
        Goto, Passing, future, history, waiterVars
<1>0. Elems(onCancel) \subseteq Handlers
  BY ElemsIn
<1>1. ASSUME NEW s \in Setters, SetIgnored(s) PROVE HandlerInv'
  BY <1>0, <1>1 DEF SetIgnored
<1>2. ASSUME NEW s \in Setters, SetLock(s) PROVE HandlerInv'
  BY <1>0, <1>2 DEF SetLock
<1>3. ASSUME NEW s \in Setters, SetSend(s) PROVE HandlerInv'
  BY <1>0, <1>3 DEF SetSend, Send
<1>4. ASSUME NEW s \in Setters, SetUnlock(s) PROVE HandlerInv'
  BY <1>0, <1>4 DEF SetUnlock
<1>5. ASSUME NEW c \in Cancellers, CancelIgnored(c) PROVE HandlerInv'
  BY <1>0, <1>5 DEF CancelIgnored
<1>6. ASSUME NEW c \in Cancellers, CancelLock(c) PROVE HandlerInv'
  BY <1>0, <1>6 DEF CancelLock
<1>7. ASSUME NEW c \in Cancellers, CancelSend(c) PROVE HandlerInv'
  BY <1>0, <1>7 DEF CancelSend, Send
<1>8. ASSUME NEW c \in Cancellers, CancelFlags(c) PROVE HandlerInv'
  BY <1>0, <1>8 DEF CancelFlags, Flags
<1>9. ASSUME NEW c \in Cancellers, RunHandler(c) PROVE HandlerInv'
  BY <1>9, HandlerRun
<1>10. ASSUME NEW c \in Cancellers, CancelUnlock(c) PROVE HandlerInv'
  BY <1>0, <1>10 DEF CancelUnlock
<1>11. ASSUME NEW h \in Handlers, AddKept(h) PROVE HandlerInv'
  BY <1>11, HandlerAdd
<1>12. ASSUME NEW h \in Handlers, AddDropped(h) PROVE HandlerInv'
  BY <1>0, <1>12 DEF AddDropped
<1>13. ASSUME NEW h \in Handlers, AddLate(h) PROVE HandlerInv'
  BY <1>0, <1>13 DEF AddLate
<1>14. ASSUME NEW h \in Handlers, RunLate(h) PROVE HandlerInv'
  BY <1>14, HandlerLate
<1>15. CASE WaitForResult
  BY <1>0, <1>15 DEF WaitForResult, StartWait, verifyCanWait
<1>16. CASE WaitForResultOrKeyPress
  BY <1>0, <1>16 DEF WaitForResultOrKeyPress, StartWait, verifyCanWait
<1>17. CASE GetResultNoWait
  BY <1>0, <1>17 DEF GetResultNoWait, TakeResult, verifyCanWait
<1>18. CASE GetResultNoWaitNothing
  BY <1>0, <1>18 DEF GetResultNoWaitNothing, StartWait, verifyCanWait
<1>19. CASE DuplicateWaiter
  BY <1>0, <1>19 DEF DuplicateWaiter
<1>20. CASE KeyPress
  BY <1>0, <1>20 DEF KeyPress
<1>21. CASE resultFromChannel
  BY <1>0, <1>21 DEF resultFromChannel, TakeResult, verifyCanWait
<1>22. CASE KeyCancelled
  BY <1>0, <1>22 DEF KeyCancelled
<1>23. CASE KeyComplete
  BY <1>0, <1>23 DEF KeyComplete, TakeResult, verifyCanWait
<1>24. CASE KeyCancels
  BY <1>0, <1>24 DEF KeyCancels, Flags
<1>25. CASE KeyUnlock
  BY <1>0, <1>25 DEF KeyUnlock
<1>26. CASE finalError
  BY <1>0, <1>26 DEF finalError
<1>27. CASE RunHandler(Waiter)
  BY <1>27, HandlerRun
<1>28. CASE UNCHANGED vars
  BY <1>0, <1>28 DEF vars
<1> QED
  BY <1>1, <1>2, <1>3, <1>4, <1>5, <1>6, <1>7, <1>8, <1>9, <1>10, <1>11, <1>12, <1>13, <1>14,
     <1>15, <1>16, <1>17, <1>18, <1>19, <1>20, <1>21, <1>22, <1>23, <1>24, <1>25, <1>26, <1>27,
     <1>28
  DEF Next, SetterStep, CancellerStep, AdderStep, WaiterStep, WaiterRuns

LEMMA IndInvHolds == Spec => []IndInv
<1>1. Init => IndInv
  <2> SUFFICES ASSUME Init PROVE IndInv
    OBVIOUS
  <2>1. TypeOK
    BY EmptySeq DEF Init, TypeOK, Labels
  <2>2. RoleInv
    BY Members DEF Init, RoleInv
  <2>3. LockInv
    BY Members DEF Init, LockInv
  <2>4. PhaseInv
    BY Members DEF Init, PhaseInv, ByCancel
  <2>5. ChannelInv
    BY Members DEF Init, ChannelInv
  <2>6. HandlerInv
    BY Members, ElemsEmpty DEF Init, HandlerInv
  <2> QED
    BY <2>1, <2>2, <2>3, <2>4, <2>5, <2>6 DEF IndInv
<1>2. IndInv /\ [Next]_vars => IndInv'
  BY TypeStep, RoleStep, LockStep, PhaseStep, ChannelStep, HandlerStep DEF IndInv
<1> QED
  BY <1>1, <1>2, PTL DEF Spec

\* Every variable keeps its type, whatever the number of goroutines.
THEOREM TypeCorrect == Spec => []TypeOK
<1>1. IndInv => TypeOK
  BY DEF IndInv
<1> QED
  BY <1>1, IndInvHolds, PTL

\* With the lock held, no call finds the channel unable to take or to give.
THEOREM NeverBlocks == Spec => []ChannelNeverBlocksHolder
<1>1. IndInv => ChannelNeverBlocksHolder
  <2> SUFFICES ASSUME IndInv PROVE ChannelNeverBlocksHolder
    OBVIOUS
  <2>1. ASSUME NEW t \in Threads, pc[t] = "send" PROVE resultChannel = <<>> /\ ~resultClosed
    BY <2>1 DEF IndInv, PhaseInv, ChannelInv
  <2>2. ASSUME pc[Waiter] = "key", lock = NoThread, isComplete, ~isCancelled
        PROVE  resultChannel # <<>>
    <3>1. winner \in Setters
      BY <2>2 DEF IndInv, PhaseInv, ByCancel
    <3> QED
      BY <2>2, <3>1 DEF IndInv, ChannelInv
  <2> QED
    BY <2>1, <2>2 DEF ChannelNeverBlocksHolder
<1> QED
  BY <1>1, IndInvHolds, PTL

\* A handler is called at most once and only for a cancellation.
THEOREM HandlersFireOnlyOnCancel == Spec => []HandlersOnlyOnCancel
<1>1. IndInv => HandlersOnlyOnCancel
  BY DEF IndInv, PhaseInv, HandlerInv, HandlersOnlyOnCancel
<1> QED
  BY <1>1, IndInvHolds, PTL

\* No handler is lost between AddCancelHandler and a cancellation.
THEOREM EveryHandlerFires == Spec => []NoHandlerForgotten
<1>1. IndInv => NoHandlerForgotten
  <2> SUFFICES ASSUME IndInv, isCancelled, lock = NoThread, NEW h \in Handlers, pc[h] = "done"
               PROVE  calls[h] = 1
    BY DEF NoHandlerForgotten
  <2>1. winner # NoThread /\ winner \in Threads /\ winner \notin Setters
    BY Members, Disjoint DEF IndInv, PhaseInv, ByCancel
  <2>2. onCancel = <<>>
    BY <2>1, Members DEF IndInv, PhaseInv, LockInv, HandlerInv
  <2> QED
    BY <2>1, <2>2, ElemsEmpty, Members DEF IndInv, HandlerInv
<1> QED
  BY <1>1, IndInvHolds, PTL

\* The waiter receives what the future was settled with.
THEOREM DeliveryFaithful == Spec => []DeliveredIsSettled
<1>1. IndInv => DeliveredIsSettled
  BY DEF IndInv, ChannelInv, DeliveredIsSettled
<1> QED
  BY <1>1, IndInvHolds, PTL

\* The first completion is the only one.
THEOREM SettlesOnce == Spec => SettledOnce
<1>1. IndInv /\ [Next]_vars => [winner # NoThread => UNCHANGED <<winner, result>>]_vars
  <2> SUFFICES ASSUME IndInv, Next, winner # NoThread PROVE UNCHANGED <<winner, result>>
    OBVIOUS
  <2> USE DEF history
  <2>1. ASSUME NEW t \in Threads, NEW r, Send(t, r) PROVE FALSE
    BY <2>1 DEF Send, IndInv, PhaseInv
  <2>2. CASE KeyCancels
    BY <2>2, Members DEF KeyCancels, IndInv, PhaseInv, LockInv
  <2>3. ASSUME NEW s \in Setters, SetterStep(s) PROVE UNCHANGED <<winner, result>>
    BY <2>1, <2>3, Members DEF SetterStep, SetIgnored, SetLock, SetSend, SetUnlock
  <2>4. ASSUME NEW c \in Cancellers, CancellerStep(c) PROVE UNCHANGED <<winner, result>>
    BY <2>1, <2>4, Members
    DEF CancellerStep, CancelIgnored, CancelLock, CancelSend, CancelFlags, RunHandler, CancelUnlock
  <2>5. ASSUME NEW h \in Handlers, AdderStep(h) PROVE UNCHANGED <<winner, result>>
    BY <2>5 DEF AdderStep, AddKept, AddDropped, AddLate, RunLate
  <2>6. CASE WaiterStep
    BY <2>2, <2>6 DEF WaiterStep, WaiterRuns, WaitForResult, WaitForResultOrKeyPress, StartWait,
      GetResultNoWait, GetResultNoWaitNothing, DuplicateWaiter, KeyPress, resultFromChannel,
      KeyCancelled, KeyComplete, KeyUnlock, RunHandler, finalError
  <2> QED
    BY <2>3, <2>4, <2>5, <2>6 DEF Next
<1> QED
  BY <1>1, IndInvHolds, PTL DEF Spec, SettledOnce


\* Handlers are called as they should be, with whatever they race (Future.go:315-365).
THEOREM HandlersFireRight == Spec => []HandlersFire
<1>1. HandlersOnlyOnCancel /\ NoHandlerForgotten => HandlersFire
  BY DEF HandlersFire
<1> QED
  BY <1>1, HandlersFireOnlyOnCancel, EveryHandlerFires, PTL
-----------------------------------------------------------------------------
(* The refinement of OneShotResult *)

\* The handlers that have fired, as the one-shot result sees them.
Fired == {h \in Handlers : calls[h] > 0}

LEMMA OneShotInit == Init => OneShot!Init
<1> SUFFICES ASSUME Init PROVE OneShot!Init
  OBVIOUS
<1>1. ByCancel = FALSE
  BY Members DEF Init, ByCancel, Threads
<1>2. {h \in Handlers : calls[h] > 0} = {}
  BY DEF Init
<1> QED
  BY <1>1, <1>2 DEF Init, OneShot!Init

\* A send settles the result: the abstract Settle of a producer, or the abstract
\* Cancel.
LEMMA OneShotSend ==
  ASSUME IndInv, NEW t \in Setters \union Cancellers, NEW r \in Results, Send(t, r),
         t \in Cancellers => r = Empty
  PROVE  OneShot!Next
<1>1. winner = NoThread /\ result = NoResult
  BY Members DEF Send, IndInv, PhaseInv
<1>2. ByCancel = FALSE
  BY <1>1, Members DEF ByCancel
<1>3. UNCHANGED <<received, calls>> /\ winner' = t /\ result' = r
  BY DEF Send, waiterVars
<1>f. {h \in Handlers : calls'[h] > 0} = {h \in Handlers : calls[h] > 0}
  BY <1>3
<1>4. CASE t \in Setters
  <2>1. ByCancel' = FALSE
    BY <1>3, <1>4, Disjoint DEF ByCancel
  <2>2. OneShot!Settle(r)
    BY <1>1, <1>2, <1>3, <1>f, <2>1 DEF OneShot!Settle
  <2> QED
    BY <2>2 DEF OneShot!Next
<1>5. CASE t \in Cancellers
  <2>1. ByCancel' = TRUE
    BY <1>3, <1>5 DEF ByCancel
  <2>2. OneShot!Cancel
    BY <1>1, <1>2, <1>3, <1>5, <1>f, <2>1 DEF OneShot!Cancel
  <2> QED
    BY <2>2 DEF OneShot!Next
<1> QED
  BY <1>4, <1>5

\* What a call of a handler is in the abstract: it fires, and never fired before.
LEMMA OneShotFire ==
  ASSUME IndInv, isCancelled, UNCHANGED <<winner, result, received>>,
         NEW h \in Handlers, calls[h] = 0, calls' \in [Handlers -> Nat],
         \A g \in Handlers : calls'[g] = IF g = h THEN calls[g] + 1 ELSE calls[g]
  PROVE  OneShot!Next
<1>1. ByCancel /\ UNCHANGED ByCancel
  BY DEF IndInv, PhaseInv, ByCancel
<1>2. h \notin Fired
  BY DEF Fired
<1>3. Fired' = Fired \union {h}
  <2>1. \A g \in Handlers : calls[g] \in Nat
    BY DEF IndInv, TypeOK
  <2>2. \A g \in Handlers : calls'[g] > 0 <=> calls[g] > 0 \/ g = h
    BY <2>1
  <2> QED
    BY <2>2 DEF Fired
<1>4. OneShot!Fire(h)
  BY <1>1, <1>2, <1>3 DEF OneShot!Fire, Fired
<1> QED
  BY <1>4 DEF OneShot!Next

\* A step in which the waiter is given the settled result.
LEMMA OneShotDeliver ==
  ASSUME IndInv, UNCHANGED <<winner, result, calls>>, winner # NoThread, received' = result
  PROVE  [OneShot!Next]_OneShot!vars
<1>1. result # NoResult /\ UNCHANGED ByCancel
  BY Members DEF IndInv, PhaseInv, ByCancel
<1>2. CASE received = NoResult
  BY <1>1, <1>2 DEF OneShot!Deliver, OneShot!Next
<1>3. CASE received # NoResult
  <2>1. received' = received
    BY <1>3 DEF IndInv, ChannelInv
  <2> QED
    BY <1>1, <2>1 DEF OneShot!vars
<1> QED
  BY <1>2, <1>3

LEMMA OneShotStep == IndInv /\ [Next]_vars => [OneShot!Next]_OneShot!vars
<1> SUFFICES ASSUME IndInv, [Next]_vars PROVE [OneShot!Next]_OneShot!vars
  OBVIOUS
<1>same. ASSUME UNCHANGED <<winner, result, received, calls>> PROVE UNCHANGED OneShot!vars
  BY <1>same DEF OneShot!vars, ByCancel
<1> USE DEF history, waiterVars
<1>1. ASSUME NEW s \in Setters, SetterStep(s) PROVE [OneShot!Next]_OneShot!vars
  <2>1. CASE SetSend(s)
    <3>1. PICK r \in Results : Send(s, r)
      BY <2>1 DEF SetSend
    <3>2. s \in Setters \union Cancellers /\ s \notin Cancellers
      BY Disjoint
    <3> QED
      BY <3>1, <3>2, OneShotSend
  <2>2. CASE SetIgnored(s) \/ SetLock(s) \/ SetUnlock(s)
    BY <2>2, <1>same DEF SetIgnored, SetLock, SetUnlock
  <2> QED
    BY <1>1, <2>1, <2>2 DEF SetterStep
<1>2. ASSUME NEW t \in Cancellers \union {Waiter}, RunHandler(t) PROVE OneShot!Next
  <2> DEFINE h == Head(onCancel)
  <2>1. /\ h \in Handlers /\ calls' \in [Handlers -> Nat]
        /\ \A g \in Handlers : calls'[g] = IF g = h THEN calls[g] + 1 ELSE calls[g]
    BY <1>2, RunHandlerEffect DEF IndInv
  <2>2. isCancelled
    BY <1>2, Members DEF RunHandler, IndInv, PhaseInv
  <2>3. calls[h] = 0
    <3>1. onCancel \in Seq(Handlers) /\ onCancel # <<>>
      BY <1>2 DEF RunHandler, IndInv, TypeOK
    <3>2. h \in Elems(onCancel)
      BY <3>1 DEF Elems
    <3> QED
      BY <3>2 DEF IndInv, HandlerInv
  <2> QED
    BY <1>2, <2>1, <2>2, <2>3, OneShotFire DEF RunHandler
<1>3. ASSUME NEW c \in Cancellers, CancellerStep(c) PROVE [OneShot!Next]_OneShot!vars
  <2>1. CASE CancelSend(c)
    BY <2>1, Members, OneShotSend DEF CancelSend
  <2>2. CASE CancelIgnored(c) \/ CancelLock(c) \/ CancelFlags(c) \/ CancelUnlock(c)
    BY <2>2, <1>same DEF CancelIgnored, CancelLock, CancelFlags, CancelUnlock
  <2> QED
    BY <1>2, <1>3, <2>1, <2>2 DEF CancellerStep
<1>4. ASSUME NEW h \in Handlers, AdderStep(h) PROVE [OneShot!Next]_OneShot!vars
  <2>1. CASE RunLate(h)
    <3>1. isCancelled /\ calls[h] = 0
      BY <2>1, Members DEF RunLate, IndInv, PhaseInv, HandlerInv
    <3> QED
      BY <2>1, <3>1, RunLateEffect, OneShotFire DEF RunLate, IndInv
  <2>2. CASE AddKept(h) \/ AddDropped(h) \/ AddLate(h)
    BY <2>2, <1>same DEF AddKept, AddDropped, AddLate
  <2> QED
    BY <1>4, <2>1, <2>2 DEF AdderStep
<1>5. ASSUME WaiterStep PROVE [OneShot!Next]_OneShot!vars
  <2>1. ASSUME TakeResult, UNCHANGED <<winner, result, calls>>
        PROVE  [OneShot!Next]_OneShot!vars
    <3>1. resultChannel = <<received'>> /\ resultChannel # <<>>
      BY <2>1, TakeResultEffect DEF IndInv, TakeResult
    <3>2. winner # NoThread /\ received' = result
      BY <3>1 DEF IndInv, ChannelInv
    <3> QED
      BY <2>1, <3>2, OneShotDeliver
  <2>2. CASE GetResultNoWait \/ resultFromChannel \/ KeyComplete
    BY <2>1, <2>2 DEF GetResultNoWait, resultFromChannel, KeyComplete
  <2>3. CASE KeyCancelled \/ KeyUnlock
    <3>1. isCancelled
      BY <2>3, Members DEF KeyCancelled, KeyUnlock, IndInv, PhaseInv
    <3>2. ByCancel /\ result = Empty
      BY <3>1 DEF IndInv, PhaseInv
    <3>3. winner # NoThread
      BY <3>2, Members DEF ByCancel
    <3> QED
      BY <2>3, <3>2, <3>3, OneShotDeliver DEF KeyCancelled, KeyUnlock
  <2>4. CASE KeyCancels
    <3>1. winner = NoThread
      <4>1. winner = NoThread \/ pc[winner] = "sent"
        BY <2>4 DEF KeyCancels, IndInv, PhaseInv
      <4> QED
        BY <2>4, <4>1, Members DEF KeyCancels, IndInv, PhaseInv, LockInv, TypeOK
    <3>2. result = NoResult /\ ~ByCancel /\ ByCancel'
      BY <2>4, <3>1, Members DEF KeyCancels, IndInv, PhaseInv, ByCancel
    <3>3. OneShot!Cancel
      BY <2>4, <3>2 DEF KeyCancels, OneShot!Cancel
    <3> QED
      BY <3>3 DEF OneShot!Next
  <2>5. CASE WaitForResult \/ WaitForResultOrKeyPress \/ GetResultNoWaitNothing
             \/ DuplicateWaiter \/ KeyPress \/ finalError
    BY <2>5, <1>same DEF WaitForResult, WaitForResultOrKeyPress, GetResultNoWaitNothing, StartWait,
      DuplicateWaiter, KeyPress, finalError
  <2> QED
    BY <1>2, <1>5, <2>2, <2>3, <2>4, <2>5 DEF WaiterStep, WaiterRuns
<1>6. CASE UNCHANGED vars
  BY <1>6, <1>same DEF vars
<1> QED
  BY <1>1, <1>3, <1>4, <1>5, <1>6 DEF Next

\* Whatever the goroutines, their future is a one-shot result: every step of the
\* locks, flags and the channel is one of the abstract steps or changes nothing
\* that a user can see (Future.go).
THEOREM RefinesOneShot == Spec => ImplementsOneShot
<1>1. Init => OneShot!Init
  BY OneShotInit
<1>2. IndInv /\ [Next]_vars => [OneShot!Next]_OneShot!vars
  BY OneShotStep
<1> QED
  BY <1>1, <1>2, IndInvHolds, PTL DEF Spec, ImplementsOneShot, OneShot!Spec
=============================================================================
