--------------------------- MODULE MultiSetSolve ---------------------------
(***************************************************************************)
(* SolverHighsMultiProcess.Run of solve_highs/ProcessMultiSets.go: a first *)
(* solve, then variants of it on the threads of a group, with their        *)
(* results on one channel.                                                 *)
(*                                                                         *)
(* A run is a solve with its two futures: inner is that of RunHighsFuture  *)
(* (module SolverRuns), outer is mapped from it and chained to the cancel  *)
(* signal of the job (module CancelChain).  The goroutine of the solver    *)
(* sends interim solutions to resultChannel from a callback; the goroutine *)
(* that maps the first run, and the threads, send final results.           *)
(* The reader of resultChannel (Map_ChannelToChannel) reads until it is    *)
(* closed: a send and its receive are one step.                            *)
(***************************************************************************)
EXTENDS Naturals, Sequences, FiniteSets, FiniteSetsExt

CONSTANTS
  Initial,      \* the first run
  Blocks,       \* the variants that the first solution allows
  Threads,      \* of ForEach_Slice_Cancellable_PassError
  Targets,      \* the values of alternateTarget to consider; 0 is none
  Interim,      \* includeInterimResults
  NoBlock       \* a thread without a variant

Runs == Blocks \union {Initial}

ASSUME SolveAssumption ==
  /\ Initial \notin Blocks
  /\ NoBlock \notin Blocks
  /\ IsFiniteSet(Blocks)
  /\ Interim \in BOOLEAN
  /\ Targets \subseteq Nat

VARIABLES
  signal,        \* the cancel signal of the job
  chained,       \* its handlers: the runs to cancel
  interrupting,  \* runs whose outer future is cancelled and whose inner is next
  inner, outer,  \* the futures of each run
  solver,        \* where the goroutine of its solver is
  mapper,        \* where the goroutine between its futures is
  main,          \* where the callbacks of Run are
  plan,          \* blockPlanList: variants not handed out
  feeding,       \* does the goroutine of the index channel run?
  thread, block, \* where each thread is, and its variant
  shouldContinue,\* of the group
  groupErrors,   \* runs whose error the group has
  expected,      \* the result of expectedCount
  closed,        \* is resultChannel closed?
  finals,        \* runs whose final result was received
  errors,        \* runs whose error is in futureError
  panicked       \* was there a send on the closed channel?

cancelVars == <<signal, chained, interrupting>>
runVars == <<inner, outer, solver, mapper>>
groupVars == <<plan, feeding, thread, block, shouldContinue, groupErrors>>
resultVars == <<expected, closed, finals, errors, panicked>>
vars == <<cancelVars, runVars, main, groupVars, resultVars>>

Init ==
  /\ signal = "open" /\ chained = <<>> /\ interrupting = {}
  /\ inner = [r \in Runs |-> "none"]
  /\ outer = [r \in Runs |-> "none"]
  /\ solver = [r \in Runs |-> "none"]
  /\ mapper = [r \in Runs |-> "none"]
  /\ main = "start"
  /\ plan = {} /\ feeding = FALSE
  /\ thread = [t \in Threads |-> "idle"]
  /\ block = [t \in Threads |-> NoBlock]
  /\ shouldContinue = TRUE /\ groupErrors = {}
  /\ expected = 0 /\ closed = FALSE /\ finals = {} /\ errors = {}
  /\ panicked = FALSE

\* RunHighsFuture and FutureCancellable_MapValueError
StartRun(r) ==
  /\ inner' = [inner EXCEPT ![r] = "open"]
  /\ outer' = [outer EXCEPT ![r] = "open"]
  /\ solver' = [solver EXCEPT ![r] = "run"]
  /\ mapper' = [mapper EXCEPT ![r] = "wait"]

\* SetResult, SetResultError and SetResultEmpty of an outer future
SetOuter(r, how) == outer' = [outer EXCEPT ![r] = IF @ = "open" THEN how ELSE @]

\* A send of r's result; on a closed channel it panics.
Send(r) ==
  /\ panicked' = closed
  /\ finals' = IF closed THEN finals ELSE finals \union {r}
-----------------------------------------------------------------------------
(* Cancel of the job *)

Cancel ==
  /\ signal = "open"
  /\ signal' = "handlers"
  /\ UNCHANGED <<chained, interrupting, runVars, main, groupVars, resultVars>>

\* The outer future is cancelled; its own handler comes next.
CancelOuter(r) ==
  /\ outer[r] = "open"
  /\ outer' = [outer EXCEPT ![r] = "cancelled"]
  /\ interrupting' = interrupting \union {r}

HandleNext ==
  /\ signal = "handlers" /\ chained # <<>>
  /\ CancelOuter(Head(chained))
  /\ UNCHANGED <<signal, chained, inner, solver, mapper, main, groupVars, resultVars>>

HandleDone ==
  /\ signal = "handlers" /\ chained # <<>>
  /\ outer[Head(chained)] # "open" /\ Head(chained) \notin interrupting
  /\ chained' = Tail(chained)
  /\ UNCHANGED <<signal, interrupting, runVars, main, groupVars, resultVars>>

CancelDone ==
  /\ signal = "handlers" /\ chained = <<>>
  /\ signal' = "closed"
  /\ UNCHANGED <<chained, interrupting, runVars, main, groupVars, resultVars>>

CancelInner(r) ==
  /\ r \in interrupting
  /\ inner' = [inner EXCEPT ![r] = IF @ = "open" THEN "cancelled" ELSE @]
  /\ interrupting' = interrupting \ {r}
  /\ UNCHANGED <<signal, chained, outer, solver, mapper, main, groupVars, resultVars>>
-----------------------------------------------------------------------------
(* The goroutines of a run *)

Improve(r) ==
  /\ Interim
  /\ solver[r] = "run"
  /\ solver' = [solver EXCEPT ![r] = "interim"]
  /\ UNCHANGED <<cancelVars, inner, outer, mapper, main, groupVars, resultVars>>

SendInterim(r) ==
  /\ solver[r] = "interim"
  /\ panicked' = closed
  /\ solver' = [solver EXCEPT ![r] = "run"]
  /\ UNCHANGED <<cancelVars, inner, outer, mapper, main, groupVars, expected, closed, finals, errors>>

\* The solve ends, by itself or by the interrupt of CancelInner.
SolverEnds(r) ==
  /\ solver[r] = "run"
  /\ solver' = [solver EXCEPT ![r] = "done"]
  /\ inner' = [inner EXCEPT ![r] = IF @ = "open" THEN "solved" ELSE @]
  /\ UNCHANGED <<cancelVars, outer, mapper, main, groupVars, resultVars>>

MapperEnds(r, how) ==
  /\ SetOuter(r, how)
  /\ mapper' = [mapper EXCEPT ![r] = "done"]
  /\ UNCHANGED <<cancelVars, inner, solver, main, groupVars, resultVars>>

MapEmpty(r) == mapper[r] = "wait" /\ inner[r] = "cancelled" /\ MapperEnds(r, "empty")

\* No solution, or one that cannot be read.
MapError(r) == mapper[r] = "wait" /\ inner[r] = "solved" /\ MapperEnds(r, "error")

MapValue(r) ==
  /\ mapper[r] = "wait" /\ inner[r] = "solved"
  /\ r # Initial
  /\ MapperEnds(r, "value")

\* The mapper of the first run sends its result by itself, in a step of its own.
MapInitial ==
  /\ mapper[Initial] = "wait" /\ inner[Initial] = "solved"
  /\ mapper' = [mapper EXCEPT ![Initial] = "send"]
  /\ UNCHANGED <<cancelVars, inner, outer, solver, main, groupVars, resultVars>>

MapInitialSend ==
  /\ mapper[Initial] = "send"
  /\ Send(Initial)
  /\ mapper' = [mapper EXCEPT ![Initial] = "set"]
  /\ UNCHANGED <<cancelVars, inner, outer, solver, main, groupVars, expected, closed, errors>>

MapInitialSet == mapper[Initial] = "set" /\ MapperEnds(Initial, "value")
-----------------------------------------------------------------------------
(* Run and the callbacks it leaves behind *)

Start ==
  /\ main = "start"
  /\ StartRun(Initial)
  /\ main' = "chain"
  /\ UNCHANGED <<cancelVars, groupVars, resultVars>>

ChainFirst ==
  /\ main = "chain" /\ signal = "open"
  /\ chained' = Append(chained, Initial)
  /\ main' = "wait"
  /\ UNCHANGED <<signal, interrupting, runVars, groupVars, resultVars>>

\* ChainCancel after the cancellation cancels the run there and then.
ChainFirstLate ==
  /\ main = "chain" /\ signal = "closed"
  /\ CancelOuter(Initial)
  /\ UNCHANGED <<signal, chained, inner, solver, mapper, main, groupVars, resultVars>>

ChainFirstDone ==
  /\ main = "chain" /\ signal = "closed"
  /\ outer[Initial] # "open" /\ Initial \notin interrupting
  /\ main' = "wait"
  /\ UNCHANGED <<cancelVars, runVars, groupVars, resultVars>>

\* chooseVariantsToRun: shuffled, and cut off at target - 1.
Chosen(target) == IF target = 0 THEN Cardinality(Blocks)
                  ELSE Min({target - 1, Cardinality(Blocks)})

\* Mutant: the count does not include the first result.
FirstSolvedShort(target) ==
  /\ main = "wait" /\ outer[Initial] = "value"
  /\ plan' \in kSubset(Chosen(target), Blocks)
  /\ expected' = Cardinality(plan')
  /\ feeding' = TRUE
  /\ main' = "variants"
  /\ UNCHANGED <<cancelVars, runVars, thread, block, shouldContinue, groupErrors, closed, finals,
                 errors, panicked>>

FirstSolved(target) ==
  /\ main = "wait" /\ outer[Initial] = "value"
  /\ plan' \in kSubset(Chosen(target), Blocks)
  /\ expected' = Cardinality(plan') + 1
  /\ feeding' = TRUE
  /\ main' = "variants"
  /\ UNCHANGED <<cancelVars, runVars, thread, block, shouldContinue, groupErrors, closed, finals,
                 errors, panicked>>

\* AlternateModeNone
FirstOnly ==
  /\ main = "wait" /\ outer[Initial] = "value"
  /\ expected' = 1
  /\ main' = "close"
  /\ UNCHANGED <<cancelVars, runVars, groupVars, closed, finals, errors, panicked>>

\* Mutant: a cancelled first solve leaves the channel open.
FirstFailedOpen ==
  /\ main = "wait" /\ outer[Initial] = "error"
  /\ expected' = 0 /\ closed' = TRUE
  /\ main' = "failed"
  /\ UNCHANGED <<cancelVars, runVars, groupVars, finals, errors, panicked>>

FirstFailed ==
  /\ main = "wait" /\ outer[Initial] \in {"error", "cancelled", "empty"}
  /\ expected' = 0 /\ closed' = TRUE
  /\ main' = "failed"
  /\ UNCHANGED <<cancelVars, runVars, groupVars, finals, errors, panicked>>

FailedAddError ==
  /\ main = "failed"
  /\ errors' = IF outer[Initial] = "error" THEN errors \union {Initial} ELSE errors
  /\ main' = "ended"
  /\ UNCHANGED <<cancelVars, runVars, groupVars, expected, closed, finals, panicked>>
-----------------------------------------------------------------------------
(* generateWithDifferentVariants *)

Goto(t, label) == thread' = [thread EXCEPT ![t] = label]

ThreadIdle(t) == Goto(t, "idle") /\ block' = [block EXCEPT ![t] = NoBlock]

\* Mutant: the thread is not told which variant is its own.
TakeUnnamed(t, b) ==
  /\ feeding /\ thread[t] = "idle" /\ b \in plan
  /\ shouldContinue
  /\ plan' = plan \ {b}
  /\ StartRun(b)
  /\ Goto(t, "chain")
  /\ UNCHANGED <<cancelVars, main, feeding, block, shouldContinue, groupErrors, resultVars>>

Take(t, b) ==
  /\ feeding /\ thread[t] = "idle" /\ b \in plan
  /\ shouldContinue
  /\ plan' = plan \ {b}
  /\ StartRun(b)
  /\ Goto(t, "chain") /\ block' = [block EXCEPT ![t] = b]
  /\ UNCHANGED <<cancelVars, main, feeding, shouldContinue, groupErrors, resultVars>>

\* After an error the variants that are left are passed over.
TakeSkipped(t, b) ==
  /\ feeding /\ thread[t] = "idle" /\ b \in plan
  /\ ~shouldContinue
  /\ plan' = plan \ {b}
  /\ UNCHANGED <<cancelVars, runVars, main, feeding, thread, block, shouldContinue, groupErrors,
                 resultVars>>

\* Mutant: the index channel is closed only by a cancellation.
FeedEndsBySignal ==
  /\ feeding
  /\ signal = "closed"
  /\ feeding' = FALSE
  /\ UNCHANGED <<cancelVars, runVars, main, plan, thread, block, shouldContinue, groupErrors,
                 resultVars>>

FeedEnds ==
  /\ feeding
  /\ plan = {} \/ signal = "closed"
  /\ feeding' = FALSE
  /\ UNCHANGED <<cancelVars, runVars, main, plan, thread, block, shouldContinue, groupErrors,
                 resultVars>>

\* Mutant: the signal is not looked at: the handler is kept for nothing.
ChainVariantAlways(t) ==
  /\ thread[t] = "chain" /\ signal # "handlers"
  /\ chained' = Append(chained, block[t])
  /\ Goto(t, "wait")
  /\ UNCHANGED <<signal, interrupting, runVars, main, plan, feeding, block, shouldContinue,
                 groupErrors, resultVars>>

ChainVariant(t) ==
  /\ thread[t] = "chain" /\ signal = "open"
  /\ chained' = Append(chained, block[t])
  /\ Goto(t, "wait")
  /\ UNCHANGED <<signal, interrupting, runVars, main, plan, feeding, block, shouldContinue,
                 groupErrors, resultVars>>

ChainVariantLate(t) ==
  /\ thread[t] = "chain" /\ signal = "closed"
  /\ CancelOuter(block[t])
  /\ UNCHANGED <<signal, chained, inner, solver, mapper, main, groupVars, resultVars>>

ChainVariantDone(t) ==
  /\ thread[t] = "chain" /\ signal = "closed"
  /\ outer[block[t]] # "open" /\ block[t] \notin interrupting
  /\ Goto(t, "wait")
  /\ UNCHANGED <<cancelVars, runVars, main, plan, feeding, block, shouldContinue, groupErrors,
                 resultVars>>

VariantEmpty(t) ==
  /\ thread[t] = "wait" /\ outer[block[t]] \in {"cancelled", "empty"}
  /\ ThreadIdle(t)
  /\ UNCHANGED <<cancelVars, runVars, main, plan, feeding, shouldContinue, groupErrors, resultVars>>

\* Mutant: only the first error of the group is kept.
VariantErrorFirst(t) ==
  /\ thread[t] = "wait" /\ outer[block[t]] = "error"
  /\ groupErrors' = IF groupErrors = {} THEN {block[t]} ELSE groupErrors
  /\ shouldContinue' = FALSE
  /\ ThreadIdle(t)
  /\ UNCHANGED <<cancelVars, runVars, main, plan, feeding, resultVars>>

VariantError(t) ==
  /\ thread[t] = "wait" /\ outer[block[t]] = "error"
  /\ groupErrors' = groupErrors \union {block[t]}
  /\ shouldContinue' = FALSE
  /\ ThreadIdle(t)
  /\ UNCHANGED <<cancelVars, runVars, main, plan, feeding, resultVars>>

VariantSolved(t) ==
  /\ thread[t] = "wait" /\ outer[block[t]] = "value"
  /\ Goto(t, "send")
  /\ UNCHANGED <<cancelVars, runVars, main, plan, feeding, block, shouldContinue, groupErrors,
                 resultVars>>

VariantSend(t) ==
  /\ thread[t] = "send"
  /\ Send(block[t])
  /\ ThreadIdle(t)
  /\ UNCHANGED <<cancelVars, runVars, main, plan, feeding, shouldContinue, groupErrors, expected,
                 closed, errors>>

\* Mutant: the threads are not waited for.
GroupDoneEarly ==
  /\ main = "variants" /\ ~feeding
  /\ errors' = errors \union groupErrors
  /\ main' = "close"
  /\ UNCHANGED <<cancelVars, runVars, groupVars, expected, closed, finals, panicked>>

\* Every thread has ended: the errors of the group are added.
GroupDone ==
  /\ main = "variants" /\ ~feeding /\ \A t \in Threads : thread[t] = "idle"
  /\ errors' = errors \union groupErrors
  /\ main' = "close"
  /\ UNCHANGED <<cancelVars, runVars, groupVars, expected, closed, finals, panicked>>

Close ==
  /\ main = "close"
  /\ closed' = TRUE
  /\ main' = "ended"
  /\ UNCHANGED <<cancelVars, runVars, groupVars, expected, finals, errors, panicked>>
-----------------------------------------------------------------------------
CancelStep == HandleNext \/ HandleDone \/ CancelDone \/ \E r \in Runs : CancelInner(r)

MapperStep(r) ==
  \/ MapEmpty(r) \/ MapError(r) \/ MapValue(r)
  \/ r = Initial /\ (MapInitial \/ MapInitialSend \/ MapInitialSet)

MainStep ==
  \/ Start \/ ChainFirst \/ ChainFirstLate \/ ChainFirstDone
  \/ (\E target \in Targets : FirstSolved(target)) \/ FirstOnly
  \/ FirstFailed \/ FailedAddError
  \/ FeedEnds \/ GroupDone \/ Close

ThreadStep(t) ==
  \/ \E b \in Blocks : Take(t, b) \/ TakeSkipped(t, b)
  \/ ChainVariant(t) \/ ChainVariantLate(t) \/ ChainVariantDone(t)
  \/ VariantEmpty(t) \/ VariantError(t) \/ VariantSolved(t) \/ VariantSend(t)

SolverStep(r) == Improve(r) \/ SendInterim(r) \/ SolverEnds(r)

\* A panic stops the program.
Next ==
  /\ ~panicked
  /\ \/ Cancel \/ CancelStep \/ MainStep
     \/ \E r \in Runs : SolverStep(r) \/ MapperStep(r)
     \/ \E t \in Threads : ThreadStep(t)

Spec == Init /\ [][Next]_vars

\* Goroutines run.  Nobody has to cancel, and no solver has to end: one with a
\* callback does not look at its interrupt.
FairSpec ==
  /\ Spec
  /\ WF_vars(~panicked /\ CancelStep) /\ WF_vars(~panicked /\ MainStep)
  /\ \A r \in Runs : WF_vars(~panicked /\ MapperStep(r))
  /\ \A t \in Threads : WF_vars(~panicked /\ ThreadStep(t))
-----------------------------------------------------------------------------
(* Properties *)

TypeOK ==
  /\ signal \in {"open", "handlers", "closed"}
  /\ chained \in Seq(Runs)
  /\ interrupting \subseteq Runs
  /\ inner \in [Runs -> {"none", "open", "cancelled", "solved"}]
  /\ outer \in [Runs -> {"none", "open", "cancelled", "empty", "error", "value"}]
  /\ solver \in [Runs -> {"none", "run", "interim", "done"}]
  /\ mapper \in [Runs -> {"none", "wait", "send", "set", "done"}]
  /\ main \in {"start", "chain", "wait", "variants", "close", "failed", "ended"}
  /\ plan \subseteq Blocks
  /\ feeding \in BOOLEAN
  /\ thread \in [Threads -> {"idle", "chain", "wait", "send"}]
  /\ block \in [Threads -> Blocks \union {NoBlock}]
  /\ \A t \in Threads : thread[t] # "idle" => block[t] \in Blocks
  /\ shouldContinue \in BOOLEAN
  /\ groupErrors \subseteq Blocks
  /\ expected \in Nat
  /\ closed \in BOOLEAN
  /\ finals \subseteq Runs
  /\ errors \subseteq Runs
  /\ panicked \in BOOLEAN

\* Unless the job was cancelled nobody sends on the closed channel: the close
\* comes after the last result of the threads and of every solver.
ClosedLast == panicked => signal # "open"

\* A job that runs to its end without an error has sent just the results that
\* expectedCount has promised.
AsExpected ==
  main = "ended" /\ signal = "open" /\ errors = {} => Cardinality(finals) = expected

\* At the end every error of a run is in futureError, whatever the others did.
ErrorsTold == main = "ended" => \A r \in Runs : outer[r] = "error" => r \in errors

\* The reader gets as many results as it was told to expect, or is told why not.
ResultsTold == AsExpected /\ ErrorsTold

\* After a cancellation no thread waits for a run that nobody cancels, though
\* it may have been started during it.
NoneLeftRunning ==
  signal = "closed" =>
    \A t \in Threads : thread[t] = "wait" => outer[block[t]] # "open"

\* A cancellation ends the results without waiting for a solver.
CancelEnds == signal # "open" ~> closed \/ panicked

\* If every solver ends, so do the results.
Ends == (\A r \in Runs : solver[r] = "run" ~> solver[r] = "done") => <>(closed \/ panicked)

\* The results end, whether by themselves or by a cancellation.
ResultsEnd == CancelEnds /\ Ends

\* Pressing a key stops the search, and the program goes on to report what it
\* has, or "cancelled without result" (multi/run.go:128).
NeverPanics == ~panicked
=============================================================================
