----------------------------- MODULE SolverRuns -----------------------------
(***************************************************************************)
(* Solver runs of util_highs/run.go over the pool of highs_pool.go.        *)
(*                                                                         *)
(* A run takes a solver from the pool or makes one, prepares it, hands its *)
(* future to the caller and solves in a goroutine of its own.  Whoever     *)
(* cancels the future sets the interrupt flag of the solver, under the     *)
(* lock of the future.  At the end the run clears the solver, sets its     *)
(* result and puts the solver back, unless the solver has failed.          *)
(*                                                                         *)
(* Of the future only what this protocol can see is kept: Cancel and       *)
(* SetResult exclude each other (module FutureCancellable).  The pool's    *)
(* mutex is held within a step.  The solver itself is outside: it may      *)
(* fail whenever it is called, and a solve ends by itself in the end.      *)
(***************************************************************************)
EXTENDS Naturals, Sequences, SequencesExt, FiniteSets

CONSTANTS
  Runs,         \* calls of RunHighsFuture, each with a goroutine
  Solvers,      \* names for the solvers that NewSolver makes
  Callbacks,    \* runs whose builder has a Callback of its own
  RequireGpu,   \* runs with requireGpu
  OptionalGpu,  \* runs with optionalGpu
  NoSolver,     \* a run without a solver
  NoRun         \* a mutex that is free

ASSUME RunsAssumption ==
  /\ Callbacks \subseteq Runs
  /\ RequireGpu \subseteq Runs /\ OptionalGpu \subseteq Runs
  /\ RequireGpu \intersect OptionalGpu = {}
  /\ NoSolver \notin Solvers
  /\ NoRun \notin Runs

VARIABLES
  made,         \* solvers that exist
  instances,    \* solvers in the pool
  flag,         \* GoHighsInterruptFlags: the flag that the solver looks at
  gpuMutex,     \* holder of g_gpuMutex
  run,          \* where each run is
  solver,       \* its solver
  good,         \* has solver.Run returned without an error?
  future,       \* its future
  cancelling,   \* futures whose Cancel holds the lock
  interrupted   \* history: runs that a flag has stopped

vars == <<made, instances, flag, gpuMutex, run, solver, good, future, cancelling, interrupted>>

Init ==
  /\ made = {} /\ instances = <<>>
  /\ flag = [s \in Solvers |-> FALSE]
  /\ gpuMutex = NoRun
  /\ run = [r \in Runs |-> "call"]
  /\ solver = [r \in Runs |-> NoSolver]
  /\ good = [r \in Runs |-> FALSE]
  /\ future = [r \in Runs |-> "none"]
  /\ cancelling = {} /\ interrupted = {}

Goto(r, label) == run' = [run EXCEPT ![r] = label]
-----------------------------------------------------------------------------
(* RunHighsFuture *)

Get(r) ==
  /\ run[r] = "call" /\ instances # <<>>
  /\ solver' = [solver EXCEPT ![r] = Last(instances)]
  /\ instances' = Front(instances)
  /\ Goto(r, "prepare")
  /\ UNCHANGED <<made, flag, gpuMutex, good, future, cancelling, interrupted>>

\* One name is as good as another.
NewSolver(r) ==
  LET s == CHOOSE s \in Solvers : s \notin made IN
  /\ run[r] = "call" /\ instances = <<>>
  /\ made # Solvers
  /\ made' = made \union {s}
  /\ solver' = [solver EXCEPT ![r] = s]
  /\ Goto(r, "prepare")
  /\ UNCHANGED <<instances, flag, gpuMutex, good, future, cancelling, interrupted>>

\* Mutant: the error is not looked at.
NoNewSolverIgnored(r) ==
  /\ run[r] = "call" /\ instances = <<>>
  /\ Goto(r, "prepare")
  /\ UNCHANGED <<made, instances, flag, gpuMutex, solver, good, future, cancelling, interrupted>>

\* NewSolver fails: makeImmediateError without a solver.
NoNewSolver(r) ==
  /\ run[r] = "call" /\ instances = <<>>
  /\ future' = [future EXCEPT ![r] = "result"]
  /\ Goto(r, "done")
  /\ UNCHANGED <<made, instances, flag, gpuMutex, solver, good, cancelling, interrupted>>

\* Mutant: the flag is left as the solver's last run has left it.
PrepareStale(r) ==
  /\ run[r] = "prepare"
  /\ future' = [future EXCEPT ![r] = "open"]
  /\ Goto(r, "gpu")
  /\ UNCHANGED <<made, instances, flag, gpuMutex, solver, good, cancelling, interrupted>>

\* InterruptSupportEnable and InterruptSupportDisable; SetCallback and
\* ClearCallback leave this flag alone.
Reset(r) == flag' = [flag EXCEPT ![solver[r]] = @ /\ r \in Callbacks]

\* configureHighsUtil; then makeFuture adds the cancel handler and the
\* goroutine starts.
Prepare(r) ==
  /\ run[r] = "prepare"
  /\ Reset(r)
  /\ future' = [future EXCEPT ![r] = "open"]
  /\ Goto(r, "gpu")
  /\ UNCHANGED <<made, instances, gpuMutex, solver, good, cancelling, interrupted>>

Put(r) ==
  /\ instances' = Append(instances, solver[r])
  /\ solver' = [solver EXCEPT ![r] = NoSolver]

\* Preparing fails: makeImmediateError cleans up and returns the solver.
PrepareFails(r) ==
  /\ run[r] = "prepare"
  /\ Reset(r)
  /\ Put(r)
  /\ future' = [future EXCEPT ![r] = "result"]
  /\ Goto(r, "done")
  /\ UNCHANGED <<made, gpuMutex, good, cancelling, interrupted>>
-----------------------------------------------------------------------------
(* runSolveThread *)

\* Mutant: the flag is reset when the solve begins.
BeginResets(r) ==
  /\ run[r] = "gpu" /\ r \notin RequireGpu
  /\ flag' = [flag EXCEPT ![solver[r]] = FALSE]
  /\ Goto(r, "solve")
  /\ UNCHANGED <<made, instances, gpuMutex, solver, good, future, cancelling, interrupted>>

\* A run without the GPU, or one whose TryLock fails.
Begin(r) ==
  /\ run[r] = "gpu" /\ r \notin RequireGpu
  /\ r \in OptionalGpu => gpuMutex # NoRun
  /\ Goto(r, "solve")
  /\ UNCHANGED <<made, instances, flag, gpuMutex, solver, good, future, cancelling, interrupted>>

\* Falling back to another algorithm fails.
BeginFails(r) ==
  /\ run[r] = "gpu" /\ r \in OptionalGpu /\ gpuMutex # NoRun
  /\ Goto(r, "cleanup")
  /\ UNCHANGED <<made, instances, flag, gpuMutex, solver, good, future, cancelling, interrupted>>

BeginGpu(r) ==
  /\ run[r] = "gpu" /\ r \in RequireGpu \union OptionalGpu
  /\ gpuMutex = NoRun
  /\ gpuMutex' = r
  /\ Goto(r, "solve")
  /\ UNCHANGED <<made, instances, flag, solver, good, future, cancelling, interrupted>>

ReleaseGpu(r) == gpuMutex' = IF gpuMutex = r THEN NoRun ELSE gpuMutex

\* Mutant: the mutex is not released after an error.
SolvedLocked(r, ok) ==
  /\ run[r] = "solve"
  /\ good' = [good EXCEPT ![r] = ok]
  /\ IF ok THEN ReleaseGpu(r) ELSE UNCHANGED gpuMutex
  /\ Goto(r, "cleanup")
  /\ UNCHANGED <<made, instances, flag, solver, future, cancelling, interrupted>>

\* solver.Run returns by itself, with an error or without.
Solved(r, ok) ==
  /\ run[r] = "solve"
  /\ good' = [good EXCEPT ![r] = ok]
  /\ ReleaseGpu(r)
  /\ Goto(r, "cleanup")
  /\ UNCHANGED <<made, instances, flag, solver, future, cancelling, interrupted>>

\* The solver asks for the flag and stops.  It does not ask in a run with a
\* callback: SetCallback is given build.CallbackTypes, without the types that
\* configureHighsUtil has added for it.
Interrupt(r) ==
  /\ run[r] = "solve" /\ r \notin Callbacks
  /\ flag[solver[r]]
  /\ good' = [good EXCEPT ![r] = TRUE]
  /\ interrupted' = interrupted \union {r}
  /\ ReleaseGpu(r)
  /\ Goto(r, "cleanup")
  /\ UNCHANGED <<made, instances, flag, solver, future, cancelling>>

\* Mutant: the solver goes back before the result is set.
CleanupPuts(r) ==
  /\ run[r] = "cleanup" /\ good[r]
  /\ Reset(r)
  /\ instances' = Append(instances, solver[r])
  /\ Goto(r, "set")
  /\ UNCHANGED <<made, gpuMutex, solver, good, future, cancelling, interrupted>>

\* postRunCleanup
Cleanup(r) ==
  /\ run[r] = "cleanup"
  /\ Reset(r)
  /\ Goto(r, "set")
  /\ UNCHANGED <<made, instances, gpuMutex, solver, good, future, cancelling, interrupted>>

\* SetResult settles nothing when the future was cancelled.
Settle(r) ==
  /\ r \notin cancelling
  /\ future' = [future EXCEPT ![r] = IF @ = "open" THEN "result" ELSE @]

\* Mutant: a solver goes back only if its result was wanted.
SetResultKeeps(r) ==
  /\ run[r] = "set"
  /\ Settle(r)
  /\ Goto(r, IF good[r] /\ future[r] = "open" THEN "put" ELSE "done")
  /\ UNCHANGED <<made, instances, flag, gpuMutex, solver, good, cancelling, interrupted>>

SetResult(r) ==
  /\ run[r] = "set"
  /\ Settle(r)
  /\ Goto(r, IF good[r] THEN "put" ELSE "done")
  /\ UNCHANGED <<made, instances, flag, gpuMutex, solver, good, cancelling, interrupted>>

PutBack(r) ==
  /\ run[r] = "put"
  /\ Put(r)
  /\ Goto(r, "done")
  /\ UNCHANGED <<made, flag, gpuMutex, good, future, cancelling, interrupted>>
-----------------------------------------------------------------------------
(* Cancel of the future *)

CancelLock(r) ==
  /\ future[r] = "open"
  /\ future' = [future EXCEPT ![r] = "cancelled"]
  /\ cancelling' = cancelling \union {r}
  /\ UNCHANGED <<made, instances, flag, gpuMutex, run, solver, good, interrupted>>

\* The cancel handler: InterruptSetFlag(true).
CancelFlag(r) ==
  /\ r \in cancelling
  /\ flag' = [flag EXCEPT ![solver[r]] = TRUE]
  /\ cancelling' = cancelling \ {r}
  /\ UNCHANGED <<made, instances, gpuMutex, run, solver, good, future, interrupted>>
-----------------------------------------------------------------------------
RunStep(r) ==
  \/ Get(r) \/ NewSolver(r) \/ NoNewSolver(r)
  \/ Prepare(r) \/ PrepareFails(r)
  \/ Begin(r) \/ BeginFails(r) \/ BeginGpu(r)
  \/ (\E ok \in BOOLEAN : Solved(r, ok)) \/ Interrupt(r)
  \/ Cleanup(r) \/ SetResult(r) \/ PutBack(r)

Next == \E r \in Runs : RunStep(r) \/ CancelLock(r) \/ CancelFlag(r)

Spec == Init /\ [][Next]_vars

\* Goroutines run, a mutex goes to whoever waits for it, a solve ends.
\* Nobody has to cancel.
FairSpec == Spec /\ \A r \in Runs : SF_vars(RunStep(r)) /\ WF_vars(CancelFlag(r))
-----------------------------------------------------------------------------
(* Properties *)

\* Runs that may touch their solver, or have it touched by a Cancel.
Busy == {"prepare", "gpu", "solve", "cleanup", "set", "put"}

TypeOK ==
  /\ made \subseteq Solvers
  /\ instances \in Seq(Solvers)
  /\ flag \in [Solvers -> BOOLEAN]
  /\ gpuMutex \in Runs \union {NoRun}
  /\ run \in [Runs -> Busy \union {"call", "done"}]
  /\ solver \in [Runs -> Solvers \union {NoSolver}]
  /\ good \in [Runs -> BOOLEAN]
  /\ future \in [Runs -> {"none", "open", "cancelled", "result"}]
  /\ cancelling \subseteq Runs
  /\ interrupted \subseteq Runs
  /\ \A r \in Runs : run[r] \in Busy => solver[r] \in Solvers

\* A solver is in the pool once, or it belongs to one run, also while somebody
\* who cancels a run is about to touch it.
OneUser ==
  /\ IsInjective(instances)
  /\ \A r \in Runs : solver[r] # NoSolver =>
       /\ solver[r] \notin ToSet(instances)
       /\ \A q \in Runs : solver[q] = solver[r] => q = r
  /\ \A r \in cancelling : run[r] \in Busy

\* No solver gets lost but by an error in its run.
NoSolverLost ==
  \A s \in made : s \in ToSet(instances) \/ \E r \in Runs :
     solver[r] = s /\ (run[r] = "done" => ~good[r])

\* A solver has one place, while there is no error: one run or the pool.
SolversKept == OneUser /\ NoSolverLost

\* A run is interrupted only if its own future was cancelled: the flag that a
\* late Cancel leaves on a solver stops no later run of that solver.
InterruptIsOwn == \A r \in interrupted : future[r] = "cancelled"

\* When Cancel has returned the solver of the run will see it.
CancelReaches ==
  \A r \in Runs \ cancelling :
    future[r] = "cancelled" /\ run[r] \in {"gpu", "solve"} => flag[solver[r]]

\* A cancellation reaches its own run and no later one of the same solver.
CancelIsOwn == InterruptIsOwn /\ CancelReaches

\* Every run is answered, also those that wait for the GPU.
Answered == \A r \in Runs : run[r] # "call" ~> future[r] \in {"cancelled", "result"}
=============================================================================
