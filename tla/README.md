# A verification development of mopgear-go

mopgear-go (`src/mopgear-go`) looks for good sets of equipment for a character of an online game.  It
builds a mixed-integer model of the choices, lets the HiGHS solver propose sets of gear, passes the
proposals to an external simulator of the game and reports the best ones.  The work runs in many
goroutines, tied together by a library of its own: futures that can be cancelled, cancel signals that
are chained to each other, collectors of errors, pools of threads and channel operators.  A user may
press a key at any time and gets what has been found so far.

The arithmetic of the game is data.  What is hard to get right, and hardly tested, is the library of
concurrency (`util/util_async`) and the pipelines built with it (`multi`, `solver/solve_highs`,
`weightfind`).  That is what this project models.

- [1. The system](#1-the-system)
- [2. The modules](#2-the-modules)
- [3. What the runs show](#3-what-the-runs-show)
- [4. Fairness](#4-fairness)
- [5. What is proved](#5-what-is-proved)
- [6. Findings](#6-findings)
- [7. Not modelled](#7-not-modelled)
- [8. Plan](#8-plan)

Paths below are relative to `src/mopgear-go`; `Future.go`, `CancelSignal.go`, `error.go`,
`nestedTaskPool.go`, `channel_op.go` and `future_ops.go` are in `util/util_async`.

## 1. The system

### Components, their state and what makes them correct

| Component | State | Operations | Correct when |
|---|---|---|---|
| Cancellable futures (`Future.go`) | lock, `isComplete`, `isCancelled`, `hasWaiter`, a channel of capacity 1, cancel handlers | `SetResult*`, `Cancel`, `AddCancelHandler`, `WaitForResultOrError`, `GetResultNoWait`, `WaitForResultOrKeyPress`, mapping | settled once; the waiter gets that result; handlers run for a cancellation only, once, none forgotten; no call hangs under the lock |
| Cancel signals and chains (`CancelSignal.go`, `Future.go`) | a lock, a flag, handlers and a channel per node | `Cancel`, `AddCancelHandler`, `ChainCancel`, `FutureCancellable_Map*` | a cancellation reaches everything chained below and nothing else; handlers called under a lock do not deadlock |
| Error collectors (`error.go`) | lock, errors, `forwardTo`, `hasReturnedResult` | `AddError`, `ForwardErrorToOtherFuture`, `GetResultNoWait` | no error lost or told twice; each collector has one destination |
| Nested task pool (`nestedTaskPool.go`) | a mutex, children with a queue, a set of running tasks and a wait channel; a control goroutine and workers | `Start`, `NewChild`, `Go`, `WaitAllComplete`, `Stop` | each task once; nobody waits for work that is done; waiting means done; workers counted; no deadlock |
| Simulation pipeline (`multi/passToSim.go`, `report.go`, `run.go`) | jobs with a result and the proposals that wait for it; proposals with a reference per label | make jobs, merge duplicates, simulate, notify, report | equal jobs simulated once; each proposal gets its own results; the report leaves nothing out |
| Channel operators (`channel_op.go`) | goroutines between channels | map, filter, deduplicate, group, collect | every item once; the output closes after the last; cancellation leaves nobody blocked |
| Mixers and adders (`future_ops.go`) | list of sources, a loop with `reflect.Select`; a sum of futures | `AddChannel`, `AddFuture`, `ReadyUpAndPrepareChannel`, `ShutdownAsync` | everything a source sends reaches the output, which closes at the end; the reader of the sum is told the last |
| Proposal generation (`multi/run.go`, `proposal.go`) | groups, solver processes, extra proposals | start groups, add sources and counts, shut down | the mixer is not shut down before the last source is added |
| Multi-set solver process (`solver/solve_highs/ProcessMultiSets.go`) | result channel, promised count, collector of errors | first solve, variants, interim solutions | no send after the close; the errors reach the caller |
| Solver runs (`util/util_highs/run.go`, `highs_pool.go`) | a pool of solvers, a future per run | take, prepare, run, interrupt, put back | a solver is used by one run; a cancel reaches this run and no other |
| Options culling (`solver/solve_highs/OptionsCulling.go`) | threads, a count of completed tasks | solve until a target | neither more sets than wanted nor many fewer |
| Weight processes (`weightfind/updateProc`) | clients of the task pool | solves and simulations in rounds | results read after they are complete |
| Weight search (`weightfind/searcher3.go`, `QueueStackStealingPool.go`) | threads over a pool of stacks that steal, a pool of objects | split, push, pop, steal, put back | every bound searched once; none left when the threads have ended |
| Ranked collectors (`util/util_rank`) | a bounded array, its count and its worst value | offer, merge | keeps the best of what it was offered, each once |

The other parts (linear models, gear models, loaders, commands, printing) are listed in
`PROJECT.json` with the reason why they are left out.

### How they interact

`multi/run.go` wires a job: a generator of proposals (`proposal.go`) starts multi-set solver processes,
whose channels go into a mixer and whose counts go into an adder; each returns a channel of results and
a collector of errors.  The collectors are forwarded up (solver run -> proposals -> working groups) and
the last one is read by the final report.  Proposals flow over unbuffered channels to `prepareSimList`,
from there as jobs to the two threads that merge duplicates, from there to the simulators, and in
parallel as proposals to the collector of the report.  Every solver run and every simulation is a
cancellable future; all are chained to the cancel signal of the job, so that a key press or a timer at
the top runs down the chain, handler by handler, with the lock of every node on the way held.  The
weight processes use the task pool instead of the channels.

### What is hard here

- Locks held while other code runs: cancel handlers run under the lock of their future or signal,
  forwarding of errors holds two locks, `taskAdded` sends on a channel under the mutex of the pool.
- Flags read without the lock (`finalError`, `worker.stopped`, `waitChannel`).
- Things added while others end: a handler while its future is cancelled, a task while the last
  worker leaves, an error after its collector was forwarded, a duplicate while the result of the job
  it is merged into arrives.
- Unbuffered channels between goroutines which also take mutexes.
- Ends that must come last: a mixer is shut down while groups may still add to it, threads of a search
  end when they see no work while others still make some, a pool returns while its errors come in.

`PROJECT.json` lists every hazard at its line, with the properties that watch it.

## 2. The modules

| Module | What it is |
|---|---|
| `OneShotResult` | abstract specification: what a cancellable future promises |
| `FutureCancellable` | one future, in steps of its lock, its channel and its flags; refines `OneShotResult` |
| `CancelChain` | any forest of signals and futures chained to each other |
| `PossibleFutureErrors` | any wiring of error collectors |
| `NestedTaskPool` | the task pool, its control goroutine, workers and clients |
| `SimJobs` | proposals, jobs, merging, simulators and the final report, a composition of `passToSim.go` with the channel operators and the wiring of `run.go` |
| `SolverRuns` | runs of the solver: the pool, the interrupt flag, the GPU mutex |
| `MultiSetSolve` | a first solve, its variants, their cancellation and the result channel; a composition of the solver runs (reduced), mapped futures, the signal of the job and a group of threads |
| `Proposals` | the groups of a job, the mixer, the adder of counts and who shuts them down; a composition of `run.go`, `proposal.go` and two classes of `future_ops.go` |
| `SearchPool` | the threads of the weight search over stacks that steal from each other, with the pool of memory they share |
| `Culling` | the culling threads and their count |
| `ChannelPools` | the cancellable pools of `channel_op.go`, one of each kind that is used |
| `RankedCollectors` | the collectors of the n best and their merge |
| `MC*` | constants of the instances; `MCWorkerPools` puts `NestedTaskPool`, `SearchPool`, `Culling`, `ChannelPools` and `RankedCollectors` side by side, of which the first state chooses one |
| `*_proofs` | theorems, each module over the component of its name; `WorkerPools_proofs` over the five that `MCWorkerPools` puts together |

An action is a stretch of code no other goroutine can see the middle of: a critical section that
touches only what its lock protects is one step, and it is cut wherever something is read or sent
outside the lock.  A send on an unbuffered channel and its receive are one step.  Each action and
helper is mapped to its lines in `PROJECT.json`.  Definitions marked `Mutant` are plausible errors in
an action; they are part of no specification.  Every property is checked against one: with the action
replaced by its mutant the property fails.

### FutureCancellable and OneShotResult

The goroutines are the setters, the cancellers, the adders of handlers (a handler and the goroutine
that adds it share a name) and one waiter.  `lock` is `future.lock`, `resultChannel` the contents of
the channel, `pc` where each goroutine is.  `SetResult` is `SetLock`, `SetSend`, `SetUnlock`:
the handlers are dropped, the result is sent, the flag is set.  `Cancel` is `CancelLock`,
`CancelSend`, `CancelFlags`, `RunHandler`*, `CancelUnlock`.  They are cut because the waiter receives
without the lock and reads `isCancelled` without it.  `WaitForResultOrKeyPress` is a choice between
the channel (`resultFromChannel`) and `KeyPress`, after which the lock decides between `KeyCancelled`,
`KeyComplete` and `KeyCancels`.  `winner` and `result` record which call settled the future.

`OneShotResult` has neither lock nor channel: an outcome, how it was settled, what was delivered, what
fired.  The refinement maps `outcome` to `result`, `cancelled` to "the winner cancelled", `delivered`
to `received`, and `fired` to the handlers that were called.

### CancelChain

Nodes are signals or futures; a link is one `ChainCancel(outer, inner)` call and the goroutine that
makes it; a map is a link of `FutureCancellable_MapValue` and its kin, whose goroutine also forwards
the result.  The stack of a goroutine is the path of nodes whose `Cancel` it is in.  It owns all of
their locks but, while it waits for it, the last.  `settled` is `isComplete` of a future and
`isCancelled` of a signal.  `CancelEnter` and `CancelLeave` keep the one difference between the two
kinds: a future closes its channel before its handlers run, a `CancelSignalBasic` after.

### PossibleFutureErrors

`AddError` and `GetResultNoWait` are one step.  `ForwardErrorToOtherFuture` holds its own lock over
several steps and takes the other's once per error.  A panic ("inconsistent result destination") stops
the program.  `late` is history: the errors that came to a collector when it had been forwarded.

### NestedTaskPool

`client`, `control` and `worker` are the program counters of the three kinds of goroutine.  The mutex
of the pool is modelled, since it is held across a send (`TaskAddedLock` ... `TaskAdded`) and across
the counting of tasks (`CountLock`, `CountChild`, `Counted*`).  The mutex of a child is held within a
step only.  `selectQueuedTask` is `SelectLock`, a `SelectChild` per child in any order, and then
`SelectNone`, `RequestStart` or `RequestRefused`.  `Complete` is the end of a task with or without an
error.  Clients follow `weightfind/updateProc`: a child, tasks one by one, one wait, and a `Stop` that
is deferred to the end of all.  `GiveUp` is the client whose data cannot be read (`simData.go`): it
returns with its child made and never waits.

### SimJobs

`PrepareStep` is the goroutine of `prepareSimList`; `Append` is the collector of the report;
`MergerStep` is a thread of `Channel_RemoveDuplicatesFuncNotify` with `MergePendingFrom`;
`SimulatorStep` is a thread of `runSims`; `FinalReport` is the last report.  A job is named by the
proposal and label it was made for, and `SimJob` says which jobs are equal.  The mutex of a job is held
across steps by `MergePendingFrom` (`MergeLock`, `ReplaceReference`, `MergeNotify` or `MergeAppend`)
and by `SetResult` (`SetResult`, `NotifyOnResult`*, `SetResultDone`).

### SolverRuns

`RunStep(r)` is what the caller of `RunHighsFuture` and then the goroutine of the run do: `Get` or
`NewSolver`, `Prepare` (all of `prepareHighsRun` and `makeFuture`, which nobody else can see the middle
of), `Begin*`, the end of the solve (`Solved` by itself, `Interrupt` by the flag), `Cleanup`,
`SetResult`, `PutBack`.  `flag` is the array `GoHighsInterruptFlags` of `gohighs/highs/callbacks.c`,
indexed by solver: it survives a run, so it matters who resets it.  `Cancel` is `CancelLock` (the
future is cancelled, its lock is held) and `CancelFlag` (its handler); a `SetResult` waits for the lock
between the two.  A run with a callback of its own does not look at the flag, because
`configureHighsUtil` computes the list with the interrupt types and then registers the other one
(`run.go:305`, `:313`).

### MultiSetSolve

`main` is where `Run` and the goroutine of `ForwardResultOrErrorToCallback` are: `Start` and `Chain*`
are `Run` itself, `FirstSolved`, `FirstOnly` and `FirstFailed` the callbacks, `GroupDone` and `Close`
their ends.  Each run has a `solver` (its goroutine, which sends interim solutions) and a `mapper` (the
goroutine of `FutureCancellable_MapValueError`).  `inner` and `outer` are the two futures;
`CancelOuter` and `CancelInner` are the two levels of one `Cancel`, with whatever comes between.
`signal` is `handlers` while the `Cancel` of the job holds its lock and calls what is `chained`.
`plan`, `feeding` and `thread` are the index channel and the threads of
`ForEach_Slice_Cancellable_PassError`.  A send on `resultChannel` and its receive are one step, since
the reader reads until the close; a send after the close is a panic and stops the program.

### Proposals

A source is what a group adds: a solver process (`Solves`), the existing gear as a value (`Values`), or
the thread of the extra proposals (`Extras`), which adds its count by itself.  `main` is where `Run` is
among `run.go:63-64`: the groups run from before.  `AddInitial` and `AddLock` are `newSourceAdded`
before and after `ReadyMixer`; with `AddSend` the loop takes the message.  `mixerMutex` and `adderMutex`
are modelled because both are held across sends.  `AddTotal` and `SendTotal` are `processValue`, which
sends the new total under the mutex; `told` is what the reader was told last.  `ShutdownAsync` and
`StopMessage` are the two ends of the shutdown.  A panic stops the program (`mixer = "panic"`).

### SearchPool

`thread` is where a thread is in `threadLoop` and `Pop`.  `PopOwn`, `OwnEmpty`, `ScanBegin`,
`ScanLock`, `Steal`, `StealNothing` and `ScanEnds` are `Pop` with its two mutexes; `Push`, `CountLocal`
and `PopBottom` are single critical sections.  A bound is the address of its memory: `GetBound` takes it
from `objectPool` (any address there, as `sync.Pool` may), `PushBound` publishes it, `PutEntry` gives it
back.  How many bounds follow from one is left open up to `MaxFollowups`, since the formulas decide it.

### Culling

`StartTask` reads the count and `CountTask` raises it, with the task and the send between.  `TaskFails`
is the `panic` of a thread.

### ChannelPools

`kind` is "slice" (`MapOptional_SliceToSlice_Cancellable_PassError`, of which the other slice pools are
a part), "each" (`ForEach_Channel_PassError`) or "multi" (`MapMulti_ChannelToChannel_Cancellable`).
`dealer` is the goroutine that deals the inputs, `hand` where a thread is, `caller` who gathers.  A
failed input cancels the signal of the job in "slice" and sets `shouldContinue` in "each".
`CancelBegin` sets the flag of the signal and `CancelEnds` closes its channel, so that a thread may see
the one without the other.

### RankedCollectors

Candidates that are `Equals` are one candidate.  `SortContent` gives every outcome of the unstable sort
and then drops neighbours that are equal.  `size` is what `Offer` counts, `array` what is there;
`offered`, `again` (how often a candidate came to a collector that kept it already, by an offer or with
a merge) and `mergedInto` are history.

## 3. What the runs show

| Run | Instance | Shows |
|---|---|---|
| `future` | 2 setters, 2 cancellers, 2 handlers, a waiter that waits, polls or waits with a key | no blocking send or receive under the lock; `HandlersFire`; `Answered`; the refinement of `OneShotResult`: settled once, and that is delivered |
| `cancel_chain` | job -> limit -> outer -> inner (mapped), limit -> other -> inner; a key at the job, a timer at the limit | no circle of waiting; cancellations reach all that is chained and only that (`CancelExact`); the channel of a signal closes after its handlers; calls return and a mapped future follows (`AllSettle`) |
| `errors` | run1, run2 -> more -> prep, an error in each, a final reader, and a careless second reader and second forwarding | no error dropped or doubled, or left behind by a forwarding; one that comes later stays where it came, and is followed no further (`Conserved`; see `errors_late`); a collector has one destination, if need be by a panic, and a report is final (`ReportIsFinal`); calls return |
| `errors_late` | as `errors` | finding: an error that comes after its collector was forwarded stays there |
| `worker_pools`, tasks | 2 clients (one continues after errors) with 2 tasks and 1, maxThreads 1, 3 workers | each task once and none after an error, workers counted (not bounded: there may be more than `maxThreads`), nothing stranded, who waits is woken (`TasksRight`) |
| `worker_pools`, search | 3 threads, up to 2 bounds from each to depth 2, memory for 6 | no bound in two places or in memory that is given out again (`OnePlace`); none left at the end (`NothingLeft`); no mutex of a stack is held by a thread that waits for another (`LockOrder`) |
| `worker_pools`, culling | 2 threads, a target of 4 | the number of sets (`CullInRange`) |
| `worker_pools`, channels | the three kinds, 2 threads, 3 inputs, errors, a cancellation from outside | nothing is missing untold, no error is late, nobody is left behind (`PoolReturns`); nobody waits for ever (`PoolGoesOn`) |
| `worker_pools`, ranking | 4 candidates of 3 ratings, 2 collectors of 2, 5 offers and merges | the best of all is never lost; a collector to which no candidate came twice keeps the best, and one that came again costs at most one place (`BestAreKept`) |
| `taskpool_deadlock`, `taskpool_wait` | the tasks of `worker_pools` | findings |
| `proposals` | 2 groups: a solver process and existing gear; a solver process and extra proposals | the output closes after the last proposal and no panic comes once the mixer runs (`ShutdownLast`); the reader of the counts is never behind (`CountTold`); both end unless a group was too early for the mixer or for the adder, which `Ends` accepts |
| `simjobs` | proposals (A,B), (A,C), (D,B); 2 mergers, 2 simulators | of equal jobs one is simulated and each proposal has its own results (`MergedRight`); proposals are reported whole, and all of them but perhaps the one the collector holds (`ReportComplete`); until the report some goroutine can go on (`NeverStuck`) |
| `solver_runs` | 3 runs: one needs the GPU, one would like it, one has a callback; up to 3 solvers | one user per solver, none lost (`SolversKept`); a cancel reaches its run and no later one (`CancelIsOwn`); every run is answered |
| `multiset` | a first solve, 2 variants, 2 threads, interim results; all variants, 1 of them, or none | the channel closes after its last sender unless cancelled; the promised count or an error (`ResultsTold`); nothing left running after a cancellation; the results end (`ResultsEnd`) |
| `multiset_close` | as `multiset` | finding: a send on the closed channel after a cancellation |

A property whose name stands in brackets is often a conjunction of named parts, each of which has a
mutant of its own.

### Why these bounds

- **future**: two of each kind is every pair that can race, for the same call or for two; a third setter
  finds the future complete as the second does.  One value is enough, for results are never compared
  except with `Empty` and with what was settled.  Two handlers tell the list from a slot, and leave one
  to come late while the other runs.  Every invariant of this run is proved for any number.
- **cancel_chain**: the longest chain of the program (job, time limit, mapped future, future of the
  solver), a fork, and two cancellers that enter it at different depths.  The safety properties are
  proved for every forest.
- **errors**: the collectors and forwardings of `multi`, two levels deep, with an error before, between
  and after.  `Conserved` and `ReportIsFinal` are proved for every wiring.
- **worker_pools, tasks**: with one thread and three tasks there is a worker more than `maxThreads`
  allows, a queue that outlasts a worker, and a task that arrives while the last worker leaves.
  `Workers` are names for goroutines: as many as tasks are enough, for at most one is started per queued
  task.  `TasksRight` is proved for any numbers.
- **worker_pools, search**: three threads are an owner, a thief and a second thief; `MaxFollowups` is 2
  where the program has 3, `MaxNodeDepth` 2 where it has 200 and `StartCount` 2 where it has 8 (twice
  its four threads), which is enough for a stack of several bounds, for stealing its bottom while its
  top is popped, and for a thread that ends while another pushes.  `Objects` is the memory: six
  addresses are never used up in this instance, and bounds it only in that the model makes no more.  All
  three invariants are proved for any values.
- **worker_pools, culling**: the target is above the number of threads, as in the program.  Proved for
  any threads and target.
- **worker_pools, channels**: `PoolThreads` of 2 are a thread that fails or is cancelled and another at
  any point; `InputCount` of 3 leaves one to deal when both have theirs.  Both properties are proved for
  any numbers.
- **worker_pools, ranking**: `Limit` 2 is that of `BestWorst.go`; five offers of four candidates
  (`MaxOffers`) fill a collector, push out, repeat and merge.  Ratings are a negative, zero and a
  positive one, since a collector begins with zero for its worst.  Proved for any candidates, ratings and limits.
- **proposals**: the three kinds of source in two groups, so that one may end while the other adds.
  `Most` is 1: a source is empty or has something to send, and the loop treats each value alike.  All
  but `Ends` is proved for any groups and any `Most`.
- **simjobs**: each job of the first proposal has an equal one elsewhere, so that a proposal can wait
  for two merged jobs at once, be merged in either direction and be notified from a merger and a
  simulator at the same time.  The number of mergers is that of the code (two).  Each step uses up a
  proposal, a label or a stage of a job, so that there are no circles and `NeverStuck` implies that the
  report is made.  All four properties are proved for any numbers.
- **solver_runs**: three runs can follow each other on one solver, or meet in the pool, with a cancel of
  the first that comes when the second has its solver.  As many solvers as runs are all that are ever
  made.  The two kinds of GPU run meet at the mutex.
- **multiset**: two variants on two threads give every race of two senders, of a sender with the close,
  of a failing variant with one that is not started yet, and of a variant with the cancellation.  A
  third variant would wait for a thread as the second does when both threads take the same turn.  All but
  `ResultsEnd` is proved for any number of variants and threads.

The state spaces are finite as the programs are: each goroutine makes its calls once.  No counter is cut
by a constraint; the constants that bound what the program does not are `Objects`, `MaxFollowups`,
`MaxNodeDepth`, `Most`, `InputCount` and `MaxOffers`.  Symmetry is used for the workers of the task
pool, the threads of the search but the main one, the mergers and the simulators, and only in runs
without temporal properties.

Deadlock checking is on in `simjobs`, which may stop only when the report is done (`Finish`), and in
`worker_pools`, where a pool of channels may stop only when its caller has returned (`PoolsEnd`), also if
nobody cancels from outside (`outside` is "done" from the first).  It is off in the other runs: each
instance ends when its calls have returned.  What must not hang is stated instead (`Answered`,
`AllSettle`, `CallsReturn`, `NeverStuck`, `PoolGoesOn`, `Ends`, `ResultsEnd`,
`ChannelNeverBlocksHolder`, `WaitsDownwards`, `LockOrder`), and for the task pool, which may hang, it is a
finding.

## 4. Fairness

- `FutureCancellable`, `CancelChain`, `PossibleFutureErrors`: weak fairness per goroutine that is in a
  call.  The Go scheduler runs a goroutine that can run, and `sync.Mutex` hands the lock to a waiter
  after one millisecond.  Weak fairness per goroutine suffices here because each call takes a given lock
  a bounded number of times.  Nobody is assumed to press a key, to wait, to complete a future or to call
  at all beyond the calls the instance lists.
- `Proposals`: weak fairness for `Run`, the closer, the loop of the mixer, each group and each count,
  including that a solver process announces its count, which it does when its first solve has ended in
  one way or the other.  The mutexes are taken a bounded number of times, once per source and goroutine.
- `SimJobs`, `ChannelPools`: no fairness is needed.  Their steps cannot go round in circles, so that it
  is enough that one is always possible, as `NeverStuck` and `PoolGoesOn` say.  That
  includes that a simulation, a solve or a call of the mapper ends.  `PoolGoesOn` does not count on
  anybody outside to cancel.
- `SolverRuns`: strong fairness per run, for the GPU mutex and the lock of a future come and go; a mutex
  of Go goes to whoever has waited longest.  It includes that a solve ends by itself (every model has a
  time limit or a gap).  Nobody has to cancel.
- `MultiSetSolve`: weak fairness for each thread, mapper and callback, and for the steps of a
  cancellation that has begun; none for the solvers.  `CancelEnds` therefore shows that a cancellation
  does not wait for a solver, and `Ends` has the end of the solvers as its premise.
- `NestedTaskPool` has no liveness run, since its deadlock would refute all of them.

## 5. What is proved

Each `*_proofs` module proves type correctness and an inductive invariant for all values of the
constants, under the assumptions named in the component's module only (kinds of goroutine are disjoint,
`Empty` is no value, links ascend in `Rank`, ...).  The argument is always the same: `Init` implies the
invariant, each action preserves it conjunct by conjunct, and it implies the property.

**FutureCancellable_proofs.**  The properties are not inductive: that a waiter receives the settled
result needs that the channel holds nothing else, which needs that only one call sends, which needs the
lock.  The invariant adds
  - `RoleInv`: which labels each kind of goroutine can be at;
  - `LockInv`: a goroutine is inside a critical section exactly when it holds the lock;
  - `PhaseInv`: what the flags, `winner` and `result` are, by where the holder of the lock is;
  - `ChannelInv`: what is in the channel, and who has taken it;
  - `HandlerInv`: a handler is in `onCancel`, or was called, or its call has not begun, and which.

From it follow `TypeOK`, `ChannelNeverBlocksHolder`, `HandlersFire` (its two parts have theorems of
their own) and, beyond what the runs list by name, `DeliveredIsSettled` and `SettledOnce`.

**CancelChain_proofs.**  For every set of nodes with links that ascend: `TypeOK`, `WaitsDownwards`,
`CancelExact`, `ClosedAfterHandlers` and, beyond the runs, `ResultIsFinal`.  The invariant says that a
stack is a path of links (`PathInv`, `RankInv`) whose nodes but the last are owned by its goroutine
(`OwnerInv`, `HeldInv`), what is idle (`IdleInv`), which handlers a node has (`LinkInv`), how the flags
agree (`NodeInv`), and that each link of a node that is cancelled is still to be handled, being handled,
or has its inner node settled (`ReachInv`).  Deadlock freedom is the consequence of `WaitsDownwards`: a
goroutine always waits for one whose own wait, if any, is strictly deeper.  For `ClosedAfterHandlers`
the invariant is joined by the fact that the channel of a signal is closed by `CancelLeave` alone, which
comes when no handler is left.

**PossibleFutureErrors_proofs.**  For every wiring: `TypeOK`, both parts of `ReportIsFinal` and
`Conserved`.  The invariant adds `OwnerInv` (who holds a lock is forwarding that collector) and
`ReadInv` (a reader that has returned has marked its collector).  `Conserved` has two parts.
`InOnePlace` counts places; it is derived from `PassedInv` (how far a forwarding is) and `PlaceInv`, which
says without counting that each error that was added has a place, that no other has, and that two places
of one error are the same.  `OnlyLateStay` says that this place can be read or forwarded still, but for an
error that came to a collector when it had been forwarded; it follows from `LateInv`, which adds that a
collector marked as forwarded is locked by no forwarding.  Nothing is claimed of the late
errors: they stay, as `errors_late` shows.

**SolverRuns_proofs.**  For any runs, solvers, callbacks and uses of the GPU: `TypeOK`, `SolversKept`
and `CancelIsOwn`.  Neither of the last two is inductive: that a solver has one user needs that the pool
holds it once and no run beside it, and that a flag is the run's own needs where a cancellation may
still be on its way to the solver.  The invariant adds `PoolInv` (each pooled solver exists and is there
once), `HeldInv` (the solver of a run is in no other place), `PhaseInv` (what is known of a run's future
and of its canceller by where the run is) and `FlagInv` (a run that looks at its flag finds it set only
by its own cancellation).

**Proposals_proofs.**  For any groups, sources and numbers of proposals: `TypeOK`, `ShutdownLast` and
the action property `CountTold`.  The invariant adds `CountRight` (`waitingFutures` is the number of
futures that were added and are not summed), `TotalTold` (the total of who holds the mutex),
`ShutdownOrder` (what the state of the mixer says of the groups and of `closer`), `SourceSomewhere` (a
source that was added is in `initial`, in `active` or at its end) and `LoopEmpty`.

**SimJobs_proofs.**  For any proposals, labels, mergers and simulators: `TypeOK`, `MergedRight`,
`ReportComplete` and `NeverStuck`.  The assumptions that there is a label, a merger and a simulator are
those of the code: a proposal has a part for every specialisation, `mergeDuplicateJobs` runs two threads
and `c_simThreadCount` is 2.  The invariant follows a job on its way:
  - `PlaceInv`: it is not made yet, or is being sent, in the hands of one merger, seen, or merged;
  - `MergerInv`, `SeenInv`: what a merger has, that no two jobs that were seen are equal, and that each
    has a result, a simulator or a merger about to send it;
  - `RefInv`: a proposal refers to its own job until that is merged, and to the equal job then;
  - `WaitInv`, `NotifyInv`: who waits for a job, and that of a proposal that is not ready some label
    still has a notification to come.  Without the last, `ReportComplete` is not inductive: that every
    proposal is ready at the end only follows from nobody having missed the last result;
  - `PrepareInv`, `SentInv`, `ReportInv`: what `prepareSimList` has in its hands, what the collector got.

`NeverStuck` needs also who holds which mutex (`LockInv`).  The argument is an order of waiting:
simulators wait for mergers that merge, which wait for nobody; then mergers for simulators that receive,
then `prepareSimList` for mergers that receive.

**MultiSetSolve_proofs.**  For any number of variants and threads: `TypeOK`, `ClosedLast`, `ResultsTold`
and `NoneLeftRunning`.  `RunInv` says how the solver, the mapper and the two futures of a run
stand to each other; `OpenInv` that only a cancellation ends a future as cancelled or empty; `MainInv` and
`GroupInv` what the callbacks and the threads know; `HeldInv` that a run is in the hands of a thread
until its end was noted; `CountInv` that the variants planned and started are the ones the reader was
told of; `ChainedInv` that a thread waits only for a run that the signal will cancel.  `ClosedLast` is part
of the invariant: the other parts say why no sender is left when the channel closes.

**WorkerPools_proofs.**  The proofs of the five components of `MCWorkerPools`.  `PoolsAlone` says that
side by side each behaves as it does alone, so that all of this holds of what the run checks.

*NestedTaskPool*, for any clients, tasks and workers: `TypeOK` and `TasksRight`.  `MutexInv` says who holds
the mutex of the pool, `UntakenInv` that a task no worker has taken has not run and is in one place,
`TakenInv` that the task of a worker is no other's, `CountedInv` that a child which was counted as empty
has a client about to tell of its tasks, `WorkersInv` that `currentThreads` is the number of goroutines.

*SearchPool*, for any threads, depths and memory: `OnePlace`, `NothingLeft`, `LockOrder`.  What makes
`NothingLeft` inductive is `OwnStackEmpty`: only its owner pushes to a stack, so it stays empty from the
moment the owner has found it empty.  That other threads still push does not matter: each ends only with
an empty stack of its own.  `HandsFull` and `VictimChosen` say what a thread holds at each place.

*Culling*, for any threads and target: `CullInRange`, from the equation `received = tasksCompleted +` the
sets sent and not counted, and from `RoomForAll`, which adds the threads that are busy with a task.

*ChannelPools*, for any threads and inputs: `PoolReturns` and `PoolGoesOn`.  The invariant adds `Accounted`
(each input dealt is in a hand, in the channel, gathered, without value, skipped or failed),
`SkipsForAReason` and `EndsForAReason` (who leaves an input or its loop has seen a cancellation, an
error or the end), `CallerLast`, and for `PoolGoesOn` `SignalHeld` (a locked signal has somebody who runs
its handlers).

*RankedCollectors*, for any candidates, ratings, limit and number of collectors: `BestAreKept`, in all of
its four parts.  It does not say that the best are kept whatever comes: each candidate that comes again
may cost one place, and the property counts these in `again`.  The invariant `KeptRight` has
  - `KeptOf`: what is kept is sorted and was offered, the last is the best of all, `worst` is the first;
  - `Filled`: `size` is at most the number of entries and `again` together;
  - `GaveWay`: what is missing has `Limit` entries that are as good (`AsGood`), less `again`;
  - `Roomy` and `Apart`, until the first merge: with room left nothing was let go, and nothing missing is
    better than anything kept.

For an exchange the point is that the entry pushed out is the first of the sorted ones, so that all others
are as good.  For a merge it is `BetterIsKept`, that nothing better than a kept entry is cut off: so of the
entries as good as a missing one either none is cut off, or all that are kept are as good.  `CutFilled`
and `MergedContent` add up the repeats of the two collectors and those that both of them keep.
`SortContent` compacts by a recursive function.  The induction theorems of the library cannot be
instantiated here; instead `SetInduction` is derived from a set of naturals having a smallest element, and
`CompactedAll` shows by it what compacting keeps.

The refinement `ImplementsOneShot` is a theorem too (`RefinesOneShot` in `FutureCancellable_proofs`): under
the invariant of `FutureCancellable` each step is one of `OneShotResult` or leaves what it promises alone.

Every invariant and action property of the passing runs is a theorem.  The proofs of `NeverStuck` and
`PoolGoesOn` are about `SomeoneGoesOn` and `PoolMoves`, which name what each goroutine waits for, since
`ENABLED` is out of the prover's reach; that a step is then really possible is left to TLC, whose search
for deadlocks is on in `simjobs` and `worker_pools`.  Only model-checked are the liveness properties
(`Answered` twice, `AllSettle`, `CallsReturn`, `Ends`, `ResultsEnd`), for liveness under fairness is out of its reach too.

## 6. Findings

Each is a run that must find its property violated; `PROJECT.json` quotes the line it disagrees with.

1. `errors_late`: an error added after forwarding stays in the forwarded collector: `isForwarding` is
   tested and never assigned (`error.go:32`).  `ProcessMultiSets.go:95` and `:108` add errors in this
   order.
2. `taskpool_deadlock`: a client in `taskAdded` and the control goroutine wait for each other.
3. `taskpool_wait`: `WaitAllComplete` returns while tasks are queued or running, once the queue of the
   child was empty between two `Go` calls.
4. `multiset_close`: after a cancellation the callback of the first future closes the result channel
   while the mapper or the solver's callback may still send on it.  A solver with a callback is not
   interrupted, so that it goes on sending.

Seen in the models, without a run of their own:

- A waiter that receives the empty result between the send and the flags of `Cancel` reports "empty
  result" instead of a cancellation (`Future.go:340`, `:532`).  No value is wrong.
- More workers than `maxThreads`: the control goroutine starts one per queued task
  (`nestedTaskPool.go:154`).  No property forbids it: `TasksRight` says that they are counted right.
- A proposal is marked ready as soon as the jobs it has *so far* have results.  It reaches the slice
  after its last job, ready while a result is missing, and an interim report prints "ERROR: unexpected
  nil simData".  The final report is not affected (`ReportComplete`).
- The final report may read the slice before the collector has appended the last proposal: with a single
  proposal it reports "cancelled without result".  `ReportComplete` says that it is never more than one.
- A group that ends before `run.go:64` makes the mixer panic ("already stopped", "stopped with pending
  channels"); with no groups at all this is certain.  A total that is sent before `run.go:63` has no
  reader: its sender holds the mutex of the adder that `ReadyUpAndPrepareChannel` asks for, and both
  hang.  Setting up the models takes longer than these two lines, so neither is likely.  `ShutdownLast`
  accepts the panic and `Ends` accepts both as ends of the program: they do not catch them.
- `ReadyUpAndPrepareChannel` usually finds no future waiting yet: the channel of counts closes at once,
  and the expected number of proposals is never shown.
- Threads of the search may end while another works on a bound whose followers they could have taken:
  nothing is lost but their help.  `newLocals` of `weightfind/search/searcherEngine.go` never sets
  `threadLocal.engine`, so that its first step dereferences nil; nobody uses that package yet.
- A target of at most the number of culling threads (16) culls nothing.
- A pool of kind "each" (decimation, fitting) that is cancelled returns without an error although inputs
  were never dealt.  After a cancellation the goroutine of `SeqToChannel` of the extra proposals stays
  blocked on its send (`NobodyLeft` excepts it).
- A collector of the n best counts candidates that it has dropped as repeated (`collectorN.go:47`,
  `:145`): after one it pushes out an entry although there is room, and after a merge a better candidate
  may be missing while a worse one is kept.  With a limit of 2, the offers a, a and a better b leave b alone.
  `BestAreKept` bounds what is lost by the number of repeats, and shows that the best is never among it.
  `chooseBest` of `BestWorst.go` then finds one entry where
  it expects two. It also takes the first entry of the results, which is the worst of the two best.
- The errors of a first solve are added after the result channel was closed (`ProcessMultiSets.go:105`,
  `:108`), so that a reader that ends with the channel may report too early.

## 7. Not modelled

- Memory-model effects of unsynchronised reads (`isCancelled` in `finalError`, `pool.stopped`,
  `shouldContinue`): a read returns the current or, by interleaving, an older value of one word; tearing
  is not modelled.
- Operators of `channel_op.go` and `future_ops.go` without a user (grouping, mixing, copying of
  channels, the throttled launch, `FutureChannelMixerStatic`) and those with one goroutine on each side
  and no cancellation.  The map lists what is modelled.
- Interim reports of `report.go`, which read the same state as the invariants of `SimJobs` do but change
  nothing.
- What is simplified within a module: the future in the middle of `FutureCancellable_MapToFuture`
  (`Future.go:470-487`), which `CancelChain` leaves out; the second child of a client of the task pool
  (`updateSpec` has one for its solves and one for its simulations, one after the other); the workers of
  the extra proposals, which are one source with one count in `Proposals`; the error of a callback
  for interim solutions (`ProcessMultiSets.go:276-280`).
- Wall-clock time: a timer or a key is a goroutine that may act at any time.
- Cancel handlers that fail: the only handler that leaves the program sets an interrupt flag, which
  cannot fail (`callbacks.c:50` of gohighs), so `ChainCancel` always returns nil.
- Progress tracking: it prints a percentage and nothing reads it back.
- The HiGHS solver, the simulator and the console are external.  `src/wowsim-external`, by far the
  greatest part of the source, is the simulator: a process of its own that is called with a file and
  answers with one.
- Data of the game, linear models, statistics, files and output: floating-point arithmetic and tables
  without a state machine of their own.

## 8. Plan

What is left, in this order:

1. Proofs about what the runs do not name: that merges of collectors give the same best entries in
   any order, and lemmas that carry the component theorems over to the compositions.
2. `TrackProgress`, whose children may be added before `RunOuterTracking` makes their list anew.
3. The remaining collections (`QueueStackFiloConcurrentCached`, the ring buffer) against a queue.
4. The weight processes of `weightfind/updateProc` as a composition of `NestedTaskPool`, `SolverRuns`
   and the simulations, where `WaitMeansComplete` is what their results depend on.
