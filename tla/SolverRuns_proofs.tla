-------------------------- MODULE SolverRuns_proofs --------------------------
(***************************************************************************)
(* Proofs about the solver runs, for any runs, any solvers and any use of  *)
(* the GPU and of callbacks: a solver has one place, and a cancellation    *)
(* reaches the solver of its own run and stops no other run.               *)
(***************************************************************************)
EXTENDS SolverRuns, TLAPS

\* The pool holds solvers that exist, each once.
PoolInv == IsInjective(instances) /\ ToSet(instances) \subseteq made

\* The solver of a run exists, is not in the pool and is no other run's.
HeldInv ==
  \A r \in Runs : solver[r] # NoSolver =>
    /\ solver[r] \in made
    /\ solver[r] \notin ToSet(instances)
    /\ \A q \in Runs : solver[q] = solver[r] => q = r

\* The goroutine of a run is between its first step and its SetResult.
Running == {"gpu", "solve", "cleanup", "set"}

\* What is known of a run by where it is.
PhaseInv ==
  /\ \A r \in Runs :
       /\ run[r] = "call" => solver[r] = NoSolver
       /\ run[r] \in {"call", "prepare"} => future[r] = "none"
       /\ run[r] \in Running => future[r] \in {"open", "cancelled"}
       /\ future[r] = "open" => run[r] \in Running
       /\ run[r] = "put" => good[r]
  /\ \A r \in cancelling : run[r] \in Running /\ future[r] = "cancelled"

\* A run that looks at its flag finds it set only by its own cancellation.
FlagInv ==
  \A r \in Runs \ Callbacks :
    run[r] \in {"gpu", "solve"} /\ flag[solver[r]] => future[r] = "cancelled"

IndInv ==
  /\ TypeOK /\ PoolInv /\ HeldInv /\ PhaseInv /\ FlagInv
  /\ NoSolverLost /\ InterruptIsOwn /\ CancelReaches
-----------------------------------------------------------------------------
(* The pool as a sequence *)

\* Taking the last solver leaves the others, each once.
LEMMA TakeLast ==
  ASSUME NEW S, NEW p \in Seq(S), p # <<>>, IsInjective(p)
  PROVE  /\ Last(p) \in S /\ Last(p) \in ToSet(p)
         /\ Front(p) \in Seq(S) /\ IsInjective(Front(p))
         /\ ToSet(Front(p)) = ToSet(p) \ {Last(p)}
<1>1. Len(p) \in Nat /\ Len(p) > 0 /\ DOMAIN p = 1..Len(p)
  OBVIOUS
<1>2. \A i \in 1..Len(p) : p[i] \in S
  OBVIOUS
<1>3. /\ Front(p) \in Seq(S) /\ Len(Front(p)) = Len(p) - 1
      /\ DOMAIN Front(p) = 1..(Len(p) - 1)
      /\ \A i \in 1..(Len(p) - 1) : Front(p)[i] = p[i]
  BY <1>1, <1>2 DEF Front
<1>4. Last(p) = p[Len(p)]
  BY DEF Last
<1>5. \A i, j \in 1..Len(p) : p[i] = p[j] => i = j
  BY <1>1 DEF IsInjective
<1>6. IsInjective(Front(p))
  BY <1>1, <1>3, <1>5 DEF IsInjective
<1>7. ToSet(Front(p)) = ToSet(p) \ {Last(p)}
  <2>1. ToSet(p) = {p[i] : i \in 1..Len(p)}
    BY <1>1 DEF ToSet
  <2>2. ToSet(Front(p)) = {p[i] : i \in 1..(Len(p) - 1)}
    BY <1>3 DEF ToSet
  <2>3. 1..Len(p) = (1..(Len(p) - 1)) \union {Len(p)} /\ Len(p) \notin 1..(Len(p) - 1)
    BY <1>1
  <2>4. \A i \in 1..(Len(p) - 1) : p[i] # p[Len(p)]
    BY <1>1, <1>5
  <2> QED
    BY <2>1, <2>2, <2>3, <2>4, <1>4
<1>8. Last(p) \in S /\ Last(p) \in ToSet(p)
  <2>1. Len(p) \in DOMAIN p
    BY <1>1
  <2> QED
    BY <2>1, <1>1, <1>2, <1>4 DEF ToSet
<1> QED
  BY <1>3, <1>6, <1>7, <1>8

\* Putting back a solver that is not there adds it, once.
LEMMA PutLast ==
  ASSUME NEW S, NEW p \in Seq(S), NEW s \in S, s \notin ToSet(p), IsInjective(p)
  PROVE  /\ Append(p, s) \in Seq(S) /\ IsInjective(Append(p, s))
         /\ ToSet(Append(p, s)) = ToSet(p) \union {s}
<1> DEFINE a == Append(p, s)
<1>1. /\ a \in Seq(S) /\ Len(p) \in Nat /\ DOMAIN p = 1..Len(p)
      /\ DOMAIN a = 1..(Len(p) + 1)
      /\ \A i \in 1..Len(p) : a[i] = p[i]
      /\ a[Len(p) + 1] = s
  OBVIOUS
<1>2. 1..(Len(p) + 1) = (1..Len(p)) \union {Len(p) + 1} /\ Len(p) + 1 \notin 1..Len(p)
  BY <1>1
<1> HIDE DEF a
<1>3. \A i, j \in 1..Len(p) : p[i] = p[j] => i = j
  BY <1>1 DEF IsInjective
<1>4. \A i \in 1..Len(p) : p[i] # s
  BY <1>1 DEF ToSet
<1>5. IsInjective(a)
  BY <1>1, <1>2, <1>3, <1>4 DEF IsInjective
<1>6. ToSet(a) = ToSet(p) \union {s}
  BY <1>1, <1>2 DEF ToSet
<1> QED
  BY <1>1, <1>5, <1>6 DEF a

\* There is a name left for a new solver, and it is new.
LEMMA Fresh ==
  ASSUME made \subseteq Solvers, made # Solvers
  PROVE  (CHOOSE s \in Solvers : s \notin made) \in Solvers \ made
<1>1. \E s \in Solvers : s \notin made
  OBVIOUS
<1> QED
  BY <1>1
-----------------------------------------------------------------------------
(* Initially *)

LEMMA InitInd == Init => IndInv
<1> SUFFICES ASSUME Init PROVE IndInv
  OBVIOUS
<1> USE RunsAssumption DEF Init
<1>1. TypeOK
  BY DEF TypeOK, Busy
<1>2. PoolInv
  BY DEF PoolInv, IsInjective, ToSet
<1>3. HeldInv /\ PhaseInv /\ FlagInv
  BY DEF HeldInv, PhaseInv, FlagInv, Running
<1>4. NoSolverLost /\ InterruptIsOwn /\ CancelReaches
  BY DEF NoSolverLost, InterruptIsOwn, CancelReaches
<1> QED
  BY <1>1, <1>2, <1>3, <1>4 DEF IndInv
-----------------------------------------------------------------------------
(* Types *)

LEMMA TypeStep ==
  ASSUME IndInv, NEW r \in Runs, RunStep(r) \/ CancelLock(r) \/ CancelFlag(r)
  PROVE  TypeOK'
<1> USE RunsAssumption DEF IndInv, TypeOK, Busy, Goto
<1>1. CASE Get(r)
  <2>1. Last(instances) \in Solvers /\ Front(instances) \in Seq(Solvers)
    BY <1>1, TakeLast DEF Get, PoolInv
  <2> QED
    BY <1>1, <2>1 DEF Get
<1>2. CASE NewSolver(r)
  BY <1>2, Fresh DEF NewSolver
<1>3. CASE NoNewSolver(r)
  BY <1>3 DEF NoNewSolver
<1>4. CASE Prepare(r)
  BY <1>4 DEF Prepare, Reset
<1>5. CASE PrepareFails(r)
  <2>1. solver[r] \in Solvers
    BY <1>5 DEF PrepareFails
  <2>2. Append(instances, solver[r]) \in Seq(Solvers)
    BY <2>1
  <2> QED
    BY <1>5, <2>1, <2>2 DEF PrepareFails, Reset, Put
<1>6. CASE Begin(r) \/ BeginFails(r) \/ BeginGpu(r)
  BY <1>6 DEF Begin, BeginFails, BeginGpu
<1>7. ASSUME NEW ok \in BOOLEAN, Solved(r, ok) PROVE TypeOK'
  BY <1>7 DEF Solved, ReleaseGpu
<1>8. CASE Interrupt(r)
  BY <1>8 DEF Interrupt, ReleaseGpu
<1>9. CASE Cleanup(r)
  BY <1>9 DEF Cleanup, Reset
<1>10. CASE SetResult(r)
  BY <1>10 DEF SetResult, Settle
<1>11. CASE PutBack(r)
  <2>1. Append(instances, solver[r]) \in Seq(Solvers)
    BY <1>11 DEF PutBack
  <2> QED
    BY <1>11, <2>1 DEF PutBack, Put
<1>12. CASE CancelLock(r) \/ CancelFlag(r)
  BY <1>12 DEF CancelLock, CancelFlag
<1> QED
  BY <1>1, <1>2, <1>3, <1>4, <1>5, <1>6, <1>7, <1>8, <1>9, <1>10, <1>11, <1>12 DEF RunStep
-----------------------------------------------------------------------------
(* Where a run is *)

LEMMA PhaseStep ==
  ASSUME IndInv, NEW r \in Runs, RunStep(r) \/ CancelLock(r) \/ CancelFlag(r)
  PROVE  PhaseInv'
<1> USE RunsAssumption DEF IndInv, TypeOK, PhaseInv, Busy, Running, Goto
<1>1. CASE Get(r) \/ NewSolver(r) \/ NoNewSolver(r)
  BY <1>1 DEF Get, NewSolver, NoNewSolver
<1>2. CASE Prepare(r)
  BY <1>2 DEF Prepare
<1>3. CASE PrepareFails(r)
  BY <1>3 DEF PrepareFails, Put
<1>4. CASE Begin(r) \/ BeginFails(r) \/ BeginGpu(r)
  BY <1>4 DEF Begin, BeginFails, BeginGpu
<1>5. ASSUME NEW ok \in BOOLEAN, Solved(r, ok) PROVE PhaseInv'
  BY <1>5 DEF Solved
<1>6. CASE Interrupt(r) \/ Cleanup(r)
  BY <1>6 DEF Interrupt, Cleanup
<1>7. CASE SetResult(r)
  BY <1>7 DEF SetResult, Settle
<1>8. CASE PutBack(r)
  BY <1>8 DEF PutBack, Put
<1>9. CASE CancelLock(r) \/ CancelFlag(r)
  BY <1>9 DEF CancelLock, CancelFlag
<1> QED
  BY <1>1, <1>2, <1>3, <1>4, <1>5, <1>6, <1>7, <1>8, <1>9 DEF RunStep
-----------------------------------------------------------------------------
(* Where a solver is *)

\* A run that has a solver gives it to the pool.
LEMMA PutStep ==
  ASSUME IndInv, NEW r \in Runs, solver[r] # NoSolver, Put(r), made' = made, good' = good,
         \A q \in Runs \ {r} : run'[q] = run[q]
  PROVE  PoolInv' /\ HeldInv' /\ NoSolverLost'
<1>1. solver[r] \in Solvers /\ solver[r] \in made /\ solver[r] \notin ToSet(instances)
  BY DEF IndInv, TypeOK, HeldInv
<1>2. IsInjective(instances') /\ ToSet(instances') = ToSet(instances) \union {solver[r]}
  BY <1>1, PutLast DEF IndInv, TypeOK, PoolInv, Put
<1>3. /\ solver'[r] = NoSolver
      /\ \A q \in Runs \ {r} : solver'[q] = solver[q]
  BY DEF IndInv, TypeOK, Put
<1>4. PoolInv'
  BY <1>1, <1>2 DEF PoolInv, IndInv
<1>5. HeldInv'
  BY <1>1, <1>2, <1>3 DEF HeldInv, IndInv
<1>6. NoSolverLost'
  BY <1>2, <1>3 DEF NoSolverLost, IndInv
<1> QED
  BY <1>4, <1>5, <1>6

LEMMA PlaceStep ==
  ASSUME IndInv, NEW r \in Runs, RunStep(r) \/ CancelLock(r) \/ CancelFlag(r)
  PROVE  PoolInv' /\ HeldInv' /\ NoSolverLost'
<1> USE RunsAssumption DEF IndInv, TypeOK, Busy, Goto
<1>1. CASE Get(r)
  <2> DEFINE s == Last(instances)
  <2>1. /\ s \in Solvers /\ s \in ToSet(instances)
        /\ IsInjective(Front(instances))
        /\ ToSet(Front(instances)) = ToSet(instances) \ {s}
    BY <1>1, TakeLast DEF Get, PoolInv
  <2>2. /\ solver' = [solver EXCEPT ![r] = s] /\ instances' = Front(instances)
        /\ made' = made /\ good' = good /\ run' = [run EXCEPT ![r] = "prepare"]
        /\ solver[r] = NoSolver
    BY <1>1 DEF Get, PhaseInv
  <2> HIDE DEF s
  <2>3. PoolInv'
    BY <2>1, <2>2 DEF PoolInv
  <2>4. HeldInv'
    BY <2>1, <2>2 DEF HeldInv, PoolInv
  <2>5. NoSolverLost'
    BY <2>1, <2>2 DEF NoSolverLost
  <2> QED
    BY <2>3, <2>4, <2>5
<1>2. CASE NewSolver(r)
  <2> DEFINE s == CHOOSE s \in Solvers : s \notin made
  <2>1. s \in Solvers \ made
    BY <1>2, Fresh DEF NewSolver
  <2>2. /\ solver' = [solver EXCEPT ![r] = s] /\ made' = made \union {s}
        /\ instances' = instances /\ good' = good /\ run' = [run EXCEPT ![r] = "prepare"]
        /\ solver[r] = NoSolver
    BY <1>2 DEF NewSolver, PhaseInv
  <2> HIDE DEF s
  <2>3. PoolInv'
    BY <2>1, <2>2 DEF PoolInv
  <2>4. HeldInv'
    BY <2>1, <2>2 DEF HeldInv, PoolInv
  <2>5. NoSolverLost'
    BY <2>1, <2>2 DEF NoSolverLost
  <2> QED
    BY <2>3, <2>4, <2>5
<1>3. CASE NoNewSolver(r)
  <2>1. /\ UNCHANGED <<made, instances, solver, good>> /\ run' = [run EXCEPT ![r] = "done"]
        /\ solver[r] = NoSolver
    BY <1>3 DEF NoNewSolver, PhaseInv
  <2>2. PoolInv' /\ HeldInv'
    BY <2>1 DEF PoolInv, HeldInv
  <2>3. NoSolverLost'
    BY <2>1 DEF NoSolverLost
  <2> QED
    BY <2>2, <2>3
<1>4. CASE PrepareFails(r) \/ PutBack(r)
  BY <1>4, PutStep DEF PrepareFails, PutBack
<1>5. ASSUME UNCHANGED <<made, instances, solver>>,
             \A q \in Runs : run'[q] = "done" =>
               \/ run[q] = "done" /\ good'[q] = good[q]
               \/ ~good'[q]
      PROVE  PoolInv' /\ HeldInv' /\ NoSolverLost'
  BY <1>5 DEF PoolInv, HeldInv, NoSolverLost
<1>6. CASE Prepare(r) \/ Begin(r) \/ BeginFails(r) \/ BeginGpu(r) \/ Cleanup(r)
  BY <1>5, <1>6 DEF Prepare, Begin, BeginFails, BeginGpu, Cleanup
<1>7. CASE Interrupt(r)
  BY <1>5, <1>7 DEF Interrupt
<1>8. ASSUME NEW ok \in BOOLEAN, Solved(r, ok) PROVE PoolInv' /\ HeldInv' /\ NoSolverLost'
  BY <1>5, <1>8 DEF Solved
<1>9. CASE SetResult(r)
  BY <1>5, <1>9 DEF SetResult
<1>10. CASE CancelLock(r) \/ CancelFlag(r)
  BY <1>5, <1>10 DEF CancelLock, CancelFlag
<1> QED
  BY <1>1, <1>2, <1>3, <1>4, <1>6, <1>7, <1>8, <1>9, <1>10 DEF RunStep
-----------------------------------------------------------------------------
(* What a flag says *)

\* Resetting the flag of one run leaves those of the others alone.
LEMMA ResetStep ==
  ASSUME IndInv, NEW r \in Runs, Reset(r), solver[r] # NoSolver
  PROVE  /\ \A q \in Runs \ {r} : solver[q] # NoSolver => flag'[solver[q]] = flag[solver[q]]
         /\ r \notin Callbacks => ~flag'[solver[r]]
<1>1. \A q \in Runs : solver[q] # NoSolver => solver[q] \in Solvers
  BY DEF IndInv, TypeOK
<1>2. \A q \in Runs \ {r} : solver[q] # solver[r]
  BY DEF IndInv, HeldInv
<1> QED
  BY <1>1, <1>2 DEF Reset, IndInv, TypeOK

LEMMA FlagStep ==
  ASSUME IndInv, NEW r \in Runs, RunStep(r) \/ CancelLock(r) \/ CancelFlag(r)
  PROVE  FlagInv' /\ InterruptIsOwn' /\ CancelReaches'
<1> USE RunsAssumption DEF Goto
<1>0. \A q \in Runs : run[q] \in {"gpu", "solve"} => solver[q] \in Solvers
  BY RunsAssumption DEF IndInv, TypeOK, Busy
<1>a. \A q \in Runs : run[q] \in {"prepare", "cleanup"} => solver[q] \in Solvers
  BY RunsAssumption DEF IndInv, TypeOK, Busy
<1> USE DEF IndInv, TypeOK, FlagInv, InterruptIsOwn, CancelReaches
<1>1. CASE Get(r) \/ NewSolver(r)
  BY <1>1 DEF Get, NewSolver
<1>2. CASE NoNewSolver(r)
  BY <1>2 DEF NoNewSolver, PhaseInv
<1>3. CASE Prepare(r)
  BY <1>0, <1>a, <1>3, ResetStep DEF Prepare, PhaseInv
<1>4. CASE PrepareFails(r)
  BY <1>0, <1>a, <1>4, ResetStep DEF PrepareFails, Put, PhaseInv
<1>5. CASE Begin(r) \/ BeginFails(r) \/ BeginGpu(r)
  BY <1>5 DEF Begin, BeginFails, BeginGpu
<1>6. ASSUME NEW ok \in BOOLEAN, Solved(r, ok) PROVE FlagInv' /\ InterruptIsOwn' /\ CancelReaches'
  BY <1>6 DEF Solved
<1>7. CASE Interrupt(r)
  BY <1>7 DEF Interrupt
<1>8. CASE Cleanup(r)
  BY <1>0, <1>a, <1>8, ResetStep DEF Cleanup
<1>9. CASE SetResult(r)
  BY <1>9 DEF SetResult, Settle
<1>10. CASE PutBack(r)
  BY <1>10 DEF PutBack, Put
<1>11. CASE CancelLock(r)
  BY <1>11 DEF CancelLock
<1>12. CASE CancelFlag(r)
  <2>1. /\ future[r] = "cancelled" /\ cancelling' = cancelling \ {r}
        /\ UNCHANGED <<run, solver, future, interrupted>>
        /\ flag' = [flag EXCEPT ![solver[r]] = TRUE]
        /\ solver[r] \in Solvers
    BY <1>12 DEF CancelFlag, PhaseInv, Running, Busy
  <2>2. \A q \in Runs \ {r} : solver[q] \in Solvers => flag'[solver[q]] = flag[solver[q]]
    BY <2>1 DEF HeldInv
  <2>3. flag'[solver[r]]
    BY <2>1
  <2> QED
    BY <1>0, <2>1, <2>2, <2>3
<1> QED
  BY <1>1, <1>2, <1>3, <1>4, <1>5, <1>6, <1>7, <1>8, <1>9, <1>10, <1>11, <1>12 DEF RunStep
-----------------------------------------------------------------------------
(* The invariant and what follows *)

LEMMA StepInd == IndInv /\ [Next]_vars => IndInv'
<1> SUFFICES ASSUME IndInv, [Next]_vars PROVE IndInv'
  OBVIOUS
<1>1. ASSUME NEW r \in Runs, RunStep(r) \/ CancelLock(r) \/ CancelFlag(r) PROVE IndInv'
  BY <1>1, TypeStep, PhaseStep, PlaceStep, FlagStep DEF IndInv
<1>2. CASE UNCHANGED vars
  BY <1>2 DEF vars, IndInv, TypeOK, PoolInv, HeldInv, PhaseInv, FlagInv, NoSolverLost,
              InterruptIsOwn, CancelReaches
<1> QED
  BY <1>1, <1>2 DEF Next

LEMMA IndInvHolds == Spec => []IndInv
BY InitInd, StepInd, PTL DEF Spec

\* The state of the solver runs keeps its types, for any runs and solvers.
THEOREM TypeCorrect == Spec => []TypeOK
<1>1. IndInv => TypeOK
  BY DEF IndInv
<1> QED
  BY <1>1, IndInvHolds, PTL

\* No two runs use a solver at once, none uses one that is in the pool, not even
\* through a Cancel that comes late, and only a failed run keeps its solver
\* (highs_pool.go:16-33, run.go:144-202).
THEOREM SolversHaveOnePlace == Spec => []SolversKept
<1>1. IndInv => SolversKept
  <2> SUFFICES ASSUME IndInv PROVE SolversKept
    OBVIOUS
  <2>1. \A r \in cancelling : run[r] \in Busy
    BY DEF IndInv, PhaseInv, Running, Busy
  <2>2. OneUser
    BY <2>1 DEF OneUser, IndInv, PoolInv, HeldInv
  <2> QED
    BY <2>2 DEF SolversKept, IndInv
<1> QED
  BY <1>1, IndInvHolds, PTL

\* The flag that a Cancel sets is seen by its own run, if that still looks, and
\* by no later run of the same solver (run.go:174-187, callbacks.c:29-53).
THEOREM CancelHitsItsRun == Spec => []CancelIsOwn
<1>1. IndInv => CancelIsOwn
  BY DEF IndInv, CancelIsOwn
<1> QED
  BY <1>1, IndInvHolds, PTL
=============================================================================
