------------------------------ MODULE Culling ------------------------------
(***************************************************************************)
(* The threads of solver/solve_highs/OptionsCulling.go: each of them tries *)
(* random restrictions of the gear, sends the optimal sets it finds and    *)
(* counts them, until the count comes near the target or the job is        *)
(* cancelled.  The goroutine of multi/cullProcess.go receives them.        *)
(* What a task tries and finds is left to chance.                          *)
(***************************************************************************)
EXTENDS Integers, FiniteSets

CONSTANTS
  CullThreads,  \* c_cullThreadCount of them
  Target        \* targetResultCount

ASSUME CullingAssumption ==
  /\ IsFiniteSet(CullThreads) /\ CullThreads # {} /\ Target \in Nat

ThreadCount == Cardinality(CullThreads)

VARIABLES
  culler,          \* where each thread is
  tasksCompleted,
  received,        \* sets the receiver has got
  cullCancelled,
  resultsClosed,
  crashed          \* a panic ends the program

cullVars == <<culler, tasksCompleted, received, cullCancelled, resultsClosed, crashed>>

CullInit ==
  /\ culler = [t \in CullThreads |-> "loop"]
  /\ tasksCompleted = 0 /\ received = 0
  /\ cullCancelled = FALSE /\ resultsClosed = FALSE /\ crashed = FALSE

Becomes(t, from, to) ==
  /\ ~crashed /\ culler[t] = from
  /\ culler' = [culler EXCEPT ![t] = to]

\* Mutant: the threads stop at the target only.
StartTaskLate(t) ==
  /\ tasksCompleted < Target /\ ~cullCancelled
  /\ Becomes(t, "loop", "task")
  /\ UNCHANGED <<tasksCompleted, received, cullCancelled, resultsClosed, crashed>>

StartTask(t) ==
  /\ tasksCompleted < Target - ThreadCount /\ ~cullCancelled
  /\ Becomes(t, "loop", "task")
  /\ UNCHANGED <<tasksCompleted, received, cullCancelled, resultsClosed, crashed>>

ExitThread(t) ==
  /\ tasksCompleted >= Target - ThreadCount \/ cullCancelled
  /\ Becomes(t, "loop", "end")
  /\ UNCHANGED <<tasksCompleted, received, cullCancelled, resultsClosed, crashed>>

\* The restriction leaves a slot empty, has no solution or was cancelled.
TaskInVain(t) ==
  /\ Becomes(t, "task", "loop")
  /\ UNCHANGED <<tasksCompleted, received, cullCancelled, resultsClosed, crashed>>

TaskOptimal(t) ==
  /\ Becomes(t, "task", "send")
  /\ UNCHANGED <<tasksCompleted, received, cullCancelled, resultsClosed, crashed>>

\* The model cannot be built, or its solution is none: panic(err).
TaskFails(t) ==
  /\ Becomes(t, "task", "end")
  /\ crashed' = TRUE
  /\ UNCHANGED <<tasksCompleted, received, cullCancelled, resultsClosed>>

SendResult(t) ==
  /\ Becomes(t, "send", "count")
  /\ received' = received + 1
  /\ UNCHANGED <<tasksCompleted, cullCancelled, resultsClosed, crashed>>

\* Mutant: two threads that add at a time leave one addition.
CountTaskLost(t) ==
  /\ Becomes(t, "count", "loop")
  /\ tasksCompleted' = IF \E u \in CullThreads : u # t /\ culler[u] = "count"
                       THEN tasksCompleted ELSE tasksCompleted + 1
  /\ UNCHANGED <<received, cullCancelled, resultsClosed, crashed>>

CountTask(t) ==
  /\ Becomes(t, "count", "loop")
  /\ tasksCompleted' = tasksCompleted + 1
  /\ UNCHANGED <<received, cullCancelled, resultsClosed, crashed>>

\* The time limit of RunCullingSets
CancelCulling ==
  /\ ~crashed /\ ~cullCancelled /\ cullCancelled' = TRUE
  /\ UNCHANGED <<culler, tasksCompleted, received, resultsClosed, crashed>>

CloseResults ==
  /\ ~crashed /\ ~resultsClosed
  /\ \A t \in CullThreads : culler[t] = "end"
  /\ resultsClosed' = TRUE
  /\ UNCHANGED <<culler, tasksCompleted, received, cullCancelled, crashed>>

CullNext ==
  \/ CancelCulling \/ CloseResults
  \/ \E t \in CullThreads :
       \/ StartTask(t) \/ ExitThread(t) \/ TaskInVain(t) \/ TaskOptimal(t)
       \/ TaskFails(t) \/ SendResult(t) \/ CountTask(t)

CullSpec == CullInit /\ [][CullNext]_cullVars
-----------------------------------------------------------------------------
(* Properties *)

CullTypeOK ==
  /\ culler \in [CullThreads -> {"loop", "task", "send", "count", "end"}]
  /\ tasksCompleted \in Nat /\ received \in Nat
  /\ cullCancelled \in BOOLEAN /\ resultsClosed \in BOOLEAN /\ crashed \in BOOLEAN

\* A target no greater than the number of threads is never tried; another is
\* not reached, though the threads test a count that others are about to raise.
NotBeyondTarget ==
  received <= IF Target > ThreadCount THEN Target - 1 ELSE 0

\* Unless the job is cancelled at most ThreadCount sets are missing at the end,
\* and none of those that were found is.
AlmostAll ==
  resultsClosed =>
    /\ received = tasksCompleted
    /\ received >= Target - ThreadCount \/ cullCancelled

\* The number of sets the culling gives.
CullInRange == NotBeyondTarget /\ AlmostAll
=============================================================================
