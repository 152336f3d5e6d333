--------------------------- MODULE NestedTaskPool ---------------------------
(***************************************************************************)
(* The pool of threads of util_async/nestedTaskPool.go, as the weight      *)
(* processes use it (weightfind/updateProc): the pool is started, every    *)
(* client makes a child of its own, gives it tasks one by one with Go,     *)
(* waits with WaitAllComplete, and at last the pool is stopped.  A client  *)
(* whose data cannot be read leaves its tasks alone and returns at once.   *)
(*                                                                         *)
(* A control goroutine starts worker goroutines and hears of their end and *)
(* of new tasks over unbuffered channels: a send and its receive are one   *)
(* step here.  The mutex of a child is never held across two steps, that   *)
(* of the pool is held by a client that sends and by the control goroutine *)
(* while it counts.  The panics of Start, Stop and taskAdded (started or   *)
(* stopped twice, a task after Stop) cannot come up in this use.           *)
(***************************************************************************)
EXTENDS Naturals, FiniteSets, FiniteSetsExt

CONSTANTS
  Clients,        \* goroutines with a child of their own, which bears their name
  Tasks,          \* what they give to Go
  Owner,          \* the client of each task
  ContinueOnError,\* clients that have called SetContinueOnError(true)
  Workers,        \* names for the worker goroutines
  MaxThreads,     \* the argument of Start
  Control,        \* the control goroutine
  NoThread,       \* a mutex that is free
  NoTask          \* a worker without a task

ASSUME PoolAssumption ==
  /\ Owner \in [Tasks -> Clients]
  /\ ContinueOnError \subseteq Clients
  /\ MaxThreads \in Nat \ {0}
  /\ IsFiniteSet(Tasks) /\ IsFiniteSet(Workers) /\ IsFiniteSet(Clients)
  /\ Cardinality(Workers) >= MaxThreads /\ Cardinality(Workers) >= Cardinality(Tasks)
  /\ Control \notin Clients /\ NoThread \notin Clients \union {Control}
  /\ NoTask \notin Tasks

VARIABLES
  mutex,          \* holder of the mutex of the pool
  children,       \* children of the pool
  stopped,        \* has Stop been called?
  queue, running, \* tasks of each child
  waitOpen,       \* is the waitChannel of a child still open?
  failed,         \* has a child errors?
  client,         \* where each client is
  todo,           \* the tasks it has not given to Go
  control,        \* where the control goroutine is
  currentThreads, \* its count of the workers
  knowsStopped,   \* its own variable stopped
  counted,        \* children that countQueuedTasks has seen, and their tasks
  countQueued,
  worker,         \* where each worker is
  seen,           \* children that selectQueuedTask has seen
  taskList,       \* the tasks it has found there
  task,           \* the task a worker runs
  runs            \* how often each task was started

tasks == <<queue, running, waitOpen, failed>>
controlVars == <<control, currentThreads, knowsStopped, counted, countQueued>>
workerVars == <<worker, seen, taskList, task, runs>>
vars == <<mutex, children, stopped, tasks, client, todo, controlVars, workerVars>>

\* Right after Start, which started the control goroutine.
Init ==
  /\ mutex = NoThread /\ children = {} /\ stopped = FALSE
  /\ queue = [c \in Clients |-> {}]
  /\ running = [c \in Clients |-> {}]
  /\ waitOpen = [c \in Clients |-> TRUE]
  /\ failed = [c \in Clients |-> FALSE]
  /\ client = [c \in Clients |-> "new"]
  /\ todo = [c \in Clients |-> {t \in Tasks : Owner[t] = c}]
  /\ control = "begin"
  /\ currentThreads = 0 /\ knowsStopped = FALSE
  /\ counted = {} /\ countQueued = 0
  /\ worker = [w \in Workers |-> "none"]
  /\ seen = [w \in Workers |-> {}]
  /\ taskList = [w \in Workers |-> {}]
  /\ task = [w \in Workers |-> NoTask]
  /\ runs = [t \in Tasks |-> 0]
-----------------------------------------------------------------------------
(* Clients *)

NewChild(c) ==
  /\ client[c] = "new"
  /\ mutex = NoThread
  /\ children' = children \union {c}
  /\ client' = [client EXCEPT ![c] = "go"]
  /\ UNCHANGED <<mutex, stopped, tasks, todo, controlVars, workerVars>>

\* Go after an error of an earlier task: the new one is turned down.
GoRefused(c, t) ==
  /\ client[c] = "go"
  /\ t \in todo[c]
  /\ failed[c] /\ c \notin ContinueOnError
  /\ todo' = [todo EXCEPT ![c] = @ \ {t}]
  /\ UNCHANGED <<mutex, children, stopped, tasks, client, controlVars, workerVars>>

\* Mutant: the task is queued whatever happened to earlier ones.
GoAlways(c, t) ==
  /\ client[c] = "go"
  /\ t \in todo[c]
  /\ todo' = [todo EXCEPT ![c] = @ \ {t}]
  /\ queue' = [queue EXCEPT ![c] = @ \union {t}]
  /\ client' = [client EXCEPT ![c] = "added"]
  /\ UNCHANGED <<mutex, children, stopped, running, waitOpen, failed, controlVars, workerVars>>

\* Mutant: the control goroutine is not told of the task.
GoUntold(c, t) ==
  /\ client[c] = "go"
  /\ t \in todo[c]
  /\ ~(failed[c] /\ c \notin ContinueOnError)
  /\ todo' = [todo EXCEPT ![c] = @ \ {t}]
  /\ queue' = [queue EXCEPT ![c] = @ \union {t}]
  /\ UNCHANGED <<mutex, children, stopped, running, waitOpen, failed, client, controlVars,
                 workerVars>>

Go(c, t) ==
  /\ client[c] = "go"
  /\ t \in todo[c]
  /\ ~(failed[c] /\ c \notin ContinueOnError)
  /\ todo' = [todo EXCEPT ![c] = @ \ {t}]
  /\ queue' = [queue EXCEPT ![c] = @ \union {t}]
  /\ client' = [client EXCEPT ![c] = "added"]
  /\ UNCHANGED <<mutex, children, stopped, running, waitOpen, failed, controlVars, workerVars>>

\* taskAdded takes the mutex and keeps it until its task is received.
TaskAddedLock(c) ==
  /\ client[c] = "added"
  /\ mutex = NoThread
  /\ mutex' = c
  /\ client' = [client EXCEPT ![c] = "send"]
  /\ UNCHANGED <<children, stopped, tasks, todo, controlVars, workerVars>>

\* WaitAllComplete of a child without tasks returns at once.
WaitNothing(c) ==
  /\ client[c] = "go" /\ todo[c] = {}
  /\ queue[c] = {} /\ running[c] = {}
  /\ client' = [client EXCEPT ![c] = "done"]
  /\ UNCHANGED <<mutex, children, stopped, tasks, todo, controlVars, workerVars>>

WaitBegin(c) ==
  /\ client[c] = "go" /\ todo[c] = {}
  /\ ~(queue[c] = {} /\ running[c] = {})
  /\ client' = [client EXCEPT ![c] = "wait"]
  /\ UNCHANGED <<mutex, children, stopped, tasks, todo, controlVars, workerVars>>

\* waitChannel is nil, or it is closed while the client receives from it.
WaitAllComplete(c) ==
  /\ client[c] = "wait"
  /\ ~waitOpen[c]
  /\ client' = [client EXCEPT ![c] = "done"]
  /\ UNCHANGED <<mutex, children, stopped, tasks, todo, controlVars, workerVars>>

\* An error between two calls of Go, in prepareSimData: nobody waits for the tasks.
GiveUp(c) ==
  /\ client[c] = "go" /\ todo[c] # {}
  /\ c \notin ContinueOnError
  /\ client' = [client EXCEPT ![c] = "left"]
  /\ UNCHANGED <<mutex, children, stopped, tasks, todo, controlVars, workerVars>>

\* Deferred until every client has returned.
Stop ==
  /\ ~stopped
  /\ \A c \in Clients : client[c] \in {"done", "left"}
  /\ mutex = NoThread
  /\ stopped' = TRUE
  /\ UNCHANGED <<mutex, children, tasks, client, todo, controlVars, workerVars>>
-----------------------------------------------------------------------------
(* The control goroutine *)

\* countQueuedTasks, at the beginning and whenever a worker has ended.
CountLock ==
  /\ control \in {"begin", "ended"}
  /\ mutex = NoThread
  /\ mutex' = Control
  /\ UNCHANGED <<children, stopped, tasks, client, todo, controlVars, workerVars>>

CountChild(c) ==
  /\ mutex = Control
  /\ c \in children \ counted
  /\ counted' = counted \union {c}
  /\ countQueued' = countQueued + Cardinality(queue[c])
  /\ UNCHANGED <<mutex, children, stopped, tasks, client, todo, control, currentThreads,
                 knowsStopped, workerVars>>

\* Start n workers: go pool.workerThread(), n times.
Spawn(n) ==
  \E new \in kSubset(n, {w \in Workers : worker[w] = "none"}) :
    worker' = [w \in Workers |-> IF w \in new THEN "check" ELSE worker[w]]

CountedBegin ==
  /\ control = "begin" /\ mutex = Control /\ counted = children
  /\ LET n == Max({MaxThreads, countQueued}) IN Spawn(n) /\ currentThreads' = n
  /\ mutex' = NoThread
  /\ control' = "select"
  /\ knowsStopped' = stopped
  /\ counted' = {} /\ countQueued' = 0
  /\ UNCHANGED <<children, stopped, tasks, client, todo, seen, taskList, task, runs>>

CountedEnded ==
  /\ control = "ended" /\ mutex = Control /\ counted = children
  /\ LET n == IF currentThreads < countQueued THEN countQueued - currentThreads ELSE 0
     IN Spawn(n) /\ currentThreads' = currentThreads + n
  /\ mutex' = NoThread
  /\ control' = "select"
  /\ counted' = {} /\ countQueued' = 0
  /\ UNCHANGED <<children, stopped, tasks, client, todo, knowsStopped, seen, taskList, task, runs>>

\* Mutant: a worker is started and not counted.
TaskAddedUncounted(c) ==
  /\ control = "select" /\ client[c] = "send"
  /\ IF currentThreads < MaxThreads /\ ~knowsStopped THEN Spawn(1) ELSE UNCHANGED worker
  /\ mutex' = NoThread
  /\ client' = [client EXCEPT ![c] = "go"]
  /\ UNCHANGED <<children, stopped, tasks, todo, controlVars, seen, taskList, task, runs>>

\* chanTaskAdded: the client goes on, and there may be one more worker.
TaskAdded(c) ==
  /\ control = "select" /\ client[c] = "send"
  /\ IF currentThreads < MaxThreads /\ ~knowsStopped
     THEN Spawn(1) /\ currentThreads' = currentThreads + 1
     ELSE UNCHANGED <<worker, currentThreads>>
  /\ mutex' = NoThread
  /\ client' = [client EXCEPT ![c] = "go"]
  /\ UNCHANGED <<children, stopped, tasks, todo, control, knowsStopped, counted, countQueued, seen,
                 taskList, task, runs>>

\* chanThreadExit
ThreadExit(w) ==
  /\ control = "select" /\ worker[w] = "exit"
  /\ worker' = [worker EXCEPT ![w] = "none"]
  /\ currentThreads' = currentThreads - 1
  /\ control' = "ended"
  /\ UNCHANGED <<mutex, children, stopped, tasks, client, todo, knowsStopped, counted, countQueued,
                 seen, taskList, task, runs>>

\* chanPoolStop
PoolStop ==
  /\ control = "select" /\ stopped
  /\ ~knowsStopped
  /\ knowsStopped' = TRUE
  /\ UNCHANGED <<mutex, children, stopped, tasks, client, todo, control, currentThreads, counted,
                 countQueued, workerVars>>

ControlEnds ==
  /\ control = "select" /\ knowsStopped /\ currentThreads = 0
  /\ control' = "done"
  /\ UNCHANGED <<mutex, children, stopped, tasks, client, todo, currentThreads, knowsStopped,
                 counted, countQueued, workerVars>>
-----------------------------------------------------------------------------
(* Workers *)

\* The unlocked test of pool.stopped.
WorkerStops(w) ==
  /\ worker[w] = "check" /\ stopped
  /\ worker' = [worker EXCEPT ![w] = "exit"]
  /\ UNCHANGED <<mutex, children, stopped, tasks, client, todo, controlVars, seen, taskList, task,
                 runs>>

WorkerGoesOn(w) ==
  /\ worker[w] = "check" /\ ~stopped
  /\ worker' = [worker EXCEPT ![w] = "select"]
  /\ UNCHANGED <<mutex, children, stopped, tasks, client, todo, controlVars, seen, taskList, task,
                 runs>>

\* selectQueuedTask copies the list of children under the mutex: it need not
\* see a child that is made later.
SelectLock(w) ==
  /\ worker[w] = "select"
  /\ mutex = NoThread
  /\ seen' = [seen EXCEPT ![w] = Clients \ children]
  /\ worker' = [worker EXCEPT ![w] = "look"]
  /\ UNCHANGED <<mutex, children, stopped, tasks, client, todo, controlVars, taskList, task, runs>>

SelectChild(w, c) ==
  /\ worker[w] = "look"
  /\ c \notin seen[w]
  /\ seen' = [seen EXCEPT ![w] = @ \union {c}]
  /\ taskList' = [taskList EXCEPT ![w] = @ \union queue[c]]
  /\ UNCHANGED <<mutex, children, stopped, tasks, client, todo, controlVars, worker, task, runs>>

\* The local variables of selectQueuedTask are gone.
Forget(w) ==
  /\ seen' = [seen EXCEPT ![w] = {}]
  /\ taskList' = [taskList EXCEPT ![w] = {}]

SelectNone(w) ==
  /\ worker[w] = "look" /\ seen[w] = Clients
  /\ taskList[w] = {}
  /\ worker' = [worker EXCEPT ![w] = "exit"]
  /\ Forget(w)
  /\ UNCHANGED <<mutex, children, stopped, tasks, client, todo, controlVars, task, runs>>

\* Mutant: the task is started without asking its child for it.
RequestStartUnasked(w, t) ==
  /\ worker[w] = "look" /\ seen[w] = Clients
  /\ t \in taskList[w]
  /\ queue' = [queue EXCEPT ![Owner[t]] = @ \ {t}]
  /\ running' = [running EXCEPT ![Owner[t]] = @ \union {t}]
  /\ worker' = [worker EXCEPT ![w] = "run"]
  /\ task' = [task EXCEPT ![w] = t]
  /\ runs' = [runs EXCEPT ![t] = @ + 1]
  /\ Forget(w)
  /\ UNCHANGED <<mutex, children, stopped, waitOpen, failed, client, todo, controlVars>>

RequestStart(w, t) ==
  /\ worker[w] = "look" /\ seen[w] = Clients
  /\ t \in taskList[w] /\ t \in queue[Owner[t]]
  /\ queue' = [queue EXCEPT ![Owner[t]] = @ \ {t}]
  /\ running' = [running EXCEPT ![Owner[t]] = @ \union {t}]
  /\ worker' = [worker EXCEPT ![w] = "run"]
  /\ task' = [task EXCEPT ![w] = t]
  /\ runs' = [runs EXCEPT ![t] = @ + 1]
  /\ Forget(w)
  /\ UNCHANGED <<mutex, children, stopped, waitOpen, failed, client, todo, controlVars>>

\* Another worker has it, or an error has cleared the queue: look again.
RequestRefused(w, t) ==
  /\ worker[w] = "look" /\ seen[w] = Clients
  /\ t \in taskList[w] \ queue[Owner[t]]
  /\ worker' = [worker EXCEPT ![w] = "select"]
  /\ Forget(w)
  /\ UNCHANGED <<mutex, children, stopped, tasks, client, todo, controlVars, task, runs>>

\* Mutant: whoever waits is told when the queue is empty.
CompleteEarly(w, err) ==
  LET t == task[w]
      c == Owner[t]
      clear == err /\ c \notin ContinueOnError
  IN
  /\ worker[w] = "run"
  /\ running' = [running EXCEPT ![c] = @ \ {t}]
  /\ failed' = [failed EXCEPT ![c] = @ \/ err]
  /\ queue' = [queue EXCEPT ![c] = IF clear THEN {} ELSE @]
  /\ waitOpen' = [waitOpen EXCEPT ![c] = @ /\ ~(queue[c] = {} /\ running'[c] = {})]
  /\ worker' = [worker EXCEPT ![w] = "check"]
  /\ task' = [task EXCEPT ![w] = NoTask]
  /\ UNCHANGED <<mutex, children, stopped, client, todo, controlVars, seen, taskList, runs>>

\* task.run() has returned err; notifyTaskComplete.
Complete(w, err) ==
  LET t == task[w]
      c == Owner[t]
      clear == err /\ c \notin ContinueOnError
  IN
  /\ worker[w] = "run"
  /\ running' = [running EXCEPT ![c] = @ \ {t}]
  /\ failed' = [failed EXCEPT ![c] = @ \/ err]
  /\ queue' = [queue EXCEPT ![c] = IF clear THEN {} ELSE @]
  /\ waitOpen' = [waitOpen EXCEPT ![c] = @ /\ ~(queue'[c] = {} /\ running'[c] = {})]
  /\ worker' = [worker EXCEPT ![w] = "check"]
  /\ task' = [task EXCEPT ![w] = NoTask]
  /\ UNCHANGED <<mutex, children, stopped, client, todo, controlVars, seen, taskList, runs>>
-----------------------------------------------------------------------------
ClientStep(c) ==
  \/ NewChild(c) \/ TaskAddedLock(c)
  \/ \E t \in Tasks : Go(c, t) \/ GoRefused(c, t)
  \/ WaitNothing(c) \/ WaitBegin(c) \/ WaitAllComplete(c) \/ GiveUp(c)

ControlStep ==
  \/ CountLock \/ CountedBegin \/ CountedEnded \/ PoolStop \/ ControlEnds
  \/ \E c \in Clients : CountChild(c) \/ TaskAdded(c)
  \/ \E w \in Workers : ThreadExit(w)

WorkerStep(w) ==
  \/ WorkerStops(w) \/ WorkerGoesOn(w) \/ SelectLock(w) \/ SelectNone(w)
  \/ \E c \in Clients : SelectChild(w, c)
  \/ \E t \in Tasks : RequestStart(w, t) \/ RequestRefused(w, t)
  \/ \E err \in BOOLEAN : Complete(w, err)

Next ==
  \/ \E c \in Clients : ClientStep(c)
  \/ Stop
  \/ ControlStep
  \/ \E w \in Workers : WorkerStep(w)

Spec == Init /\ [][Next]_vars
-----------------------------------------------------------------------------
(* Properties *)

TypeOK ==
  /\ mutex \in Clients \union {Control, NoThread}
  /\ children \subseteq Clients
  /\ stopped \in BOOLEAN
  /\ queue \in [Clients -> SUBSET Tasks]
  /\ running \in [Clients -> SUBSET Tasks]
  /\ waitOpen \in [Clients -> BOOLEAN]
  /\ failed \in [Clients -> BOOLEAN]
  /\ client \in [Clients -> {"new", "go", "added", "send", "wait", "done", "left"}]
  /\ todo \in [Clients -> SUBSET Tasks]
  /\ control \in {"begin", "select", "ended", "done"}
  /\ currentThreads \in Nat
  /\ knowsStopped \in BOOLEAN
  /\ counted \subseteq Clients
  /\ countQueued \in Nat
  /\ worker \in [Workers -> {"none", "check", "select", "look", "run", "exit"}]
  /\ seen \in [Workers -> SUBSET Clients]
  /\ taskList \in [Workers -> SUBSET Tasks]
  /\ task \in [Workers -> Tasks \union {NoTask}]
  /\ runs \in [Tasks -> Nat]

\* A task is started once at most, though many workers find it in the queue,
\* and it is then the task of one worker.
RunsOnce ==
  /\ \A t \in Tasks : runs[t] <= 1
  /\ \A c \in Clients : running[c] = {task[w] : w \in {v \in Workers : worker[v] = "run"}}
                                       \intersect {t \in Tasks : Owner[t] = c}

\* The control goroutine knows how many workers there are.
ThreadsCounted ==
  currentThreads = Cardinality({w \in Workers : worker[w] # "none"})

\* While the pool is not stopped a queued task will be seen: a worker has
\* still to look or to end, the control goroutine is about to count, or the
\* client is about to tell of it.  A worker that finds the queues empty just
\* before the task arrives does not leave it behind.
NoTaskStranded ==
  ~stopped /\ (\E c \in Clients : queue[c] # {}) =>
    \/ \E w \in Workers : worker[w] # "none"
    \/ control \in {"begin", "ended"}
    \/ \E c \in Clients : client[c] \in {"added", "send"}

\* After the error of a task nothing of its child is queued, not even by a Go
\* that races with the end of the task.
ErrorClearsQueue ==
  \A c \in Clients \ ContinueOnError : failed[c] => queue[c] = {}

\* Nobody waits for a child that has nothing left to do.
WaiterWoken ==
  \A c \in Clients :
    client[c] = "wait" /\ queue[c] = {} /\ running[c] = {} => ~waitOpen[c]

\* Tasks are started once and never after an error of their child, the workers
\* are counted right, one is there for what is queued, and who waits for a child
\* is told of its end.
TasksRight == RunsOnce /\ ErrorClearsQueue /\ ThreadsCounted /\ NoTaskStranded /\ WaiterWoken

\* "this version we're released our parent lock so should be no possible
\* deadlock" (nestedTaskPool.go:118): a client that sends does not hold what
\* the control goroutine, who is to receive, waits for.
NoDeadlock ==
  ~ \E c \in Clients : client[c] = "send" /\ control \in {"begin", "ended"}

\* WaitAllComplete returns when all tasks of the child are complete, "can
\* complete immediately if nothing has been queued" (nestedTaskPool.go:262).
WaitMeansComplete ==
  \A c \in Clients : client[c] = "done" => queue[c] = {} /\ running[c] = {}
=============================================================================
