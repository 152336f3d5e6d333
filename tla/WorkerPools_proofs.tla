----------------------- MODULE WorkerPools_proofs -----------------------
(***************************************************************************)
(* Proofs about the pools of goroutines that share work: NestedTaskPool    *)
(* for any clients, tasks and workers, Culling for any threads and any     *)
(* target, ChannelPools for any threads and inputs, SearchPool for any     *)
(* threads, bounds and axes; and about the collectors that they fill,      *)
(* RankedCollectors for any candidates, ratings and limit.                 *)
(***************************************************************************)
EXTENDS MCWorkerPools, FiniteSetTheorems, TLAPS

-----------------------------------------------------------------------------
(* NestedTaskPool *)

\* Who counts or sends holds the mutex, and the control goroutine has counted
\* nothing when it does not.
MutexInv ==
  /\ mutex = Control => control \in {"begin", "ended"}
  /\ mutex # Control => counted = {} /\ countQueued = 0
  /\ \A c \in Clients : client[c] = "send" <=> mutex = c
  /\ counted \subseteq children
  /\ \A c \in Clients : client[c] # "new" => c \in children
  /\ knowsStopped => stopped

\* A task that was not taken by a worker has not run, and is with its client or
\* in the queue of its child.
UntakenInv ==
  \A c \in Clients :
    /\ \A t \in todo[c] \union queue[c] : t \in Tasks /\ Owner[t] = c /\ runs[t] = 0
    /\ todo[c] \intersect queue[c] = {}
    /\ client[c] = "new" => queue[c] = {}

\* The task of a worker has run once and is that of no other.
TakenInv ==
  \A w \in Workers : worker[w] = "run" =>
    /\ task[w] \in Tasks /\ runs[task[w]] = 1
    /\ \A v \in Workers : worker[v] = "run" /\ task[v] = task[w] => v = w

\* A child whose tasks were not counted has a client that is about to tell.
CountedInv ==
  \A c \in counted : queue[c] # {} => countQueued > 0 \/ client[c] = "added"

\* The workers are counted, and there are none before the first count.
WorkersInv == ThreadsCounted /\ (control = "begin" => currentThreads = 0)

TaskPoolInv ==
  /\ TypeOK
  /\ MutexInv /\ UntakenInv /\ TakenInv /\ CountedInv /\ WorkersInv
  /\ TasksRight
-----------------------------------------------------------------------------
\* Goroutines of the pool that have a name in "worker"
Started == {w \in Workers : worker[w] # "none"}

LEMMA SetsAreFinite ==
  /\ IsFiniteSet(Workers) /\ IsFiniteSet(Tasks)
  /\ \A S \in SUBSET Workers : IsFiniteSet(S) /\ Cardinality(S) \in Nat
                               /\ (Cardinality(S) = 0 <=> S = {})
  /\ \A S \in SUBSET Tasks : IsFiniteSet(S) /\ Cardinality(S) \in Nat
                             /\ (Cardinality(S) = 0 <=> S = {})
<1>1. IsFiniteSet(Workers) /\ IsFiniteSet(Tasks)
  BY PoolAssumption
<1>2. ASSUME NEW S, IsFiniteSet(S)
      PROVE  Cardinality(S) \in Nat /\ (Cardinality(S) = 0 <=> S = {})
  BY <1>2, FS_CardinalityType, FS_EmptySet
<1>3. ASSUME NEW S \in SUBSET Workers PROVE IsFiniteSet(S)
  BY <1>1, FS_Subset
<1>4. ASSUME NEW S \in SUBSET Tasks PROVE IsFiniteSet(S)
  BY <1>1, FS_Subset
<1> QED
  BY <1>1, <1>2, <1>3, <1>4

\* New workers look at once whether they are to go on; the others are not touched.
LEMMA SpawnEffect ==
  ASSUME TypeOK, ThreadsCounted, NEW n \in Nat, Spawn(n)
  PROVE  /\ worker' \in [Workers -> {"none", "check", "select", "look", "run", "exit"}]
         /\ \A w \in Workers : worker'[w] = worker[w]
                               \/ (worker[w] = "none" /\ worker'[w] = "check")
         /\ Cardinality(Started') = currentThreads + n
<1>1. PICK new \in kSubset(n, {w \in Workers : worker[w] = "none"}) :
        worker' = [w \in Workers |-> IF w \in new THEN "check" ELSE worker[w]]
  BY DEF Spawn
<1>2. new \subseteq {w \in Workers : worker[w] = "none"} /\ Cardinality(new) = n
  BY DEF kSubset
<1>3. worker \in [Workers -> {"none", "check", "select", "look", "run", "exit"}]
  BY DEF TypeOK
<1>4. Started' = Started \union new /\ Started \intersect new = {}
  BY <1>1, <1>2, <1>3 DEF Started
<1>5. new \in SUBSET Workers /\ Started \in SUBSET Workers
  BY <1>2 DEF Started
<1>6. IsFiniteSet(new) /\ IsFiniteSet(Started)
  BY <1>5, SetsAreFinite
<1>7. Cardinality(Started \union new) = Cardinality(Started) + Cardinality(new)
                                        - Cardinality(Started \intersect new)
  BY <1>6, FS_Union, Zenon
<1>8. Cardinality({}) = 0 /\ Cardinality(Started) \in Nat /\ Cardinality(Started) = currentThreads
  BY <1>6, FS_EmptySet, FS_CardinalityType DEF ThreadsCounted, Started
<1>9. Cardinality(Started') = currentThreads + n
  <2>1. Cardinality(Started') = Cardinality(Started \union new)
    BY <1>4
  <2>2. Cardinality(Started \intersect new) = 0
    BY <1>4, <1>8
  <2> QED
    BY <1>2, <1>7, <1>8, <2>1, <2>2
<1>10. /\ worker' \in [Workers -> {"none", "check", "select", "look", "run", "exit"}]
       /\ \A w \in Workers : worker'[w] = IF w \in new THEN "check" ELSE worker[w]
  BY <1>1, <1>3
<1> QED
  BY <1>2, <1>9, <1>10

LEMMA MaxOfTwo ==
  ASSUME NEW m \in Nat, NEW n \in Nat
  PROVE  Max({m, n}) \in Nat /\ Max({m, n}) >= m /\ Max({m, n}) >= n
<1>1. \E x \in {m, n} : \A y \in {m, n} : x >= y
  <2>1. CASE m >= n BY <2>1
  <2>2. CASE n >= m BY <2>2
  <2> QED BY <2>1, <2>2
<1>2. Max({m, n}) \in {m, n} /\ \A y \in {m, n} : Max({m, n}) >= y
  BY <1>1 DEF Max
<1> QED
  BY <1>2

\* How many workers there are after a step of the control goroutine.
LEMMA CountedBeginEffect ==
  ASSUME TaskPoolInv, CountedBegin
  PROVE  /\ worker' \in [Workers -> {"none", "check", "select", "look", "run", "exit"}]
         /\ \A w \in Workers : worker'[w] = worker[w]
                               \/ (worker[w] = "none" /\ worker'[w] = "check")
         /\ currentThreads' \in Nat /\ currentThreads' >= 1
         /\ currentThreads' = Cardinality(Started')
<1> DEFINE n == Max({MaxThreads, countQueued})
<1>1. MaxThreads \in Nat /\ MaxThreads >= 1 /\ countQueued \in Nat
  BY PoolAssumption DEF TaskPoolInv, TypeOK
<1>2. n \in Nat /\ n >= 1
  BY <1>1, MaxOfTwo
<1>3. Spawn(n) /\ currentThreads' = n /\ currentThreads = 0
  BY DEF CountedBegin, TaskPoolInv, WorkersInv
<1> HIDE DEF n
<1> QED
  BY <1>2, <1>3, SpawnEffect DEF TaskPoolInv, WorkersInv

LEMMA CountedEndedEffect ==
  ASSUME TaskPoolInv, CountedEnded
  PROVE  /\ worker' \in [Workers -> {"none", "check", "select", "look", "run", "exit"}]
         /\ \A w \in Workers : worker'[w] = worker[w]
                               \/ (worker[w] = "none" /\ worker'[w] = "check")
         /\ currentThreads' \in Nat /\ currentThreads' >= countQueued
         /\ currentThreads' >= currentThreads
         /\ currentThreads' = Cardinality(Started')
<1> DEFINE n == IF currentThreads < countQueued THEN countQueued - currentThreads ELSE 0
<1>1. currentThreads \in Nat /\ countQueued \in Nat
  BY DEF TaskPoolInv, TypeOK
<1>2. n \in Nat /\ currentThreads + n >= countQueued
  BY <1>1
<1>3. Spawn(n) /\ currentThreads' = currentThreads + n
  BY DEF CountedEnded
<1> HIDE DEF n
<1> QED
  BY <1>1, <1>2, <1>3, SpawnEffect DEF TaskPoolInv, WorkersInv

LEMMA TaskAddedEffect ==
  ASSUME TaskPoolInv, NEW c \in Clients, TaskAdded(c)
  PROVE  /\ worker' \in [Workers -> {"none", "check", "select", "look", "run", "exit"}]
         /\ \A w \in Workers : worker'[w] = worker[w]
                               \/ (worker[w] = "none" /\ worker'[w] = "check")
         /\ currentThreads' \in Nat /\ (currentThreads' >= 1 \/ stopped)
         /\ currentThreads' = Cardinality(Started')
<1>1. currentThreads \in Nat /\ currentThreads = Cardinality(Started)
  BY DEF TaskPoolInv, TypeOK, WorkersInv, ThreadsCounted, Started
<1>2. CASE currentThreads < MaxThreads /\ ~knowsStopped
  BY <1>1, <1>2, SpawnEffect DEF TaskAdded, TaskPoolInv, WorkersInv
<1>3. CASE ~(currentThreads < MaxThreads /\ ~knowsStopped)
  <2>1. worker' = worker /\ currentThreads' = currentThreads
    BY <1>3 DEF TaskAdded
  <2>2. Started' = Started
    BY <2>1 DEF Started
  <2>3. currentThreads >= 1 \/ stopped
    BY <1>1, <1>3, PoolAssumption DEF TaskPoolInv, MutexInv
  <2> QED
    BY <1>1, <2>1, <2>2, <2>3 DEF TaskPoolInv, TypeOK
<1> QED
  BY <1>2, <1>3

LEMMA ThreadExitEffect ==
  ASSUME TaskPoolInv, NEW w \in Workers, ThreadExit(w)
  PROVE  currentThreads' \in Nat /\ currentThreads' = Cardinality(Started')
<1>1. currentThreads \in Nat /\ currentThreads = Cardinality(Started)
  BY DEF TaskPoolInv, TypeOK, WorkersInv, ThreadsCounted, Started
<1>2. w \in Started /\ Started' = Started \ {w} /\ Started \in SUBSET Workers
      /\ Started' \in SUBSET Workers
  BY DEF ThreadExit, Started, TaskPoolInv, TypeOK
<1>3. Cardinality(Started') = Cardinality(Started) - 1 /\ Cardinality(Started') \in Nat
  BY <1>2, SetsAreFinite, FS_RemoveElement
<1> QED
  BY <1>1, <1>3 DEF ThreadExit
-----------------------------------------------------------------------------
LEMMA PoolTypeStep == TaskPoolInv /\ [Next]_vars => TypeOK'
<1> SUFFICES ASSUME TaskPoolInv, [Next]_vars PROVE TypeOK'
  OBVIOUS
<1> USE PoolAssumption DEF tasks, controlVars, workerVars, TaskPoolInv, TypeOK
<1>1. ASSUME NEW c \in Clients, NewChild(c) \/ TaskAddedLock(c) \/ GiveUp(c) \/ WaitNothing(c) \/
             WaitBegin(c) \/ WaitAllComplete(c)
      PROVE  TypeOK'
  BY <1>1 DEF NewChild, TaskAddedLock, GiveUp, WaitNothing, WaitBegin, WaitAllComplete
<1>2. ASSUME NEW c \in Clients, NEW t \in Tasks, Go(c, t) PROVE TypeOK'
  BY <1>2 DEF Go
<1>3. ASSUME NEW c \in Clients, NEW t \in Tasks, GoRefused(c, t) PROVE TypeOK'
  BY <1>3 DEF GoRefused
<1>4. ASSUME Stop \/ CountLock \/ PoolStop \/ ControlEnds PROVE TypeOK'
  BY <1>4 DEF Stop, CountLock, PoolStop, ControlEnds
<1>5. ASSUME CountedBegin PROVE TypeOK'
  BY <1>5, CountedBeginEffect DEF CountedBegin
<1>6. ASSUME CountedEnded PROVE TypeOK'
  BY <1>6, CountedEndedEffect DEF CountedEnded
<1>7. ASSUME NEW c \in Clients, CountChild(c) PROVE TypeOK'
  <2>1. Cardinality(queue[c]) \in Nat
    BY SetsAreFinite
  <2> QED
    BY <1>7, <2>1 DEF CountChild
<1>8. ASSUME NEW c \in Clients, TaskAdded(c) PROVE TypeOK'
  BY <1>8, TaskAddedEffect DEF TaskAdded
<1>9. ASSUME NEW w \in Workers, ThreadExit(w) PROVE TypeOK'
  BY <1>9, ThreadExitEffect DEF ThreadExit
<1>10. ASSUME NEW w \in Workers, WorkerStops(w) \/ WorkerGoesOn(w) \/ SelectLock(w) \/ SelectNone(w)
       PROVE  TypeOK'
  BY <1>10 DEF WorkerStops, WorkerGoesOn, SelectLock, SelectNone, Forget
<1>11. ASSUME NEW w \in Workers, NEW c \in Clients, SelectChild(w, c) PROVE TypeOK'
  BY <1>11 DEF SelectChild
<1>12. ASSUME NEW w \in Workers, NEW t \in Tasks, RequestStart(w, t) PROVE TypeOK'
  BY <1>12 DEF RequestStart, Forget
<1>13. ASSUME NEW w \in Workers, NEW t \in Tasks, RequestRefused(w, t) PROVE TypeOK'
  BY <1>13 DEF RequestRefused, Forget
<1>14. ASSUME NEW w \in Workers, NEW err \in BOOLEAN, Complete(w, err) PROVE TypeOK'
  BY <1>14 DEF Complete
<1>15. CASE UNCHANGED vars
  BY <1>15 DEF vars
<1> QED
  BY <1>1, <1>2, <1>3, <1>4, <1>5, <1>6, <1>7, <1>8, <1>9, <1>10, <1>11, <1>12, <1>13, <1>14,
       <1>15 DEF Next, ClientStep, ControlStep, WorkerStep

LEMMA PoolMutexStep == TaskPoolInv /\ [Next]_vars => MutexInv'
<1> SUFFICES ASSUME TaskPoolInv, [Next]_vars PROVE MutexInv'
  OBVIOUS
<1> USE PoolAssumption DEF tasks, controlVars, workerVars, TaskPoolInv, TypeOK, MutexInv
<1>1. ASSUME NEW c \in Clients, NewChild(c) \/ TaskAddedLock(c) \/ GiveUp(c) \/ WaitNothing(c) \/
             WaitBegin(c) \/ WaitAllComplete(c)
      PROVE  MutexInv'
  BY <1>1 DEF NewChild, TaskAddedLock, GiveUp, WaitNothing, WaitBegin, WaitAllComplete
<1>2. ASSUME NEW c \in Clients, NEW t \in Tasks, Go(c, t) PROVE MutexInv'
  BY <1>2 DEF Go
<1>3. ASSUME NEW c \in Clients, NEW t \in Tasks, GoRefused(c, t) PROVE MutexInv'
  BY <1>3 DEF GoRefused
<1>4. ASSUME Stop \/ CountLock \/ PoolStop \/ ControlEnds PROVE MutexInv'
  BY <1>4 DEF Stop, CountLock, PoolStop, ControlEnds
<1>5. ASSUME CountedBegin PROVE MutexInv'
  BY <1>5, CountedBeginEffect DEF CountedBegin
<1>6. ASSUME CountedEnded PROVE MutexInv'
  BY <1>6, CountedEndedEffect DEF CountedEnded
<1>7. ASSUME NEW c \in Clients, CountChild(c) PROVE MutexInv'
  BY <1>7 DEF CountChild
<1>8. ASSUME NEW c \in Clients, TaskAdded(c) PROVE MutexInv'
  BY <1>8, TaskAddedEffect DEF TaskAdded
<1>9. ASSUME NEW w \in Workers, ThreadExit(w) PROVE MutexInv'
  BY <1>9, ThreadExitEffect DEF ThreadExit
<1>10. ASSUME NEW w \in Workers, WorkerStops(w) \/ WorkerGoesOn(w) \/ SelectLock(w) \/ SelectNone(w)
       PROVE  MutexInv'
  BY <1>10 DEF WorkerStops, WorkerGoesOn, SelectLock, SelectNone, Forget
<1>11. ASSUME NEW w \in Workers, NEW c \in Clients, SelectChild(w, c) PROVE MutexInv'
  BY <1>11 DEF SelectChild
<1>12. ASSUME NEW w \in Workers, NEW t \in Tasks, RequestStart(w, t) PROVE MutexInv'
  BY <1>12 DEF RequestStart, Forget
<1>13. ASSUME NEW w \in Workers, NEW t \in Tasks, RequestRefused(w, t) PROVE MutexInv'
  BY <1>13 DEF RequestRefused, Forget
<1>14. ASSUME NEW w \in Workers, NEW err \in BOOLEAN, Complete(w, err) PROVE MutexInv'
  BY <1>14 DEF Complete
<1>15. CASE UNCHANGED vars
  BY <1>15 DEF vars
<1> QED
  BY <1>1, <1>2, <1>3, <1>4, <1>5, <1>6, <1>7, <1>8, <1>9, <1>10, <1>11, <1>12, <1>13, <1>14,
       <1>15 DEF Next, ClientStep, ControlStep, WorkerStep

LEMMA PoolUntakenStep == TaskPoolInv /\ [Next]_vars => UntakenInv'
<1> SUFFICES ASSUME TaskPoolInv, [Next]_vars PROVE UntakenInv'
  OBVIOUS
<1> USE DEF tasks, controlVars, workerVars, TaskPoolInv, TypeOK, UntakenInv
<1>1. ASSUME NEW c \in Clients, NewChild(c) \/ TaskAddedLock(c) \/ GiveUp(c) \/ WaitNothing(c) \/
             WaitBegin(c) \/ WaitAllComplete(c)
      PROVE  UntakenInv'
  BY <1>1 DEF NewChild, TaskAddedLock, GiveUp, WaitNothing, WaitBegin, WaitAllComplete
<1>2. ASSUME NEW c \in Clients, NEW t \in Tasks, Go(c, t) PROVE UntakenInv'
  BY <1>2 DEF Go
<1>3. ASSUME NEW c \in Clients, NEW t \in Tasks, GoRefused(c, t) PROVE UntakenInv'
  BY <1>3 DEF GoRefused
<1>4. ASSUME Stop \/ CountLock \/ PoolStop \/ ControlEnds PROVE UntakenInv'
  BY <1>4 DEF Stop, CountLock, PoolStop, ControlEnds
<1>5. ASSUME CountedBegin PROVE UntakenInv'
  BY <1>5, CountedBeginEffect DEF CountedBegin
<1>6. ASSUME CountedEnded PROVE UntakenInv'
  BY <1>6, CountedEndedEffect DEF CountedEnded
<1>7. ASSUME NEW c \in Clients, CountChild(c) PROVE UntakenInv'
  BY <1>7 DEF CountChild
<1>8. ASSUME NEW c \in Clients, TaskAdded(c) PROVE UntakenInv'
  BY <1>8, TaskAddedEffect DEF TaskAdded
<1>9. ASSUME NEW w \in Workers, ThreadExit(w) PROVE UntakenInv'
  BY <1>9, ThreadExitEffect DEF ThreadExit
<1>10. ASSUME NEW w \in Workers, WorkerStops(w) \/ WorkerGoesOn(w) \/ SelectLock(w) \/ SelectNone(w)
       PROVE  UntakenInv'
  BY <1>10 DEF WorkerStops, WorkerGoesOn, SelectLock, SelectNone, Forget
<1>11. ASSUME NEW w \in Workers, NEW c \in Clients, SelectChild(w, c) PROVE UntakenInv'
  BY <1>11 DEF SelectChild
<1>12. ASSUME NEW w \in Workers, NEW t \in Tasks, RequestStart(w, t) PROVE UntakenInv'
  BY <1>12 DEF RequestStart, Forget
<1>13. ASSUME NEW w \in Workers, NEW t \in Tasks, RequestRefused(w, t) PROVE UntakenInv'
  BY <1>13 DEF RequestRefused, Forget
<1>14. ASSUME NEW w \in Workers, NEW err \in BOOLEAN, Complete(w, err) PROVE UntakenInv'
  BY <1>14 DEF Complete
<1>15. CASE UNCHANGED vars
  BY <1>15 DEF vars
<1> QED
  BY <1>1, <1>2, <1>3, <1>4, <1>5, <1>6, <1>7, <1>8, <1>9, <1>10, <1>11, <1>12, <1>13, <1>14,
       <1>15 DEF Next, ClientStep, ControlStep, WorkerStep

LEMMA PoolTakenStep == TaskPoolInv /\ [Next]_vars => TakenInv'
<1> SUFFICES ASSUME TaskPoolInv, [Next]_vars PROVE TakenInv'
  OBVIOUS
<1> USE DEF tasks, controlVars, workerVars, TaskPoolInv, TypeOK, UntakenInv, TakenInv
<1>1. ASSUME NEW c \in Clients, NewChild(c) \/ TaskAddedLock(c) \/ GiveUp(c) \/ WaitNothing(c) \/
             WaitBegin(c) \/ WaitAllComplete(c)
      PROVE  TakenInv'
  BY <1>1 DEF NewChild, TaskAddedLock, GiveUp, WaitNothing, WaitBegin, WaitAllComplete
<1>2. ASSUME NEW c \in Clients, NEW t \in Tasks, Go(c, t) PROVE TakenInv'
  BY <1>2 DEF Go
<1>3. ASSUME NEW c \in Clients, NEW t \in Tasks, GoRefused(c, t) PROVE TakenInv'
  BY <1>3 DEF GoRefused
<1>4. ASSUME Stop \/ CountLock \/ PoolStop \/ ControlEnds PROVE TakenInv'
  BY <1>4 DEF Stop, CountLock, PoolStop, ControlEnds
<1>5. ASSUME CountedBegin PROVE TakenInv'
  BY <1>5, CountedBeginEffect DEF CountedBegin
<1>6. ASSUME CountedEnded PROVE TakenInv'
  BY <1>6, CountedEndedEffect DEF CountedEnded
<1>7. ASSUME NEW c \in Clients, CountChild(c) PROVE TakenInv'
  BY <1>7 DEF CountChild
<1>8. ASSUME NEW c \in Clients, TaskAdded(c) PROVE TakenInv'
  BY <1>8, TaskAddedEffect DEF TaskAdded
<1>9. ASSUME NEW w \in Workers, ThreadExit(w) PROVE TakenInv'
  BY <1>9, ThreadExitEffect DEF ThreadExit
<1>10. ASSUME NEW w \in Workers, WorkerStops(w) \/ WorkerGoesOn(w) \/ SelectLock(w) \/ SelectNone(w)
       PROVE  TakenInv'
  BY <1>10 DEF WorkerStops, WorkerGoesOn, SelectLock, SelectNone, Forget
<1>11. ASSUME NEW w \in Workers, NEW c \in Clients, SelectChild(w, c) PROVE TakenInv'
  BY <1>11 DEF SelectChild
<1>12. ASSUME NEW w \in Workers, NEW t \in Tasks, RequestStart(w, t) PROVE TakenInv'
  <2>0. Owner[t] \in Clients
    BY PoolAssumption
  <2>1. runs[t] = 0 /\ \A v \in Workers : worker[v] = "run" => task[v] # t
    BY <1>12, <2>0 DEF RequestStart
  <2>2. runs'[t] = 1 /\ \A u \in Tasks \ {t} : runs'[u] = runs[u]
    BY <1>12, <2>1 DEF RequestStart
  <2>3. /\ worker'[w] = "run" /\ task'[w] = t
        /\ \A v \in Workers \ {w} : worker'[v] = worker[v] /\ task'[v] = task[v]
    BY <1>12 DEF RequestStart
  <2> QED
    BY <2>1, <2>2, <2>3
<1>13. ASSUME NEW w \in Workers, NEW t \in Tasks, RequestRefused(w, t) PROVE TakenInv'
  BY <1>13 DEF RequestRefused, Forget
<1>14. ASSUME NEW w \in Workers, NEW err \in BOOLEAN, Complete(w, err) PROVE TakenInv'
  BY <1>14 DEF Complete
<1>15. CASE UNCHANGED vars
  BY <1>15 DEF vars
<1> QED
  BY <1>1, <1>2, <1>3, <1>4, <1>5, <1>6, <1>7, <1>8, <1>9, <1>10, <1>11, <1>12, <1>13, <1>14,
       <1>15 DEF Next, ClientStep, ControlStep, WorkerStep

LEMMA PoolCountedStep == TaskPoolInv /\ [Next]_vars => CountedInv'
<1> SUFFICES ASSUME TaskPoolInv, [Next]_vars PROVE CountedInv'
  OBVIOUS
<1> USE PoolAssumption DEF tasks, controlVars, workerVars, TaskPoolInv, TypeOK, MutexInv, CountedInv
<1>1. ASSUME NEW c \in Clients, NewChild(c) \/ TaskAddedLock(c) \/ GiveUp(c) \/ WaitNothing(c) \/
             WaitBegin(c) \/ WaitAllComplete(c)
      PROVE  CountedInv'
  BY <1>1 DEF NewChild, TaskAddedLock, GiveUp, WaitNothing, WaitBegin, WaitAllComplete
<1>2. ASSUME NEW c \in Clients, NEW t \in Tasks, Go(c, t) PROVE CountedInv'
  BY <1>2 DEF Go
<1>3. ASSUME NEW c \in Clients, NEW t \in Tasks, GoRefused(c, t) PROVE CountedInv'
  BY <1>3 DEF GoRefused
<1>4. ASSUME Stop \/ CountLock \/ PoolStop \/ ControlEnds PROVE CountedInv'
  BY <1>4 DEF Stop, CountLock, PoolStop, ControlEnds
<1>5. ASSUME CountedBegin PROVE CountedInv'
  BY <1>5, CountedBeginEffect DEF CountedBegin
<1>6. ASSUME CountedEnded PROVE CountedInv'
  BY <1>6, CountedEndedEffect DEF CountedEnded
<1>7. ASSUME NEW c \in Clients, CountChild(c) PROVE CountedInv'
  <2>1. Cardinality(queue[c]) \in Nat /\ (queue[c] # {} => Cardinality(queue[c]) > 0)
    BY SetsAreFinite
  <2>2. counted' = counted \union {c} /\ countQueued' = countQueued + Cardinality(queue[c])
        /\ UNCHANGED <<queue, client>>
    BY <1>7 DEF CountChild
  <2> QED
    BY <2>1, <2>2
<1>8. ASSUME NEW c \in Clients, TaskAdded(c) PROVE CountedInv'
  BY <1>8, TaskAddedEffect DEF TaskAdded
<1>9. ASSUME NEW w \in Workers, ThreadExit(w) PROVE CountedInv'
  BY <1>9, ThreadExitEffect DEF ThreadExit
<1>10. ASSUME NEW w \in Workers, WorkerStops(w) \/ WorkerGoesOn(w) \/ SelectLock(w) \/ SelectNone(w)
       PROVE  CountedInv'
  BY <1>10 DEF WorkerStops, WorkerGoesOn, SelectLock, SelectNone, Forget
<1>11. ASSUME NEW w \in Workers, NEW c \in Clients, SelectChild(w, c) PROVE CountedInv'
  BY <1>11 DEF SelectChild
<1>12. ASSUME NEW w \in Workers, NEW t \in Tasks, RequestStart(w, t) PROVE CountedInv'
  BY <1>12 DEF RequestStart, Forget
<1>13. ASSUME NEW w \in Workers, NEW t \in Tasks, RequestRefused(w, t) PROVE CountedInv'
  BY <1>13 DEF RequestRefused, Forget
<1>14. ASSUME NEW w \in Workers, NEW err \in BOOLEAN, Complete(w, err) PROVE CountedInv'
  BY <1>14 DEF Complete
<1>15. CASE UNCHANGED vars
  BY <1>15 DEF vars
<1> QED
  BY <1>1, <1>2, <1>3, <1>4, <1>5, <1>6, <1>7, <1>8, <1>9, <1>10, <1>11, <1>12, <1>13, <1>14,
       <1>15 DEF Next, ClientStep, ControlStep, WorkerStep

LEMMA PoolWorkersStep == TaskPoolInv /\ [Next]_vars => WorkersInv'
<1> SUFFICES ASSUME TaskPoolInv, [Next]_vars PROVE WorkersInv'
  OBVIOUS
<1> USE DEF tasks, controlVars, workerVars, TaskPoolInv, TypeOK, WorkersInv, ThreadsCounted,
     Started, MutexInv
<1>same. ASSUME UNCHANGED <<currentThreads, control>>, worker' \in [Workers -> {"none", "check",
     "select", "look", "run", "exit"}],
                \A w \in Workers : worker'[w] = "none" <=> worker[w] = "none"
         PROVE  WorkersInv'
  <2>1. Started' = Started
    BY <1>same
  <2> QED
    BY <1>same, <2>1
<1>1. ASSUME NEW c \in Clients, NewChild(c) \/ TaskAddedLock(c) \/ GiveUp(c) \/ WaitNothing(c) \/
             WaitBegin(c) \/ WaitAllComplete(c)
      PROVE  WorkersInv'
  BY <1>1, <1>same DEF NewChild, TaskAddedLock, GiveUp, WaitNothing, WaitBegin, WaitAllComplete
<1>2. ASSUME NEW c \in Clients, NEW t \in Tasks, Go(c, t) PROVE WorkersInv'
  BY <1>2 DEF Go
<1>3. ASSUME NEW c \in Clients, NEW t \in Tasks, GoRefused(c, t) PROVE WorkersInv'
  BY <1>3 DEF GoRefused
<1>4. ASSUME Stop \/ CountLock \/ PoolStop \/ ControlEnds PROVE WorkersInv'
  BY <1>4 DEF Stop, CountLock, PoolStop, ControlEnds
<1>5. ASSUME CountedBegin PROVE WorkersInv'
  BY <1>5, CountedBeginEffect DEF CountedBegin
<1>6. ASSUME CountedEnded PROVE WorkersInv'
  BY <1>6, CountedEndedEffect DEF CountedEnded
<1>7. ASSUME NEW c \in Clients, CountChild(c) PROVE WorkersInv'
  BY <1>7 DEF CountChild
<1>8. ASSUME NEW c \in Clients, TaskAdded(c) PROVE WorkersInv'
  BY <1>8, TaskAddedEffect DEF TaskAdded
<1>9. ASSUME NEW w \in Workers, ThreadExit(w) PROVE WorkersInv'
  BY <1>9, ThreadExitEffect DEF ThreadExit
<1>10. ASSUME NEW w \in Workers, WorkerStops(w) \/ WorkerGoesOn(w) \/ SelectLock(w) \/ SelectNone(w)
       PROVE  WorkersInv'
  BY <1>10, <1>same DEF WorkerStops, WorkerGoesOn, SelectLock, SelectNone, Forget
<1>11. ASSUME NEW w \in Workers, NEW c \in Clients, SelectChild(w, c) PROVE WorkersInv'
  BY <1>11 DEF SelectChild
<1>12. ASSUME NEW w \in Workers, NEW t \in Tasks, RequestStart(w, t) PROVE WorkersInv'
  BY <1>12 DEF RequestStart, Forget
<1>13. ASSUME NEW w \in Workers, NEW t \in Tasks, RequestRefused(w, t) PROVE WorkersInv'
  BY <1>13 DEF RequestRefused, Forget
<1>14. ASSUME NEW w \in Workers, NEW err \in BOOLEAN, Complete(w, err) PROVE WorkersInv'
  BY <1>14 DEF Complete
<1>15. CASE UNCHANGED vars
  BY <1>15 DEF vars
<1> QED
  BY <1>1, <1>2, <1>3, <1>4, <1>5, <1>6, <1>7, <1>8, <1>9, <1>10, <1>11, <1>12, <1>13, <1>14,
       <1>15 DEF Next, ClientStep, ControlStep, WorkerStep

\* One more element of a set, seen through another
LEMMA OneMore ==
  ASSUME NEW S, NEW O, NEW x
  PROVE  /\ x \in O => (S \intersect O) \union {x} = (S \union {x}) \intersect O
         /\ x \notin O => S \intersect O = (S \union {x}) \intersect O
OBVIOUS

LEMMA PoolRunsOnceStep == TaskPoolInv /\ [Next]_vars => RunsOnce'
<1> SUFFICES ASSUME TaskPoolInv, [Next]_vars PROVE RunsOnce'
  OBVIOUS
<1> USE DEF tasks, controlVars, workerVars, TaskPoolInv, TypeOK, UntakenInv, TakenInv, TasksRight,
     RunsOnce
<1>1. ASSUME NEW c \in Clients, NewChild(c) \/ TaskAddedLock(c) \/ GiveUp(c) \/ WaitNothing(c) \/
             WaitBegin(c) \/ WaitAllComplete(c)
      PROVE  RunsOnce'
  BY <1>1 DEF NewChild, TaskAddedLock, GiveUp, WaitNothing, WaitBegin, WaitAllComplete
<1>2. ASSUME NEW c \in Clients, NEW t \in Tasks, Go(c, t) PROVE RunsOnce'
  BY <1>2 DEF Go
<1>3. ASSUME NEW c \in Clients, NEW t \in Tasks, GoRefused(c, t) PROVE RunsOnce'
  BY <1>3 DEF GoRefused
<1>4. ASSUME Stop \/ CountLock \/ PoolStop \/ ControlEnds PROVE RunsOnce'
  BY <1>4 DEF Stop, CountLock, PoolStop, ControlEnds
<1>5. ASSUME CountedBegin PROVE RunsOnce'
  BY <1>5, CountedBeginEffect DEF CountedBegin
<1>6. ASSUME CountedEnded PROVE RunsOnce'
  BY <1>6, CountedEndedEffect DEF CountedEnded
<1>7. ASSUME NEW c \in Clients, CountChild(c) PROVE RunsOnce'
  BY <1>7 DEF CountChild
<1>8. ASSUME NEW c \in Clients, TaskAdded(c) PROVE RunsOnce'
  <2>1. \A w \in Workers : worker'[w] = "run" <=> worker[w] = "run"
    BY <1>8, TaskAddedEffect
  <2>2. UNCHANGED <<runs, running, task>>
    BY <1>8 DEF TaskAdded
  <2> QED
    BY <2>1, <2>2
<1>9. ASSUME NEW w \in Workers, ThreadExit(w) PROVE RunsOnce'
  BY <1>9, ThreadExitEffect DEF ThreadExit
<1>10. ASSUME NEW w \in Workers, WorkerStops(w) \/ WorkerGoesOn(w) \/ SelectLock(w) \/ SelectNone(w)
       PROVE  RunsOnce'
  BY <1>10 DEF WorkerStops, WorkerGoesOn, SelectLock, SelectNone, Forget
<1>11. ASSUME NEW w \in Workers, NEW c \in Clients, SelectChild(w, c) PROVE RunsOnce'
  BY <1>11 DEF SelectChild
<1>12. ASSUME NEW w \in Workers, NEW t \in Tasks, RequestStart(w, t) PROVE RunsOnce'
  <2>0. Owner[t] \in Clients
    BY PoolAssumption
  <2>1. Owner[t] \in Clients /\ runs[t] = 0
    BY <1>12, <2>0 DEF RequestStart
  <2>2. \A u \in Tasks : runs'[u] <= 1
    BY <1>12, <2>1 DEF RequestStart
  <2>3. {task'[v] : v \in {v \in Workers : worker'[v] = "run"}}
          = {task[v] : v \in {v \in Workers : worker[v] = "run"}} \union {t}
    BY <1>12 DEF RequestStart
  <2>4. \A c \in Clients : running'[c] = IF c = Owner[t] THEN running[c] \union {t} ELSE running[c]
    BY <1>12, <2>1 DEF RequestStart
  <2> DEFINE Taken == {task[v] : v \in {v \in Workers : worker[v] = "run"}}
             Own(c) == {u \in Tasks : Owner[u] = c}
  <2>5. Taken' = Taken \union {t}
    BY <2>3
  <2>6. \A c \in Clients : running[c] = Taken \intersect Own(c)
    OBVIOUS
  <2>7. \A c \in Clients : t \in Own(c) <=> c = Owner[t]
    OBVIOUS
  <2> HIDE DEF Taken, Own
  <2>8. ASSUME NEW c \in Clients PROVE running'[c] = Taken' \intersect Own(c)
    <3>1. running[c] = Taken \intersect Own(c) /\ (t \in Own(c) <=> c = Owner[t])
          /\ Taken' = Taken \union {t}
      BY <2>5, <2>6, <2>7
    <3>2. running'[c] = IF t \in Own(c) THEN running[c] \union {t} ELSE running[c]
      BY <2>4, <3>1
    <3> QED
      BY <3>1, <3>2, OneMore
  <2> QED
    BY <2>2, <2>8 DEF Taken, Own
<1>13. ASSUME NEW w \in Workers, NEW t \in Tasks, RequestRefused(w, t) PROVE RunsOnce'
  BY <1>13 DEF RequestRefused, Forget
<1>14. ASSUME NEW w \in Workers, NEW err \in BOOLEAN, Complete(w, err) PROVE RunsOnce'
  BY <1>14 DEF Complete
<1>15. CASE UNCHANGED vars
  BY <1>15 DEF vars
<1> QED
  BY <1>1, <1>2, <1>3, <1>4, <1>5, <1>6, <1>7, <1>8, <1>9, <1>10, <1>11, <1>12, <1>13, <1>14,
       <1>15 DEF Next, ClientStep, ControlStep, WorkerStep

LEMMA PoolErrorStep == TaskPoolInv /\ [Next]_vars => ErrorClearsQueue'
<1> SUFFICES ASSUME TaskPoolInv, [Next]_vars PROVE ErrorClearsQueue'
  OBVIOUS
<1> USE DEF tasks, controlVars, workerVars, TaskPoolInv, TypeOK, TasksRight, ErrorClearsQueue
<1>1. ASSUME NEW c \in Clients, NewChild(c) \/ TaskAddedLock(c) \/ GiveUp(c) \/ WaitNothing(c) \/
             WaitBegin(c) \/ WaitAllComplete(c)
      PROVE  ErrorClearsQueue'
  BY <1>1 DEF NewChild, TaskAddedLock, GiveUp, WaitNothing, WaitBegin, WaitAllComplete
<1>2. ASSUME NEW c \in Clients, NEW t \in Tasks, Go(c, t) PROVE ErrorClearsQueue'
  BY <1>2 DEF Go
<1>3. ASSUME NEW c \in Clients, NEW t \in Tasks, GoRefused(c, t) PROVE ErrorClearsQueue'
  BY <1>3 DEF GoRefused
<1>4. ASSUME Stop \/ CountLock \/ PoolStop \/ ControlEnds PROVE ErrorClearsQueue'
  BY <1>4 DEF Stop, CountLock, PoolStop, ControlEnds
<1>5. ASSUME CountedBegin PROVE ErrorClearsQueue'
  BY <1>5, CountedBeginEffect DEF CountedBegin
<1>6. ASSUME CountedEnded PROVE ErrorClearsQueue'
  BY <1>6, CountedEndedEffect DEF CountedEnded
<1>7. ASSUME NEW c \in Clients, CountChild(c) PROVE ErrorClearsQueue'
  BY <1>7 DEF CountChild
<1>8. ASSUME NEW c \in Clients, TaskAdded(c) PROVE ErrorClearsQueue'
  BY <1>8, TaskAddedEffect DEF TaskAdded
<1>9. ASSUME NEW w \in Workers, ThreadExit(w) PROVE ErrorClearsQueue'
  BY <1>9, ThreadExitEffect DEF ThreadExit
<1>10. ASSUME NEW w \in Workers, WorkerStops(w) \/ WorkerGoesOn(w) \/ SelectLock(w) \/ SelectNone(w)
       PROVE  ErrorClearsQueue'
  BY <1>10 DEF WorkerStops, WorkerGoesOn, SelectLock, SelectNone, Forget
<1>11. ASSUME NEW w \in Workers, NEW c \in Clients, SelectChild(w, c) PROVE ErrorClearsQueue'
  BY <1>11 DEF SelectChild
<1>12. ASSUME NEW w \in Workers, NEW t \in Tasks, RequestStart(w, t) PROVE ErrorClearsQueue'
  BY <1>12 DEF RequestStart, Forget
<1>13. ASSUME NEW w \in Workers, NEW t \in Tasks, RequestRefused(w, t) PROVE ErrorClearsQueue'
  BY <1>13 DEF RequestRefused, Forget
<1>14. ASSUME NEW w \in Workers, NEW err \in BOOLEAN, Complete(w, err) PROVE ErrorClearsQueue'
  BY <1>14 DEF Complete
<1>15. CASE UNCHANGED vars
  BY <1>15 DEF vars
<1> QED
  BY <1>1, <1>2, <1>3, <1>4, <1>5, <1>6, <1>7, <1>8, <1>9, <1>10, <1>11, <1>12, <1>13, <1>14,
       <1>15 DEF Next, ClientStep, ControlStep, WorkerStep

LEMMA PoolStrandedStep == TaskPoolInv /\ [Next]_vars => NoTaskStranded'
<1> SUFFICES ASSUME TaskPoolInv, [Next]_vars PROVE NoTaskStranded'
  OBVIOUS
<1> USE DEF tasks, controlVars, workerVars, TaskPoolInv, TypeOK, MutexInv, TasksRight,
     NoTaskStranded, Started
<1>1. ASSUME NEW c \in Clients, NewChild(c) \/ TaskAddedLock(c) \/ GiveUp(c) \/ WaitNothing(c) \/
             WaitBegin(c) \/ WaitAllComplete(c)
      PROVE  NoTaskStranded'
  BY <1>1 DEF NewChild, TaskAddedLock, GiveUp, WaitNothing, WaitBegin, WaitAllComplete
<1>2. ASSUME NEW c \in Clients, NEW t \in Tasks, Go(c, t) PROVE NoTaskStranded'
  BY <1>2 DEF Go
<1>3. ASSUME NEW c \in Clients, NEW t \in Tasks, GoRefused(c, t) PROVE NoTaskStranded'
  BY <1>3 DEF GoRefused
<1>4. ASSUME Stop \/ CountLock \/ PoolStop \/ ControlEnds PROVE NoTaskStranded'
  BY <1>4 DEF Stop, CountLock, PoolStop, ControlEnds
<1>5. ASSUME CountedBegin PROVE NoTaskStranded'
  BY <1>5, CountedBeginEffect, SetsAreFinite
<1>6. ASSUME CountedEnded PROVE NoTaskStranded'
  <2> SUFFICES ASSUME NEW c \in Clients, queue[c] # {}, client[c] # "added"
               PROVE  \E w \in Workers : worker'[w] # "none"
    BY <1>6 DEF CountedEnded
  <2>1. c \in counted /\ countQueued > 0
    BY <1>6 DEF CountedEnded, UntakenInv, CountedInv
  <2> QED
    BY <1>6, <2>1, CountedEndedEffect, SetsAreFinite
<1>7. ASSUME NEW c \in Clients, CountChild(c) PROVE NoTaskStranded'
  BY <1>7 DEF CountChild
<1>8. ASSUME NEW c \in Clients, TaskAdded(c) PROVE NoTaskStranded'
  <2>1. stopped' = stopped
    BY <1>8 DEF TaskAdded
  <2>2. Started' \in SUBSET Workers
    OBVIOUS
  <2>3. ~stopped => Cardinality(Started') # 0
    BY <1>8, TaskAddedEffect
  <2>4. ~stopped => Started' # {}
    BY <2>2, <2>3, SetsAreFinite
  <2> QED
    BY <2>1, <2>4
<1>9. ASSUME NEW w \in Workers, ThreadExit(w) PROVE NoTaskStranded'
  BY <1>9, ThreadExitEffect DEF ThreadExit
<1>10. ASSUME NEW w \in Workers, WorkerStops(w) \/ WorkerGoesOn(w) \/ SelectLock(w) \/ SelectNone(w)
       PROVE  NoTaskStranded'
  BY <1>10 DEF WorkerStops, WorkerGoesOn, SelectLock, SelectNone, Forget
<1>11. ASSUME NEW w \in Workers, NEW c \in Clients, SelectChild(w, c) PROVE NoTaskStranded'
  BY <1>11 DEF SelectChild
<1>12. ASSUME NEW w \in Workers, NEW t \in Tasks, RequestStart(w, t) PROVE NoTaskStranded'
  BY <1>12 DEF RequestStart, Forget
<1>13. ASSUME NEW w \in Workers, NEW t \in Tasks, RequestRefused(w, t) PROVE NoTaskStranded'
  BY <1>13 DEF RequestRefused, Forget
<1>14. ASSUME NEW w \in Workers, NEW err \in BOOLEAN, Complete(w, err) PROVE NoTaskStranded'
  BY <1>14 DEF Complete
<1>15. CASE UNCHANGED vars
  BY <1>15 DEF vars
<1> QED
  BY <1>1, <1>2, <1>3, <1>4, <1>5, <1>6, <1>7, <1>8, <1>9, <1>10, <1>11, <1>12, <1>13, <1>14,
       <1>15 DEF Next, ClientStep, ControlStep, WorkerStep

LEMMA PoolWaiterStep == TaskPoolInv /\ [Next]_vars => WaiterWoken'
<1> SUFFICES ASSUME TaskPoolInv, [Next]_vars PROVE WaiterWoken'
  OBVIOUS
<1> USE DEF tasks, controlVars, workerVars, TaskPoolInv, TypeOK, TasksRight, WaiterWoken
<1>1. ASSUME NEW c \in Clients, NewChild(c) \/ TaskAddedLock(c) \/ GiveUp(c) \/ WaitNothing(c) \/
             WaitBegin(c) \/ WaitAllComplete(c)
      PROVE  WaiterWoken'
  BY <1>1 DEF NewChild, TaskAddedLock, GiveUp, WaitNothing, WaitBegin, WaitAllComplete
<1>2. ASSUME NEW c \in Clients, NEW t \in Tasks, Go(c, t) PROVE WaiterWoken'
  BY <1>2 DEF Go
<1>3. ASSUME NEW c \in Clients, NEW t \in Tasks, GoRefused(c, t) PROVE WaiterWoken'
  BY <1>3 DEF GoRefused
<1>4. ASSUME Stop \/ CountLock \/ PoolStop \/ ControlEnds PROVE WaiterWoken'
  BY <1>4 DEF Stop, CountLock, PoolStop, ControlEnds
<1>5. ASSUME CountedBegin PROVE WaiterWoken'
  BY <1>5, CountedBeginEffect DEF CountedBegin
<1>6. ASSUME CountedEnded PROVE WaiterWoken'
  BY <1>6, CountedEndedEffect DEF CountedEnded
<1>7. ASSUME NEW c \in Clients, CountChild(c) PROVE WaiterWoken'
  BY <1>7 DEF CountChild
<1>8. ASSUME NEW c \in Clients, TaskAdded(c) PROVE WaiterWoken'
  BY <1>8, TaskAddedEffect DEF TaskAdded
<1>9. ASSUME NEW w \in Workers, ThreadExit(w) PROVE WaiterWoken'
  BY <1>9, ThreadExitEffect DEF ThreadExit
<1>10. ASSUME NEW w \in Workers, WorkerStops(w) \/ WorkerGoesOn(w) \/ SelectLock(w) \/ SelectNone(w)
       PROVE  WaiterWoken'
  BY <1>10 DEF WorkerStops, WorkerGoesOn, SelectLock, SelectNone, Forget
<1>11. ASSUME NEW w \in Workers, NEW c \in Clients, SelectChild(w, c) PROVE WaiterWoken'
  BY <1>11 DEF SelectChild
<1>12. ASSUME NEW w \in Workers, NEW t \in Tasks, RequestStart(w, t) PROVE WaiterWoken'
  BY <1>12 DEF RequestStart, Forget
<1>13. ASSUME NEW w \in Workers, NEW t \in Tasks, RequestRefused(w, t) PROVE WaiterWoken'
  BY <1>13 DEF RequestRefused, Forget
<1>14. ASSUME NEW w \in Workers, NEW err \in BOOLEAN, Complete(w, err) PROVE WaiterWoken'
  BY <1>14 DEF Complete
<1>15. CASE UNCHANGED vars
  BY <1>15 DEF vars
<1> QED
  BY <1>1, <1>2, <1>3, <1>4, <1>5, <1>6, <1>7, <1>8, <1>9, <1>10, <1>11, <1>12, <1>13, <1>14,
       <1>15 DEF Next, ClientStep, ControlStep, WorkerStep

LEMMA PoolInit == Init => TaskPoolInv
<1> SUFFICES ASSUME Init PROVE TaskPoolInv
  OBVIOUS
<1> USE PoolAssumption DEF Init
<1>1. TypeOK
  BY DEF TypeOK
<1>2. MutexInv /\ UntakenInv /\ TakenInv /\ CountedInv
  BY DEF MutexInv, UntakenInv, TakenInv, CountedInv
<1>3. {w \in Workers : worker[w] # "none"} = {}
  OBVIOUS
<1>4. WorkersInv
  BY <1>3, FS_EmptySet DEF WorkersInv, ThreadsCounted
<1>5. TasksRight
  BY <1>4 DEF TasksRight, RunsOnce, ErrorClearsQueue, NoTaskStranded, WaiterWoken, WorkersInv
<1> QED
  BY <1>1, <1>2, <1>4, <1>5 DEF TaskPoolInv

LEMMA TaskPoolInvHolds == Spec => []TaskPoolInv
<1>1. TaskPoolInv /\ [Next]_vars => TasksRight'
  BY PoolRunsOnceStep, PoolErrorStep, PoolWorkersStep, PoolStrandedStep, PoolWaiterStep
  DEF TasksRight, WorkersInv
<1>2. TaskPoolInv /\ [Next]_vars => TaskPoolInv'
  BY <1>1, PoolTypeStep, PoolMutexStep, PoolUntakenStep, PoolTakenStep, PoolCountedStep,
     PoolWorkersStep DEF TaskPoolInv
<1> QED
  BY <1>2, PoolInit, PTL DEF Spec

\* The state of the task pool keeps its types; that the number of workers is
\* never negative rests on ThreadsCounted.
THEOREM TaskPoolTypes == Spec => []TypeOK
<1>1. TaskPoolInv => TypeOK
  BY DEF TaskPoolInv
<1> QED
  BY <1>1, TaskPoolInvHolds, PTL

\* However clients, workers and the control goroutine race, tasks are started
\* once, never after an error of their child, a worker is there for what is
\* queued, and who waits for a child is told of its end (nestedTaskPool.go).
THEOREM TasksAreRight == Spec => []TasksRight
<1>1. TaskPoolInv => TasksRight
  BY DEF TaskPoolInv
<1> QED
  BY <1>1, TaskPoolInvHolds, PTL

-----------------------------------------------------------------------------
(* Culling *)

\* Threads that have passed the test of the count and not yet raised it.
Busy == {t \in CullThreads : culler[t] \in {"task", "send", "count"}}

\* Those whose set has been received.
Uncounted == {t \in CullThreads : culler[t] = "count"}

\* The test of the loop leaves room for one more set of every thread.
RoomForAll ==
  Busy # {} \/ tasksCompleted > 0 => tasksCompleted + Cardinality(Busy) <= Target - 1

\* A target no greater than the number of threads starts none of them.
NeverTried == Target <= ThreadCount => tasksCompleted = 0 /\ Busy = {}

\* A thread leaves its loop for one of two reasons, or with the program.
LeftForAReason ==
  \A t \in CullThreads : culler[t] = "end" =>
    cullCancelled \/ crashed \/ tasksCompleted >= Target - ThreadCount

ClosedAtEnd == resultsClosed => ~crashed /\ \A t \in CullThreads : culler[t] = "end"

CullInv ==
  /\ CullTypeOK
  /\ received = tasksCompleted + Cardinality(Uncounted)
  /\ RoomForAll /\ NeverTried /\ LeftForAReason /\ ClosedAtEnd

\* Every set of threads has a size between none and all.
LEMMA SizeOfThreads ==
  ASSUME NEW S \in SUBSET CullThreads
  PROVE  /\ IsFiniteSet(S) /\ Cardinality(S) \in Nat
         /\ Cardinality(S) <= ThreadCount
         /\ ThreadCount \in Nat
         /\ Cardinality(S) = 0 <=> S = {}
<1>1. IsFiniteSet(CullThreads)
  BY CullingAssumption
<1>2. IsFiniteSet(S) /\ Cardinality(S) <= Cardinality(CullThreads)
  BY <1>1, FS_Subset
<1>3. Cardinality(S) = 0 <=> S = {}
  BY <1>2, FS_EmptySet
<1> QED
  BY <1>1, <1>2, <1>3, FS_CardinalityType DEF ThreadCount

LEMMA InitCull == CullInit => CullInv
<1> SUFFICES ASSUME CullInit PROVE CullInv
  OBVIOUS
<1>1. Busy = {} /\ Uncounted = {}
  BY DEF CullInit, Busy, Uncounted
<1>2. Cardinality(Uncounted) = 0
  BY <1>1, FS_EmptySet
<1>3. CullTypeOK
  BY DEF CullInit, CullTypeOK
<1>4. RoomForAll /\ NeverTried
  BY <1>1 DEF CullInit, RoomForAll, NeverTried
<1>5. LeftForAReason /\ ClosedAtEnd
  BY DEF CullInit, LeftForAReason, ClosedAtEnd
<1> QED
  BY <1>2, <1>3, <1>4, <1>5 DEF CullInit, CullInv

\* What the conditions say when the sets of threads have changed in one thread.
LEMMA StepCull == CullInv /\ [CullNext]_cullVars => CullInv'
<1> SUFFICES ASSUME CullInv, [CullNext]_cullVars PROVE CullInv'
  OBVIOUS
<1> USE DEF CullInv, CullTypeOK
<1>b. Busy \in SUBSET CullThreads /\ Uncounted \in SUBSET CullThreads
      /\ Busy' \in SUBSET CullThreads /\ Uncounted' \in SUBSET CullThreads
  BY DEF Busy, Uncounted
<1>s. /\ IsFiniteSet(Busy) /\ IsFiniteSet(Uncounted)
      /\ ThreadCount \in Nat /\ Target \in Nat
      /\ Cardinality(Busy) \in Nat /\ Cardinality(Busy') \in Nat
      /\ Cardinality(Busy') <= ThreadCount
      /\ Cardinality(Uncounted) \in Nat /\ Cardinality(Uncounted') \in Nat
      /\ Cardinality(Busy) = 0 <=> Busy = {}
      /\ Cardinality(Busy') = 0 <=> Busy' = {}
  BY <1>b, SizeOfThreads, CullingAssumption
<1>same. ASSUME culler' = culler PROVE Busy' = Busy /\ Uncounted' = Uncounted
  BY <1>same DEF Busy, Uncounted
<1>1. ASSUME NEW t \in CullThreads, StartTask(t) PROVE CullInv'
  <2> USE <1>1 DEF StartTask, Becomes
  <2>1. Uncounted' = Uncounted
    BY DEF Uncounted
  <2>2. tasksCompleted + Cardinality(Busy') <= Target - 1 /\ Target > ThreadCount
    BY <1>s
  <2> QED
    BY <2>1, <2>2, <1>s DEF RoomForAll, NeverTried, LeftForAReason, ClosedAtEnd
<1>2. ASSUME NEW t \in CullThreads, ExitThread(t) PROVE CullInv'
  <2> USE <1>2 DEF ExitThread, Becomes
  <2>1. Uncounted' = Uncounted /\ Busy' = Busy
    BY DEF Uncounted, Busy
  <2> QED
    BY <2>1, <1>s DEF RoomForAll, NeverTried, LeftForAReason, ClosedAtEnd
<1>3. ASSUME NEW t \in CullThreads, TaskInVain(t) \/ TaskFails(t) PROVE CullInv'
  <2> USE DEF TaskInVain, TaskFails, Becomes
  <2>1. Uncounted' = Uncounted /\ Busy' = Busy \ {t} /\ t \in Busy
    BY <1>3 DEF Uncounted, Busy
  <2>2. Cardinality(Busy') = Cardinality(Busy) - 1
    BY <2>1, <1>s, FS_RemoveElement
  <2>3. CullTypeOK' /\ received' = tasksCompleted' + Cardinality(Uncounted')
    BY <1>3, <2>1
  <2>4. RoomForAll'
    BY <1>3, <2>1, <2>2, <1>s DEF RoomForAll
  <2>5. NeverTried'
    BY <1>3, <2>1 DEF NeverTried
  <2>6. LeftForAReason' /\ ClosedAtEnd'
    BY <1>3 DEF LeftForAReason, ClosedAtEnd
  <2> QED
    BY <2>3, <2>4, <2>5, <2>6
<1>4. ASSUME NEW t \in CullThreads, TaskOptimal(t) PROVE CullInv'
  <2> USE <1>4 DEF TaskOptimal, Becomes
  <2>1. Uncounted' = Uncounted /\ Busy' = Busy
    BY DEF Uncounted, Busy
  <2> QED
    BY <2>1, <1>s DEF RoomForAll, NeverTried, LeftForAReason, ClosedAtEnd
<1>5. ASSUME NEW t \in CullThreads, SendResult(t) PROVE CullInv'
  <2> USE <1>5 DEF SendResult, Becomes
  <2>1. Uncounted' = Uncounted \union {t} /\ Busy' = Busy /\ t \notin Uncounted
    BY DEF Uncounted, Busy
  <2>2. Cardinality(Uncounted') = Cardinality(Uncounted) + 1
    BY <2>1, <1>s, FS_AddElement
  <2> QED
    BY <2>1, <2>2, <1>s DEF RoomForAll, NeverTried, LeftForAReason, ClosedAtEnd
<1>6. ASSUME NEW t \in CullThreads, CountTask(t) PROVE CullInv'
  <2> USE <1>6 DEF CountTask, Becomes
  <2>1. Uncounted' = Uncounted \ {t} /\ t \in Uncounted /\ Busy' = Busy \ {t} /\ t \in Busy
    BY DEF Uncounted, Busy
  <2>2. Cardinality(Uncounted') = Cardinality(Uncounted) - 1
        /\ Cardinality(Busy') = Cardinality(Busy) - 1
    BY <2>1, <1>s, FS_RemoveElement
  <2> QED
    BY <2>1, <2>2, <1>s DEF RoomForAll, NeverTried, LeftForAReason, ClosedAtEnd
<1>7. ASSUME CancelCulling \/ CloseResults PROVE CullInv'
  <2>1. culler' = culler
    BY <1>7 DEF CancelCulling, CloseResults
  <2>2. Busy' = Busy /\ Uncounted' = Uncounted
    BY <2>1, <1>same
  <2>3. UNCHANGED <<tasksCompleted, received, crashed>>
    BY <1>7 DEF CancelCulling, CloseResults
  <2>4. CullTypeOK' /\ RoomForAll' /\ NeverTried'
    BY <1>7, <2>1, <2>2, <2>3 DEF CancelCulling, CloseResults, RoomForAll, NeverTried
  <2>5. LeftForAReason' /\ ClosedAtEnd'
    BY <1>7, <2>1, <2>3 DEF CancelCulling, CloseResults, LeftForAReason, ClosedAtEnd
  <2> QED
    BY <2>2, <2>3, <2>4, <2>5
<1>8. CASE UNCHANGED cullVars
  BY <1>8, <1>same DEF cullVars, RoomForAll, NeverTried, LeftForAReason, ClosedAtEnd
<1> QED
  BY <1>1, <1>2, <1>3, <1>4, <1>5, <1>6, <1>7, <1>8 DEF CullNext

\* The strengthened invariant holds in every state.
LEMMA CullInvariant == CullSpec => []CullInv
  BY InitCull, StepCull, PTL DEF CullSpec

\* The state keeps its types (OptionsCulling).
THEOREM CullTypes == CullSpec => []CullTypeOK
<1>1. CullInv => CullTypeOK
  BY DEF CullInv
<1> QED
  BY <1>1, CullInvariant, PTL

\* Threads that test a count the others are about to raise do not go beyond the
\* target, and at most one set of each thread is missing at the end (Run,
\* runTask).
THEOREM CullRange == CullSpec => []CullInRange
<1>1. CullInv => CullInRange
  <2> SUFFICES ASSUME CullInv PROVE CullInRange
    OBVIOUS
  <2>1. Uncounted \in SUBSET CullThreads /\ Busy \in SUBSET CullThreads /\ Uncounted \subseteq Busy
    BY DEF Busy, Uncounted
  <2>2. /\ IsFiniteSet(Busy) /\ Cardinality(Busy) \in Nat /\ Cardinality(Uncounted) \in Nat
        /\ ThreadCount \in Nat /\ Target \in Nat
        /\ Cardinality(Uncounted) = 0 <=> Uncounted = {}
    BY <2>1, SizeOfThreads, CullingAssumption
  <2>3. Cardinality(Uncounted) <= Cardinality(Busy)
    BY <2>1, <2>2, FS_Subset
  <2>4. NotBeyondTarget
    BY <2>1, <2>2, <2>3 DEF CullInv, CullTypeOK, NotBeyondTarget, RoomForAll, NeverTried
  <2>5. ASSUME resultsClosed
        PROVE  received = tasksCompleted /\ (received >= Target - ThreadCount \/ cullCancelled)
    <3>1. Uncounted = {}
      BY <2>5 DEF CullInv, ClosedAtEnd, Uncounted
    <3>2. PICK t \in CullThreads : TRUE
      BY CullingAssumption
    <3>3. culler[t] = "end" /\ ~crashed
      BY <2>5, <3>2 DEF CullInv, ClosedAtEnd
    <3> QED
      BY <2>2, <3>1, <3>2, <3>3 DEF CullInv, CullTypeOK, LeftForAReason
  <2> QED
    BY <2>4, <2>5 DEF CullInRange, AlmostAll
<1> QED
  BY <1>1, CullInvariant, PTL

-----------------------------------------------------------------------------
(* ChannelPools *)

Holding == {"check", "work", "send", "cancel", "handlers", "add"}

\* An input that has been dealt is in the hands of a thread, or it is known what
\* became of it.
Accounted ==
  \A i \in 1..dealt :
    \/ i \in gathered \union valueless \union results \union failures \union skipped
    \/ \E w \in PoolThreads : input[w] = i /\ hand[w] \in Holding

\* Only a cancellation or the last input closes the channel of the inputs, and
\* only a closed channel or a cancellation ends a thread.
EndsForAReason ==
  /\ dealer = "closed" => dealt = InputCount \/ (kind # "multi" /\ signal # "no")
  /\ \A w \in PoolThreads :
       /\ hand[w] = "end" => dealer = "closed" \/ (kind = "multi" /\ signal # "no")
       /\ hand[w] = "recheck" => kind = "multi"

\* Inputs are left out only after a cancellation or an error, and the threads
\* stop each other only after an error was added.
SkipsForAReason ==
  /\ skipped # {} => signal # "no" \/ failures # {}
  /\ ~goOn => failures # {}
  /\ \A w \in PoolThreads : hand[w] = "stop" => failures # {}

\* The results are closed after the threads, and the caller comes last.
CallerLast ==
  /\ outClosed => \A w \in PoolThreads : hand[w] = "end"
  /\ caller = "done" => outClosed /\ results = {} /\ told = failures

\* The input of a thread has been dealt.
InputDealt == \A w \in PoolThreads : hand[w] \in Holding => input[w] \in 1..dealt

ChannelInv ==
  ChannelTypeOK /\ InputDealt /\ Accounted /\ EndsForAReason /\ SkipsForAReason /\ CallerLast

LEMMA ChannelInvInit == ChannelInit => ChannelInv
<1> SUFFICES ASSUME ChannelInit PROVE ChannelInv
  OBVIOUS
<1> USE ChannelPoolsAssumption DEF ChannelInit
<1>1. ChannelTypeOK
  <2>1. hand \in [PoolThreads -> {"receive"}] /\ input \in [PoolThreads -> {0}]
    OBVIOUS
  <2>2. dealt \in 0..InputCount /\ 0 \in 0..InputCount
    OBVIOUS
  <2> QED BY <2>1, <2>2 DEF ChannelTypeOK, Kinds, Inputs
<1>2. InputDealt BY DEF InputDealt, Holding
<1>3. Accounted
  <2>1. 1..dealt = {} OBVIOUS
  <2> QED BY <2>1 DEF Accounted
<1>4. EndsForAReason /\ SkipsForAReason /\ CallerLast
  BY DEF EndsForAReason, SkipsForAReason, CallerLast
<1> QED BY <1>1, <1>2, <1>3, <1>4 DEF ChannelInv

\* What a thread works on is an input.
LEMMA WorksOnInput ==
  ASSUME ChannelInv, NEW w \in PoolThreads, hand[w] \in Holding
  PROVE  input[w] \in Inputs
  BY ChannelPoolsAssumption DEF ChannelInv, ChannelTypeOK, InputDealt, Inputs

-----------------------------------------------------------------------------
(* Each part of the invariant is preserved. *)

\* Types
LEMMA TypeStep ==
  ASSUME ChannelInv, [ChannelNext]_channelVars PROVE ChannelTypeOK'
<1> USE ChannelPoolsAssumption
    DEF ChannelInv, ChannelTypeOK, Kinds, Inputs, Moves, InputDealt, Holding, flowVars, endVars
<1>1. CASE DealEnds BY <1>1 DEF DealEnds
<1>2. CASE Gather BY <1>2 DEF Gather
<1>3. CASE Close BY <1>3 DEF Close
<1>4. CASE Return BY <1>4 DEF Return
<1>5. CASE CancelOutside BY <1>5 DEF CancelOutside
<1>6. ASSUME NEW w \in PoolThreads, Deal(w) PROVE ChannelTypeOK'
  BY <1>6 DEF Deal
<1>7. ASSUME NEW w \in PoolThreads, HandStep(w) PROVE ChannelTypeOK'
  <2>1. CASE HandEnds(w) BY <2>1 DEF HandEnds
  <2>2. CASE Begin(w) BY <2>2 DEF Begin
  <2>3. CASE Skip(w)
    <3>1. input[w] \in Inputs BY <2>3, WorksOnInput DEF Skip
    <3> QED BY <2>3, <3>1 DEF Skip
  <2>4. CASE WorkValue(w) BY <2>4 DEF WorkValue
  <2>5. CASE WorkNothing(w)
    <3>1. input[w] \in Inputs BY <2>5, WorksOnInput DEF WorkNothing
    <3> QED BY <2>5, <3>1 DEF WorkNothing, Again
  <2>6. CASE WorkFails(w) BY <2>6 DEF WorkFails
  <2>7. CASE CancelBegin(w) BY <2>7 DEF CancelBegin
  <2>8. CASE CancelEnds(w) BY <2>8 DEF CancelEnds
  <2>9. CASE AddError(w)
    <3>1. input[w] \in Inputs BY <2>9, WorksOnInput DEF AddError
    <3> QED BY <2>9, <3>1 DEF AddError
  <2>10. CASE StopOthers(w) BY <2>10 DEF StopOthers
  <2>11. CASE SendValue(w)
    <3>1. input[w] \in Inputs BY <2>11, WorksOnInput DEF SendValue
    <3> QED BY <2>11, <3>1 DEF SendValue
  <2>12. CASE SendOutput(w)
    <3>1. input[w] \in Inputs BY <2>12, WorksOnInput DEF SendOutput
    <3> QED BY <2>12, <3>1 DEF SendOutput
  <2>13. CASE Recheck(w) BY <2>13 DEF Recheck
  <2> QED BY <1>7, <2>1, <2>2, <2>3, <2>4, <2>5, <2>6, <2>7, <2>8, <2>9, <2>10, <2>11, <2>12, <2>13 DEF HandStep
<1>8. CASE UNCHANGED channelVars BY <1>8 DEF channelVars
<1> QED BY <1>1, <1>2, <1>3, <1>4, <1>5, <1>6, <1>7, <1>8 DEF ChannelNext

\* An input stays dealt.
LEMMA InputStep ==
  ASSUME ChannelInv, [ChannelNext]_channelVars PROVE InputDealt'
<1> USE ChannelPoolsAssumption
    DEF ChannelInv, ChannelTypeOK, Kinds, Inputs, Moves, InputDealt, Holding, flowVars, endVars
<1>1. CASE DealEnds BY <1>1 DEF DealEnds
<1>2. CASE Gather BY <1>2 DEF Gather
<1>3. CASE Close BY <1>3 DEF Close
<1>4. CASE Return BY <1>4 DEF Return
<1>5. CASE CancelOutside BY <1>5 DEF CancelOutside
<1>6. ASSUME NEW w \in PoolThreads, Deal(w) PROVE InputDealt'
  BY <1>6 DEF Deal
<1>7. ASSUME NEW w \in PoolThreads, HandStep(w) PROVE InputDealt'
  <2>1. CASE HandEnds(w) BY <2>1 DEF HandEnds
  <2>2. CASE Begin(w) BY <2>2 DEF Begin
  <2>3. CASE Skip(w) BY <2>3 DEF Skip
  <2>4. CASE WorkValue(w) BY <2>4 DEF WorkValue
  <2>5. CASE WorkNothing(w) BY <2>5 DEF WorkNothing, Again
  <2>6. CASE WorkFails(w) BY <2>6 DEF WorkFails
  <2>7. CASE CancelBegin(w) BY <2>7 DEF CancelBegin
  <2>8. CASE CancelEnds(w) BY <2>8 DEF CancelEnds
  <2>9. CASE AddError(w) BY <2>9 DEF AddError
  <2>10. CASE StopOthers(w) BY <2>10 DEF StopOthers
  <2>11. CASE SendValue(w) BY <2>11 DEF SendValue
  <2>12. CASE SendOutput(w) BY <2>12 DEF SendOutput
  <2>13. CASE Recheck(w) BY <2>13 DEF Recheck
  <2> QED BY <1>7, <2>1, <2>2, <2>3, <2>4, <2>5, <2>6, <2>7, <2>8, <2>9, <2>10, <2>11, <2>12, <2>13 DEF HandStep
<1>8. CASE UNCHANGED channelVars BY <1>8 DEF channelVars
<1> QED BY <1>1, <1>2, <1>3, <1>4, <1>5, <1>6, <1>7, <1>8 DEF ChannelNext

\* An input goes from hand to hand or from a hand to where it ends.
LEMMA AccountedStep ==
  ASSUME ChannelInv, [ChannelNext]_channelVars PROVE Accounted'
<1> USE ChannelPoolsAssumption
    DEF ChannelInv, ChannelTypeOK, Kinds, Inputs, Moves, Accounted, InputDealt, Holding, flowVars, endVars
<1>1. CASE DealEnds BY <1>1 DEF DealEnds
<1>2. CASE Gather BY <1>2 DEF Gather
<1>3. CASE Close BY <1>3 DEF Close
<1>4. CASE Return BY <1>4 DEF Return
<1>5. CASE CancelOutside BY <1>5 DEF CancelOutside
<1>6. ASSUME NEW w \in PoolThreads, Deal(w) PROVE Accounted'
  BY <1>6 DEF Deal
<1>7. ASSUME NEW w \in PoolThreads, HandStep(w) PROVE Accounted'
  <2>1. CASE HandEnds(w) BY <2>1 DEF HandEnds
  <2>2. CASE Begin(w) BY <2>2 DEF Begin
  <2>3. CASE Skip(w) BY <2>3 DEF Skip
  <2>4. CASE WorkValue(w) BY <2>4 DEF WorkValue
  <2>5. CASE WorkNothing(w) BY <2>5 DEF WorkNothing, Again
  <2>6. CASE WorkFails(w) BY <2>6 DEF WorkFails
  <2>7. CASE CancelBegin(w) BY <2>7 DEF CancelBegin
  <2>8. CASE CancelEnds(w) BY <2>8 DEF CancelEnds
  <2>9. CASE AddError(w) BY <2>9 DEF AddError
  <2>10. CASE StopOthers(w) BY <2>10 DEF StopOthers
  <2>11. CASE SendValue(w) BY <2>11 DEF SendValue
  <2>12. CASE SendOutput(w) BY <2>12 DEF SendOutput
  <2>13. CASE Recheck(w) BY <2>13 DEF Recheck
  <2> QED BY <1>7, <2>1, <2>2, <2>3, <2>4, <2>5, <2>6, <2>7, <2>8, <2>9, <2>10, <2>11, <2>12, <2>13 DEF HandStep
<1>8. CASE UNCHANGED channelVars BY <1>8 DEF channelVars
<1> QED BY <1>1, <1>2, <1>3, <1>4, <1>5, <1>6, <1>7, <1>8 DEF ChannelNext

\* Nothing is reopened, and the signal stays set.
LEMMA EndsStep ==
  ASSUME ChannelInv, [ChannelNext]_channelVars PROVE EndsForAReason'
<1> USE ChannelPoolsAssumption
    DEF ChannelInv, ChannelTypeOK, Kinds, Inputs, Moves, EndsForAReason, Again, flowVars, endVars
<1>1. CASE DealEnds BY <1>1 DEF DealEnds
<1>2. CASE Gather BY <1>2 DEF Gather
<1>3. CASE Close BY <1>3 DEF Close
<1>4. CASE Return BY <1>4 DEF Return
<1>5. CASE CancelOutside BY <1>5 DEF CancelOutside
<1>6. ASSUME NEW w \in PoolThreads, Deal(w) PROVE EndsForAReason'
  BY <1>6 DEF Deal
<1>7. ASSUME NEW w \in PoolThreads, HandStep(w) PROVE EndsForAReason'
  <2>1. CASE HandEnds(w) BY <2>1 DEF HandEnds
  <2>2. CASE Begin(w) BY <2>2 DEF Begin
  <2>3. CASE Skip(w) BY <2>3 DEF Skip
  <2>4. CASE WorkValue(w) BY <2>4 DEF WorkValue
  <2>5. CASE WorkNothing(w) BY <2>5 DEF WorkNothing, Again
  <2>6. CASE WorkFails(w) BY <2>6 DEF WorkFails
  <2>7. CASE CancelBegin(w) BY <2>7 DEF CancelBegin
  <2>8. CASE CancelEnds(w) BY <2>8 DEF CancelEnds
  <2>9. CASE AddError(w) BY <2>9 DEF AddError
  <2>10. CASE StopOthers(w) BY <2>10 DEF StopOthers
  <2>11. CASE SendValue(w) BY <2>11 DEF SendValue
  <2>12. CASE SendOutput(w) BY <2>12 DEF SendOutput
  <2>13. CASE Recheck(w) BY <2>13 DEF Recheck
  <2> QED BY <1>7, <2>1, <2>2, <2>3, <2>4, <2>5, <2>6, <2>7, <2>8, <2>9, <2>10, <2>11, <2>12, <2>13 DEF HandStep
<1>8. CASE UNCHANGED channelVars BY <1>8 DEF channelVars
<1> QED BY <1>1, <1>2, <1>3, <1>4, <1>5, <1>6, <1>7, <1>8 DEF ChannelNext

\* Errors and cancellations are never taken back.
LEMMA SkipsStep ==
  ASSUME ChannelInv, [ChannelNext]_channelVars PROVE SkipsForAReason'
<1> USE ChannelPoolsAssumption
    DEF ChannelInv, ChannelTypeOK, Kinds, Inputs, Moves, SkipsForAReason, flowVars, endVars
<1>1. CASE DealEnds BY <1>1 DEF DealEnds
<1>2. CASE Gather BY <1>2 DEF Gather
<1>3. CASE Close BY <1>3 DEF Close
<1>4. CASE Return BY <1>4 DEF Return
<1>5. CASE CancelOutside BY <1>5 DEF CancelOutside
<1>6. ASSUME NEW w \in PoolThreads, Deal(w) PROVE SkipsForAReason'
  BY <1>6 DEF Deal
<1>7. ASSUME NEW w \in PoolThreads, HandStep(w) PROVE SkipsForAReason'
  <2>1. CASE HandEnds(w) BY <2>1 DEF HandEnds
  <2>2. CASE Begin(w) BY <2>2 DEF Begin
  <2>3. CASE Skip(w) BY <2>3 DEF Skip
  <2>4. CASE WorkValue(w) BY <2>4 DEF WorkValue
  <2>5. CASE WorkNothing(w) BY <2>5 DEF WorkNothing, Again
  <2>6. CASE WorkFails(w) BY <2>6 DEF WorkFails
  <2>7. CASE CancelBegin(w) BY <2>7 DEF CancelBegin
  <2>8. CASE CancelEnds(w) BY <2>8 DEF CancelEnds
  <2>9. CASE AddError(w) BY <2>9 DEF AddError
  <2>10. CASE StopOthers(w) BY <2>10 DEF StopOthers
  <2>11. CASE SendValue(w) BY <2>11 DEF SendValue
  <2>12. CASE SendOutput(w) BY <2>12 DEF SendOutput
  <2>13. CASE Recheck(w) BY <2>13 DEF Recheck
  <2> QED BY <1>7, <2>1, <2>2, <2>3, <2>4, <2>5, <2>6, <2>7, <2>8, <2>9, <2>10, <2>11, <2>12, <2>13 DEF HandStep
<1>8. CASE UNCHANGED channelVars BY <1>8 DEF channelVars
<1> QED BY <1>1, <1>2, <1>3, <1>4, <1>5, <1>6, <1>7, <1>8 DEF ChannelNext

\* A thread that has ended adds no result and no error.
LEMMA CallerStep ==
  ASSUME ChannelInv, [ChannelNext]_channelVars PROVE CallerLast'
<1> USE ChannelPoolsAssumption
    DEF ChannelInv, ChannelTypeOK, Kinds, Inputs, Moves, CallerLast, flowVars, endVars
<1>1. CASE DealEnds BY <1>1 DEF DealEnds
<1>2. CASE Gather BY <1>2 DEF Gather
<1>3. CASE Close BY <1>3 DEF Close
<1>4. CASE Return BY <1>4 DEF Return
<1>5. CASE CancelOutside BY <1>5 DEF CancelOutside
<1>6. ASSUME NEW w \in PoolThreads, Deal(w) PROVE CallerLast'
  BY <1>6 DEF Deal
<1>7. ASSUME NEW w \in PoolThreads, HandStep(w) PROVE CallerLast'
  <2>1. CASE HandEnds(w) BY <2>1 DEF HandEnds
  <2>2. CASE Begin(w) BY <2>2 DEF Begin
  <2>3. CASE Skip(w) BY <2>3 DEF Skip
  <2>4. CASE WorkValue(w) BY <2>4 DEF WorkValue
  <2>5. CASE WorkNothing(w) BY <2>5 DEF WorkNothing, Again
  <2>6. CASE WorkFails(w) BY <2>6 DEF WorkFails
  <2>7. CASE CancelBegin(w) BY <2>7 DEF CancelBegin
  <2>8. CASE CancelEnds(w) BY <2>8 DEF CancelEnds
  <2>9. CASE AddError(w) BY <2>9 DEF AddError
  <2>10. CASE StopOthers(w) BY <2>10 DEF StopOthers
  <2>11. CASE SendValue(w) BY <2>11 DEF SendValue
  <2>12. CASE SendOutput(w) BY <2>12 DEF SendOutput
  <2>13. CASE Recheck(w) BY <2>13 DEF Recheck
  <2> QED BY <1>7, <2>1, <2>2, <2>3, <2>4, <2>5, <2>6, <2>7, <2>8, <2>9, <2>10, <2>11, <2>12, <2>13 DEF HandStep
<1>8. CASE UNCHANGED channelVars BY <1>8 DEF channelVars
<1> QED BY <1>1, <1>2, <1>3, <1>4, <1>5, <1>6, <1>7, <1>8 DEF ChannelNext

-----------------------------------------------------------------------------
(* The theorems *)

THEOREM ChannelInvariant == ChannelSpec => []ChannelInv
<1>1. ChannelInv /\ [ChannelNext]_channelVars => ChannelInv'
  BY TypeStep, InputStep, AccountedStep, EndsStep, SkipsStep, CallerStep DEF ChannelInv
<1> QED BY ChannelInvInit, <1>1, PTL DEF ChannelSpec

\* When the caller returns, what it has is all there is or it knows why not
\* (MapOptional_SliceToSlice_Cancellable_PassError and the other pools).
LEMMA ReturnsRight == ChannelInv => PoolReturns
<1> SUFFICES ASSUME ChannelInv, caller = "done" PROVE PoolReturns
  BY DEF PoolReturns, NoneMissing, ErrorsInTime, NobodyLeft
<1>1. told = failures /\ results = {} /\ \A w \in PoolThreads : hand[w] = "end"
  BY DEF ChannelInv, CallerLast
<1>2. PICK w \in PoolThreads : hand[w] = "end"
  BY <1>1, ChannelPoolsAssumption
<1>3. dealer = "closed" \/ (kind = "multi" /\ signal # "no")
  BY <1>2 DEF ChannelInv, EndsForAReason
<1>4. ASSUME told = {}, signal = "no" PROVE gathered \union valueless = Inputs
  <2>1. skipped = {} /\ dealt = InputCount
    BY <1>1, <1>3, <1>4 DEF ChannelInv, SkipsForAReason, EndsForAReason
  <2>2. Inputs \subseteq gathered \union valueless
    BY <1>1, <1>4, <2>1 DEF ChannelInv, Accounted, Holding, Inputs
  <2> QED BY <2>2 DEF ChannelInv, ChannelTypeOK
<1> QED BY <1>1, <1>3, <1>4 DEF PoolReturns, NoneMissing, ErrorsInTime, NobodyLeft

\* A pool of any number of threads and inputs returns whole results or says why
\* not, after its last error and its last thread (util_async/channel_op.go).
THEOREM PoolsReturnRight == ChannelSpec => []PoolReturns
  BY ChannelInvariant, ReturnsRight, PTL

\* The signal is locked while somebody runs its handlers, and only a pool whose
\* mapper gives results sends any.
SignalHeld ==
  /\ signal = "flag" => outside = "handlers" \/ \E w \in PoolThreads : hand[w] = "handlers"
  /\ \A w \in PoolThreads : hand[w] = "send" => kind # "each"

LEMMA SignalHeldStep == ChannelTypeOK /\ SignalHeld /\ [ChannelNext]_channelVars => SignalHeld'
<1> SUFFICES ASSUME ChannelTypeOK, SignalHeld, [ChannelNext]_channelVars PROVE SignalHeld'
  OBVIOUS
<1>0. hand \in [PoolThreads -> {"receive", "check", "work", "send", "cancel", "handlers", "add",
                                "stop", "recheck", "end"}]
  BY DEF ChannelTypeOK
<1> USE DEF SignalHeld, Moves, flowVars, endVars
<1>1. ASSUME NEW w \in PoolThreads, HandEnds(w) PROVE SignalHeld'
  BY <1>0, <1>1 DEF HandEnds
<1>2. ASSUME NEW w \in PoolThreads, Begin(w) PROVE SignalHeld'
  BY <1>0, <1>2 DEF Begin
<1>3. ASSUME NEW w \in PoolThreads, Skip(w) PROVE SignalHeld'
  BY <1>0, <1>3 DEF Skip
<1>4. ASSUME NEW w \in PoolThreads, WorkValue(w) PROVE SignalHeld'
  BY <1>0, <1>4 DEF WorkValue
<1>5. ASSUME NEW w \in PoolThreads, WorkNothing(w) PROVE SignalHeld'
  BY <1>0, <1>5 DEF WorkNothing, Again
<1>6. ASSUME NEW w \in PoolThreads, WorkFails(w) PROVE SignalHeld'
  BY <1>0, <1>6 DEF WorkFails
<1>7. ASSUME NEW w \in PoolThreads, CancelBegin(w) PROVE SignalHeld'
  BY <1>0, <1>7 DEF CancelBegin
<1>8. ASSUME NEW w \in PoolThreads, CancelEnds(w) PROVE SignalHeld'
  BY <1>0, <1>8 DEF CancelEnds
<1>9. ASSUME NEW w \in PoolThreads, AddError(w) PROVE SignalHeld'
  BY <1>0, <1>9 DEF AddError
<1>10. ASSUME NEW w \in PoolThreads, StopOthers(w) PROVE SignalHeld'
  BY <1>0, <1>10 DEF StopOthers
<1>11. ASSUME NEW w \in PoolThreads, SendValue(w) PROVE SignalHeld'
  BY <1>0, <1>11 DEF SendValue
<1>12. ASSUME NEW w \in PoolThreads, SendOutput(w) PROVE SignalHeld'
  BY <1>0, <1>12 DEF SendOutput
<1>13. ASSUME NEW w \in PoolThreads, Recheck(w) PROVE SignalHeld'
  BY <1>0, <1>13 DEF Recheck
<1>14. ASSUME NEW w \in PoolThreads, Deal(w) PROVE SignalHeld'
  BY <1>0, <1>14 DEF Deal
<1>15. ASSUME DealEnds PROVE SignalHeld'
  BY <1>15 DEF DealEnds
<1>16. ASSUME Gather PROVE SignalHeld'
  BY <1>16 DEF Gather
<1>17. ASSUME Close PROVE SignalHeld'
  BY <1>17 DEF Close
<1>18. ASSUME Return PROVE SignalHeld'
  BY <1>18 DEF Return
<1>19. ASSUME CancelOutside PROVE SignalHeld'
  BY <1>19 DEF CancelOutside
<1>20. CASE UNCHANGED channelVars
  BY <1>20 DEF channelVars
<1> QED
  BY <1>1, <1>2, <1>3, <1>4, <1>5, <1>6, <1>7, <1>8, <1>9, <1>10,
     <1>11, <1>12, <1>13, <1>14, <1>15, <1>16, <1>17, <1>18, <1>19, <1>20
     DEF ChannelNext, HandStep

LEMMA NobodyWaitsOutside == ChannelInv /\ SignalHeld => PoolGoesOn
<1> SUFFICES ASSUME ChannelInv, SignalHeld, caller # "done", ~PoolMoves PROVE FALSE
  BY DEF PoolGoesOn
<1>1. ChannelTypeOK /\ caller = "gather"
  BY DEF ChannelInv, ChannelTypeOK
<1>2. results = {} /\ outside # "handlers"
  BY DEF PoolMoves
<1>3. Cardinality(results) < Cardinality(PoolThreads)
  <2>1. Cardinality({}) = 0 /\ Cardinality(PoolThreads) \in Nat /\ Cardinality(PoolThreads) # 0
    BY ChannelPoolsAssumption, FS_EmptySet, FS_CardinalityType
  <2> QED
    BY <1>2, <2>1
<1>4. ASSUME NEW w \in PoolThreads PROVE hand[w] = "end"
  <2>1. hand[w] \in {"receive", "send", "cancel", "end"}
    BY <1>1 DEF ChannelTypeOK, PoolMoves
  <2>2. hand[w] # "receive"
    <3> SUFFICES ASSUME hand[w] = "receive" PROVE FALSE
      OBVIOUS
    <3>1. dealer # "closed" /\ ~(dealt < InputCount)
      BY DEF PoolMoves
    <3>2. dealer = "deal" /\ dealt = InputCount
      BY <1>1, <3>1, ChannelPoolsAssumption DEF ChannelTypeOK
    <3> QED
      BY <3>2 DEF PoolMoves
  <2>3. hand[w] # "send"
    BY <1>1, <1>3 DEF ChannelTypeOK, Kinds, SignalHeld, PoolMoves
  <2>4. hand[w] # "cancel"
    BY <1>2 DEF SignalHeld, PoolMoves
  <2> QED
    BY <2>1, <2>2, <2>3, <2>4
<1> QED
  BY <1>1, <1>4 DEF PoolMoves

\* Until its caller returns a pool can go on by itself, with any number of threads
\* and inputs, whether or not anybody cancels the job (util_async/channel_op.go).
THEOREM PoolsGoOn == ChannelSpec => []PoolGoesOn
<1>1. ChannelInit => SignalHeld
  BY DEF ChannelInit, SignalHeld
<1>2. ChannelInv /\ SignalHeld /\ [ChannelNext]_channelVars => SignalHeld'
  BY SignalHeldStep DEF ChannelInv
<1> QED
  BY <1>1, <1>2, ChannelInvariant, NobodyWaitsOutside, PTL DEF ChannelSpec
-----------------------------------------------------------------------------
(* SearchPool *)

\* A thread works on a bound exactly when it is at "work", and makes another
\* only while some are missing.
HandsFull ==
  \A t \in Threads :
    /\ thread[t] = "work" <=> entry[t] # NoBound
    /\ add[t] # NoBound => entry[t] # NoBound /\ followups[t] > 0

\* Who holds the mutex of a stack pops from it or looks at it.
HolderIsThere ==
  \A t \in Threads : childMutex[t] # Unlocked =>
    \/ childMutex[t] = t /\ thread[t] = "own"
    \/ thread[childMutex[t]] = "take" /\ victim[childMutex[t]] = t

\* A thread that looks for bounds elsewhere has none on its own stack, and only
\* it could put one there.
OwnStackEmpty ==
  \A t \in Threads :
    /\ thread[t] \in {"idle", "make", "parent", "scan", "take"} => stack[t] = <<>>
    /\ thread[t] = "end" => stack[t] = <<>> \/ searchCancelled

VictimChosen == \A t \in Threads : thread[t] = "take" => victim[t] \in Threads

\* The main thread splits alone.
SplitsAlone ==
  /\ splitting => \A t \in Threads \ {MainThread} : thread[t] = "idle"
  /\ thread[MainThread] = "count" => splitting
  /\ thread[MainThread] \notin {"idle", "make"}

SearchInv ==
  /\ SearchTypeOK
  /\ OnePlace /\ HandsFull
  /\ LockOrder /\ HolderIsThere /\ VictimChosen
  /\ OwnStackEmpty /\ SplitsAlone
-----------------------------------------------------------------------------
(* Sequences *)

\* What is left of a stack without its top
LEMMA WithoutTop ==
  ASSUME NEW s \in Seq(Objects), s # <<>>
  PROVE  /\ Len(s) \in Nat /\ Len(s) > 0 /\ DOMAIN s = 1..Len(s)
         /\ s[Len(s)] \in Objects
         /\ SubSeq(s, 1, Len(s) - 1) \in Seq(Objects)
         /\ DOMAIN SubSeq(s, 1, Len(s) - 1) = 1..Len(s) - 1
         /\ \A i \in 1..Len(s) - 1 : SubSeq(s, 1, Len(s) - 1)[i] = s[i]
  OBVIOUS

\* What is left of a stack without its bottom
LEMMA WithoutBottom ==
  ASSUME NEW s \in Seq(Objects), s # <<>>
  PROVE  /\ Len(s) \in Nat /\ Len(s) > 0 /\ DOMAIN s = 1..Len(s)
         /\ s[1] \in Objects
         /\ Tail(s) \in Seq(Objects)
         /\ DOMAIN Tail(s) = 1..Len(s) - 1
         /\ \A i \in 1..Len(s) - 1 : Tail(s)[i] = s[i + 1]
  OBVIOUS

\* A stack with one more bound
LEMMA WithOneMore ==
  ASSUME NEW s \in Seq(Objects), NEW o \in Objects
  PROVE  /\ Len(s) \in Nat /\ DOMAIN s = 1..Len(s)
         /\ Append(s, o) \in Seq(Objects) /\ Append(s, o) # <<>>
         /\ DOMAIN Append(s, o) = 1..Len(s) + 1
         /\ \A i \in 1..Len(s) : Append(s, o)[i] = s[i]
         /\ Append(s, o)[Len(s) + 1] = o
  OBVIOUS
-----------------------------------------------------------------------------
(* One place for every bound *)

\* Nothing moves.
LEMMA NothingMoves ==
  ASSUME OnePlace, UNCHANGED <<stack, entry, add, objectPool>>
  PROVE  OnePlace'
  BY DEF OnePlace, StacksDisjoint, HandsApart, PoolUnused

\* What is on s is on the stack of v but not at the position k, in the same
\* order.
Without(s, v, k) ==
  \E skip \in 0..1 : \A i \in DOMAIN s :
    i \in Nat /\ i + skip \in DOMAIN stack[v] \ {k} /\ s[i] = stack[v][i + skip]

\* A bound goes from the position k of a stack into free hands; the others on
\* the stack keep their order.
LEMMA TakenFromStack ==
  ASSUME SearchTypeOK, OnePlace,
         NEW t \in Threads, entry[t] = NoBound, add[t] = NoBound,
         NEW v \in Threads, NEW k \in DOMAIN stack[v], stack[v][k] \in Objects,
         NEW s, Without(s, v, k),
         stack' = [stack EXCEPT ![v] = s],
         entry' = [entry EXCEPT ![t] = stack[v][k]],
         UNCHANGED <<add, objectPool>>
  PROVE  OnePlace'
<1> USE DEF SearchTypeOK
<1>k. PICK skip \in 0..1 : \A i \in DOMAIN s :
        i \in Nat /\ i + skip \in DOMAIN stack[v] \ {k} /\ s[i] = stack[v][i + skip]
  BY DEF Without
<1> USE <1>k
<1>1. \A u \in Threads : u # v => stack'[u] = stack[u]
  OBVIOUS
<1>2. stack'[v] = s
  OBVIOUS
<1>3. StacksDisjoint'
  <2> SUFFICES ASSUME NEW a \in Threads, NEW b \in Threads,
                      NEW i \in DOMAIN stack'[a], NEW j \in DOMAIN stack'[b],
                      stack'[a][i] = stack'[b][j]
               PROVE  a = b /\ i = j
    BY DEF StacksDisjoint
  <2>1. CASE a = v /\ b = v
    BY <2>1, <1>2 DEF OnePlace, StacksDisjoint
  <2>2. CASE a = v /\ b # v
    BY <2>2, <1>1, <1>2 DEF OnePlace, StacksDisjoint
  <2>3. CASE a # v /\ b = v
    BY <2>3, <1>1, <1>2 DEF OnePlace, StacksDisjoint
  <2>4. CASE a # v /\ b # v
    BY <2>4, <1>1 DEF OnePlace, StacksDisjoint
  <2> QED
    BY <2>1, <2>2, <2>3, <2>4
<1>4. \A u \in Threads : \A j \in DOMAIN stack'[u] :
        /\ stack'[u][j] # stack[v][k]
        /\ \E i \in DOMAIN stack[u] : stack'[u][j] = stack[u][i]
  <2> TAKE u \in Threads
  <2> TAKE j \in DOMAIN stack'[u]
  <2>1. CASE u = v
    BY <2>1, <1>2 DEF OnePlace, StacksDisjoint
  <2>2. CASE u # v
    BY <2>2, <1>1 DEF OnePlace, StacksDisjoint
  <2> QED
    BY <2>1, <2>2
<1>5. /\ \A u \in Threads : entry[u] # stack[v][k] /\ add[u] # stack[v][k]
      /\ stack[v][k] # NoBound
  BY SearchAssumption DEF OnePlace, HandsApart
<1>6. HandsApart'
  <2>1. entry'[t] = stack[v][k] /\ \A u \in Threads : u # t => entry'[u] = entry[u]
    OBVIOUS
  <2>2. \A x, u \in Threads : entry'[x] # NoBound =>
          /\ entry'[x] # add[x] /\ entry'[x] # add[u]
          /\ entry'[u] = entry'[x] => u = x
    BY <2>1, <1>5 DEF OnePlace, HandsApart
  <2>3. \A x, u \in Threads : \A j \in DOMAIN stack'[u] :
          /\ entry'[x] # NoBound => stack'[u][j] # entry'[x]
          /\ add[x] # NoBound => stack'[u][j] # add[x]
    <3> SUFFICES ASSUME NEW x \in Threads, NEW u \in Threads, NEW j \in DOMAIN stack'[u]
                 PROVE  /\ entry'[x] # NoBound => stack'[u][j] # entry'[x]
                        /\ add[x] # NoBound => stack'[u][j] # add[x]
      OBVIOUS
    <3>1. PICK i \in DOMAIN stack[u] : stack'[u][j] = stack[u][i]
      BY <1>4
    <3>2. /\ entry[x] # NoBound => stack'[u][j] # entry[x]
          /\ add[x] # NoBound => stack'[u][j] # add[x]
      BY <3>1 DEF OnePlace, HandsApart
    <3>3. CASE x = t
      BY <3>2, <3>3, <2>1, <1>4
    <3>4. CASE x # t
      BY <3>2, <3>4, <2>1
    <3> QED
      BY <3>3, <3>4
  <2>4. \A x, u \in Threads : add[x] # NoBound /\ add[u] = add[x] => u = x
    BY DEF OnePlace, HandsApart
  <2> QED
    BY <2>2, <2>3, <2>4 DEF HandsApart
<1>7. PoolUnused'
  BY <1>4 DEF OnePlace, PoolUnused
<1> QED
  BY <1>3, <1>6, <1>7 DEF OnePlace

\* A bound is made in memory from the pool of objects.
LEMMA TakenFromPool ==
  ASSUME SearchTypeOK, OnePlace, NEW t \in Threads, GetBound(t)
  PROVE  OnePlace' /\ SomeObject \in objectPool
<1>1. SomeObject \in objectPool
  BY DEF GetBound, SomeObject
<1>2. \A u \in Threads : entry[u] # SomeObject /\ add[u] # SomeObject
                          /\ \A j \in DOMAIN stack[u] : stack[u][j] # SomeObject
  BY <1>1 DEF OnePlace, PoolUnused
<1>3. SomeObject # NoBound
  BY <1>1, SearchAssumption DEF SearchTypeOK
<1>4. StacksDisjoint'
  BY DEF GetBound, scanVars, OnePlace, StacksDisjoint
<1>5. HandsApart'
  BY <1>2, <1>3 DEF GetBound, scanVars, OnePlace, HandsApart, SearchTypeOK
<1>6. PoolUnused'
  BY <1>1, <1>2 DEF GetBound, scanVars, OnePlace, PoolUnused, SearchTypeOK
<1> QED
  BY <1>1, <1>4, <1>5, <1>6 DEF OnePlace

\* A bound that was made goes on the stack of its thread.
LEMMA PutOnStack ==
  ASSUME SearchTypeOK, OnePlace, NEW t \in Threads, PushBound(t)
  PROVE  OnePlace'
<1> USE DEF SearchTypeOK
<1>1. add[t] \in Objects /\ stack[t] \in Seq(Objects)
  BY DEF PushBound
<1>2. \A u \in Threads : u # t => stack'[u] = stack[u]
  BY DEF PushBound
<1>3. stack'[t] = Append(stack[t], add[t])
  BY DEF PushBound
<1>4. /\ Len(stack[t]) \in Nat /\ DOMAIN stack[t] = 1..Len(stack[t])
      /\ DOMAIN stack'[t] = 1..Len(stack[t]) + 1
      /\ \A i \in 1..Len(stack[t]) : stack'[t][i] = stack[t][i]
      /\ stack'[t][Len(stack[t]) + 1] = add[t]
  BY <1>1, <1>3, WithOneMore
<1>5. \A u \in Threads : \A j \in DOMAIN stack'[u] :
        \/ j \in DOMAIN stack[u] /\ stack'[u][j] = stack[u][j] /\ stack[u][j] # add[t]
        \/ u = t /\ j = Len(stack[t]) + 1 /\ stack'[u][j] = add[t]
  <2> TAKE u \in Threads
  <2> TAKE j \in DOMAIN stack'[u]
  <2>1. CASE u = t
    BY <2>1, <1>4 DEF PushBound, OnePlace, HandsApart
  <2>2. CASE u # t
    BY <2>2, <1>2 DEF PushBound, OnePlace, HandsApart
  <2> QED
    BY <2>1, <2>2
<1>6. /\ add'[t] = NoBound /\ \A u \in Threads : u # t => add'[u] = add[u]
      /\ entry' = entry /\ objectPool' = objectPool
  BY DEF PushBound
<1>7. StacksDisjoint'
  <2> SUFFICES ASSUME NEW a \in Threads, NEW b \in Threads,
                      NEW i \in DOMAIN stack'[a], NEW j \in DOMAIN stack'[b],
                      stack'[a][i] = stack'[b][j]
               PROVE  a = b /\ i = j
    BY DEF StacksDisjoint
  <2>1. CASE i \in DOMAIN stack[a] /\ stack'[a][i] = stack[a][i] /\ stack[a][i] # add[t]
    <3>1. j \in DOMAIN stack[b] /\ stack'[b][j] = stack[b][j]
      BY <2>1, <1>5
    <3>2. i \in DOMAIN stack[a] /\ stack[a][i] = stack[b][j]
      BY <2>1, <3>1
    <3>3. StacksDisjoint
      BY DEF OnePlace
    <3> QED
      BY <3>1, <3>2, <3>3 DEF StacksDisjoint
  <2>2. CASE a = t /\ i = Len(stack[t]) + 1 /\ stack'[a][i] = add[t]
    <3>1. b = t /\ j = Len(stack[t]) + 1
      BY <2>2, <1>5
    <3> QED
      BY <2>2, <3>1
  <2> QED
    BY <2>1, <2>2, <1>5
<1>8. HandsApart'
  <2>1. \A x, u \in Threads : \A j \in DOMAIN stack'[u] :
          /\ entry[x] # NoBound => stack'[u][j] # entry[x]
          /\ add'[x] # NoBound => stack'[u][j] # add'[x]
    BY <1>5, <1>6 DEF OnePlace, HandsApart, PushBound
  <2>2. \A x, u \in Threads :
          /\ entry[x] # NoBound => entry[x] # add'[x] /\ entry[x] # add'[u]
          /\ entry[x] # NoBound /\ entry[u] = entry[x] => u = x
          /\ add'[x] # NoBound /\ add'[u] = add'[x] => u = x
    BY <1>6 DEF OnePlace, HandsApart
  <2> QED
    BY <1>6, <2>1, <2>2 DEF HandsApart
<1>9. PoolUnused'
  BY <1>5, <1>6, SearchAssumption DEF OnePlace, PoolUnused, PushBound
<1> QED
  BY <1>7, <1>8, <1>9 DEF OnePlace

\* What a thread gives back is in no use any more.
LEMMA PutBack ==
  ASSUME SearchTypeOK, OnePlace, HandsFull, NEW t \in Threads, PutBound(t) \/ PutEntry(t)
  PROVE  OnePlace'
<1> USE DEF SearchTypeOK, PutBound, PutEntry, PutObject, scanVars
<1>1. CASE PutBound(t)
  <2>1. StacksDisjoint'
    BY <1>1 DEF OnePlace, StacksDisjoint
  <2>2. HandsApart'
    BY <1>1 DEF OnePlace, HandsApart
  <2>3. PoolUnused'
    BY <1>1, SearchAssumption DEF OnePlace, HandsApart, PoolUnused
  <2> QED
    BY <2>1, <2>2, <2>3 DEF OnePlace
<1>2. CASE PutEntry(t)
  <2>1. StacksDisjoint'
    BY <1>2 DEF OnePlace, StacksDisjoint
  <2>2. HandsApart'
    BY <1>2 DEF OnePlace, HandsApart
  <2>3. PoolUnused'
    BY <1>2, SearchAssumption DEF OnePlace, HandsApart, PoolUnused, HandsFull
  <2> QED
    BY <2>1, <2>2, <2>3 DEF OnePlace
<1> QED
  BY <1>1, <1>2
-----------------------------------------------------------------------------
(* The invariant *)

LEMMA InitSearch == SearchInit => SearchInv
<1> SUFFICES ASSUME SearchInit PROVE SearchInv
  OBVIOUS
<1> USE SearchAssumption DEF SearchInit
<1>1. SearchTypeOK
  <2>1. <<FirstBound>> \in Seq(Objects) /\ <<>> \in Seq(Objects)
    OBVIOUS
  <2> QED
    BY <2>1 DEF SearchTypeOK
<1>2. \A t \in Threads : \A i \in DOMAIN stack[t] : t = MainThread /\ i = 1 /\ stack[t][i] = FirstBound
  OBVIOUS
<1>3. OnePlace
  <2>1. StacksDisjoint
    BY <1>2 DEF StacksDisjoint
  <2>2. HandsApart
    BY DEF HandsApart
  <2>3. PoolUnused
    BY <1>2 DEF PoolUnused
  <2> QED
    BY <2>1, <2>2, <2>3 DEF OnePlace
<1>4. HandsFull /\ LockOrder /\ HolderIsThere /\ VictimChosen
  BY DEF HandsFull, LockOrder, HolderIsThere, VictimChosen
<1>5. OwnStackEmpty /\ SplitsAlone
  BY DEF OwnStackEmpty, SplitsAlone
<1> QED
  BY <1>1, <1>3, <1>4, <1>5 DEF SearchInv

\* Types are kept.
LEMMA StepTypes == SearchInv /\ [SearchNext]_searchVars => SearchTypeOK'
<1> SUFFICES ASSUME SearchInv, [SearchNext]_searchVars PROVE SearchTypeOK'
  OBVIOUS
<1> USE SearchAssumption DEF SearchInv, SearchTypeOK
<1>1. CASE EnoughSplit
  BY <1>1 DEF EnoughSplit, scanVars, entryVars
<1>2. CASE SplitMore \/ CancelSearch
  BY <1>2 DEF SplitMore, CancelSearch, To, scanVars, entryVars
<1>3. ASSUME NEW t \in Threads, MakeChild(t) \/ LoopGoesOn(t) PROVE SearchTypeOK'
  BY <1>3 DEF MakeChild, LoopGoesOn, To, scanVars, entryVars
<1>4. ASSUME NEW t \in Threads, PopLock(t) \/ OwnEmpty(t) \/ ScanBegin(t) \/ ScanEnds(t)
      PROVE  SearchTypeOK'
  <2>1. CASE PopLock(t)
    BY <2>1 DEF PopLock, To, scanVars, entryVars
  <2>2. CASE OwnEmpty(t)
    BY <2>2 DEF OwnEmpty, To, scanVars, entryVars
  <2>3. CASE ScanBegin(t)
    BY <2>3 DEF ScanBegin, To, scanVars, entryVars
  <2>4. CASE ScanEnds(t)
    BY <2>4 DEF ScanEnds, To, scanVars, entryVars
  <2> QED
    BY <1>4, <2>1, <2>2, <2>3, <2>4
<1>5. ASSUME NEW t \in Threads, NEW v \in Threads, ScanLock(t, v) PROVE SearchTypeOK'
  BY <1>5 DEF ScanLock, To, scanVars, entryVars
<1>6. ASSUME NEW t \in Threads, StealNothing(t) PROVE SearchTypeOK'
  BY <1>6 DEF StealNothing, To, scanVars, entryVars
<1>7. ASSUME NEW o \in Objects PROVE HowMany(o) \subseteq Nat
  BY DEF HowMany
<1>8. ASSUME NEW t \in Threads, PopOwn(t) PROVE SearchTypeOK'
  <2>1. stack[t][Len(stack[t])] \in Objects /\ SubSeq(stack[t], 1, Len(stack[t]) - 1) \in Seq(Objects)
    BY <1>8, WithoutTop DEF PopOwn
  <2> QED
    BY <1>7, <1>8, <2>1 DEF PopOwn, WorkOn, To, scanVars, entryVars
<1>9. ASSUME NEW t \in Threads, Steal(t) PROVE SearchTypeOK'
  <2>0. victim[t] \in Threads
    BY <1>9 DEF Steal, VictimChosen
  <2>1. stack[victim[t]][1] \in Objects /\ Tail(stack[victim[t]]) \in Seq(Objects)
    BY <1>9, <2>0, WithoutBottom DEF Steal
  <2> QED
    BY <1>7, <1>9, <2>0, <2>1 DEF Steal, WorkOn, To, scanVars, entryVars
<1>10. ASSUME NEW t \in Threads, GetBound(t) PROVE SearchTypeOK'
  <2>1. SomeObject \in Objects /\ entry[t] \in Objects
    BY <1>10, TakenFromPool DEF GetBound, HandsFull
  <2> QED
    BY <1>10, <2>1 DEF GetBound, scanVars, entryVars
<1>11. ASSUME NEW t \in Threads, PushBound(t) PROVE SearchTypeOK'
  <2>1. add[t] \in Objects /\ followups[t] - 1 \in Nat
    BY <1>11 DEF PushBound, HandsFull
  <2>2. Append(stack[t], add[t]) \in Seq(Objects)
    BY <2>1, WithOneMore
  <2> QED
    BY <1>11, <2>1, <2>2 DEF PushBound, scanVars, entryVars
<1>12. ASSUME NEW t \in Threads, PutBound(t) \/ PutEntry(t) PROVE SearchTypeOK'
  <2>1. add[t] # NoBound => followups[t] - 1 \in Nat
    BY DEF HandsFull
  <2>2. thread[t] = "work" => entry[t] \in Objects
    BY DEF HandsFull
  <2>3. CASE PutBound(t)
    BY <2>1, <2>3 DEF PutBound, PutObject, scanVars, entryVars
  <2>4. CASE PutEntry(t)
    BY <2>2, <2>4 DEF PutEntry, PutObject, To, scanVars, entryVars
  <2> QED
    BY <1>12, <2>3, <2>4
<1>13. CASE UNCHANGED searchVars
  BY <1>13 DEF searchVars, scanVars, entryVars
<1> QED
  BY <1>1, <1>2, <1>3, <1>4, <1>5, <1>6, <1>8, <1>9, <1>10, <1>11, <1>12, <1>13
  DEF SearchNext, PopStep, WorkStep

\* Bounds keep to one place.
LEMMA StepPlaces == SearchInv /\ [SearchNext]_searchVars => OnePlace'
<1> SUFFICES ASSUME SearchInv, [SearchNext]_searchVars PROVE OnePlace'
  OBVIOUS
<1> USE SearchAssumption DEF SearchInv
<1>1. CASE EnoughSplit \/ SplitMore \/ CancelSearch \/ UNCHANGED searchVars
  <2>1. UNCHANGED <<stack, entry, add, objectPool>>
    BY <1>1 DEF EnoughSplit, SplitMore, CancelSearch, entryVars, searchVars
  <2> QED
    BY <2>1, NothingMoves
<1>2. ASSUME NEW t \in Threads, MakeChild(t) \/ LoopGoesOn(t) \/ PopLock(t) \/ OwnEmpty(t)
                                \/ ScanBegin(t) \/ StealNothing(t) \/ ScanEnds(t)
      PROVE  OnePlace'
  <2>1. UNCHANGED <<stack, entry, add, objectPool>>
    BY <1>2 DEF MakeChild, LoopGoesOn, PopLock, OwnEmpty, ScanBegin, StealNothing, ScanEnds, entryVars
  <2> QED
    BY <2>1, NothingMoves
<1>3. ASSUME NEW t \in Threads, NEW v \in Threads, ScanLock(t, v) PROVE OnePlace'
  BY <1>3, NothingMoves DEF ScanLock, entryVars
<1>4. ASSUME NEW t \in Threads, PopOwn(t) PROVE OnePlace'
  <2> DEFINE n == Len(stack[t])
             s == SubSeq(stack[t], 1, n - 1)
  <2>1. stack[t] \in Seq(Objects) /\ stack[t] # <<>>
    BY <1>4 DEF PopOwn, SearchTypeOK
  <2>2. /\ n \in Nat /\ n > 0 /\ DOMAIN stack[t] = 1..n /\ stack[t][n] \in Objects
        /\ DOMAIN s = 1..n - 1 /\ \A i \in 1..n - 1 : s[i] = stack[t][i]
    BY <2>1, WithoutTop
  <2>3. entry[t] = NoBound /\ add[t] = NoBound
    BY <1>4 DEF PopOwn, HandsFull
  <2>4. /\ stack' = [stack EXCEPT ![t] = s] /\ entry' = [entry EXCEPT ![t] = stack[t][n]]
        /\ UNCHANGED <<add, objectPool>>
    BY <1>4 DEF PopOwn, WorkOn
  <2>5. \A i \in DOMAIN s :
          i \in Nat /\ i + 0 \in DOMAIN stack[t] \ {n} /\ s[i] = stack[t][i + 0]
    BY <2>2
  <2>6. Without(s, t, n)
    BY <2>5 DEF Without
  <2>7. n \in DOMAIN stack[t]
    BY <2>2
  <2>8. SearchTypeOK /\ OnePlace /\ stack[t][n] \in Objects
    BY <2>2
  <2> HIDE DEF n, s
  <2> QED
    BY <2>3, <2>4, <2>6, <2>7, <2>8, TakenFromStack
<1>5. ASSUME NEW t \in Threads, Steal(t) PROVE OnePlace'
  <2>0. PICK v \in Threads : v = victim[t]
    BY <1>5 DEF Steal, VictimChosen
  <2> DEFINE s == Tail(stack[v])
  <2>1. v \in Threads /\ stack[v] \in Seq(Objects) /\ stack[v] # <<>>
    BY <1>5, <2>0 DEF Steal, SearchTypeOK
  <2>2. /\ Len(stack[v]) \in Nat /\ DOMAIN stack[v] = 1..Len(stack[v]) /\ Len(stack[v]) > 0
        /\ stack[v][1] \in Objects
        /\ DOMAIN s = 1..Len(stack[v]) - 1
        /\ \A i \in 1..Len(stack[v]) - 1 : s[i] = stack[v][i + 1]
    BY <2>1, WithoutBottom
  <2>3. entry[t] = NoBound /\ add[t] = NoBound
    BY <1>5 DEF Steal, HandsFull
  <2>4. /\ stack' = [stack EXCEPT ![v] = s] /\ entry' = [entry EXCEPT ![t] = stack[v][1]]
        /\ UNCHANGED <<add, objectPool>>
    BY <1>5, <2>0 DEF Steal, WorkOn
  <2>5. \A i \in DOMAIN s :
          i \in Nat /\ i + 1 \in DOMAIN stack[v] \ {1} /\ s[i] = stack[v][i + 1]
    BY <2>2
  <2>6. Without(s, v, 1)
    BY <2>5 DEF Without
  <2>7. SearchTypeOK /\ OnePlace /\ stack[v][1] \in Objects /\ 1 \in DOMAIN stack[v]
    BY <2>2
  <2> HIDE DEF s
  <2> QED
    BY <2>3, <2>4, <2>6, <2>7, TakenFromStack
<1>6. ASSUME NEW t \in Threads, WorkStep(t) PROVE OnePlace'
  BY <1>6, TakenFromPool, PutOnStack, PutBack DEF WorkStep
<1> QED
  BY <1>1, <1>2, <1>3, <1>4, <1>5, <1>6 DEF SearchNext, PopStep

\* What threads have in their hands
LEMMA StepHands == SearchInv /\ [SearchNext]_searchVars => HandsFull'
<1> SUFFICES ASSUME SearchInv, [SearchNext]_searchVars PROVE HandsFull'
  OBVIOUS
<1> USE SearchAssumption DEF SearchInv, SearchTypeOK, HandsFull
<1>1. CASE EnoughSplit
  BY <1>1 DEF EnoughSplit, entryVars, SplitsAlone
<1>2. CASE SplitMore \/ CancelSearch \/ UNCHANGED searchVars
  BY <1>2 DEF SplitMore, CancelSearch, To, entryVars, searchVars
<1>3. ASSUME NEW t \in Threads, MakeChild(t) \/ LoopGoesOn(t) \/ PopLock(t) \/ OwnEmpty(t)
                                \/ ScanBegin(t) \/ StealNothing(t) \/ ScanEnds(t)
      PROVE  HandsFull'
  <2>1. /\ thread[t] # "work" /\ thread'[t] # "work"
        /\ \A u \in Threads \ {t} : thread'[u] = thread[u]
        /\ UNCHANGED <<entry, add, followups>>
    BY <1>3
    DEF MakeChild, LoopGoesOn, PopLock, OwnEmpty, ScanBegin, StealNothing, ScanEnds, To, entryVars
  <2> QED
    BY <2>1
<1>4. ASSUME NEW t \in Threads, NEW v \in Threads, ScanLock(t, v) PROVE HandsFull'
  BY <1>4 DEF ScanLock, To, entryVars
<1>5. ASSUME NEW t \in Threads, PopOwn(t) \/ Steal(t) PROVE HandsFull'
  <2>1. PICK o \in Objects : WorkOn(t, o)
    <3>1. ASSUME PopOwn(t) PROVE stack[t][Len(stack[t])] \in Objects
      BY <3>1, WithoutTop DEF PopOwn
    <3>2. ASSUME Steal(t) PROVE stack[victim[t]][1] \in Objects
      BY <3>2, WithoutBottom DEF Steal, VictimChosen
    <3> QED
      BY <1>5, <3>1, <3>2 DEF PopOwn, Steal
  <2>2. /\ entry' = [entry EXCEPT ![t] = o] /\ thread' = [thread EXCEPT ![t] = "work"]
        /\ \A u \in Threads \ {t} : followups'[u] = followups[u]
        /\ add' = add /\ thread[t] # "work"
    BY <1>5, <2>1 DEF WorkOn, To, PopOwn, Steal
  <2> QED
    BY <2>2
<1>6. ASSUME NEW t \in Threads, GetBound(t) \/ PushBound(t) \/ PutBound(t) PROVE HandsFull'
  <2>1. /\ entry[t] # NoBound /\ UNCHANGED <<thread, entry>>
        /\ \A u \in Threads \ {t} : add'[u] = add[u] /\ followups'[u] = followups[u]
        /\ add'[t] # NoBound => followups'[t] > 0
    BY <1>6 DEF GetBound, PushBound, PutBound
  <2> QED
    BY <2>1
<1>7. ASSUME NEW t \in Threads, PutEntry(t) PROVE HandsFull'
  BY <1>7 DEF PutEntry, To
<1> QED
  BY <1>1, <1>2, <1>3, <1>4, <1>5, <1>6, <1>7 DEF SearchNext, PopStep, WorkStep

\* Where the threads are after one of them has moved
LEMMA Moved ==
  ASSUME SearchTypeOK, NEW t \in Threads, NEW place, To(t, place)
  PROVE  thread'[t] = place /\ \A u \in Threads \ {t} : thread'[u] = thread[u]
BY DEF SearchTypeOK, To

\* The two mutexes of Pop
Locks == LockOrder /\ HolderIsThere /\ VictimChosen

\* They stay in order when nobody takes or releases one, and threads move
\* outside of Pop only.
LEMMA LocksKept ==
  ASSUME SearchTypeOK, Locks, UNCHANGED <<childMutex, parentMutex, victim>>,
         \A u \in Threads : \/ thread'[u] = thread[u]
                            \/ {thread[u], thread'[u]} \intersect {"own", "scan", "take"} = {}
  PROVE  Locks'
<1> USE SearchAssumption DEF SearchTypeOK
<1>1. \A u \in Threads :
        /\ thread'[u] = "own" <=> thread[u] = "own"
        /\ thread'[u] = "take" <=> thread[u] = "take"
        /\ thread'[u] = "scan" <=> thread[u] = "scan"
  OBVIOUS
<1>2. \A u \in Threads : childMutex[u] # Unlocked => childMutex[u] \in Threads
  OBVIOUS
<1>3. HolderIsThere' /\ VictimChosen'
  BY <1>1, <1>2 DEF Locks, HolderIsThere, VictimChosen
<1>4. \A u \in Threads :
        /\ childMutex[u] # Unlocked => thread'[childMutex[u]] \in {"own", "take"}
        /\ thread'[u] = "own" => childMutex[u] = u
        /\ thread'[u] = "take" => childMutex[victim[u]] = u
  BY <1>1, <1>2 DEF Locks, LockOrder
<1>5. \A u \in Threads : thread'[u] \in {"scan", "take"} <=> parentMutex = u
  BY <1>1 DEF Locks, LockOrder
<1> QED
  BY <1>3, <1>4, <1>5 DEF Locks, LockOrder

LEMMA StepLocks == SearchInv /\ [SearchNext]_searchVars => Locks'
<1> SUFFICES ASSUME SearchInv, [SearchNext]_searchVars PROVE Locks'
  OBVIOUS
<1>k. SearchTypeOK /\ Locks
  BY DEF SearchInv, Locks
<1>1. CASE EnoughSplit \/ SplitMore \/ CancelSearch \/ UNCHANGED searchVars
  <2>1. UNCHANGED <<childMutex, parentMutex, victim>>
    BY <1>1 DEF EnoughSplit, SplitMore, CancelSearch, scanVars, searchVars
  <2>2. CASE EnoughSplit
    <3>1. \A u \in Threads : thread[u] \in {"idle", "count"} /\ thread'[u] \in {"make", "loop"}
      BY <2>2 DEF EnoughSplit, SearchInv, SplitsAlone
    <3> QED
      BY <3>1, <2>1, <1>k, LocksKept
  <2>3. CASE SplitMore
    <3>1. /\ thread[MainThread] = "count" /\ thread'[MainThread] = "pop"
          /\ \A u \in Threads \ {MainThread} : thread'[u] = thread[u]
      BY <2>3, <1>k, SearchAssumption, Moved DEF SplitMore
    <3>2. \A u \in Threads : u = MainThread \/ u \in Threads \ {MainThread}
      OBVIOUS
    <3> QED
      BY <3>1, <3>2, <2>1, <1>k, LocksKept
  <2>4. CASE CancelSearch \/ UNCHANGED searchVars
    BY <2>4, <2>1, <1>k, LocksKept DEF CancelSearch, searchVars
  <2> QED
    BY <1>1, <2>2, <2>3, <2>4
<1>3. ASSUME NEW t \in Threads, MakeChild(t) \/ LoopGoesOn(t) PROVE Locks'
  <2>1. /\ UNCHANGED <<childMutex, parentMutex, victim>>
        /\ thread[t] \in {"make", "loop"} /\ thread'[t] \in {"loop", "pop", "end"}
        /\ \A u \in Threads \ {t} : thread'[u] = thread[u]
    BY <1>3, <1>k, Moved DEF MakeChild, LoopGoesOn, scanVars
  <2>2. \A u \in Threads : u = t \/ u \in Threads \ {t}
    OBVIOUS
  <2> QED
    BY <2>1, <2>2, <1>k, LocksKept
<1> USE SearchAssumption
    DEF SearchInv, SearchTypeOK, Locks, LockOrder, HolderIsThere, VictimChosen
<1>4. ASSUME NEW t \in Threads, PopLock(t) PROVE Locks'
  BY <1>4 DEF PopLock, To, scanVars
<1>5. ASSUME NEW t \in Threads, PopOwn(t) \/ OwnEmpty(t) PROVE Locks'
  <2>1. /\ thread[t] = "own" /\ thread' = [thread EXCEPT ![t] = thread'[t]]
        /\ thread'[t] \in {"work", "parent"}
        /\ childMutex' = [childMutex EXCEPT ![t] = Unlocked]
        /\ UNCHANGED <<parentMutex, victim>>
    BY <1>5 DEF PopOwn, OwnEmpty, WorkOn, To, scanVars
  <2> QED
    BY <2>1
<1>6. ASSUME NEW t \in Threads, ScanBegin(t) PROVE Locks'
  BY <1>6 DEF ScanBegin, To
<1>7. ASSUME NEW t \in Threads, NEW v \in Threads, ScanLock(t, v) PROVE Locks'
  BY <1>7 DEF ScanLock, To
<1>8. ASSUME NEW t \in Threads, Steal(t) PROVE Locks'
  BY <1>8 DEF Steal, WorkOn, To
<1>9. ASSUME NEW t \in Threads, StealNothing(t) PROVE Locks'
  BY <1>9 DEF StealNothing, To
<1>10. ASSUME NEW t \in Threads, ScanEnds(t) PROVE Locks'
  <2>1. /\ thread[t] = "scan" /\ parentMutex = t /\ parentMutex' = Unlocked
        /\ thread'[t] = "end" /\ \A u \in Threads \ {t} : thread'[u] = thread[u]
        /\ UNCHANGED <<childMutex, victim>>
    BY <1>10, <1>k, Moved DEF ScanEnds
  <2>2. HolderIsThere' /\ VictimChosen'
    BY <2>1
  <2>3. LockOrder'
    BY <2>1
  <2> QED
    BY <2>2, <2>3
<1>11. ASSUME NEW t \in Threads, WorkStep(t) PROVE Locks'
  <2>1. /\ UNCHANGED <<childMutex, parentMutex, victim>>
        /\ \/ thread' = thread
           \/ /\ thread[t] = "work" /\ thread'[t] \in {"count", "loop"}
              /\ \A u \in Threads \ {t} : thread'[u] = thread[u]
    <3>1. CASE GetBound(t) \/ PushBound(t) \/ PutBound(t)
      BY <3>1 DEF GetBound, PushBound, PutBound, scanVars
    <3>2. CASE PutEntry(t)
      BY <3>2, <1>k, Moved DEF PutEntry, scanVars
    <3> QED
      BY <1>11, <3>1, <3>2 DEF WorkStep
  <2>2. \A u \in Threads : u = t \/ u \in Threads \ {t}
    OBVIOUS
  <2> HIDE DEF SearchInv, SearchTypeOK, Locks, LockOrder, HolderIsThere, VictimChosen
  <2> QED
    BY <2>1, <2>2, <1>k, LocksKept
<1> QED
  BY <1>1, <1>3, <1>4, <1>5, <1>6, <1>7, <1>8, <1>9, <1>10, <1>11 DEF SearchNext, PopStep

\* Empty stacks and the main thread
LEMMA StepEmpty == SearchInv /\ [SearchNext]_searchVars => OwnStackEmpty' /\ SplitsAlone'
<1> SUFFICES ASSUME SearchInv, [SearchNext]_searchVars PROVE OwnStackEmpty' /\ SplitsAlone'
  OBVIOUS
<1> USE SearchAssumption DEF SearchInv, SearchTypeOK, OwnStackEmpty, SplitsAlone
<1>1. CASE EnoughSplit
  BY <1>1 DEF EnoughSplit
<1>2. CASE SplitMore \/ CancelSearch \/ UNCHANGED searchVars
  BY <1>2 DEF SplitMore, CancelSearch, To, searchVars
<1>3. ASSUME NEW t \in Threads, MakeChild(t) \/ LoopGoesOn(t) PROVE OwnStackEmpty' /\ SplitsAlone'
  BY <1>3 DEF MakeChild, LoopGoesOn, To
<1>4. ASSUME NEW t \in Threads,
             PopLock(t) \/ OwnEmpty(t) \/ ScanBegin(t) \/ StealNothing(t) \/ ScanEnds(t)
      PROVE  OwnStackEmpty' /\ SplitsAlone'
  BY <1>4 DEF PopLock, OwnEmpty, ScanBegin, StealNothing, ScanEnds, To
<1>5. ASSUME NEW t \in Threads, NEW v \in Threads, ScanLock(t, v)
      PROVE  OwnStackEmpty' /\ SplitsAlone'
  BY <1>5 DEF ScanLock, To
<1>6. ASSUME NEW t \in Threads, PopOwn(t) PROVE OwnStackEmpty' /\ SplitsAlone'
  BY <1>6 DEF PopOwn, WorkOn, To
<1>7. ASSUME NEW t \in Threads, Steal(t) PROVE OwnStackEmpty' /\ SplitsAlone'
  BY <1>7 DEF Steal, WorkOn, To
<1>8. ASSUME NEW t \in Threads, GetBound(t) \/ PutBound(t) \/ PutEntry(t)
      PROVE  OwnStackEmpty' /\ SplitsAlone'
  BY <1>8 DEF GetBound, PutBound, PutEntry, To
<1>9. ASSUME NEW t \in Threads, PushBound(t) PROVE OwnStackEmpty' /\ SplitsAlone'
  BY <1>9 DEF PushBound
<1> QED
  BY <1>1, <1>2, <1>3, <1>4, <1>5, <1>6, <1>7, <1>8, <1>9 DEF SearchNext, PopStep, WorkStep

LEMMA SearchInvariant == SearchSpec => []SearchInv
<1>1. SearchInv /\ [SearchNext]_searchVars => SearchInv'
  BY StepTypes, StepPlaces, StepHands, StepLocks, StepEmpty DEF SearchInv, Locks
<1> QED
  BY InitSearch, <1>1, PTL DEF SearchSpec
-----------------------------------------------------------------------------
\* The state keeps its types (WeightSearcher3, QueueStackStealingPool).
THEOREM SearchTypes == SearchSpec => []SearchTypeOK
<1>1. SearchInv => SearchTypeOK
  BY DEF SearchInv
<1> QED
  BY <1>1, SearchInvariant, PTL

\* No bound is searched twice or overwritten while it is still to be searched,
\* whoever takes it from whom (Pop, PopBottom, TypedPool).
THEOREM EveryBoundInOnePlace == SearchSpec => []OnePlace
<1>1. SearchInv => OnePlace
  BY DEF SearchInv
<1> QED
  BY <1>1, SearchInvariant, PTL

\* When every thread has ended and nobody has cancelled, no bound is left
\* (threadLoop).
THEOREM SearchIsComplete == SearchSpec => []NothingLeft
<1>1. SearchInv => NothingLeft
  BY DEF SearchInv, NothingLeft, OwnStackEmpty, HandsFull
<1> QED
  BY <1>1, SearchInvariant, PTL

\* The holder of the mutex of a stack never waits for another (Pop).
THEOREM ScanIsNotBlocked == SearchSpec => []LockOrder
<1>1. SearchInv => LockOrder
  BY DEF SearchInv
<1> QED
  BY <1>1, SearchInvariant, PTL

-----------------------------------------------------------------------------
(* RankedCollectors *)

(* The prover cannot instantiate the induction theorems of the library, whose
   parameter is an operator; that a set of naturals has a smallest element is
   enough in their place. *)
Less == {ij \in Nat \X Nat : ij[1] < ij[2]}

LEMMA LessIsWellFounded == IsWellFoundedOn(Less, Nat)
  BY NatLessThanWellFounded, Zenon DEF OpToRel, Less

LEMMA Smallest ==
  ASSUME NEW T, T \subseteq Nat, T # {}
  PROVE  \E n \in T : \A k \in T : n <= k
<1>1. PICK n \in T : \A k \in T : ~(<<k, n>> \in Less)
  BY LessIsWellFounded, WFMin, Zenon
<1>2. \A k \in T : ~(k < n)
  BY <1>1 DEF Less
<1> QED
  BY <1>1, <1>2

LEMMA SetInduction ==
  ASSUME NEW S, 0 \in S, \A n \in Nat : n \in S => n + 1 \in S
  PROVE  Nat \subseteq S
<1> SUFFICES ASSUME NEW c \in Nat, c \notin S PROVE FALSE
  OBVIOUS
<1> DEFINE T == {n \in Nat : n \notin S}
<1>1. T \subseteq Nat /\ T # {}
  OBVIOUS
<1> HIDE DEF T
<1>2. PICK n \in T : \A j \in T : n <= j
  BY <1>1, Smallest
<1> USE DEF T
<1>3. n # 0 /\ n \in Nat /\ n \notin S
  BY <1>2
<1>4. n - 1 \in Nat /\ n - 1 \notin T
  BY <1>2, <1>3
<1> QED
  BY <1>3, <1>4

\* What the entries up to the n-th are compacted to.
First(s, c, n) ==
  IF n = 0 THEN <<>>
  ELSE IF n > 1 /\ s[n] = s[n - 1] THEN c[n - 1] ELSE Append(c[n - 1], s[n])

LEMMA FirstExists ==
  ASSUME NEW C, NEW s \in Seq(C), NEW m \in Nat
  PROVE  \E c : c = [n \in 0..m |-> First(s, c, n)]
<1> DEFINE S == {k \in Nat : \E c : c = [n \in 0..k |-> First(s, c, n)]}
<1>1. 0 \in S
  <2>1. [n \in 0..0 |-> <<>>] = [n \in 0..0 |-> First(s, [i \in 0..0 |-> <<>>], n)]
    BY DEF First
  <2> QED
    BY <2>1
<1>2. ASSUME NEW k \in Nat, k \in S PROVE k + 1 \in S
  <2>1. PICK c : c = [n \in 0..k |-> First(s, c, n)]
    BY <1>2
  <2> DEFINE d == [n \in 0..(k + 1) |-> IF n = k + 1 THEN First(s, c, n) ELSE c[n]]
  <2>2. ASSUME NEW n \in 0..(k + 1) PROVE d[n] = First(s, d, n)
    <3>1. n = 0 \/ d[n - 1] = c[n - 1]
      OBVIOUS
    <3>2. First(s, d, n) = First(s, c, n)
      BY <3>1 DEF First
    <3>3. n # k + 1 => c[n] = First(s, c, n)
      BY <2>1
    <3> QED
      BY <3>2, <3>3
  <2>3. d = [n \in 0..(k + 1) |-> First(s, d, n)]
    BY <2>2
  <2> HIDE DEF d
  <2> QED
    BY <2>3
<1> HIDE DEF S
<1>3. Nat \subseteq S
  BY <1>1, <1>2, SetInduction
<1> QED
  BY <1>3 DEF S

LEMMA CompactIsFirst ==
  ASSUME NEW C, NEW s \in Seq(C)
  PROVE  \E c : /\ \A n \in 0..Len(s) : c[n] = First(s, c, n)
                /\ Compact(s) = c[Len(s)]
<1> DEFINE c == CHOOSE c : c = [n \in 0..Len(s) |-> First(s, c, n)]
<1>1. c = [n \in 0..Len(s) |-> First(s, c, n)]
  BY FirstExists
<1>2. Compact(s) = c[Len(s)]
  BY DEF Compact, First
<1> HIDE DEF c
<1> QED
  BY <1>1, <1>2

\* What is kept of the first n entries c[n] has all of them, in their order.
Compacted(s, c, n) ==
  /\ Range(c[n]) = {s[i] : i \in 1..n}
  /\ Len(c[n]) <= n
  /\ n > 0 => c[n] # <<>>
  /\ InOrder(s) => InOrder(c[n])

LEMMA AppendToOrdered ==
  ASSUME NEW t \in Seq(Candidates), NEW x \in Candidates, rating \in [Candidates -> Ratings],
         InOrder(t), \A y \in Range(t) : rating[y] <= rating[x]
  PROVE  InOrder(Append(t, x))
<1> SUFFICES ASSUME NEW i \in 1..(Len(t) + 1), NEW j \in 1..(Len(t) + 1), i < j
             PROVE  rating[Append(t, x)[i]] <= rating[Append(t, x)[j]]
  BY DEF InOrder
<1>1. i \in 1..Len(t) /\ Append(t, x)[i] = t[i] /\ t[i] \in Range(t)
  BY DEF Range
<1>2. CASE j = Len(t) + 1
  BY <1>1, <1>2
<1>3. CASE j # Len(t) + 1
  BY <1>1, <1>3 DEF InOrder
<1> QED
  BY <1>2, <1>3

LEMMA CompactedAll ==
  ASSUME NEW s \in Seq(Candidates), rating \in [Candidates -> Ratings],
         NEW c, \A n \in 0..Len(s) : c[n] = First(s, c, n),
         NEW m \in 0..Len(s)
  PROVE  c[m] \in Seq(Candidates) /\ Compacted(s, c, m)
<1> DEFINE S == {n \in Nat : n <= Len(s) => c[n] \in Seq(Candidates) /\ Compacted(s, c, n)}
<1>0. Ratings \subseteq Int
  BY RankingAssumption
<1>1. 0 \in S
  <2>1. c[0] = <<>>
    <3>1. 0 \in 0..Len(s)
      OBVIOUS
    <3> QED
      BY <3>1 DEF First
  <2>2. c[0] \in Seq(Candidates) /\ Len(c[0]) = 0
    BY <2>1
  <2>3. Range(c[0]) = {} /\ {s[i] : i \in 1..0} = {} /\ InOrder(c[0])
    BY <2>2 DEF Range, InOrder
  <2> QED
    BY <2>2, <2>3 DEF Compacted
<1>2. ASSUME NEW k \in Nat, k \in S PROVE k + 1 \in S
  <2> SUFFICES ASSUME k + 1 <= Len(s)
               PROVE  c[k + 1] \in Seq(Candidates) /\ Compacted(s, c, k + 1)
    OBVIOUS
  <2> DEFINE x == s[k + 1]
  <2>0. c[k + 1] = First(s, c, k + 1) /\ (k + 1) - 1 = k /\ k + 1 # 0
    OBVIOUS
  <2>1. c[k] \in Seq(Candidates) /\ Compacted(s, c, k) /\ x \in Candidates
    BY <1>2
  <2>2. {s[i] : i \in 1..(k + 1)} = {s[i] : i \in 1..k} \union {x}
    OBVIOUS
  <2>3. CASE k + 1 > 1 /\ x = s[k]
    <3>1. c[k + 1] = c[k]
      BY <2>0, <2>3 DEF First
    <3>2. x \in {s[i] : i \in 1..k}
      BY <2>3
    <3> QED
      BY <2>1, <2>2, <3>1, <3>2 DEF Compacted
  <2>4. CASE ~(k + 1 > 1 /\ x = s[k])
    <3>1. c[k + 1] = Append(c[k], x)
      BY <2>0, <2>4 DEF First
    <3> HIDE DEF x
    <3>2. /\ Append(c[k], x) \in Seq(Candidates) /\ Len(Append(c[k], x)) = Len(c[k]) + 1
          /\ \A i \in 1..Len(c[k]) : Append(c[k], x)[i] = c[k][i]
          /\ Append(c[k], x)[Len(c[k]) + 1] = x
      BY <2>1
    <3>3. Range(Append(c[k], x)) = Range(c[k]) \union {x}
      <4>1. DOMAIN Append(c[k], x) = 1..(Len(c[k]) + 1) /\ DOMAIN c[k] = 1..Len(c[k])
        BY <2>1, <3>2
      <4>2. \A y \in Range(Append(c[k], x)) : y \in Range(c[k]) \union {x}
        BY <3>2, <4>1 DEF Range
      <4>3. \A y \in Range(c[k]) \union {x} : y \in Range(Append(c[k], x))
        BY <3>2, <4>1 DEF Range
      <4> QED
        BY <4>2, <4>3
    <3>4. ASSUME InOrder(s) PROVE InOrder(Append(c[k], x))
      <4>1. \A y \in Range(c[k]) : rating[y] <= rating[x]
        BY <2>1, <3>4 DEF InOrder, Compacted, x
      <4> QED
        BY <2>1, <3>4, <4>1, AppendToOrdered DEF Compacted
    <3>5. Append(c[k], x) # <<>>
      BY <3>2
    <3>6. InOrder(s) => InOrder(Append(c[k], x))
      BY <3>4
    <3>7. Range(c[k + 1]) = {s[i] : i \in 1..(k + 1)}
      <4>1. Range(c[k]) = {s[i] : i \in 1..k}
        BY <2>1 DEF Compacted
      <4> QED
        BY <2>2, <3>1, <3>3, <4>1
    <3>8. Len(c[k + 1]) <= k + 1
      BY <2>1, <3>1, <3>2 DEF Compacted
    <3> QED
      BY <3>1, <3>2, <3>5, <3>6, <3>7, <3>8 DEF Compacted
  <2> QED
    BY <2>3, <2>4
<1> HIDE DEF S
<1>3. Nat \subseteq S
  BY <1>1, <1>2, SetInduction
<1> QED
  BY <1>3 DEF S

LEMMA CompactKeeps ==
  ASSUME NEW s \in Seq(Candidates), rating \in [Candidates -> Ratings]
  PROVE  /\ Compact(s) \in Seq(Candidates)
         /\ Range(Compact(s)) = Range(s)
         /\ Len(Compact(s)) <= Len(s)
         /\ s # <<>> => Compact(s) # <<>>
         /\ InOrder(s) => InOrder(Compact(s))
<1>1. PICK c : /\ \A n \in 0..Len(s) : c[n] = First(s, c, n)
               /\ Compact(s) = c[Len(s)]
  BY CompactIsFirst
<1>2. Compact(s) \in Seq(Candidates) /\ Compacted(s, c, Len(s))
  BY <1>1, CompactedAll
<1>3. Range(s) = {s[i] : i \in 1..Len(s)}
  BY DEF Range
<1> QED
  BY <1>1, <1>2, <1>3 DEF Compacted

LEMMA SortKeeps ==
  ASSUME NEW s \in Seq(Candidates), rating \in [Candidates -> Ratings], NEW t \in SortContent(s)
  PROVE  /\ t \in Seq(Candidates) /\ InOrder(t)
         /\ Range(t) = Range(s)
         /\ Len(t) <= Len(s)
         /\ s # <<>> => t # <<>>
<1>1. PICK p \in Bijection(DOMAIN s, DOMAIN s) :
        /\ InOrder([i \in DOMAIN s |-> s[p[i]]])
        /\ t = Compact([i \in DOMAIN s |-> s[p[i]]])
  BY DEF SortContent
<1> DEFINE o == [i \in DOMAIN s |-> s[p[i]]]
<1>0. DOMAIN s = 1..Len(s) /\ Len(s) \in Nat
  OBVIOUS
<1>2. /\ p \in [1..Len(s) -> 1..Len(s)]
      /\ \A w \in 1..Len(s) : \E v \in 1..Len(s) : p[v] = w
  BY <1>0 DEF Bijection, Injection, Surjection
<1>3. o \in Seq(Candidates) /\ Len(o) = Len(s) /\ \A i \in 1..Len(s) : o[i] = s[p[i]]
  BY <1>0, <1>2
<1>4. Range(o) = Range(s)
  <2>1. \A x \in Range(o) : x \in Range(s)
    BY <1>0, <1>2, <1>3 DEF Range
  <2>2. \A x \in Range(s) : x \in Range(o)
    BY <1>0, <1>2, <1>3 DEF Range
  <2> QED
    BY <2>1, <2>2
<1> HIDE DEF o
<1>5. InOrder(o) /\ t = Compact(o)
  BY <1>1 DEF o
<1>6. s # <<>> => o # <<>>
  BY <1>3
<1> QED
  BY <1>3, <1>4, <1>5, <1>6, CompactKeeps

LEMMA Extremes ==
  ASSUME NEW a \in Seq(Candidates), a # <<>>, InOrder(a)
  PROVE  /\ a[1] \in Range(a) /\ a[Len(a)] \in Range(a)
         /\ rating \in [Candidates -> Ratings] =>
              \A d \in Range(a) : rating[a[1]] <= rating[d] /\ rating[d] <= rating[a[Len(a)]]
<1>1. DOMAIN a = 1..Len(a) /\ Len(a) \in Nat /\ 1 \in 1..Len(a) /\ Len(a) \in 1..Len(a)
  OBVIOUS
<1>2. a[1] \in Range(a) /\ a[Len(a)] \in Range(a)
  BY <1>1 DEF Range
<1>3. ASSUME rating \in [Candidates -> Ratings], NEW d \in Range(a)
      PROVE  rating[a[1]] <= rating[d] /\ rating[d] <= rating[a[Len(a)]]
  <2>1. PICK i \in 1..Len(a) : d = a[i]
    BY <1>1 DEF Range
  <2>2. rating[d] \in Int
    <3>1. d \in Candidates
      BY <1>1, <2>1
    <3> QED
      BY <1>3, <3>1, RankingAssumption
  <2>3. i = 1 \/ rating[a[1]] <= rating[a[i]]
    BY <1>1, <2>1 DEF InOrder
  <2>4. i = Len(a) \/ rating[a[i]] <= rating[a[Len(a)]]
    <3>1. i \in DOMAIN a /\ Len(a) \in DOMAIN a /\ i \in Int /\ Len(a) \in Int /\ i <= Len(a)
      BY <1>1
    <3>2. i < Len(a) => rating[a[i]] <= rating[a[Len(a)]]
      BY <3>1 DEF InOrder
    <3> QED
      BY <3>1, <3>2
  <2> QED
    BY <2>1, <2>2, <2>3, <2>4
<1> QED
  BY <1>2, <1>3

LEMMA AppendRange ==
  ASSUME NEW a \in Seq(Candidates), NEW c \in Candidates
  PROVE  /\ Append(a, c) \in Seq(Candidates) /\ Append(a, c) # <<>>
         /\ Len(Append(a, c)) = Len(a) + 1
         /\ Range(Append(a, c)) = Range(a) \union {c}
<1>1. /\ Append(a, c) \in Seq(Candidates) /\ Append(a, c) # <<>>
      /\ Len(Append(a, c)) = Len(a) + 1
      /\ DOMAIN Append(a, c) = 1..(Len(a) + 1) /\ DOMAIN a = 1..Len(a) /\ Len(a) \in Nat
      /\ \A i \in 1..Len(a) : Append(a, c)[i] = a[i]
      /\ Append(a, c)[Len(a) + 1] = c
  OBVIOUS
<1>2. \A x \in Range(Append(a, c)) : x \in Range(a) \union {c}
  BY <1>1 DEF Range
<1>3. \A x \in Range(a) \union {c} : x \in Range(Append(a, c))
  BY <1>1 DEF Range
<1> QED
  BY <1>1, <1>2, <1>3

LEMMA ExchangeRange ==
  ASSUME NEW a \in Seq(Candidates), NEW c \in Candidates, a # <<>>
  PROVE  LET e == [a EXCEPT ![1] = c]
         IN  /\ e \in Seq(Candidates) /\ e # <<>> /\ Len(e) = Len(a)
             /\ c \in Range(e) /\ Range(e) \subseteq Range(a) \union {c}
             /\ Range(a) \subseteq Range(e) \union {a[1]}
             /\ Len(a) # 1 => a[Len(a)] \in Range(e)
<1> DEFINE e == [a EXCEPT ![1] = c]
<1>1. /\ e \in Seq(Candidates) /\ Len(e) = Len(a) /\ e[1] = c
      /\ DOMAIN e = 1..Len(a) /\ DOMAIN a = 1..Len(a) /\ Len(a) \in Nat /\ 1 \in 1..Len(a)
      /\ \A i \in 1..Len(a) : i # 1 => e[i] = a[i]
  OBVIOUS
<1> HIDE DEF e
<1>2. e # <<>>
  BY <1>1
<1>3. c \in Range(e) /\ Range(e) \subseteq Range(a) \union {c}
  BY <1>1 DEF Range
<1>4. Range(a) \subseteq Range(e) \union {a[1]}
  BY <1>1 DEF Range
<1>5. Len(a) # 1 => a[Len(a)] \in Range(e)
  BY <1>1 DEF Range
<1> QED
  BY <1>1, <1>2, <1>3, <1>4, <1>5 DEF e

LEMMA JoinRange ==
  ASSUME NEW a \in Seq(Candidates), NEW b \in Seq(Candidates)
  PROVE  /\ a \o b \in Seq(Candidates) /\ Len(a \o b) = Len(a) + Len(b)
         /\ Range(a \o b) = Range(a) \union Range(b)
<1>1. /\ a \o b \in Seq(Candidates) /\ Len(a \o b) = Len(a) + Len(b)
      /\ DOMAIN (a \o b) = 1..(Len(a) + Len(b)) /\ DOMAIN a = 1..Len(a) /\ DOMAIN b = 1..Len(b)
      /\ Len(a) \in Nat /\ Len(b) \in Nat
      /\ \A i \in 1..(Len(a) + Len(b)) :
           (a \o b)[i] = IF i <= Len(a) THEN a[i] ELSE b[i - Len(a)]
  OBVIOUS
<1> DEFINE s == a \o b
<1> HIDE DEF s
<1>2. /\ \A i \in 1..Len(a) : s[i] = a[i]
      /\ \A i \in 1..Len(b) : s[Len(a) + i] = b[i] /\ Len(a) + i \in 1..(Len(a) + Len(b))
      /\ \A i \in 1..(Len(a) + Len(b)) : i <= Len(a) \/ i - Len(a) \in 1..Len(b)
  BY <1>1 DEF s
<1>3. ASSUME NEW x \in Range(s) PROVE x \in Range(a) \union Range(b)
  <2>1. PICK i \in 1..(Len(a) + Len(b)) : x = s[i]
    BY <1>1 DEF Range, s
  <2>2. CASE i <= Len(a)
    BY <1>1, <2>1, <2>2 DEF Range, s
  <2>3. CASE ~(i <= Len(a))
    <3>1. i - Len(a) \in 1..Len(b) /\ x = b[i - Len(a)]
      BY <1>1, <2>1, <2>3 DEF s
    <3> QED
      BY <1>1, <3>1 DEF Range
  <2> QED
    BY <2>2, <2>3
<1>4. ASSUME NEW x \in Range(a) \union Range(b) PROVE x \in Range(s)
  <2>1. CASE x \in Range(a)
    <3>1. PICK i \in 1..Len(a) : x = a[i]
      BY <1>1, <2>1 DEF Range
    <3>2. i \in DOMAIN s /\ x = s[i]
      BY <1>1, <1>2, <3>1 DEF s
    <3> QED
      BY <3>2 DEF Range
  <2>2. CASE x \in Range(b)
    <3>1. PICK i \in 1..Len(b) : x = b[i]
      BY <1>1, <2>2 DEF Range
    <3>2. Len(a) + i \in DOMAIN s /\ x = s[Len(a) + i]
      BY <1>1, <1>2, <3>1 DEF s
    <3> QED
      BY <3>2 DEF Range
  <2> QED
    BY <2>1, <2>2
<1>5. Range(s) = Range(a) \union Range(b)
  BY <1>3, <1>4
<1> QED
  BY <1>1, <1>5 DEF s

-----------------------------------------------------------------------------
\* What a collector keeps, the sz it thinks these are and the worst of them, w, go
\* with what it was offered.  An empty collector was offered nothing.
KeptOf(a, sz, w, off) ==
  /\ a \in Seq(Candidates) /\ sz \in 0..Limit
  /\ off \subseteq Candidates /\ IsFiniteSet(off)
  /\ Range(a) \subseteq off /\ InOrder(a)
  /\ sz = 0 => a = <<>> /\ off = {}
  /\ sz > 0 => a # <<>> /\ w = rating[a[1]]
  /\ a # <<>> => \A c \in off : rating[c] <= rating[a[Len(a)]]

\* A collector with room left has let nothing go.
Roomy(a, sz, off) == sz < Limit => off \subseteq Range(a)

Apart(a, off) == \A c \in off \ Range(a), d \in Range(a) : rating[c] <= rating[d]

\* The candidates of S that are at least as good as c
AsGood(S, c) == {d \in S : rating[c] <= rating[d]}

\* Of the places that are counted n at most are not filled.
Filled(a, sz, n) == Len(a) <= sz /\ sz <= Cardinality(Range(a)) + n

\* What is missing gave way to enough that is as good, but for n.
GaveWay(a, n, off) ==
  \A c \in off \ Range(a) : Limit <= Cardinality(AsGood(Range(a), c)) + n

\* How often one came again, after the offer of c
CameAgain(a, c, n) == IF c \in Range(a) THEN n + 1 ELSE n

\* One that gave way still does when nothing as good is dropped.
LEMMA StillGaveWay ==
  ASSUME NEW A, NEW B, IsFiniteSet(B), NEW c, AsGood(A, c) \subseteq B,
         NEW n \in Nat, NEW m \in Nat, n <= m,
         Limit <= Cardinality(AsGood(A, c)) + n
  PROVE  Limit <= Cardinality(AsGood(B, c)) + m
<1>1. AsGood(B, c) \subseteq B /\ AsGood(A, c) \subseteq AsGood(B, c)
  BY DEF AsGood
<1>2. IsFiniteSet(AsGood(B, c)) /\ IsFiniteSet(AsGood(A, c))
  BY <1>1, FS_Subset
<1>3. Cardinality(AsGood(A, c)) <= Cardinality(AsGood(B, c))
  BY <1>1, <1>2, FS_Subset
<1>4. Cardinality(AsGood(A, c)) \in Nat /\ Cardinality(AsGood(B, c)) \in Nat /\ Limit \in Nat
  BY <1>2, FS_CardinalityType, RankingAssumption
<1> QED
  BY <1>3, <1>4

LEMMA AppendedRight ==
  ASSUME rating \in [Candidates -> Ratings], NEW a, NEW sz, NEW w, NEW off,
         KeptOf(a, sz, w, off), sz < Limit,
         NEW n \in Nat, Filled(a, sz, n), GaveWay(a, n, off),
         NEW c \in Candidates, NEW t \in SortContent(Append(a, c))
  PROVE  /\ KeptOf(t, sz + 1, rating[t[1]], off \union {c})
         /\ Filled(t, sz + 1, CameAgain(a, c, n)) /\ GaveWay(t, CameAgain(a, c, n), off \union {c})
         /\ Roomy(a, sz, off) => /\ Roomy(t, sz + 1, off \union {c})
                                 /\ Apart(t, off \union {c})
<1>1. /\ a \in Seq(Candidates) /\ sz \in 0..Limit /\ off \subseteq Candidates
      /\ IsFiniteSet(off) /\ Range(a) \subseteq off
  BY DEF KeptOf
<1>2. /\ Append(a, c) \in Seq(Candidates) /\ Append(a, c) # <<>>
      /\ Len(Append(a, c)) = Len(a) + 1 /\ Range(Append(a, c)) = Range(a) \union {c}
  BY <1>1, AppendRange
<1>3. /\ t \in Seq(Candidates) /\ InOrder(t) /\ Range(t) = Range(a) \union {c} /\ t # <<>>
      /\ Len(t) <= Len(a) + 1
  BY <1>2, SortKeeps
<1>4. \A d \in Range(t) : rating[d] <= rating[t[Len(t)]] /\ t[Len(t)] \in Candidates
  BY <1>1, <1>3, Extremes
<1>5. Limit \in Nat /\ Ratings \subseteq Int
  BY RankingAssumption
<1>6. IsFiniteSet(off \union {c}) /\ IsFiniteSet(Range(a)) /\ IsFiniteSet(Range(t))
      /\ Cardinality(Range(a)) \in Nat
      /\ Cardinality(Range(t)) =
           IF c \in Range(a) THEN Cardinality(Range(a)) ELSE Cardinality(Range(a)) + 1
  <2>1. IsFiniteSet(off \union {c}) /\ IsFiniteSet(Range(a))
    BY <1>1, FS_AddElement, FS_Subset
  <2> QED
    BY <1>3, <2>1, FS_AddElement, FS_CardinalityType
<1>7. ASSUME NEW d \in off \union {c} PROVE rating[d] <= rating[t[Len(t)]]
  <2>1. CASE d \in Range(t)
    BY <1>4, <2>1
  <2>2. CASE d \notin Range(t)
    <3>1. d \in off /\ a # <<>>
      BY <1>3, <1>7, <2>2 DEF KeptOf
    <3>2. rating[d] <= rating[a[Len(a)]] /\ a[Len(a)] \in Range(a)
      BY <1>1, <3>1, Extremes DEF KeptOf
    <3>3. rating[a[Len(a)]] <= rating[t[Len(t)]]
      BY <1>3, <1>4, <3>2
    <3>4. d \in Candidates /\ a[Len(a)] \in Candidates /\ t[Len(t)] \in Candidates
      BY <1>1, <1>3, <1>4, <3>1, <3>2
    <3>5. rating[d] \in Int /\ rating[a[Len(a)]] \in Int /\ rating[t[Len(t)]] \in Int
      BY <1>5, <3>4
    <3> QED
      BY <3>2, <3>3, <3>5
  <2> QED
    BY <2>1, <2>2
<1>8. KeptOf(t, sz + 1, rating[t[1]], off \union {c})
  <2>1. sz + 1 \in 0..Limit /\ sz + 1 > 0 /\ sz + 1 # 0
    BY <1>1, <1>5
  <2> QED
    BY <1>1, <1>3, <1>6, <1>7, <2>1 DEF KeptOf
<1>9. ASSUME Roomy(a, sz, off)
      PROVE  Roomy(t, sz + 1, off \union {c}) /\ Apart(t, off \union {c})
  BY <1>3, <1>9 DEF Roomy, Apart
<1>10. Filled(t, sz + 1, CameAgain(a, c, n))
  <2>1. Len(t) \in Nat /\ Len(a) \in Nat
    BY <1>1, <1>3
  <2> QED
    BY <1>1, <1>3, <1>5, <1>6, <2>1 DEF Filled, CameAgain
<1>11. GaveWay(t, CameAgain(a, c, n), off \union {c})
  <2> SUFFICES ASSUME NEW x \in (off \union {c}) \ Range(t)
               PROVE  Limit <= Cardinality(AsGood(Range(t), x)) + CameAgain(a, c, n)
    BY DEF GaveWay
  <2>1. Limit <= Cardinality(AsGood(Range(a), x)) + n
    BY <1>3 DEF GaveWay
  <2>2. AsGood(Range(a), x) \subseteq Range(t)
    BY <1>3 DEF AsGood
  <2>3. CameAgain(a, c, n) \in Nat /\ n <= CameAgain(a, c, n)
    BY DEF CameAgain
  <2> QED
    BY <1>6, <2>1, <2>2, <2>3, StillGaveWay
<1> QED
  BY <1>8, <1>9, <1>10, <1>11

LEMMA ExchangedRight ==
  ASSUME rating \in [Candidates -> Ratings], NEW a, NEW sz, NEW w, NEW off,
         KeptOf(a, sz, w, off), sz >= Limit,
         NEW n \in Nat, Filled(a, sz, n), GaveWay(a, n, off),
         NEW c \in Candidates, rating[c] > w, NEW t \in SortContent([a EXCEPT ![1] = c])
  PROVE  /\ KeptOf(t, sz, rating[t[1]], off \union {c})
         /\ Filled(t, sz, CameAgain(a, c, n)) /\ GaveWay(t, CameAgain(a, c, n), off \union {c})
         /\ Apart(a, off) => Apart(t, off \union {c})
<1> DEFINE e == [a EXCEPT ![1] = c]
<1>1. /\ a \in Seq(Candidates) /\ sz \in 0..Limit /\ off \subseteq Candidates
      /\ IsFiniteSet(off) /\ Range(a) \subseteq off /\ InOrder(a)
  BY DEF KeptOf
<1>2. Limit \in Nat /\ Limit > 0 /\ Ratings \subseteq Int /\ sz = Limit
  BY <1>1, RankingAssumption
<1>3. a # <<>> /\ w = rating[a[1]] /\ \A d \in off : rating[d] <= rating[a[Len(a)]]
  BY <1>2 DEF KeptOf
<1>4. /\ e \in Seq(Candidates) /\ e # <<>> /\ Len(e) = Len(a)
      /\ c \in Range(e) /\ Range(e) \subseteq Range(a) \union {c}
      /\ Range(a) \subseteq Range(e) \union {a[1]}
      /\ Len(a) # 1 => a[Len(a)] \in Range(e)
  BY <1>1, <1>3, ExchangeRange
<1>5. /\ t \in Seq(Candidates) /\ InOrder(t) /\ Range(t) = Range(e) /\ t # <<>>
      /\ Len(t) <= Len(e)
  BY <1>4, SortKeeps
<1>6. /\ \A d \in Range(t) : rating[d] <= rating[t[Len(t)]]
      /\ t[Len(t)] \in Range(t)
  BY <1>5, Extremes
<1>7. /\ a[1] \in Range(a) /\ a[Len(a)] \in Range(a)
      /\ \A d \in Range(a) : rating[a[1]] <= rating[d]
  BY <1>1, <1>3, Extremes
<1>8. \A d \in off \union {c} \union Range(t) : d \in Candidates /\ rating[d] \in Int
  BY <1>1, <1>2, <1>4, <1>5
<1>9. IsFiniteSet(off \union {c}) /\ IsFiniteSet(Range(a)) /\ IsFiniteSet(Range(t))
      /\ Cardinality(Range(a)) \in Nat /\ Cardinality(Range(t)) \in Nat
  <2>1. IsFiniteSet(off \union {c}) /\ Range(a) \subseteq off \union {c}
        /\ Range(t) \subseteq off \union {c}
    BY <1>1, <1>4, <1>5, FS_AddElement
  <2>2. IsFiniteSet(Range(a)) /\ IsFiniteSet(Range(t))
    BY <2>1, FS_Subset
  <2> QED
    BY <2>1, <2>2, FS_CardinalityType
<1>10. rating[a[Len(a)]] <= rating[t[Len(t)]]
  <2>1. CASE Len(a) # 1
    BY <1>4, <1>5, <1>6, <2>1
  <2>2. CASE Len(a) = 1
    <3>1. rating[a[Len(a)]] < rating[c] /\ rating[c] <= rating[t[Len(t)]]
      BY <1>1, <1>3, <1>4, <1>5, <1>6, <1>7, <1>8, <2>2
    <3>2. rating[a[Len(a)]] \in Int /\ rating[c] \in Int /\ rating[t[Len(t)]] \in Int
      BY <1>1, <1>6, <1>7, <1>8
    <3> QED
      BY <3>1, <3>2
  <2> QED
    BY <2>1, <2>2
<1>11. ASSUME NEW d \in off \union {c} PROVE rating[d] <= rating[t[Len(t)]]
  <2>1. CASE d = c
    BY <1>4, <1>5, <1>6, <2>1
  <2>2. CASE d \in off
    <3>1. rating[d] \in Int /\ rating[a[Len(a)]] \in Int /\ rating[t[Len(t)]] \in Int
      BY <1>1, <1>6, <1>7, <1>8, <2>2
    <3>2. rating[d] <= rating[a[Len(a)]]
      BY <1>3, <2>2
    <3> QED
      BY <1>10, <3>1, <3>2
  <2> QED
    BY <1>11, <2>1, <2>2
<1>12. KeptOf(t, sz, rating[t[1]], off \union {c})
  <2>1. Range(t) \subseteq off \union {c}
    BY <1>1, <1>4, <1>5
  <2>2. sz # 0
    BY <1>2
  <2> HIDE DEF e
  <2> QED
    BY <1>1, <1>5, <1>9, <1>11, <2>1, <2>2 DEF KeptOf
\* What is kept now is not worse than the entry that was exchanged.
<1>13. ASSUME NEW d \in Range(t) PROVE rating[a[1]] <= rating[d]
  <2>1. d \in Range(a) \/ d = c
    BY <1>4, <1>5, <1>13
  <2>2. rating[a[1]] \in Int /\ rating[c] \in Int
    BY <1>1, <1>7, <1>8
  <2>3. rating[a[1]] <= rating[c]
    BY <1>3, <2>2
  <2> QED
    BY <1>7, <2>1, <2>3
<1>14. ASSUME Apart(a, off) PROVE Apart(t, off \union {c})
  <2> SUFFICES ASSUME NEW x \in (off \union {c}) \ Range(t), NEW d \in Range(t)
               PROVE  rating[x] <= rating[d]
    BY DEF Apart
  <2>1. x \in off /\ x # c /\ (x \notin Range(a) \/ x = a[1])
    BY <1>4, <1>5
  <2>2. rating[x] <= rating[a[1]]
    <3>1. rating[a[1]] <= rating[a[1]]
      BY <1>7
    <3> QED
      BY <1>7, <1>14, <2>1, <3>1 DEF Apart
  <2>3. rating[x] \in Int /\ rating[a[1]] \in Int /\ rating[d] \in Int
    BY <1>1, <1>7, <1>8, <2>1
  <2> QED
    BY <1>13, <2>2, <2>3
<1>15. CameAgain(a, c, n) \in Nat /\ n <= CameAgain(a, c, n)
  BY DEF CameAgain
<1>16. sz <= Cardinality(Range(t)) + CameAgain(a, c, n)
  <2>1. Range(a) \subseteq Range(t) \union {a[1]} /\ c \in Range(t)
    BY <1>4, <1>5
  <2>2. /\ IsFiniteSet(Range(t) \union {a[1]})
        /\ Cardinality(Range(t) \union {a[1]}) <= Cardinality(Range(t)) + 1
    <3> DEFINE S == Range(t)
    <3>1. IsFiniteSet(S) /\ Cardinality(S) \in Nat
      BY <1>9
    <3> HIDE DEF S
    <3>2. /\ IsFiniteSet(S \union {a[1]})
          /\ Cardinality(S \union {a[1]}) = Cardinality(S)
             \/ Cardinality(S \union {a[1]}) = Cardinality(S) + 1
      BY <3>1, FS_AddElement
    <3>3. Cardinality(S \union {a[1]}) <= Cardinality(S) + 1
      BY <3>1, <3>2
    <3> QED
      BY <3>2, <3>3 DEF S
  <2>3. CASE c \in Range(a)
    <3>1. Cardinality(Range(a)) <= Cardinality(Range(t) \union {a[1]})
      BY <2>1, <2>2, FS_Subset
    <3>2. Cardinality(Range(t) \union {a[1]}) \in Nat
      BY <2>2, FS_CardinalityType
    <3> QED
      BY <1>2, <1>9, <2>2, <2>3, <3>1, <3>2 DEF CameAgain, Filled
  <2>4. CASE c \notin Range(a)
    <3>1. Range(a) \union {c} \subseteq Range(t) \union {a[1]}
      BY <2>1
    <3>2. Cardinality(Range(a) \union {c}) = Cardinality(Range(a)) + 1
      BY <1>9, <2>4, FS_AddElement
    <3>3. Cardinality(Range(a) \union {c}) <= Cardinality(Range(t) \union {a[1]})
      BY <2>2, <3>1, FS_Subset
    <3>4. Cardinality(Range(t) \union {a[1]}) \in Nat
      BY <2>2, FS_CardinalityType
    <3> QED
      BY <1>2, <1>9, <2>2, <2>4, <3>2, <3>3, <3>4 DEF CameAgain, Filled
  <2> QED
    BY <2>3, <2>4
<1>17. Filled(t, sz, CameAgain(a, c, n))
  <2>1. Len(t) \in Nat /\ Len(a) \in Nat /\ Len(t) <= Len(a)
    BY <1>1, <1>4, <1>5
  <2> QED
    BY <1>2, <1>16, <2>1 DEF Filled
<1>18. ASSUME NEW x \in (off \union {c}) \ Range(t)
       PROVE  Limit <= Cardinality(AsGood(Range(t), x)) + CameAgain(a, c, n)
  <2>1. x \in off /\ rating[x] \in Int /\ rating[a[1]] \in Int
        /\ \A d \in Range(t) : rating[d] \in Int
    BY <1>1, <1>4, <1>5, <1>7, <1>8, <1>18
  <2>2. CASE rating[x] <= rating[a[1]]
    <3>1. AsGood(Range(t), x) = Range(t)
      BY <1>13, <2>1, <2>2 DEF AsGood
    <3> QED
      BY <1>2, <1>16, <3>1
  <2>3. CASE ~(rating[x] <= rating[a[1]])
    <3>1. x # a[1] /\ x \notin Range(a)
      <4>1. x # a[1]
        BY <2>1, <2>3
      <4> QED
        BY <1>4, <1>5, <1>18, <4>1
    <3>2. a[1] \notin AsGood(Range(a), x)
      BY <2>3 DEF AsGood
    <3>3. AsGood(Range(a), x) \subseteq Range(t)
      <4>1. AsGood(Range(a), x) \subseteq Range(a)
        BY DEF AsGood
      <4> QED
        BY <1>4, <1>5, <3>2, <4>1
    <3>4. Limit <= Cardinality(AsGood(Range(a), x)) + n
      BY <2>1, <3>1 DEF GaveWay
    <3> QED
      BY <1>9, <1>15, <3>3, <3>4, StillGaveWay
  <2> QED
    BY <2>2, <2>3
<1>19. GaveWay(t, CameAgain(a, c, n), off \union {c})
  BY <1>18 DEF GaveWay
<1> QED
  BY <1>12, <1>14, <1>17, <1>19

LEMMA RefusedRight ==
  ASSUME rating \in [Candidates -> Ratings], NEW a, NEW sz, NEW w, NEW off,
         KeptOf(a, sz, w, off), sz >= Limit,
         NEW n \in Nat, Filled(a, sz, n), GaveWay(a, n, off),
         NEW c \in Candidates, rating[c] <= w
  PROVE  /\ KeptOf(a, sz, w, off \union {c})
         /\ Filled(a, sz, CameAgain(a, c, n)) /\ GaveWay(a, CameAgain(a, c, n), off \union {c})
         /\ Apart(a, off) => Apart(a, off \union {c})
<1>1. /\ a \in Seq(Candidates) /\ sz \in 0..Limit /\ off \subseteq Candidates
      /\ IsFiniteSet(off) /\ Range(a) \subseteq off /\ InOrder(a)
  BY DEF KeptOf
<1>2. Limit \in Nat /\ Limit > 0 /\ Ratings \subseteq Int /\ sz = Limit
  BY <1>1, RankingAssumption
<1>3. a # <<>> /\ w = rating[a[1]] /\ \A d \in off : rating[d] <= rating[a[Len(a)]]
  BY <1>2 DEF KeptOf
<1>4. /\ a[Len(a)] \in Range(a) /\ a[1] \in Range(a)
      /\ \A d \in Range(a) : rating[a[1]] <= rating[d]
  BY <1>1, <1>3, Extremes
<1>5. IsFiniteSet(off \union {c}) /\ IsFiniteSet(Range(a)) /\ Cardinality(Range(a)) \in Nat
  BY <1>1, FS_AddElement, FS_Subset, FS_CardinalityType
<1>6. \A d \in Range(a) \union {c} : rating[d] \in Int
  BY <1>1, <1>2
<1>7. \A d \in Range(a) : rating[c] <= rating[d]
  <2> SUFFICES ASSUME NEW d \in Range(a) PROVE rating[c] <= rating[d]
    OBVIOUS
  <2>1. rating[c] \in Int /\ rating[a[1]] \in Int /\ rating[d] \in Int
    BY <1>4, <1>6
  <2>2. rating[c] <= rating[a[1]] /\ rating[a[1]] <= rating[d]
    BY <1>3, <1>4
  <2> QED
    BY <2>1, <2>2
<1>8. KeptOf(a, sz, w, off \union {c})
  <2>1. \A d \in off \union {c} : rating[d] <= rating[a[Len(a)]]
    BY <1>3, <1>4, <1>7
  <2> QED
    BY <1>1, <1>2, <1>3, <1>5, <2>1 DEF KeptOf
<1>9. Apart(a, off) => Apart(a, off \union {c})
  BY <1>7 DEF Apart
<1>10. CameAgain(a, c, n) \in Nat /\ n <= CameAgain(a, c, n)
  BY DEF CameAgain
<1>11. Filled(a, sz, CameAgain(a, c, n))
  BY <1>2, <1>5, <1>10 DEF Filled
<1>12. ASSUME NEW x \in (off \union {c}) \ Range(a)
       PROVE  Limit <= Cardinality(AsGood(Range(a), x)) + CameAgain(a, c, n)
  <2>1. CASE x \in off
    <3>1. Limit <= Cardinality(AsGood(Range(a), x)) + n
      BY <1>12, <2>1 DEF GaveWay
    <3>2. AsGood(Range(a), x) \subseteq Range(a)
      BY DEF AsGood
    <3> QED
      BY <1>5, <1>10, <3>1, <3>2, StillGaveWay
  <2>2. CASE x = c
    <3>1. AsGood(Range(a), x) = Range(a)
      BY <1>7, <2>2 DEF AsGood
    <3> QED
      BY <1>2, <1>11, <3>1 DEF Filled
  <2> QED
    BY <1>12, <2>1, <2>2
<1>13. GaveWay(a, CameAgain(a, c, n), off \union {c})
  BY <1>12 DEF GaveWay
<1> QED
  BY <1>8, <1>9, <1>11, <1>13

LEMMA CutKeeps ==
  ASSUME rating \in [Candidates -> Ratings], NEW t \in Seq(Candidates), InOrder(t)
  PROVE  LET u == Cut(t)
         IN  /\ u \in Seq(Candidates) /\ Range(u) \subseteq Range(t) /\ InOrder(u)
             /\ Len(u) = IF Len(t) < Limit THEN Len(t) ELSE Limit
             /\ t # <<>> => u # <<>> /\ u[Len(u)] = t[Len(t)]
             /\ \A i \in 1..Len(u) : u[i] = t[Len(t) - Len(u) + i]
             /\ Len(t) <= Limit => u = t
<1> DEFINE u == Cut(t)
<1>1. Limit \in Nat /\ Limit > 0 /\ Len(t) \in Nat /\ DOMAIN t = 1..Len(t)
  BY RankingAssumption
<1>2. CASE Len(t) > Limit
  <2>1. u = SubSeq(t, Len(t) - Limit + 1, Len(t))
    BY <1>2 DEF Cut
  <2>2. /\ u \in Seq(Candidates) /\ Len(u) = Limit /\ DOMAIN u = 1..Limit
        /\ \A i \in 1..Limit : u[i] = t[Len(t) - Limit + i] /\ Len(t) - Limit + i \in 1..Len(t)
    BY <1>1, <1>2, <2>1
  <2> HIDE DEF u
  <2>3. Range(u) \subseteq Range(t)
    BY <1>1, <2>2 DEF Range
  <2>4. InOrder(u)
    <3> SUFFICES ASSUME NEW i \in 1..Limit, NEW j \in 1..Limit, i < j
                 PROVE  rating[u[i]] <= rating[u[j]]
      BY <2>2 DEF InOrder
    <3>1. /\ Len(t) - Limit + i \in DOMAIN t /\ Len(t) - Limit + j \in DOMAIN t
          /\ Len(t) - Limit + i < Len(t) - Limit + j
      BY <1>1, <2>2
    <3>2. rating[t[Len(t) - Limit + i]] <= rating[t[Len(t) - Limit + j]]
      BY <3>1 DEF InOrder
    <3> QED
      BY <2>2, <3>2
  <2>5. u # <<>> /\ u[Len(u)] = t[Len(t)]
    <3>1. Limit \in 1..Limit /\ Len(t) - Limit + Limit = Len(t)
      BY <1>1
    <3>2. u[Limit] = t[Len(t)]
      BY <2>2, <3>1
    <3> QED
      BY <1>1, <2>2, <3>2
  <2>6. Len(u) = (IF Len(t) < Limit THEN Len(t) ELSE Limit) /\ (Len(t) <= Limit => u = t)
    <3>1. ~(Len(t) < Limit) /\ ~(Len(t) <= Limit)
      BY <1>1, <1>2
    <3> QED
      BY <2>2, <3>1
  <2>7. \A i \in 1..Len(u) : u[i] = t[Len(t) - Len(u) + i]
    BY <2>2
  <2> QED
    BY <2>2, <2>3, <2>4, <2>5, <2>6, <2>7 DEF u
<1>3. CASE ~(Len(t) > Limit)
  <2>1. u = t
    BY <1>3 DEF Cut
  <2> HIDE DEF u
  <2>2. Len(u) = IF Len(t) < Limit THEN Len(t) ELSE Limit
    <3> DEFINE n == Len(t)
    <3>0. n \in Int /\ Limit \in Int /\ ~(n > Limit)
      BY <1>1, <1>3
    <3> HIDE DEF n
    <3>1. n < Limit \/ n = Limit
      BY <3>0
    <3> USE DEF n
    <3> QED
      BY <2>1, <3>1
  <2>3. \A i \in 1..Len(u) : u[i] = t[Len(t) - Len(u) + i]
    BY <1>1, <2>1
  <2> QED
    BY <2>1, <2>2, <2>3 DEF u
<1> QED
  BY <1>2, <1>3

\* One that is better than some entry is not cut off.
LEMMA BetterIsKept ==
  ASSUME rating \in [Candidates -> Ratings], NEW t \in Seq(Candidates), InOrder(t),
         NEW d \in Range(Cut(t)), NEW y \in Range(t), rating[d] < rating[y]
  PROVE  y \in Range(Cut(t))
<1> DEFINE u == Cut(t)
           k == Len(t) - Len(u)
<1>1. /\ u \in Seq(Candidates)
      /\ Len(u) = IF Len(t) < Limit THEN Len(t) ELSE Limit
      /\ \A i \in 1..Len(u) : u[i] = t[Len(t) - Len(u) + i]
  BY CutKeeps
<1>2. Len(t) \in Nat /\ Len(u) \in Nat /\ DOMAIN t = 1..Len(t) /\ DOMAIN u = 1..Len(u)
      /\ Limit \in Nat /\ Ratings \subseteq Int /\ Len(u) <= Len(t)
  <2>1. Len(t) \in Nat /\ DOMAIN t = 1..Len(t) /\ Limit \in Nat /\ Ratings \subseteq Int
    BY RankingAssumption
  <2> HIDE DEF u
  <2> QED
    BY <1>1, <2>1
<1> HIDE DEF u
<1>3. PICK h \in 1..Len(u) : d = u[h]
  BY <1>2 DEF Range, u
<1>4. PICK i \in 1..Len(t) : y = t[i]
  BY <1>2 DEF Range
<1>5. d = t[k + h] /\ k + h \in 1..Len(t) /\ k \in Nat
  <2>1. d = t[k + h]
    BY <1>1, <1>3
  <2>2. k + h \in 1..Len(t) /\ k \in Nat
    BY <1>2
  <2> QED
    BY <2>1, <2>2
<1>6. rating[t[i]] \in Int /\ rating[t[k + h]] \in Int
  <2> HIDE DEF k
  <2>1. t[i] \in Candidates /\ t[k + h] \in Candidates
    BY <1>5
  <2> QED
    BY <1>2, <2>1
<1>7. ~(i <= k + h)
  <2>1. CASE i = k + h
    BY <1>4, <1>5, <1>6, <2>1
  <2>2. CASE i < k + h
    <3>1. rating[t[i]] <= rating[t[k + h]]
      BY <1>2, <1>5, <2>2 DEF InOrder
    <3> QED
      BY <1>4, <1>5, <1>6, <3>1
  <2> QED
    BY <1>2, <1>5, <2>1, <2>2
<1>8. i - k \in 1..Len(u) /\ k + (i - k) = i
  BY <1>2, <1>3, <1>5, <1>7
<1>9. u[i - k] = y
  BY <1>1, <1>4, <1>8
<1> QED
  BY <1>2, <1>8, <1>9 DEF Range, u

\* Cutting off leaves no more places unfilled than there were.
LEMMA CutFilled ==
  ASSUME rating \in [Candidates -> Ratings], NEW t \in Seq(Candidates), InOrder(t),
         IsFiniteSet(Range(t))
  PROVE  Len(Cut(t)) - Cardinality(Range(Cut(t))) <= Len(t) - Cardinality(Range(t))
<1> DEFINE u == Cut(t)
           I == 1..(Len(t) - Len(u))
           B == {t[i] : i \in I}
           f == [i \in I |-> t[i]]
<1>1. /\ u \in Seq(Candidates) /\ Range(u) \subseteq Range(t)
      /\ Len(u) = IF Len(t) < Limit THEN Len(t) ELSE Limit
      /\ \A i \in 1..Len(u) : u[i] = t[Len(t) - Len(u) + i]
  BY CutKeeps
<1>2. Len(t) \in Nat /\ DOMAIN t = 1..Len(t) /\ Limit \in Nat
  BY RankingAssumption
<1> HIDE DEF u
<1>3. Len(u) \in Nat /\ DOMAIN u = 1..Len(u) /\ Len(u) <= Len(t)
  BY <1>1, <1>2
<1>4. Range(t) \subseteq Range(u) \union B
  <2> SUFFICES ASSUME NEW x \in Range(t) PROVE x \in Range(u) \union B
    OBVIOUS
  <2>1. PICK i \in 1..Len(t) : x = t[i]
    BY <1>2 DEF Range
  <2>2. CASE i <= Len(t) - Len(u)
    <3>1. i \in I
      BY <1>2, <1>3, <2>2
    <3> QED
      BY <2>1, <3>1
  <2>3. CASE ~(i <= Len(t) - Len(u))
    <3>1. i - (Len(t) - Len(u)) \in 1..Len(u)
          /\ Len(t) - Len(u) + (i - (Len(t) - Len(u))) = i
      BY <1>2, <1>3, <2>3
    <3>2. u[i - (Len(t) - Len(u))] = x
      BY <1>1, <2>1, <3>1
    <3> QED
      BY <1>3, <3>1, <3>2 DEF Range
  <2> QED
    BY <2>2, <2>3
<1>5. f \in Surjection(I, B)
  BY DEF Surjection
<1>6. IsFiniteSet(I) /\ Cardinality(I) = Len(t) - Len(u)
  <2> DEFINE q == Len(t) - Len(u)
  <2>1. 1 \in Int /\ q \in Nat /\ q \in Int
    BY <1>2, <1>3
  <2> HIDE DEF q
  <2>2. /\ IsFiniteSet(1..q)
        /\ Cardinality(1..q) = IF 1 > q THEN 0 ELSE q - 1 + 1
    BY <2>1, FS_Interval
  <2>3. Cardinality(1..q) = q
    BY <2>1, <2>2
  <2> QED
    BY <2>2, <2>3 DEF q
<1> HIDE DEF I, B, f
<1>7. IsFiniteSet(B) /\ Cardinality(B) <= Len(t) - Len(u) /\ Cardinality(B) \in Nat
  BY <1>5, <1>6, FS_Surjection, FS_CardinalityType
<1>8. IsFiniteSet(Range(u)) /\ Cardinality(Range(u)) \in Nat /\ Cardinality(Range(t)) \in Nat
  BY <1>1, FS_Subset, FS_CardinalityType
<1>9. /\ IsFiniteSet(Range(u) \union B) /\ IsFiniteSet(Range(u) \intersect B)
      /\ Cardinality(Range(u) \union B) =
           Cardinality(Range(u)) + Cardinality(B) - Cardinality(Range(u) \intersect B)
  <2>1. IsFiniteSet(Range(u) \intersect B)
    BY <1>8, FS_Subset
  <2> QED
    BY <1>7, <1>8, <2>1, FS_Union
<1>10. Cardinality(Range(t)) <= Cardinality(Range(u) \union B)
  BY <1>4, <1>9, FS_Subset
<1>11. Cardinality(Range(u) \intersect B) \in Nat
  BY <1>9, FS_CardinalityType
<1> QED
  BY <1>2, <1>3, <1>7, <1>8, <1>9, <1>10, <1>11 DEF u

LEMMA MergedContent ==
  ASSUME rating \in [Candidates -> Ratings],
         NEW a, NEW sz, NEW w, NEW off, KeptOf(a, sz, w, off),
         NEW n \in Nat, Filled(a, sz, n), GaveWay(a, n, off),
         NEW b, NEW sb, NEW wb, NEW offb, KeptOf(b, sb, wb, offb), sb > 0,
         NEW m \in Nat, Filled(b, sb, m), GaveWay(b, m, offb),
         NEW t \in SortContent(a \o b)
  PROVE  /\ KeptOf(Cut(t), Len(Cut(t)), rating[Cut(t)[1]], off \union offb)
         /\ Filled(Cut(t), Len(Cut(t)), n + m + Cardinality(Range(a) \intersect Range(b)))
         /\ GaveWay(Cut(t), n + m + Cardinality(Range(a) \intersect Range(b)), off \union offb)
<1> DEFINE u == Cut(t)
           all == off \union offb
           both == Cardinality(Range(a) \intersect Range(b))
           z == n + m + both
<1>1. /\ a \in Seq(Candidates) /\ sz \in 0..Limit /\ off \subseteq Candidates
      /\ IsFiniteSet(off) /\ Range(a) \subseteq off /\ InOrder(a)
  BY DEF KeptOf
<1>2. /\ b \in Seq(Candidates) /\ sb \in 0..Limit /\ offb \subseteq Candidates
      /\ IsFiniteSet(offb) /\ Range(b) \subseteq offb /\ InOrder(b) /\ b # <<>>
  BY DEF KeptOf
<1>3. Limit \in Nat /\ Limit > 0 /\ Ratings \subseteq Int
  BY RankingAssumption
<1>4. /\ a \o b \in Seq(Candidates) /\ Len(a \o b) = Len(a) + Len(b)
      /\ Range(a \o b) = Range(a) \union Range(b)
      /\ a \o b # <<>>
  <2>1. a \o b # <<>>
    BY <1>1, <1>2
  <2> QED
    BY <1>1, <1>2, <2>1, JoinRange
<1>5. /\ t \in Seq(Candidates) /\ InOrder(t) /\ Range(t) = Range(a) \union Range(b)
      /\ t # <<>> /\ Len(t) <= Len(a) + Len(b)
  BY <1>4, SortKeeps
<1>6. /\ u \in Seq(Candidates) /\ Range(u) \subseteq Range(t) /\ InOrder(u)
      /\ Len(u) = IF Len(t) < Limit THEN Len(t) ELSE Limit
      /\ u # <<>> /\ u[Len(u)] = t[Len(t)]
      /\ Len(t) <= Limit => u = t
  BY <1>5, CutKeeps
<1>7. /\ \A d \in Range(t) : rating[d] <= rating[t[Len(t)]]
      /\ t[Len(t)] \in Range(t)
  BY <1>5, Extremes
<1> HIDE DEF u
<1>8. /\ IsFiniteSet(all) /\ IsFiniteSet(Range(a)) /\ IsFiniteSet(Range(b))
      /\ IsFiniteSet(Range(t)) /\ IsFiniteSet(Range(u))
      /\ IsFiniteSet(Range(a) \intersect Range(b))
  <2>1. IsFiniteSet(all) /\ IsFiniteSet(Range(a)) /\ IsFiniteSet(Range(b))
    BY <1>1, <1>2, FS_Union, FS_Subset
  <2>2. IsFiniteSet(Range(t))
    BY <1>5, <2>1, FS_Union
  <2> QED
    BY <1>6, <2>1, <2>2, FS_Subset
<1>9. ASSUME NEW v \in Seq(Candidates), v # <<>>, InOrder(v), Range(v) \subseteq Range(t),
             NEW o, o \subseteq Candidates, NEW c \in o,
             \A y \in o : rating[y] <= rating[v[Len(v)]]
      PROVE  rating[c] <= rating[t[Len(t)]]
  <2>1. v[Len(v)] \in Range(v)
    BY <1>9, Extremes
  <2>2. c \in Candidates /\ v[Len(v)] \in Candidates /\ t[Len(t)] \in Candidates
    BY <1>1, <1>2, <1>5, <1>7, <1>9, <2>1
  <2>3. rating[c] \in Int /\ rating[v[Len(v)]] \in Int /\ rating[t[Len(t)]] \in Int
    BY <1>3, <2>2
  <2>4. rating[c] <= rating[v[Len(v)]] /\ rating[v[Len(v)]] <= rating[t[Len(t)]]
    BY <1>7, <1>9, <2>1
  <2> QED
    BY <2>3, <2>4
<1>10. ASSUME NEW c \in all PROVE rating[c] <= rating[u[Len(u)]]
  <2>1. CASE c \in off
    <3>1. a # <<>>
      BY <1>3, <2>1 DEF KeptOf
    <3> QED
      BY <1>1, <1>5, <1>6, <1>9, <2>1, <3>1 DEF KeptOf
  <2>2. CASE c \in offb
    BY <1>2, <1>5, <1>6, <1>9, <2>2 DEF KeptOf
  <2> QED
    BY <1>10, <2>1, <2>2
<1>11. KeptOf(u, Len(u), rating[u[1]], all)
  <2>1. Len(u) \in 0..Limit /\ Len(u) # 0
    BY <1>3, <1>5, <1>6
  <2>2. all \subseteq Candidates /\ Range(u) \subseteq all
    BY <1>1, <1>2, <1>5, <1>6
  <2> HIDE DEF all
  <2> QED
    BY <1>6, <1>8, <1>10, <2>1, <2>2 DEF KeptOf
<1>12. both \in Nat /\ z \in Nat /\ n <= z /\ m <= z
  <2>1. both \in Nat
    BY <1>8, FS_CardinalityType
  <2> HIDE DEF both
  <2> QED
    BY <2>1
<1>13. Len(u) <= Cardinality(Range(u)) + z
  <2>1. Cardinality(Range(t)) = Cardinality(Range(a)) + Cardinality(Range(b)) - both
    BY <1>5, <1>8, FS_Union
  <2>2. Len(u) - Cardinality(Range(u)) <= Len(t) - Cardinality(Range(t))
    BY <1>5, <1>8, CutFilled DEF u
  <2>3. /\ Len(a) \in Nat /\ Len(b) \in Nat /\ Len(t) \in Nat /\ Len(u) \in Nat
        /\ sz \in Nat /\ sb \in Nat
    BY <1>1, <1>2, <1>5, <1>6
  <2>4. /\ Cardinality(Range(a)) \in Nat /\ Cardinality(Range(b)) \in Nat
        /\ Cardinality(Range(u)) \in Nat
    BY <1>8, FS_CardinalityType
  <2>5. Len(a) <= sz /\ sz <= Cardinality(Range(a)) + n
        /\ Len(b) <= sb /\ sb <= Cardinality(Range(b)) + m
    BY DEF Filled
  <2> HIDE DEF both
  <2> QED
    BY <1>5, <1>12, <2>1, <2>2, <2>3, <2>4, <2>5
\* What is missing from a or b already is so still, if all as good is kept.
<1>14. ASSUME NEW x \in all \ Range(t),
              AsGood(Range(t), x) \subseteq Range(u)
       PROVE  Limit <= Cardinality(AsGood(Range(u), x)) + z
  <2> HIDE DEF z
  <2>1. CASE x \in off
    <3>1. AsGood(Range(a), x) \subseteq Range(u)
      BY <1>5, <1>14 DEF AsGood
    <3>2. Limit <= Cardinality(AsGood(Range(a), x)) + n
      BY <1>5, <1>14, <2>1 DEF GaveWay
    <3> QED
      BY <1>8, <1>12, <3>1, <3>2, StillGaveWay
  <2>2. CASE x \in offb
    <3>1. AsGood(Range(b), x) \subseteq Range(u)
      BY <1>5, <1>14 DEF AsGood
    <3>2. Limit <= Cardinality(AsGood(Range(b), x)) + m
      BY <1>5, <1>14, <2>2 DEF GaveWay
    <3> QED
      BY <1>8, <1>12, <3>1, <3>2, StillGaveWay
  <2> QED
    BY <1>14, <2>1, <2>2
<1>15. ASSUME NEW x \in all \ Range(u)
       PROVE  Limit <= Cardinality(AsGood(Range(u), x)) + z
  <2>1. x \in Candidates /\ \A d \in Range(t) : d \in Candidates /\ rating[d] \in Int
    BY <1>1, <1>2, <1>3, <1>5, <1>15
  <2>2. rating[x] \in Int
    BY <1>3, <2>1
  <2>3. CASE \E d \in Range(u) : rating[d] < rating[x]
    <3>1. PICK d \in Range(u) : rating[d] < rating[x]
      BY <2>3
    <3>2. rating[d] \in Int
      BY <1>6, <2>1
    <3>3. ASSUME NEW y \in Range(t), rating[x] <= rating[y] PROVE y \in Range(u)
      <4>1. rating[d] < rating[y]
        BY <2>1, <2>2, <3>1, <3>2, <3>3
      <4> QED
        BY <1>5, <4>1, BetterIsKept DEF u
    <3>4. x \notin Range(t)
      BY <1>15, <2>2, <3>3
    <3>5. AsGood(Range(t), x) \subseteq Range(u)
      BY <3>3 DEF AsGood
    <3> HIDE DEF z, all
    <3> QED
      BY <1>14, <1>15, <3>4, <3>5
  <2>4. CASE ~ \E d \in Range(u) : rating[d] < rating[x]
    <3>1. AsGood(Range(u), x) = Range(u)
      BY <1>6, <2>1, <2>2, <2>4 DEF AsGood
    <3>2. CASE Len(u) = Limit
      BY <1>13, <3>1, <3>2
    <3>3. CASE Len(u) # Limit
      <4>1. u = t
        BY <1>3, <1>5, <1>6, <3>3
      <4>2. AsGood(Range(t), x) \subseteq Range(u)
        BY <4>1 DEF AsGood
      <4> HIDE DEF z, all
      <4> QED
        BY <1>14, <1>15, <4>1, <4>2
    <3> QED
      BY <3>2, <3>3
  <2> QED
    BY <2>3, <2>4
<1>16. Filled(u, Len(u), z)
  <2>1. Len(u) <= Len(u)
    BY <1>6
  <2> QED
    BY <1>13, <2>1 DEF Filled
<1>17. GaveWay(u, z, all)
  BY <1>15 DEF GaveWay
<1> QED
  BY <1>11, <1>16, <1>17 DEF u

\* What k keeps is right for what it was offered.
KeptRight(k) ==
  /\ KeptOf(array[k], size[k], worst[k], offered[k])
  /\ Filled(array[k], size[k], again[k]) /\ GaveWay(array[k], again[k], offered[k])
  /\ k \notin mergedInto =>
       Roomy(array[k], size[k], offered[k]) /\ Apart(array[k], offered[k])

RankInv == RankTypeOK /\ \A k \in Rankings : KeptRight(k)

LEMMA KeptRightAgain ==
  ASSUME rating' = rating, NEW k \in Rankings,
         KeptOf(array'[k], size'[k], worst'[k], offered'[k]),
         Filled(array'[k], size'[k], again'[k]),
         GaveWay(array'[k], again'[k], offered'[k]),
         k \notin mergedInto' =>
           Roomy(array'[k], size'[k], offered'[k]) /\ Apart(array'[k], offered'[k])
  PROVE  KeptRight(k)'
  BY DEF KeptRight, KeptOf, Filled, GaveWay, AsGood, Roomy, Apart, InOrder

LEMMA KeptRightStill ==
  ASSUME rating' = rating, NEW k \in Rankings, KeptRight(k),
         array'[k] = array[k], size'[k] = size[k], worst'[k] = worst[k],
         offered'[k] = offered[k], again'[k] = again[k],
         k \in mergedInto' <=> k \in mergedInto
  PROVE  KeptRight(k)'
  BY KeptRightAgain DEF KeptRight

LEMMA RankInitially == RankInit => RankInv
<1> SUFFICES ASSUME RankInit PROVE RankInv
  OBVIOUS
<1>1. Limit \in Nat /\ Limit > 0 /\ MaxOffers \in Nat /\ Cardinality({}) = 0
      /\ IsFiniteSet({})
  BY RankingAssumption, FS_EmptySet
<1>2. RankTypeOK
  BY <1>1 DEF RankInit, RankTypeOK
<1>3. ASSUME NEW k \in Rankings PROVE KeptRight(k)
  <2>1. array[k] = <<>> /\ size[k] = 0 /\ worst[k] = 0 /\ offered[k] = {} /\ again[k] = 0
    BY DEF RankInit
  <2>2. Range(<<>>) = {} /\ InOrder(<<>>) /\ Len(<<>>) = 0
    BY DEF Range, InOrder
  <2>3. KeptOf(<<>>, 0, 0, {})
    BY <1>1, <2>2 DEF KeptOf
  <2>4. Roomy(<<>>, 0, {}) /\ Apart(<<>>, {}) /\ GaveWay(<<>>, 0, {})
    BY <1>1, <2>2 DEF Roomy, Apart, GaveWay
  <2>5. Filled(<<>>, 0, 0)
    BY <1>1, <2>2 DEF Filled
  <2> QED
    BY <2>1, <2>3, <2>4, <2>5 DEF KeptRight
<1> QED
  BY <1>2, <1>3 DEF RankInv

LEMMA OfferKeeps ==
  ASSUME RankInv, NEW k \in Rankings, NEW c \in Candidates, Offer(k, c)
  PROVE  RankInv'
<1> DEFINE a == array[k]
           sz == size[k]
           off == offered[k]
           m == CameAgain(a, c, again[k])
<1>1. /\ rating \in [Candidates -> Ratings] /\ array \in [Rankings -> Seq(Candidates)]
      /\ size \in [Rankings -> 0..Limit] /\ worst \in [Rankings -> Ratings \union {0}]
      /\ offered \in [Rankings -> SUBSET Candidates] /\ again \in [Rankings -> Nat]
  BY DEF RankInv, RankTypeOK
<1>2. /\ rating' = rating /\ mergedInto' = mergedInto /\ mergedFrom' = mergedFrom
      /\ offers' = offers + 1 /\ offers < MaxOffers
      /\ offered' = [offered EXCEPT ![k] = @ \union {c}]
      /\ again' = [again EXCEPT ![k] = m]
  BY DEF Offer, CameAgain
<1>3. /\ KeptOf(a, sz, worst[k], off)
      /\ Filled(a, sz, again[k]) /\ GaveWay(a, again[k], off)
      /\ k \notin mergedInto => Roomy(a, sz, off) /\ Apart(a, off)
  BY DEF RankInv, KeptRight
<1>4. Limit \in Nat /\ sz \in 0..Limit /\ again[k] \in Nat /\ m \in Nat
  BY <1>1, RankingAssumption DEF CameAgain
<1>5. offered'[k] = off \union {c} /\ again'[k] = m
  BY <1>1, <1>2
\* What follows when k keeps t, as one of the cases below says.
<1>6. ASSUME NEW t \in Seq(Candidates), NEW n \in 0..Limit, NEW v \in Ratings \union {0},
             array' = [array EXCEPT ![k] = t], size' = [size EXCEPT ![k] = n],
             worst' = [worst EXCEPT ![k] = v],
             KeptOf(t, n, v, off \union {c}),
             Filled(t, n, m), GaveWay(t, m, off \union {c}),
             k \notin mergedInto => Roomy(t, n, off \union {c}) /\ Apart(t, off \union {c})
      PROVE  RankInv'
  <2> HIDE DEF m
  <2>1. RankTypeOK'
    <3>1. rating' \in [Candidates -> Ratings] /\ array' \in [Rankings -> Seq(Candidates)]
      BY <1>1, <1>2, <1>6
    <3>2. size' \in [Rankings -> 0..Limit] /\ worst' \in [Rankings -> Ratings \union {0}]
      BY <1>1, <1>6
    <3>3. offered' \in [Rankings -> SUBSET Candidates] /\ again' \in [Rankings -> Nat]
      BY <1>1, <1>2, <1>4
    <3>4. mergedFrom' \subseteq Rankings /\ mergedInto' \subseteq Rankings
      BY <1>2 DEF RankInv, RankTypeOK
    <3>5. offers' \in 0..MaxOffers
      BY <1>2, RankingAssumption DEF RankInv, RankTypeOK
    <3> QED
      BY <3>1, <3>2, <3>3, <3>4, <3>5 DEF RankTypeOK
  <2>2. KeptRight(k)'
    <3>1. array'[k] = t /\ size'[k] = n /\ worst'[k] = v
      BY <1>1, <1>6
    <3> QED
      BY <1>2, <1>5, <1>6, <3>1, KeptRightAgain
  <2>3. ASSUME NEW j \in Rankings, j # k PROVE KeptRight(j)'
    <3>1. array'[j] = array[j] /\ size'[j] = size[j] /\ worst'[j] = worst[j]
      BY <1>1, <1>6, <2>3
    <3>2. offered'[j] = offered[j] /\ again'[j] = again[j]
      BY <1>1, <1>2, <2>3
    <3>3. KeptRight(j)
      BY DEF RankInv
    <3> QED
      BY <1>2, <3>1, <3>2, <3>3, KeptRightStill
  <2> QED
    BY <2>1, <2>2, <2>3 DEF RankInv
<1> HIDE DEF a, sz, off
<1>7. ASSUME OfferAppended(k, c) PROVE RankInv'
  <2>1. sz < Limit /\ size' = [size EXCEPT ![k] = sz + 1]
    BY <1>7 DEF OfferAppended, sz
  <2>2. PICK t \in SortContent(Append(a, c)) :
          /\ array' = [array EXCEPT ![k] = t]
          /\ worst' = [worst EXCEPT ![k] = rating[t[1]]]
    BY <1>7 DEF OfferAppended, Keep, a
  <2>3. /\ KeptOf(t, sz + 1, rating[t[1]], off \union {c})
        /\ Filled(t, sz + 1, m) /\ GaveWay(t, m, off \union {c})
        /\ Roomy(a, sz, off) => /\ Roomy(t, sz + 1, off \union {c})
                                /\ Apart(t, off \union {c})
    BY <1>1, <1>3, <1>4, <2>1, AppendedRight
  <2>4. t \in Seq(Candidates) /\ sz + 1 \in 0..Limit /\ sz + 1 > 0
    BY <1>4, <2>1, <2>3 DEF KeptOf
  <2>5. rating[t[1]] \in Ratings \union {0}
    <3>1. t # <<>>
      BY <2>3, <2>4 DEF KeptOf
    <3>2. t[1] \in Candidates
      BY <2>4, <3>1
    <3> QED
      BY <1>1, <3>2
  <2> HIDE DEF m
  <2> QED
    BY <1>3, <1>6, <2>1, <2>2, <2>3, <2>4, <2>5
<1>8. ASSUME OfferExchanged(k, c) PROVE RankInv'
  <2>1. sz >= Limit /\ rating[c] > worst[k] /\ size' = [size EXCEPT ![k] = sz]
    BY <1>1, <1>8 DEF OfferExchanged, sz
  <2>2. PICK t \in SortContent([a EXCEPT ![1] = c]) :
          /\ array' = [array EXCEPT ![k] = t]
          /\ worst' = [worst EXCEPT ![k] = rating[t[1]]]
    BY <1>8 DEF OfferExchanged, Keep, a
  <2>3. /\ KeptOf(t, sz, rating[t[1]], off \union {c})
        /\ Filled(t, sz, m) /\ GaveWay(t, m, off \union {c})
        /\ Apart(a, off) => Apart(t, off \union {c})
    BY <1>1, <1>3, <1>4, <2>1, ExchangedRight
  <2>4. t \in Seq(Candidates) /\ sz > 0 /\ Roomy(t, sz, off \union {c})
    BY <1>4, <2>1, <2>3, RankingAssumption DEF KeptOf, Roomy
  <2>5. rating[t[1]] \in Ratings \union {0}
    <3>1. t # <<>>
      BY <2>3, <2>4 DEF KeptOf
    <3>2. t[1] \in Candidates
      BY <2>4, <3>1
    <3> QED
      BY <1>1, <3>2
  <2> HIDE DEF m
  <2> QED
    BY <1>3, <1>4, <1>6, <2>1, <2>2, <2>3, <2>4, <2>5
<1>9. ASSUME OfferRefused(k, c) PROVE RankInv'
  <2>1. sz >= Limit /\ rating[c] <= worst[k]
    BY <1>9 DEF OfferRefused, sz
  <2>2. /\ array' = [array EXCEPT ![k] = a] /\ size' = [size EXCEPT ![k] = sz]
        /\ worst' = [worst EXCEPT ![k] = worst[k]]
    BY <1>1, <1>9 DEF OfferRefused, a, sz
  <2>3. /\ KeptOf(a, sz, worst[k], off \union {c})
        /\ Filled(a, sz, m) /\ GaveWay(a, m, off \union {c})
        /\ Apart(a, off) => Apart(a, off \union {c})
    BY <1>1, <1>3, <1>4, <2>1, RefusedRight
  <2>4. a \in Seq(Candidates) /\ worst[k] \in Ratings \union {0}
        /\ Roomy(a, sz, off \union {c})
    BY <1>1, <1>4, <2>1, <2>3 DEF KeptOf, Roomy
  <2> HIDE DEF m
  <2> QED
    BY <1>3, <1>4, <1>6, <2>2, <2>3, <2>4
<1> QED
  BY <1>7, <1>8, <1>9 DEF Offer

LEMMA MergeKeeps ==
  ASSUME RankInv, NEW k \in Rankings, NEW j \in Rankings, MergeMutating(k, j)
  PROVE  RankInv'
<1> DEFINE m == again[k] + again[j] + Cardinality(Range(array[k]) \intersect Range(array[j]))
<1>1. /\ rating \in [Candidates -> Ratings] /\ array \in [Rankings -> Seq(Candidates)]
      /\ size \in [Rankings -> 0..Limit] /\ worst \in [Rankings -> Ratings \union {0}]
      /\ offered \in [Rankings -> SUBSET Candidates] /\ again \in [Rankings -> Nat]
  BY DEF RankInv, RankTypeOK
<1>2. /\ rating' = rating /\ offers' = offers
      /\ mergedFrom' = mergedFrom \union {j} /\ mergedInto' = mergedInto \union {k}
      /\ offered' = [offered EXCEPT ![k] = @ \union offered[j]]
      /\ again' = [again EXCEPT ![k] = m]
  BY DEF MergeMutating
<1>3. /\ KeptOf(array[k], size[k], worst[k], offered[k])
      /\ Filled(array[k], size[k], again[k]) /\ GaveWay(array[k], again[k], offered[k])
      /\ KeptOf(array[j], size[j], worst[j], offered[j])
      /\ Filled(array[j], size[j], again[j]) /\ GaveWay(array[j], again[j], offered[j])
  BY DEF RankInv, KeptRight
<1>4. again[k] \in Nat /\ again[j] \in Nat /\ m \in Nat /\ again[k] <= m
  <2>1. IsFiniteSet(Range(array[k]) \intersect Range(array[j]))
    BY <1>3, FS_Subset DEF KeptOf
  <2>2. Cardinality(Range(array[k]) \intersect Range(array[j])) \in Nat
    BY <2>1, FS_CardinalityType
  <2> QED
    BY <1>1, <2>2
<1>5. offered'[k] = offered[k] \union offered[j] /\ again'[k] = m /\ k \in mergedInto'
  BY <1>1, <1>2
<1> HIDE DEF m
<1>6. ASSUME NEW i \in Rankings, i # k,
             array'[i] = array[i], size'[i] = size[i], worst'[i] = worst[i]
      PROVE  KeptRight(i)'
  <2>1. /\ offered'[i] = offered[i] /\ again'[i] = again[i]
        /\ (i \in mergedInto' <=> i \in mergedInto)
    BY <1>1, <1>2, <1>6
  <2>2. KeptRight(i)
    BY DEF RankInv
  <2> QED
    BY <1>2, <1>6, <2>1, <2>2, KeptRightStill
<1>7. ASSUME array' \in [Rankings -> Seq(Candidates)], size' \in [Rankings -> 0..Limit],
             worst' \in [Rankings -> Ratings \union {0}]
      PROVE  RankTypeOK'
  <2>1. offered' \in [Rankings -> SUBSET Candidates] /\ again' \in [Rankings -> Nat]
    BY <1>1, <1>2, <1>4
  <2>2. /\ mergedFrom' \subseteq Rankings /\ mergedInto' \subseteq Rankings
        /\ offers' \in 0..MaxOffers
    BY <1>2 DEF RankInv, RankTypeOK
  <2> QED
    BY <1>1, <1>2, <1>7, <2>1, <2>2 DEF RankTypeOK
<1>8. CASE size[j] > 0
  <2>1. PICK t \in SortContent(array[k] \o array[j]) :
          /\ array' = [array EXCEPT ![k] = Cut(t)]
          /\ size' = [size EXCEPT ![k] = Len(Cut(t))]
          /\ worst' = [worst EXCEPT ![k] = rating[Cut(t)[1]]]
    BY <1>8 DEF MergeMutating
  <2> DEFINE u == Cut(t)
  <2>2. /\ KeptOf(u, Len(u), rating[u[1]], offered[k] \union offered[j])
        /\ Filled(u, Len(u), m) /\ GaveWay(u, m, offered[k] \union offered[j])
    BY <1>1, <1>3, <1>4, <1>8, MergedContent DEF m
  <2>3. u \in Seq(Candidates) /\ Len(u) \in 0..Limit /\ u # <<>>
    <3>1. u \in Seq(Candidates) /\ Len(u) \in 0..Limit
      BY <2>2 DEF KeptOf
    <3>2. array[j] # <<>> /\ array[j] \in Seq(Candidates) /\ array[k] \in Seq(Candidates)
      BY <1>3, <1>8 DEF KeptOf
    <3>3. array[k] \o array[j] \in Seq(Candidates) /\ array[k] \o array[j] # <<>>
      BY <3>2
    <3>4. t \in Seq(Candidates) /\ InOrder(t) /\ t # <<>>
      BY <1>1, <3>3, SortKeeps
    <3> QED
      BY <1>1, <3>1, <3>4, CutKeeps
  <2> HIDE DEF u
  <2>4. rating[u[1]] \in Ratings \union {0}
    <3>1. u[1] \in Candidates
      BY <2>3
    <3> QED
      BY <1>1, <3>1
  <2>5. /\ array' = [array EXCEPT ![k] = u] /\ size' = [size EXCEPT ![k] = Len(u)]
        /\ worst' = [worst EXCEPT ![k] = rating[u[1]]]
    BY <2>1 DEF u
  <2>6. RankTypeOK'
    BY <1>1, <1>7, <2>3, <2>4, <2>5
  <2>7. KeptRight(k)'
    <3>1. array'[k] = u /\ size'[k] = Len(u) /\ worst'[k] = rating[u[1]]
      BY <1>1, <2>5
    <3> QED
      BY <1>2, <1>5, <2>2, <3>1, KeptRightAgain
  <2>8. ASSUME NEW i \in Rankings, i # k PROVE KeptRight(i)'
    BY <1>1, <1>6, <2>5, <2>8
  <2> QED
    BY <2>6, <2>7, <2>8 DEF RankInv
<1>9. CASE ~(size[j] > 0)
  <2>1. array' = array /\ size' = size /\ worst' = worst
    BY <1>9 DEF MergeMutating
  <2>2. offered[j] = {}
    <3>1. size[j] = 0
      BY <1>1, <1>9, RankingAssumption
    <3> QED
      BY <1>3, <3>1 DEF KeptOf
  <2>3. /\ KeptOf(array[k], size[k], worst[k], offered'[k])
        /\ offered'[k] = offered[k] /\ IsFiniteSet(Range(array[k]))
        /\ size[k] \in Nat /\ Limit \in Nat
    BY <1>3, <1>5, <2>2, FS_Subset, RankingAssumption DEF KeptOf
  <2>4. Cardinality(Range(array[k])) \in Nat
    BY <2>3, FS_CardinalityType
  <2>5. Filled(array[k], size[k], m)
    BY <1>3, <1>4, <2>3, <2>4 DEF Filled
  <2>6. GaveWay(array[k], m, offered[k])
    <3>1. ASSUME NEW x \in offered[k] \ Range(array[k])
          PROVE  Limit <= Cardinality(AsGood(Range(array[k]), x)) + m
      <4>1. Limit <= Cardinality(AsGood(Range(array[k]), x)) + again[k]
        BY <1>3, <3>1 DEF GaveWay
      <4>2. AsGood(Range(array[k]), x) \subseteq Range(array[k])
        BY DEF AsGood
      <4> QED
        BY <1>4, <2>3, <4>1, <4>2, StillGaveWay
    <3> QED
      BY <3>1 DEF GaveWay
  <2>7. KeptRight(k)'
    BY <1>2, <1>5, <2>1, <2>3, <2>5, <2>6, KeptRightAgain
  <2>8. ASSUME NEW i \in Rankings, i # k PROVE KeptRight(i)'
    BY <1>6, <2>1, <2>8
  <2>9. RankTypeOK'
    BY <1>1, <1>7, <2>1
  <2> QED
    BY <2>7, <2>8, <2>9 DEF RankInv
<1> QED
  BY <1>8, <1>9

LEMMA RankStutters == RankInv /\ UNCHANGED rankVars => RankInv'
<1> SUFFICES ASSUME RankInv, UNCHANGED rankVars PROVE RankInv'
  OBVIOUS
<1>1. RankTypeOK'
  BY DEF RankInv, RankTypeOK, rankVars
<1>2. ASSUME NEW k \in Rankings PROVE KeptRight(k)'
  BY KeptRightStill DEF RankInv, rankVars
<1> QED
  BY <1>1, <1>2 DEF RankInv

LEMMA RankInductive == RankSpec => []RankInv
<1>1. RankInv /\ [RankNext]_rankVars => RankInv'
  BY OfferKeeps, MergeKeeps, RankStutters DEF RankNext
<1> QED
  BY RankInitially, <1>1, PTL DEF RankSpec

(***************************************************************************)
(* What a collector of collectorN.go keeps has its type, at most Limit     *)
(* candidates counted, for any number of collectors, candidates and offers.*)
(***************************************************************************)
THEOREM RankTypes == RankSpec => []RankTypeOK
<1>1. RankInv => RankTypeOK
  BY DEF RankInv
<1> QED
  BY RankInductive, <1>1, PTL

(***************************************************************************)
(* The collectors of collectorN.go keep the best of what they were offered,*)
(* the worst first, in whatever order it came and however they were merged,*)
(* but for one place per candidate that came to a collector that kept it   *)
(* already.  Until then a candidate is missing only if Limit others are    *)
(* kept that are as good; with n that came again these are Limit - n at    *)
(* least.  The best is never missing, and into a collector nothing was     *)
(* merged into no worse one is kept than any that is missing.  This for any*)
(* limit, any ratings and any number of collectors, candidates and offers. *)
(***************************************************************************)
THEOREM BestAreWhatIsKept == RankSpec => []BestAreKept
<1>1. ASSUME RankInv, NEW k \in Rankings
      PROVE  BestIsLast(k) /\ PlacesFilled(k) /\ GaveWayToBest(k) /\ MissingAreWorse(k)
  <2>1. /\ KeptOf(array[k], size[k], worst[k], offered[k])
        /\ Filled(array[k], size[k], again[k]) /\ GaveWay(array[k], again[k], offered[k])
    BY <1>1 DEF RankInv, KeptRight
  <2>2. BestIsLast(k)
    <3>1. offered[k] # {} => array[k] # <<>>
      BY <2>1, RankingAssumption DEF KeptOf
    <3> QED
      BY <2>1, <3>1 DEF KeptOf, BestIsLast
  <2>3. PlacesFilled(k)
    BY <2>1 DEF KeptOf, Filled, PlacesFilled
  <2>4. GaveWayToBest(k)
    BY <2>1 DEF GaveWay, AsGood, GaveWayToBest
  <2>5. MissingAreWorse(k)
    BY <1>1 DEF RankInv, KeptRight, Apart, MissingAreWorse
  <2> QED
    BY <2>2, <2>3, <2>4, <2>5
<1>2. RankInv => BestAreKept
  BY <1>1 DEF BestAreKept
<1> QED
  BY RankInductive, <1>2, PTL
-----------------------------------------------------------------------------
(* MCWorkerPools *)

\* Put side by side the pools behave as each does alone, so that what is proved
\* of one holds of it there.
LEMMA PoolsAlone ==
  PoolsSpec => Spec /\ SearchSpec /\ CullSpec /\ ChannelSpec /\ RankSpec
<1>1. PoolsInit => Init /\ SearchInit /\ CullInit /\ ChannelInit /\ RankInit
  BY DEF PoolsInit
<1>2. ASSUME [PoolsNext \/ PoolsEnd]_poolVars
      PROVE  /\ [Next]_vars /\ [SearchNext]_searchVars /\ [CullNext]_cullVars
             /\ [ChannelNext]_channelVars /\ [RankNext]_rankVars
  BY <1>2 DEF PoolsNext, PoolsEnd, poolVars
<1> QED
  BY <1>1, <1>2, PTL DEF PoolsSpec, Spec, SearchSpec, CullSpec, ChannelSpec, RankSpec

\* Whichever pool runs, the state of all of them keeps its types.
THEOREM PoolTypes == PoolsSpec => []PoolsTypeOK
<1>1. TypeOK /\ SearchTypeOK /\ CullTypeOK /\ ChannelTypeOK /\ RankTypeOK => PoolsTypeOK
  BY DEF PoolsTypeOK
<1>2. ChannelInv => ChannelTypeOK
  BY DEF ChannelInv
<1> QED
  BY <1>1, <1>2, PoolsAlone, TaskPoolTypes, SearchTypes, CullTypes, ChannelInvariant, RankTypes, PTL
=============================================================================
