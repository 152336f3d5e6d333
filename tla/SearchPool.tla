----------------------------- MODULE SearchPool -----------------------------
(***************************************************************************)
(* The threads of the weight search (WeightSearcher3 of                    *)
(* weightfind/searcher3.go) over a pool of stacks that steal from each     *)
(* other (util_collection/QueueStackStealingPool.go).                      *)
(*                                                                         *)
(* The main thread splits the first bound until its stack has enough of    *)
(* them, starts the other threads and works like them: pop a bound from    *)
(* the own stack or else steal one from the bottom of another, push what   *)
(* follows from it, and give its memory back to a pool of objects.  What   *)
(* follows is decided by floating-point data: any number up to three here. *)
(* A thread ends when it finds no bound anywhere or the search is          *)
(* cancelled.                                                              *)
(*                                                                         *)
(* A mutex that is taken and released with nothing else between is one     *)
(* step; Pop shows its two mutexes because it takes one under the other.   *)
(***************************************************************************)
EXTENDS Integers, Sequences, FiniteSets

CONSTANTS
  Threads, MainThread,
  StartCount,    \* bounds on the stack before the others start
  TypeCount,     \* axes: a bound is halved along each of them first
  MaxNodeDepth,  \* c_search3_maxNodeDepth
  MaxFollowups,  \* chooseSplitMode makes at most three
  Objects,       \* memory for bounds (a bound on the model)
  FirstBound,    \* the one SetRanges prepares
  NoBound, Unlocked

ASSUME SearchAssumption ==
  /\ MainThread \in Threads /\ Unlocked \notin Threads
  /\ FirstBound \in Objects /\ NoBound \notin Objects
  /\ StartCount \in Nat /\ TypeCount \in Nat \ {0}
  /\ MaxNodeDepth \in Nat /\ MaxFollowups \in Nat

VARIABLES
  thread,         \* where each thread is
  splitting,      \* is the main thread in initialSplits?
  stack,          \* the stack of each thread, its top last
  childMutex,     \* holder of the mutex of each stack
  parentMutex,
  stacks,         \* the threads that have made their stack
  unseen,         \* stacks a thread has still to look at
  victim,         \* the one it looks at
  entry, add,     \* the bound a thread works on, the one it is making
  followups,      \* how many it has still to make
  nodeDepth,      \* of each bound
  objectPool,     \* poolQueue, with memory nobody has asked for yet
  searchCancelled

entryVars == <<entry, add, followups, nodeDepth, objectPool>>
scanVars == <<parentMutex, stacks, unseen, victim>>
searchVars == <<thread, splitting, stack, childMutex, scanVars, entryVars, searchCancelled>>

\* Run with its own stack made and the first bound on it
SearchInit ==
  /\ thread = [t \in Threads |-> IF t = MainThread THEN "count" ELSE "idle"]
  /\ splitting = TRUE
  /\ stack = [t \in Threads |-> IF t = MainThread THEN <<FirstBound>> ELSE <<>>]
  /\ childMutex = [t \in Threads |-> Unlocked] /\ parentMutex = Unlocked
  /\ stacks = {MainThread}
  /\ unseen = [t \in Threads |-> {}]
  /\ victim = [t \in Threads |-> Unlocked]
  /\ entry = [t \in Threads |-> NoBound]
  /\ add = [t \in Threads |-> NoBound]
  /\ followups = [t \in Threads |-> 0]
  /\ nodeDepth = [o \in Objects |-> 0]
  /\ objectPool = Objects \ {FirstBound}
  /\ searchCancelled = FALSE

To(t, place) == thread' = [thread EXCEPT ![t] = place]
-----------------------------------------------------------------------------
(* Run *)

\* CountLocal says that there are enough: the other threads start.
EnoughSplit ==
  /\ thread[MainThread] = "count"
  /\ childMutex[MainThread] = Unlocked
  /\ Len(stack[MainThread]) >= StartCount
  /\ splitting' = FALSE
  /\ thread' = [t \in Threads |-> IF t = MainThread THEN "loop" ELSE "make"]
  /\ UNCHANGED <<stack, childMutex, scanVars, entryVars, searchCancelled>>

SplitMore ==
  /\ thread[MainThread] = "count"
  /\ childMutex[MainThread] = Unlocked
  /\ Len(stack[MainThread]) < StartCount
  /\ To(MainThread, "pop")
  /\ UNCHANGED <<splitting, stack, childMutex, scanVars, entryVars, searchCancelled>>

MakeChild(t) ==
  /\ thread[t] = "make" /\ parentMutex = Unlocked
  /\ stacks' = stacks \union {t}
  /\ To(t, "loop")
  /\ UNCHANGED <<splitting, stack, childMutex, parentMutex, unseen, victim, entryVars,
                 searchCancelled>>

\* The condition of threadLoop
LoopGoesOn(t) ==
  /\ thread[t] = "loop"
  /\ To(t, IF searchCancelled THEN "end" ELSE "pop")
  /\ UNCHANGED <<splitting, stack, childMutex, scanVars, entryVars, searchCancelled>>

CancelSearch ==
  /\ ~searchCancelled /\ searchCancelled' = TRUE
  /\ UNCHANGED <<thread, splitting, stack, childMutex, scanVars, entryVars>>
-----------------------------------------------------------------------------
(* QueueStackPoolChild.Pop *)

\* What follows from a bound: two halves, some bounds around the best probes
\* or, deep enough, nothing.
HowMany(o) ==
  CASE nodeDepth[o] < TypeCount -> {2}
    [] nodeDepth[o] >= TypeCount /\ nodeDepth[o] < MaxNodeDepth -> 0..MaxFollowups
    [] OTHER -> {0}

WorkOn(t, o) ==
  /\ entry' = [entry EXCEPT ![t] = o]
  /\ \E n \in HowMany(o) : followups' = [followups EXCEPT ![t] = n]
  /\ To(t, "work")

PopLock(t) ==
  /\ thread[t] = "pop" /\ childMutex[t] = Unlocked
  /\ childMutex' = [childMutex EXCEPT ![t] = t]
  /\ To(t, "own")
  /\ UNCHANGED <<splitting, stack, scanVars, entryVars, searchCancelled>>

PopOwn(t) ==
  /\ thread[t] = "own" /\ stack[t] # <<>>
  /\ WorkOn(t, stack[t][Len(stack[t])])
  /\ stack' = [stack EXCEPT ![t] = SubSeq(@, 1, Len(@) - 1)]
  /\ childMutex' = [childMutex EXCEPT ![t] = Unlocked]
  /\ UNCHANGED <<splitting, scanVars, add, nodeDepth, objectPool, searchCancelled>>

\* Mutant: the own mutex is kept during the scan.
OwnEmptyKept(t) ==
  /\ thread[t] = "own" /\ stack[t] = <<>>
  /\ To(t, "parent")
  /\ UNCHANGED <<splitting, stack, childMutex, scanVars, entryVars, searchCancelled>>

\* Mutant: a thread whose stack has a single bound leaves it to the others.
OwnAlmostEmpty(t) ==
  /\ thread[t] = "own" /\ Len(stack[t]) <= 1
  /\ childMutex' = [childMutex EXCEPT ![t] = Unlocked]
  /\ To(t, "parent")
  /\ UNCHANGED <<splitting, stack, scanVars, entryVars, searchCancelled>>

OwnEmpty(t) ==
  /\ thread[t] = "own" /\ stack[t] = <<>>
  /\ childMutex' = [childMutex EXCEPT ![t] = Unlocked]
  /\ To(t, "parent")
  /\ UNCHANGED <<splitting, stack, scanVars, entryVars, searchCancelled>>

ScanBegin(t) ==
  /\ thread[t] = "parent" /\ parentMutex = Unlocked
  /\ parentMutex' = t
  /\ unseen' = [unseen EXCEPT ![t] = stacks \ {t}]
  /\ To(t, "scan")
  /\ UNCHANGED <<splitting, stack, childMutex, stacks, victim, entryVars, searchCancelled>>

\* The next stack, in the order in which they were made; nothing below needs
\* that order.
ScanLock(t, v) ==
  /\ thread[t] = "scan" /\ v \in unseen[t]
  /\ childMutex[v] = Unlocked
  /\ childMutex' = [childMutex EXCEPT ![v] = t]
  /\ unseen' = [unseen EXCEPT ![t] = @ \ {v}]
  /\ victim' = [victim EXCEPT ![t] = v]
  /\ To(t, "take")
  /\ UNCHANGED <<splitting, stack, parentMutex, stacks, entryVars, searchCancelled>>

\* Mutant: the bound stays on the stack it was taken from.
StealCopy(t) ==
  /\ thread[t] = "take" /\ stack[victim[t]] # <<>>
  /\ WorkOn(t, stack[victim[t]][1])
  /\ childMutex' = [childMutex EXCEPT ![victim[t]] = Unlocked]
  /\ parentMutex' = Unlocked /\ victim' = [victim EXCEPT ![t] = Unlocked]
  /\ UNCHANGED <<splitting, stack, stacks, unseen, add, nodeDepth, objectPool,
                 searchCancelled>>

\* PopBottom finds a bound.
Steal(t) ==
  /\ thread[t] = "take" /\ stack[victim[t]] # <<>>
  /\ WorkOn(t, stack[victim[t]][1])
  /\ stack' = [stack EXCEPT ![victim[t]] = Tail(@)]
  /\ childMutex' = [childMutex EXCEPT ![victim[t]] = Unlocked]
  /\ parentMutex' = Unlocked /\ victim' = [victim EXCEPT ![t] = Unlocked]
  /\ UNCHANGED <<splitting, stacks, unseen, add, nodeDepth, objectPool, searchCancelled>>

StealNothing(t) ==
  /\ thread[t] = "take" /\ stack[victim[t]] = <<>>
  /\ childMutex' = [childMutex EXCEPT ![victim[t]] = Unlocked]
  /\ victim' = [victim EXCEPT ![t] = Unlocked]
  /\ To(t, "scan")
  /\ UNCHANGED <<splitting, stack, parentMutex, stacks, unseen, entryVars, searchCancelled>>

\* threadStep returns false: so does initialSplits, and no thread is started.
ScanEnds(t) ==
  /\ thread[t] = "scan" /\ unseen[t] = {}
  /\ parentMutex' = Unlocked
  /\ To(t, "end")
  /\ UNCHANGED <<splitting, stack, childMutex, stacks, unseen, victim, entryVars,
                 searchCancelled>>
-----------------------------------------------------------------------------
(* opDivide, opSearch, threadStep *)

\* TypedPool.Get; one object is as good as another.
SomeObject == CHOOSE o \in objectPool : TRUE

GetBound(t) ==
  /\ thread[t] = "work" /\ followups[t] > 0 /\ add[t] = NoBound
  /\ objectPool # {}
  /\ objectPool' = objectPool \ {SomeObject}
  /\ add' = [add EXCEPT ![t] = SomeObject]
  /\ nodeDepth' = [nodeDepth EXCEPT ![SomeObject] = nodeDepth[entry[t]] + 1]
  /\ UNCHANGED <<thread, splitting, stack, childMutex, scanVars, entry, followups, searchCancelled>>

PushBound(t) ==
  /\ thread[t] = "work" /\ add[t] # NoBound
  /\ childMutex[t] = Unlocked
  /\ stack' = [stack EXCEPT ![t] = Append(@, add[t])]
  /\ add' = [add EXCEPT ![t] = NoBound]
  /\ followups' = [followups EXCEPT ![t] = @ - 1]
  /\ UNCHANGED <<thread, splitting, childMutex, scanVars, entry, nodeDepth, objectPool,
                 searchCancelled>>

\* TypedPool.Put; the next Get overwrites what is in the object.
PutObject(o) ==
  /\ objectPool' = objectPool \union {o}
  /\ nodeDepth' = [nodeDepth EXCEPT ![o] = 0]

\* A bound that is marginal, or within another of the stack, is put back.  Only the
\* second test waits for the mutex of the stack, so nothing here does.
PutBound(t) ==
  /\ thread[t] = "work" /\ add[t] # NoBound
  /\ nodeDepth[entry[t]] >= TypeCount
  /\ PutObject(add[t])
  /\ add' = [add EXCEPT ![t] = NoBound]
  /\ followups' = [followups EXCEPT ![t] = @ - 1]
  /\ UNCHANGED <<thread, splitting, stack, childMutex, scanVars, entry, searchCancelled>>

\* Mutant: the memory is given back before the last bound is made from it.
PutEntryEarly(t) ==
  /\ thread[t] = "work" /\ followups[t] = 1 /\ add[t] = NoBound
  /\ PutObject(entry[t])
  /\ UNCHANGED <<thread, splitting, stack, childMutex, scanVars, entry, add, followups,
                 searchCancelled>>

PutEntry(t) ==
  /\ thread[t] = "work" /\ followups[t] = 0
  /\ PutObject(entry[t])
  /\ entry' = [entry EXCEPT ![t] = NoBound]
  /\ To(t, IF splitting THEN "count" ELSE "loop")
  /\ UNCHANGED <<splitting, stack, childMutex, scanVars, add, followups, searchCancelled>>
-----------------------------------------------------------------------------
PopStep(t) ==
  \/ PopLock(t) \/ PopOwn(t) \/ OwnEmpty(t)
  \/ ScanBegin(t) \/ Steal(t) \/ StealNothing(t) \/ ScanEnds(t)
  \/ \E v \in Threads : ScanLock(t, v)

WorkStep(t) == GetBound(t) \/ PushBound(t) \/ PutBound(t) \/ PutEntry(t)

SearchNext ==
  \/ EnoughSplit \/ SplitMore \/ CancelSearch
  \/ \E t \in Threads : MakeChild(t) \/ LoopGoesOn(t) \/ PopStep(t) \/ WorkStep(t)

SearchSpec == SearchInit /\ [][SearchNext]_searchVars
-----------------------------------------------------------------------------
(* Properties *)

SearchTypeOK ==
  /\ thread \in [Threads -> {"idle", "make", "count", "loop", "pop", "own", "parent", "scan",
                             "take", "work", "end"}]
  /\ splitting \in BOOLEAN
  /\ stack \in [Threads -> Seq(Objects)]
  /\ childMutex \in [Threads -> Threads \union {Unlocked}]
  /\ parentMutex \in Threads \union {Unlocked}
  /\ stacks \subseteq Threads
  /\ unseen \in [Threads -> SUBSET Threads]
  /\ victim \in [Threads -> Threads \union {Unlocked}]
  /\ entry \in [Threads -> Objects \union {NoBound}]
  /\ add \in [Threads -> Objects \union {NoBound}]
  /\ followups \in [Threads -> Nat]
  /\ nodeDepth \in [Objects -> Nat]
  /\ objectPool \subseteq Objects
  /\ searchCancelled \in BOOLEAN

\* No bound is on two stacks, or twice on one.
StacksDisjoint ==
  \A t, u \in Threads : \A i \in DOMAIN stack[t], j \in DOMAIN stack[u] :
    stack[t][i] = stack[u][j] => t = u /\ i = j

\* A bound in the hands of a thread is on no stack, and in no other hands.
HandsApart ==
  \A t \in Threads :
    /\ entry[t] # NoBound => entry[t] # add[t]
    /\ \A u \in Threads :
         /\ entry[t] # NoBound => \A j \in DOMAIN stack[u] : stack[u][j] # entry[t]
         /\ add[t] # NoBound => \A j \in DOMAIN stack[u] : stack[u][j] # add[t]
         /\ entry[t] # NoBound => entry[t] # add[u] /\ (entry[u] = entry[t] => u = t)
         /\ add[t] # NoBound /\ add[u] = add[t] => u = t

\* What the pool of objects gives out is in no use.
PoolUnused ==
  \A t \in Threads :
    /\ entry[t] \notin objectPool /\ add[t] \notin objectPool
    /\ \A j \in DOMAIN stack[t] : stack[t][j] \notin objectPool

\* However owner and thieves come together, a bound is searched once, and its
\* memory is not used again before it is (Pop, threadStep, TypedPool).
OnePlace == StacksDisjoint /\ HandsApart /\ PoolUnused

\* Threads end while others still push; yet when all have, and nobody has
\* cancelled, no bound is left without a search.
NothingLeft ==
  (\A t \in Threads : thread[t] \in {"idle", "end"}) /\ ~searchCancelled =>
    \A t \in Threads : stack[t] = <<>> /\ entry[t] = NoBound /\ add[t] = NoBound

\* Who holds the mutex of a stack does not wait for another, so that the scan
\* under the parent mutex always comes to its end (the comment in Pop).
LockOrder ==
  \A t \in Threads :
    /\ childMutex[t] # Unlocked => thread[childMutex[t]] \in {"own", "take"}
    /\ thread[t] = "own" => childMutex[t] = t
    /\ thread[t] \in {"scan", "take"} <=> parentMutex = t
    /\ thread[t] = "take" => childMutex[victim[t]] = t
=============================================================================
