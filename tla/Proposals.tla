----------------------------- MODULE Proposals -----------------------------
(***************************************************************************)
(* The generation of proposals: makeProposalChannel of multi/run.go,       *)
(* groupProposals of multi/proposal.go, and what they are built on in      *)
(* util_async/future_ops.go: a FutureChannelMixerContinuing, which joins   *)
(* channels that are added while it runs, and a FutureValueAdder, which    *)
(* adds up the results of futures and tells each total.                    *)
(*                                                                         *)
(* A source is something a group adds to the mixer: the results of a       *)
(* solver process with the future of their count, the existing gear as a   *)
(* single value, or the extra proposals whose thread adds its count later. *)
(* Main starts the groups and makes mixer and adder ready afterwards; the  *)
(* readers of both exist from then on.  When the groups have ended, a      *)
(* goroutine shuts the mixer down.                                         *)
(*                                                                         *)
(* The two mutexes are held across sends on unbuffered channels.  A send   *)
(* and its receive are one step.  Errors go to their collector and are     *)
(* left out here.                                                          *)
(***************************************************************************)
EXTENDS Integers, FiniteSets

CONSTANTS
  Solves, Values, Extras,  \* the sources by their kind
  GroupOf,                 \* the group that adds a source
  Most,                    \* the most proposals a solver process sends
  Shutdown, Free           \* the goroutine that shuts down; a mutex nobody holds

Sources == Solves \union Values \union Extras

ASSUME ProposalsAssumption ==
  /\ Solves \intersect Values = {} /\ Solves \intersect Extras = {} /\ Values \intersect Extras = {}
  /\ IsFiniteSet(Sources)
  /\ Most \in Nat \ {0}
  /\ Shutdown \notin Sources /\ Free \notin Sources \union {Shutdown}

VARIABLES
  \* The goroutines of the program
  main,            \* where Run is: "count" (run.go:63), "mixer" (64), "ready"
  step,            \* where the addition of a source is
  closer,          \* where the goroutine is that shuts the mixer down
  \* The solver processes
  left,            \* proposals a source has still to send
  announced,       \* has it set the future of its count?
  \* The mixer
  mixer,           \* its state, or "panic"
  mixerMutex,
  initial,         \* sources added before the loop runs
  active,          \* sources in the cases of the loop
  continuing,      \* no stop message yet
  held,            \* the source of the value the loop sends on
  \* The adder
  adder,           \* where the goroutine of a count is
  adderMutex,
  ready, open,     \* ReadyUp was called; the channel is not closed
  waitingFutures,
  total,           \* the sources whose counts it includes
  told             \* the last total its reader was given

programVars == <<main, closer>>
solverVars == <<left, announced>>
mixerVars == <<mixer, mixerMutex, initial, active, continuing, held>>
adderVars == <<adder, adderMutex, ready, open, waitingFutures, total, told>>
vars == <<programVars, step, solverVars, mixerVars, adderVars>>

Init ==
  /\ main = "count" /\ closer = "wait"
  /\ step = [s \in Sources |-> IF s \in Solves THEN "setup" ELSE "channel"]
  /\ left = [s \in Sources |-> IF s \in Values THEN 1 ELSE 0]
  /\ announced = [s \in Sources |-> s \in Values]
  /\ mixer = "Init" /\ mixerMutex = Free
  /\ initial = {} /\ active = {} /\ continuing = TRUE /\ held = Free
  /\ adder = [s \in Sources |-> IF s \in Extras THEN "start" ELSE "none"] /\ adderMutex = Free
  /\ ready = FALSE /\ open = TRUE
  /\ waitingFutures = 0 /\ total = {} /\ told = {}

Running == mixer # "panic"
-----------------------------------------------------------------------------
(* groupProposals *)

\* A solver process sends some proposals or, with a failure, none.
Runs(s) == \E n \in 0..Most : left' = [left EXCEPT ![s] = n]

\* Setup or Run fails: the error goes to its collector.
SetupFails(s) ==
  /\ Running /\ step[s] = "setup"
  /\ step' = [step EXCEPT ![s] = "end"]
  /\ announced' = [announced EXCEPT ![s] = TRUE]
  /\ UNCHANGED <<programVars, left, mixerVars, adderVars>>

Setup(s) ==
  /\ Running /\ step[s] = "setup"
  /\ step' = [step EXCEPT ![s] = "channel"]
  /\ Runs(s)
  /\ UNCHANGED <<programVars, announced, mixerVars, adderVars>>

\* The solver processes of a group (several with permutations, in threads of
\* their own) come first, then its existing gear, then the extra proposals.
Turn(s) ==
  /\ Running /\ step[s] = "channel"
  /\ s \notin Solves =>
       \A r \in Solves : GroupOf[r] = GroupOf[s] => step[r] = "end"
  /\ s \in Extras =>
       \A r \in Values : GroupOf[r] = GroupOf[s] => step[r] = "end"

\* additionalProposalsFromSpecOptimalBaseline starts a thread and returns its
\* channel.
StartExtra(s) ==
  /\ Turn(s) /\ adder[s] = "start"
  /\ adder' = [adder EXCEPT ![s] = "add"]
  /\ UNCHANGED <<programVars, step, solverVars, mixerVars, adderMutex, ready, open,
                 waitingFutures, total, told>>

\* The source can be given to the mixer.
CanAdd(s) == Turn(s) /\ adder[s] # "start" /\ mixerMutex = Free

\* What follows the addition to the mixer: a group counts the future of its
\* process, starts the goroutine of AddValueImmediate, or is done.
NextStep(s) == IF s \in Solves THEN "future" ELSE "end"

StartsCount(s) ==
  adder' = IF s \in Values THEN [adder EXCEPT ![s] = "value"] ELSE adder

\* newSourceAdded before the loop runs
AddInitial(s) ==
  /\ CanAdd(s) /\ mixer = "Init"
  /\ initial' = initial \union {s}
  /\ step' = [step EXCEPT ![s] = NextStep(s)] /\ StartsCount(s)
  /\ UNCHANGED <<programVars, solverVars, mixer, mixerMutex, active, continuing, held,
                 adderMutex, ready, open, waitingFutures, total, told>>

\* newSourceAdded: the mutex is held until the loop takes the message.
AddLock(s) ==
  /\ CanAdd(s) /\ mixer # "Init"
  /\ IF mixer = "Running"
     THEN mixerMutex' = s /\ step' = [step EXCEPT ![s] = "send"] /\ UNCHANGED mixer
     ELSE mixer' = "panic" /\ UNCHANGED <<mixerMutex, step>>
  /\ UNCHANGED <<programVars, solverVars, initial, active, continuing, held, adderVars>>

\* The loop is in its select.
Selecting == mixer \in {"Running", "Stopping"} /\ held = Free /\ (continuing \/ active # {})

AddSend(s) ==
  /\ step[s] = "send" /\ Selecting
  /\ active' = active \union {s}
  /\ mixerMutex' = Free
  /\ step' = [step EXCEPT ![s] = NextStep(s)] /\ StartsCount(s)
  /\ UNCHANGED <<programVars, solverVars, mixer, initial, continuing, held, adderMutex, ready,
                 open, waitingFutures, total, told>>
-----------------------------------------------------------------------------
(* FutureValueAdder *)

Counted(s) ==
  /\ waitingFutures' = waitingFutures + 1
  /\ adder' = [adder EXCEPT ![s] = "waiting"]

\* AddFuture by the thread of the group
AddFuture(s) ==
  /\ Running /\ step[s] = "future" /\ adderMutex = Free
  /\ Counted(s)
  /\ step' = [step EXCEPT ![s] = "end"]
  /\ UNCHANGED <<programVars, solverVars, mixerVars, adderMutex, ready, open, total, told>>

\* The thread of the extra proposals starts its process and calls AddFuture
\* before it sends any.
AddExtraFuture(s) ==
  /\ Running /\ adder[s] = "add" /\ adderMutex = Free
  /\ Counted(s) /\ Runs(s)
  /\ UNCHANGED <<programVars, step, announced, mixerVars, adderMutex, ready, open, total, told>>

\* The extra process fails, or the cancellation comes before it: no proposals,
\* no count.
ExtraFails(s) ==
  /\ Running /\ adder[s] = "add"
  /\ adder' = [adder EXCEPT ![s] = "none"]
  /\ announced' = [announced EXCEPT ![s] = TRUE]
  /\ UNCHANGED <<programVars, step, left, mixerVars, adderMutex, ready, open, waitingFutures,
                 total, told>>

\* The process sets the future of its count; nobody looks at that of an extra
\* process before it is added.
Announce(s) ==
  /\ Running /\ ~announced[s]
  /\ \/ s \in Solves /\ step[s] # "setup"
     \/ adder[s] = "waiting"
  /\ announced' = [announced EXCEPT ![s] = TRUE]
  /\ UNCHANGED <<programVars, step, left, mixerVars, adderVars>>

\* Mutant: the last future does not count as the last.
OneLessNever ==
  /\ waitingFutures' = waitingFutures - 1
  /\ open' = (open /\ ~(waitingFutures' < 0 /\ ready))

\* The channel closes with the last future, if readers are there.
OneLess ==
  /\ waitingFutures' = waitingFutures - 1
  /\ open' = (open /\ ~(waitingFutures' <= 0 /\ ready))

\* processValue and AddValueImmediate up to their send; a closed channel is nil
\* and takes no total.
AddTotal(s) ==
  /\ Running /\ adderMutex = Free
  /\ \/ adder[s] = "waiting" /\ announced[s]
     \/ adder[s] = "value"
  /\ total' = total \union {s}
  /\ IF open
     THEN /\ adderMutex' = s /\ adder' = [adder EXCEPT ![s] = "send"]
          /\ UNCHANGED <<open, waitingFutures>>
     ELSE /\ adder' = [adder EXCEPT ![s] = "done"]
          /\ IF s \in Values THEN UNCHANGED <<open, waitingFutures>> ELSE OneLess
          /\ UNCHANGED adderMutex
  /\ UNCHANGED <<programVars, step, solverVars, mixerVars, ready, told>>

\* Mutant: a value without a future is counted down too.
SendTotalCounted(s) ==
  /\ Running /\ adder[s] = "send" /\ main = "ready"
  /\ told' = total
  /\ adderMutex' = Free /\ adder' = [adder EXCEPT ![s] = "done"]
  /\ OneLess
  /\ UNCHANGED <<programVars, step, solverVars, mixerVars, ready, total>>

\* The reader, which runSims starts, takes the total; the rest of processValue.
SendTotal(s) ==
  /\ Running /\ adder[s] = "send" /\ main = "ready"
  /\ told' = total
  /\ adderMutex' = Free /\ adder' = [adder EXCEPT ![s] = "done"]
  /\ IF s \in Values THEN UNCHANGED <<open, waitingFutures>> ELSE OneLess
  /\ UNCHANGED <<programVars, step, solverVars, mixerVars, ready, total>>
-----------------------------------------------------------------------------
(* makeProposalChannel *)

\* Mutant: the channel is closed whatever is still to come.
ReadyCountCloses ==
  /\ Running /\ main = "count" /\ adderMutex = Free
  /\ ready' = TRUE
  /\ open' = FALSE
  /\ main' = "mixer"
  /\ UNCHANGED <<closer, step, solverVars, mixerVars, adder, adderMutex, waitingFutures, total,
                 told>>

ReadyCount ==
  /\ Running /\ main = "count" /\ adderMutex = Free
  /\ ready' = TRUE
  /\ open' = (waitingFutures > 0)
  /\ main' = "mixer"
  /\ UNCHANGED <<closer, step, solverVars, mixerVars, adder, adderMutex, waitingFutures, total,
                 told>>

\* The state is "Stopped" when the groups have ended before.
ReadyMixer ==
  /\ Running /\ main = "mixer" /\ mixerMutex = Free
  /\ IF mixer = "Init"
     THEN mixer' = "Running" /\ active' = initial /\ initial' = {} /\ main' = "ready"
     ELSE mixer' = "panic" /\ UNCHANGED <<active, initial, main>>
  /\ UNCHANGED <<closer, step, solverVars, mixerMutex, continuing, held, adderVars>>

\* Mutant: the mixer is shut down with the first group that ends.
ShutdownEarly ==
  /\ Running /\ closer = "wait" /\ \E s \in Sources : step[s] = "end"
  /\ mixerMutex = Free
  /\ closer' = IF mixer = "Running" THEN "send" ELSE "done"
  /\ mixerMutex' = IF mixer = "Running" THEN Shutdown ELSE Free
  /\ mixer' = CASE mixer = "Running" -> "Stopping"
                [] mixer = "Init" /\ initial = {} -> "Stopped"
                [] OTHER -> "panic"
  /\ UNCHANGED <<main, step, solverVars, initial, active, continuing, held, adderVars>>

\* ShutdownAsync, when the threads of the groups have ended
ShutdownAsync ==
  /\ Running /\ closer = "wait" /\ \A s \in Sources : step[s] = "end"
  /\ mixerMutex = Free
  /\ closer' = IF mixer = "Running" THEN "send" ELSE "done"
  /\ mixerMutex' = IF mixer = "Running" THEN Shutdown ELSE Free
  /\ mixer' = CASE mixer = "Running" -> "Stopping"
                [] mixer = "Init" /\ initial = {} -> "Stopped"
                [] OTHER -> "panic"
  /\ UNCHANGED <<main, step, solverVars, initial, active, continuing, held, adderVars>>

StopMessage ==
  /\ closer = "send" /\ Selecting
  /\ continuing' = FALSE
  /\ mixerMutex' = Free /\ closer' = "done"
  /\ UNCHANGED <<main, step, solverVars, mixer, initial, active, held, adderVars>>
-----------------------------------------------------------------------------
(* selectLoop *)

SelectValue(s) ==
  /\ Running /\ Selecting /\ s \in active /\ left[s] > 0
  /\ left' = [left EXCEPT ![s] = @ - 1]
  /\ held' = s
  /\ UNCHANGED <<programVars, step, announced, mixer, mixerMutex, initial, active,
                 continuing, adderVars>>

\* The output is read from line 66 of run.go on.
Output ==
  /\ Running /\ held # Free
  /\ held' = Free
  /\ UNCHANGED <<programVars, step, solverVars, mixer, mixerMutex, initial, active, continuing,
                 adderVars>>

\* A solver process closes its channel after it has announced the count.
SelectClosed(s) ==
  /\ Running /\ Selecting /\ s \in active
  /\ left[s] = 0 /\ announced[s]
  /\ active' = active \ {s}
  /\ UNCHANGED <<programVars, step, solverVars, mixer, mixerMutex, initial, continuing, held,
                 adderVars>>

\* Mutant: the stop message ends the loop.
LoopEndsAtStop ==
  /\ mixer \in {"Running", "Stopping"} /\ held = Free
  /\ ~continuing
  /\ mixer' = "Stopped"
  /\ UNCHANGED <<programVars, step, solverVars, mixerMutex, initial, active, continuing, held,
                 adderVars>>

LoopEnds ==
  /\ mixer \in {"Running", "Stopping"} /\ held = Free
  /\ ~continuing /\ active = {}
  /\ mixer' = "Stopped"
  /\ UNCHANGED <<programVars, step, solverVars, mixerMutex, initial, active, continuing, held,
                 adderVars>>
-----------------------------------------------------------------------------
GroupStep(s) ==
  \/ SetupFails(s) \/ Setup(s) \/ StartExtra(s)
  \/ AddInitial(s) \/ AddLock(s) \/ AddSend(s) \/ AddFuture(s)

CountStep(s) == AddExtraFuture(s) \/ ExtraFails(s) \/ AddTotal(s) \/ SendTotal(s)

MainStep == ReadyCount \/ ReadyMixer

CloserStep == ShutdownAsync \/ StopMessage

LoopStep == Output \/ LoopEnds \/ \E s \in Sources : SelectValue(s) \/ SelectClosed(s)

Next ==
  \/ MainStep \/ CloserStep \/ LoopStep
  \/ \E s \in Sources : GroupStep(s) \/ CountStep(s) \/ Announce(s)

Spec == Init /\ [][Next]_vars

\* Every goroutine that can go on does, and every solve ends (it has a time
\* limit or a gap).  Each mutex is taken a bounded number of times.
FairSpec ==
  /\ Spec
  /\ WF_vars(MainStep) /\ WF_vars(CloserStep) /\ WF_vars(LoopStep)
  /\ \A s \in Sources : WF_vars(GroupStep(s)) /\ WF_vars(CountStep(s)) /\ WF_vars(Announce(s))
-----------------------------------------------------------------------------
(* Properties *)

\* The values of the variables; no more futures are counted down than were
\* added (FutureValueAdder.waitingFutures).
TypeOK ==
  /\ main \in {"count", "mixer", "ready"} /\ closer \in {"wait", "send", "done"}
  /\ step \in [Sources -> {"setup", "channel", "send", "future", "end"}]
  /\ left \in [Sources -> 0..Most] /\ announced \in [Sources -> BOOLEAN]
  /\ mixer \in {"Init", "Running", "Stopping", "Stopped", "panic"}
  /\ mixerMutex \in Sources \union {Shutdown, Free}
  /\ initial \subseteq Sources /\ active \subseteq Sources
  /\ continuing \in BOOLEAN /\ held \in Sources \union {Free}
  /\ adder \in [Sources -> {"none", "start", "value", "add", "waiting", "send", "done"}]
  /\ adderMutex \in Sources \union {Free}
  /\ ready \in BOOLEAN /\ open \in BOOLEAN
  /\ waitingFutures \in Nat /\ told \subseteq total /\ total \subseteq Sources

\* The output closes when the last proposal of the last source is out
\* (selectLoop): all groups have added what they have and every thread has sent
\* what it will send.
ClosesLast ==
  mixer = "Stopped" /\ main = "ready" =>
    /\ held = Free
    /\ \A s \in Sources : step[s] = "end" /\ announced[s] /\ left[s] = 0

\* Once the mixer runs, newSourceAdded meets no shutdown and ShutdownAsync no
\* other: their panics need groups that have ended before run.go:64.
PanicsOnlyEarly == mixer = "panic" => main # "ready"

\* The shutdown of the mixer comes after everything it must not cut off.
ShutdownLast == ClosesLast /\ PanicsOnlyEarly

\* The reader of the counts is never behind: while the channel is open and
\* nobody is adding it knows the total (processValue, AddValueImmediate), and
\* the channel closes only when no future that was added is still to be
\* counted (ReadyUpAndPrepareChannel).
CountTold ==
  [][/\ open' /\ adderMutex' = Free => told' = total'
     /\ open /\ ~open' => \A s \in Sources : adder'[s] # "waiting"]_vars

\* Both channels are closed, everything that was started has ended.
Finished ==
  /\ mixer = "Stopped" /\ closer = "done" /\ main = "ready" /\ ~open
  /\ \A s \in Sources : adder[s] \in {"none", "done"}

\* A total that is told before Run reaches run.go:63 has no reader, and Run
\* waits for the mutex of its sender: both hang.
EarlyTotal == main = "count" /\ adderMutex # Free

\* The generation ends, with its channels closed, unless groups have ended
\* before the mixer was ready or a count came before the adder was: no
\* goroutine waits for ever for a mutex, the loop or a reader.
Ends == <>(Finished \/ (mixer = "panic" /\ main # "ready") \/ EarlyTotal)
=============================================================================
