------------------------------ MODULE SimJobs ------------------------------
(***************************************************************************)
(* From proposals to simulated results: multi/passToSim.go, with the       *)
(* channels of multi/run.go between its goroutines.                        *)
(*                                                                         *)
(* prepareSimList makes a job of every label of a proposal and sends it,   *)
(* then sends the proposal to the collector of the report.  The threads of *)
(* mergeDuplicateJobs pass a job on to the simulators, or merge it into an *)
(* equal one they have seen.  A simulator sets the result of its job and   *)
(* notifies the proposals that need it.  When all of them have ended, the  *)
(* final report takes the proposals that are ready.                        *)
(*                                                                         *)
(* All channels are unbuffered: a send and its receive are one step.  The  *)
(* mutex of a proposal is held within a step only: notifyOnResult reads    *)
(* the results of other jobs without their locks, but a result is set once *)
(* and its writer comes for the same mutex afterwards.                     *)
(***************************************************************************)
EXTENDS Naturals, FiniteSets

CONSTANTS
  Proposals, Labels,
  SimJob,       \* what is simulated for each label of a proposal
  Mergers,      \* threads of Channel_RemoveDuplicatesFuncNotify
  Simulators,   \* threads of runSims
  Free,         \* a mutex nobody holds
  Nil           \* no job, no proposal

Jobs == Proposals \X Labels

ASSUME SimJobsAssumption ==
  /\ Free \notin Mergers \union Simulators
  /\ Mergers \intersect Simulators = {}
  /\ Nil \notin Jobs \union Proposals
  /\ IsFiniteSet(Proposals)
  /\ Labels # {}      \* a proposal has a part for every specialisation of the job
  /\ Mergers # {}     \* two threads
  /\ Simulators # {}  \* c_simThreadCount is 2

VARIABLES
  todo,         \* proposals still to come
  prepare,      \* where the goroutine of prepareSimList is
  proposal,     \* the one it works on
  labels,       \* its labels without a job
  sending,      \* the job it has just made
  simPendingZ,  \* the jobs of a proposal
  ready,        \* has a proposal all its results?
  resultPending,\* jobs with a result
  multiPending, \* proposals that wait for a job
  merged,       \* jobs merged into others
  jobMutex,     \* holder of the mutex of a job
  seen,         \* jobs passed on to the simulators
  seenLock,     \* holder of the lock of seen
  merger, next, found,  \* where each merger is, its job and an equal one
  simulator, simJob,    \* where each simulator is, and its job
  arriving,     \* a proposal the collector has received and not appended
  slice,        \* proposals it has appended
  report,       \* where the final report is
  final         \* what it reports

prepareVars == <<todo, prepare, proposal, labels, sending>>
jobVars == <<resultPending, multiPending, merged, jobMutex>>
mergerVars == <<seen, seenLock, merger, next, found>>
simulatorVars == <<simulator, simJob>>
collectVars == <<arriving, slice>>
reportVars == <<report, final>>
vars == <<prepareVars, simPendingZ, ready, jobVars, mergerVars, simulatorVars, collectVars,
          reportVars>>

Init ==
  /\ todo = Proposals /\ prepare = "next"
  /\ proposal = Nil /\ labels = {} /\ sending = Nil
  /\ simPendingZ = [p \in Proposals |-> [l \in Labels |-> Nil]]
  /\ ready = [p \in Proposals |-> FALSE]
  /\ resultPending = {} /\ merged = {}
  /\ multiPending = [j \in Jobs |-> {j[1]}]
  /\ jobMutex = [j \in Jobs |-> Free]
  /\ seen = {} /\ seenLock = Free
  /\ merger = [m \in Mergers |-> "receive"]
  /\ next = [m \in Mergers |-> Nil]
  /\ found = [m \in Mergers |-> Nil]
  /\ simulator = [s \in Simulators |-> "receive"]
  /\ simJob = [s \in Simulators |-> Nil]
  /\ arriving = Nil /\ slice = {}
  /\ report = "wait" /\ final = {}

Equal(j, k) == SimJob[j[1]][j[2]] = SimJob[k[1]][k[2]]
-----------------------------------------------------------------------------
(* prepareSimList *)

TakeProposal(p) ==
  /\ prepare = "next" /\ p \in todo
  /\ todo' = todo \ {p}
  /\ proposal' = p /\ labels' = Labels
  /\ prepare' = "labels"
  /\ UNCHANGED <<sending, simPendingZ, ready, jobVars, mergerVars, simulatorVars, collectVars,
                 reportVars>>

\* createPendingJob and setJob; labels come in the random order of a map.
CreatePendingJob(l) ==
  /\ prepare = "labels" /\ l \in labels
  /\ labels' = labels \ {l}
  /\ simPendingZ' = [simPendingZ EXCEPT ![proposal][l] = <<proposal, l>>]
  /\ sending' = <<proposal, l>>
  /\ prepare' = "send"
  /\ UNCHANGED <<todo, proposal, ready, jobVars, mergerVars, simulatorVars, collectVars,
                 reportVars>>

\* Mutant: the merger gets the job that was sent before.
SendJobStale(m) ==
  /\ prepare = "send" /\ merger[m] = "receive"
  /\ merger' = [merger EXCEPT ![m] = "lock"]
  /\ prepare' = "labels" /\ sending' = Nil
  /\ UNCHANGED <<todo, proposal, labels, simPendingZ, ready, jobVars, seen, seenLock, next,
                 found, simulatorVars, collectVars, reportVars>>

SendJob(m) ==
  /\ prepare = "send" /\ merger[m] = "receive"
  /\ next' = [next EXCEPT ![m] = sending]
  /\ merger' = [merger EXCEPT ![m] = "lock"]
  /\ prepare' = "labels" /\ sending' = Nil
  /\ UNCHANGED <<todo, proposal, labels, simPendingZ, ready, jobVars, seen, seenLock, found,
                 simulatorVars, collectVars, reportVars>>

\* Mutant: the proposal is sent with its first job.
SendProposalEarly ==
  /\ prepare = "labels" /\ labels # Labels
  /\ arriving = Nil /\ arriving' = proposal
  /\ prepare' = IF labels = {} THEN "next" ELSE "labels"
  /\ UNCHANGED <<todo, proposal, labels, sending, simPendingZ, ready, jobVars, mergerVars,
                 simulatorVars, slice, reportVars>>

\* The collector receives when it has appended the one before.
SendProposal ==
  /\ prepare = "labels" /\ labels = {}
  /\ arriving = Nil /\ arriving' = proposal
  /\ prepare' = "next"
  /\ UNCHANGED <<todo, proposal, labels, sending, simPendingZ, ready, jobVars, mergerVars,
                 simulatorVars, slice, reportVars>>

\* Mutant: the channels are closed before the last proposal is sent.
CloseJobsEarly ==
  /\ prepare = "labels" /\ labels = {} /\ todo = {}
  /\ prepare' = "closed"
  /\ UNCHANGED <<todo, proposal, labels, sending, simPendingZ, ready, jobVars, mergerVars,
                 simulatorVars, collectVars, reportVars>>

\* The channel of proposals is closed: close both channels.
CloseJobs ==
  /\ prepare = "next" /\ todo = {}
  /\ prepare' = "closed"
  /\ UNCHANGED <<todo, proposal, labels, sending, simPendingZ, ready, jobVars, mergerVars,
                 simulatorVars, collectVars, reportVars>>

\* CollectChannelToSliceIncremental
Append ==
  /\ arriving # Nil
  /\ slice' = slice \union {arriving}
  /\ arriving' = Nil
  /\ UNCHANGED <<prepareVars, simPendingZ, ready, jobVars, mergerVars, simulatorVars, reportVars>>
-----------------------------------------------------------------------------
(* mergeDuplicateJobs *)

\* Mutant: the job is sent without the lock and not noted as seen.
KeepJobUnnoted(m) ==
  /\ merger[m] = "lock" /\ seenLock = Free
  /\ \A k \in seen : ~Equal(next[m], k)
  /\ merger' = [merger EXCEPT ![m] = "send"]
  /\ UNCHANGED <<prepareVars, simPendingZ, ready, jobVars, seen, seenLock, next, found,
                 simulatorVars, collectVars, reportVars>>

\* No equal job was seen: keep the lock until this one is sent.
KeepJob(m) ==
  /\ merger[m] = "lock" /\ seenLock = Free
  /\ \A k \in seen : ~Equal(next[m], k)
  /\ seen' = seen \union {next[m]}
  /\ seenLock' = m
  /\ merger' = [merger EXCEPT ![m] = "send"]
  /\ UNCHANGED <<prepareVars, simPendingZ, ready, jobVars, next, found, simulatorVars, collectVars,
                 reportVars>>

FindDuplicate(m) ==
  /\ merger[m] = "lock" /\ seenLock = Free
  /\ \E k \in seen : Equal(next[m], k) /\ found' = [found EXCEPT ![m] = k]
  /\ merger' = [merger EXCEPT ![m] = "merge"]
  /\ UNCHANGED <<prepareVars, simPendingZ, ready, jobVars, seen, seenLock, next, simulatorVars,
                 collectVars, reportVars>>

SendKept(m, s) ==
  /\ merger[m] = "send" /\ simulator[s] = "receive"
  /\ simJob' = [simJob EXCEPT ![s] = next[m]]
  /\ simulator' = [simulator EXCEPT ![s] = "run"]
  /\ seenLock' = Free
  /\ merger' = [merger EXCEPT ![m] = "receive"]
  /\ next' = [next EXCEPT ![m] = Nil]
  /\ UNCHANGED <<prepareVars, simPendingZ, ready, jobVars, seen, found, collectVars,
                 reportVars>>

MergersEnd(m) ==
  /\ merger[m] = "receive" /\ prepare = "closed"
  /\ merger' = [merger EXCEPT ![m] = "done"]
  /\ UNCHANGED <<prepareVars, simPendingZ, ready, jobVars, seen, seenLock, next, found,
                 simulatorVars, collectVars, reportVars>>
-----------------------------------------------------------------------------
(* MergePendingFrom: next is dropped in favour of found *)

MergeLock(m) ==
  /\ merger[m] = "merge"
  /\ jobMutex[next[m]] = Free /\ jobMutex[found[m]] = Free
  /\ jobMutex' = [jobMutex EXCEPT ![next[m]] = m, ![found[m]] = m]
  /\ merger' = [merger EXCEPT ![m] = "replace"]
  /\ UNCHANGED <<prepareVars, simPendingZ, ready, resultPending, multiPending, merged, seen,
                 seenLock, next, found, simulatorVars, collectVars, reportVars>>

\* Mutant: every label of the proposal gets the reference.
ReplaceAll(m) ==
  /\ merger[m] = "replace"
  /\ simPendingZ' = [p \in Proposals |->
       IF p \in multiPending[next[m]] THEN [l \in Labels |-> found[m]] ELSE simPendingZ[p]]
  /\ merger' = [merger EXCEPT ![m] = "pass"]
  /\ UNCHANGED <<prepareVars, ready, jobVars, seen, seenLock, next, found, simulatorVars,
                 collectVars, reportVars>>

\* Only the proposal of the job waits for it: nothing merges into a job that
\* was not kept.
ReplaceReference(m) ==
  /\ merger[m] = "replace"
  /\ simPendingZ' = [p \in Proposals |->
       IF p \in multiPending[next[m]]
       THEN [l \in Labels |-> IF simPendingZ[p][l] = next[m] THEN found[m] ELSE simPendingZ[p][l]]
       ELSE simPendingZ[p]]
  /\ merger' = [merger EXCEPT ![m] = "pass"]
  /\ UNCHANGED <<prepareVars, ready, jobVars, seen, seenLock, next, found, simulatorVars,
                 collectVars, reportVars>>

\* notifyOnResult looks at the jobs the proposal has by now.
AllReady(p) ==
  \A l \in Labels : simPendingZ[p][l] # Nil => simPendingZ[p][l] \in resultPending

MergerReceives(m) ==
  /\ merger' = [merger EXCEPT ![m] = "receive"]
  /\ next' = [next EXCEPT ![m] = Nil]
  /\ found' = [found EXCEPT ![m] = Nil]

MergeDone(m) ==
  /\ merged' = merged \union {next[m]}
  /\ jobMutex' = [jobMutex EXCEPT ![next[m]] = Free, ![found[m]] = Free]
  /\ MergerReceives(m)

\* Mutant: nobody is told that the result is there already.
MergeSilent(m) ==
  /\ merger[m] = "pass" /\ found[m] \in resultPending
  /\ multiPending' = [multiPending EXCEPT ![next[m]] = {}]
  /\ MergeDone(m)
  /\ UNCHANGED <<prepareVars, simPendingZ, ready, resultPending, seen, seenLock, simulatorVars,
                 collectVars, reportVars>>

MergeNotify(m) ==
  /\ merger[m] = "pass" /\ found[m] \in resultPending
  /\ ready' = [p \in Proposals |-> ready[p] \/ (p \in multiPending[next[m]] /\ AllReady(p))]
  /\ multiPending' = [multiPending EXCEPT ![next[m]] = {}]
  /\ MergeDone(m)
  /\ UNCHANGED <<prepareVars, simPendingZ, resultPending, seen, seenLock, simulatorVars,
                 collectVars, reportVars>>

\* Mutant: the mutex of the job that is kept is not released.
MergeAppendLocked(m) ==
  /\ merger[m] = "pass" /\ found[m] \notin resultPending
  /\ multiPending' = [multiPending EXCEPT ![found[m]] = @ \union multiPending[next[m]],
                                          ![next[m]] = {}]
  /\ merged' = merged \union {next[m]}
  /\ jobMutex' = [jobMutex EXCEPT ![next[m]] = Free]
  /\ MergerReceives(m)
  /\ UNCHANGED <<prepareVars, simPendingZ, ready, resultPending, seen, seenLock, simulatorVars,
                 collectVars, reportVars>>

\* Mutant: the job that is kept is the one that counts as merged.
MergeAppendSwapped(m) ==
  /\ merger[m] = "pass" /\ found[m] \notin resultPending
  /\ multiPending' = [multiPending EXCEPT ![found[m]] = @ \union multiPending[next[m]],
                                          ![next[m]] = {}]
  /\ merged' = merged \union {found[m]}
  /\ jobMutex' = [jobMutex EXCEPT ![next[m]] = Free, ![found[m]] = Free]
  /\ MergerReceives(m)
  /\ UNCHANGED <<prepareVars, simPendingZ, ready, resultPending, seen, seenLock, simulatorVars,
                 collectVars, reportVars>>

MergeAppend(m) ==
  /\ merger[m] = "pass" /\ found[m] \notin resultPending
  /\ multiPending' = [multiPending EXCEPT ![found[m]] = @ \union multiPending[next[m]],
                                          ![next[m]] = {}]
  /\ MergeDone(m)
  /\ UNCHANGED <<prepareVars, simPendingZ, ready, resultPending, seen, seenLock, simulatorVars,
                 collectVars, reportVars>>
-----------------------------------------------------------------------------
(* runSims *)

\* The simulation has ended, with a result or an error that stands for one.
SetResult(s) ==
  /\ simulator[s] = "run"
  /\ jobMutex[simJob[s]] = Free
  /\ jobMutex' = [jobMutex EXCEPT ![simJob[s]] = s]
  /\ simulator' = [simulator EXCEPT ![s] =
       IF simJob[s] \in merged THEN "panic" ELSE "notify"]
  /\ resultPending' = IF simJob[s] \in merged THEN resultPending
                      ELSE resultPending \union {simJob[s]}
  /\ UNCHANGED <<prepareVars, simPendingZ, ready, multiPending, merged, mergerVars, simJob,
                 collectVars, reportVars>>

\* The slice is emptied at the end: nobody reads it before, without the mutex.
NotifyOnResult(s, p) ==
  /\ simulator[s] = "notify" /\ p \in multiPending[simJob[s]]
  /\ ready' = [ready EXCEPT ![p] = @ \/ AllReady(p)]
  /\ multiPending' = [multiPending EXCEPT ![simJob[s]] = @ \ {p}]
  /\ UNCHANGED <<prepareVars, simPendingZ, resultPending, merged, jobMutex, mergerVars,
                 simulatorVars, collectVars, reportVars>>

SetResultDone(s) ==
  /\ simulator[s] = "notify" /\ multiPending[simJob[s]] = {}
  /\ jobMutex' = [jobMutex EXCEPT ![simJob[s]] = Free]
  /\ simulator' = [simulator EXCEPT ![s] = "receive"]
  /\ simJob' = [simJob EXCEPT ![s] = Nil]
  /\ UNCHANGED <<prepareVars, simPendingZ, ready, resultPending, multiPending, merged, mergerVars,
                 collectVars, reportVars>>

SimulatorEnds(s) ==
  /\ simulator[s] = "receive" /\ \A m \in Mergers : merger[m] = "done"
  /\ simulator' = [simulator EXCEPT ![s] = "done"]
  /\ UNCHANGED <<prepareVars, simPendingZ, ready, jobVars, mergerVars, simJob, collectVars,
                 reportVars>>
-----------------------------------------------------------------------------
HasAllResults(p) == \A l \in Labels : simPendingZ[p][l] \in resultPending

\* incrementalReporting when simsDone is complete; pendingToCompletedResults
\* panics on a proposal that is ready and lacks a result.  Reports before the
\* end change nothing: the invariants are what they read.
FinalReport ==
  /\ report = "wait" /\ \A s \in Simulators : simulator[s] = "done"
  /\ report' = IF \A p \in slice : ready[p] => HasAllResults(p) THEN "done" ELSE "panic"
  /\ final' = {p \in slice : ready[p]}
  /\ UNCHANGED <<prepareVars, simPendingZ, ready, jobVars, mergerVars, simulatorVars, collectVars>>

PrepareStep ==
  \/ \E p \in Proposals : TakeProposal(p)
  \/ \E l \in Labels : CreatePendingJob(l)
  \/ \E m \in Mergers : SendJob(m)
  \/ SendProposal \/ CloseJobs

MergerStep(m) ==
  \/ KeepJob(m) \/ FindDuplicate(m) \/ MergersEnd(m)
  \/ \E s \in Simulators : SendKept(m, s)
  \/ MergeLock(m) \/ ReplaceReference(m) \/ MergeNotify(m) \/ MergeAppend(m)

SimulatorStep(s) ==
  \/ SetResult(s) \/ SetResultDone(s) \/ SimulatorEnds(s)
  \/ \E p \in Proposals : NotifyOnResult(s, p)

Next ==
  \/ PrepareStep \/ Append \/ FinalReport
  \/ \E m \in Mergers : MergerStep(m)
  \/ \E s \in Simulators : SimulatorStep(s)

Spec == Init /\ [][Next]_vars
-----------------------------------------------------------------------------
(* Properties *)

TypeOK ==
  /\ todo \subseteq Proposals
  /\ prepare \in {"next", "labels", "send", "closed"}
  /\ proposal \in Proposals \union {Nil}
  /\ labels \subseteq Labels
  /\ sending \in Jobs \union {Nil}
  /\ simPendingZ \in [Proposals -> [Labels -> Jobs \union {Nil}]]
  /\ ready \in [Proposals -> BOOLEAN]
  /\ resultPending \subseteq Jobs /\ merged \subseteq Jobs
  /\ multiPending \in [Jobs -> SUBSET Proposals]
  /\ jobMutex \in [Jobs -> Mergers \union Simulators \union {Free}]
  /\ seen \subseteq Jobs
  /\ seenLock \in Mergers \union {Free}
  /\ merger \in [Mergers -> {"receive", "lock", "send", "merge", "replace", "pass", "done"}]
  /\ next \in [Mergers -> Jobs \union {Nil}]
  /\ found \in [Mergers -> Jobs \union {Nil}]
  /\ simulator \in [Simulators -> {"receive", "run", "notify", "panic", "done"}]
  /\ simJob \in [Simulators -> Jobs \union {Nil}]
  /\ arriving \in Proposals \union {Nil}
  /\ slice \subseteq Proposals
  /\ report \in {"wait", "done", "panic"}
  /\ final \subseteq Proposals
  /\ \A m \in Mergers : merger[m] \notin {"receive", "done"} => next[m] \in Jobs
  /\ \A m \in Mergers : merger[m] \in {"merge", "replace", "pass"} => found[m] \in Jobs
  /\ \A s \in Simulators : simulator[s] \in {"run", "notify"} => simJob[s] \in Jobs

\* Jobs that a simulator has now or had before.
Simulated ==
  resultPending \union {simJob[s] : s \in {t \in Simulators : simulator[t] # "receive"
                                                            /\ simulator[t] # "done"}}

\* Whichever of the two threads of mergeDuplicateJobs meets the two of them,
\* equal jobs are simulated once.
SimulatedOnce == \A j, k \in Simulated : Equal(j, k) => j = k

\* A merged job is not simulated: its SetResult would panic, and the report
\* would wait for a job nobody refers to.
MergedHasNoResult ==
  /\ merged \intersect Simulated = {}
  /\ \A p \in Proposals, l \in Labels : simPendingZ[p][l] \notin merged

\* Of equal jobs one is simulated, and it is the one the proposals refer to.
OncePerJob == SimulatedOnce /\ MergedHasNoResult

\* Whatever was merged, the result a proposal is given for a label is that of
\* the gear and the model it has there.
OwnResults ==
  \A p \in Proposals, l \in Labels :
    simPendingZ[p][l] # Nil => Equal(simPendingZ[p][l], <<p, l>>)

\* Merging equal jobs, at any moment of either, neither simulates one twice nor
\* gives a proposal the result of another.
MergedRight == OncePerJob /\ OwnResults

\* A report finds all the labels of a proposal: none is reported in part.
ReportedWhole ==
  \A p \in slice \union {arriving} : p # Nil => \A l \in Labels : simPendingZ[p][l] # Nil

\* When the simulators have ended every proposal in the slice is ready and
\* has its results, so that the final report leaves none of them out and does
\* not panic: no notification is lost between a merge and a result.
FinalComplete ==
  /\ (\A s \in Simulators : simulator[s] = "done") =>
       \A p \in slice : ready[p] /\ HasAllResults(p)
  /\ report # "panic"

\* The final report does not wait for the collector: it leaves out the proposal
\* the collector has received and not appended yet, and no other.
LeavesOutLast == report = "done" => Cardinality(Proposals \ final) <= 1

\* Proposals are reported whole, and in the end all of them but perhaps the one
\* that was sent last.
ReportComplete == ReportedWhole /\ FinalComplete /\ LeavesOutLast

\* Some goroutine does not wait: what each of them needs to go on.
SomeoneGoesOn ==
  \/ prepare = "next"
  \/ prepare = "labels" /\ (labels # {} \/ arriving = Nil)
  \/ prepare = "send" /\ \E m \in Mergers : merger[m] = "receive"
  \/ arriving # Nil
  \/ \E m \in Mergers :
       \/ merger[m] = "receive" /\ prepare = "closed"
       \/ merger[m] = "lock" /\ seenLock = Free
       \/ merger[m] = "send" /\ \E s \in Simulators : simulator[s] = "receive"
       \/ merger[m] = "merge" /\ jobMutex[next[m]] = Free /\ jobMutex[found[m]] = Free
       \/ merger[m] \in {"replace", "pass"}
  \/ \E s \in Simulators :
       \/ simulator[s] = "receive" /\ \A m \in Mergers : merger[m] = "done"
       \/ simulator[s] = "run" /\ jobMutex[simJob[s]] = Free
       \/ simulator[s] = "notify"
  \/ report = "wait" /\ \A s \in Simulators : simulator[s] = "done"

\* The pipeline drains: until the report is done some goroutine can go on,
\* whatever mutexes and channels the others wait for.  No behaviour goes round
\* in a circle (each step uses up a proposal, a label or a stage of a job), so
\* the final report is made.
NeverStuck == report # "done" => SomeoneGoesOn
=============================================================================
