-------------------------- MODULE SimJobs_proofs --------------------------
(***************************************************************************)
(* Proofs about SimJobs, for any number of proposals, labels, mergers and  *)
(* simulators: the types, that merging is right, that the final report is  *)
(* complete, and that somebody can go on until it is made.                 *)
(*                                                                         *)
(* The inductive invariant follows a job on its way: it is not made yet,   *)
(* or is being sent, or is in the hands of one merger, or is seen, or is   *)
(* merged (PlaceInv); a proposal refers to its own job until that is       *)
(* merged and to the equal job that was seen afterwards (RefInv); and of a *)
(* proposal that is not ready some label waits for a job that has still to *)
(* notify it (NotifyInv).                                                  *)
(***************************************************************************)
EXTENDS SimJobs, FiniteSetTheorems, TLAPS

\* The merger has a job in its hands.
Active(m) == merger[m] \in {"lock", "send", "merge", "replace", "pass"}

\* The job is still to be made.
Uncreated(j) == j[1] \in todo \/ (j[1] = proposal /\ j[2] \in labels)

\* The job a proposal refers to for the label of its own job j.
Ref(j) == simPendingZ[j[1]][j[2]]

\* The goroutine of prepareSimList: what it has in its hands.
PrepareInv ==
  /\ prepare \in {"labels", "send"} => proposal \in Proposals
  /\ proposal \notin todo
  /\ prepare \in {"next", "closed"} => labels = {}
  /\ prepare = "closed" => todo = {}
  /\ prepare = "send" => sending \in Jobs /\ ~Uncreated(sending)
  /\ sending # Nil => prepare = "send"

\* A proposal comes, is worked on, or was sent to the collector with all jobs.
SentInv ==
  /\ \A p \in Proposals :
       p \in todo \/ p \in slice \/ p = arriving \/ (p = proposal /\ prepare \in {"labels", "send"})
  /\ \A p \in slice \union {arriving} :
       p # Nil => p \notin todo /\ (p = proposal => prepare \in {"next", "closed"})

\* Where a job is.
PlaceInv ==
  /\ \A j \in Jobs : Uncreated(j) =>
       /\ j \notin seen /\ j \notin merged /\ Ref(j) = Nil
       /\ \A m \in Mergers : Active(m) => next[m] # j
  /\ \A j \in Jobs : ~Uncreated(j) =>
       /\ Ref(j) # Nil
       /\ j = sending \/ j \in seen \/ j \in merged \/ \E m \in Mergers : Active(m) /\ next[m] = j
  /\ sending \notin seen /\ sending \notin merged
  /\ \A m \in Mergers : Active(m) => next[m] # sending

\* What a merger has in its hands.
MergerInv ==
  /\ \A m \in Mergers : Active(m) => next[m] \notin merged /\ (next[m] \in seen <=> merger[m] = "send")
  /\ \A m, n \in Mergers : Active(m) /\ Active(n) /\ next[m] = next[n] => m = n
  /\ \A m \in Mergers : merger[m] \in {"merge", "replace", "pass"} =>
       found[m] \in seen /\ Equal(next[m], found[m])
  /\ \A m \in Mergers : merger[m] = "done" => prepare = "closed"

\* What was passed on to the simulators.
SeenInv ==
  /\ seen \intersect merged = {}
  /\ \A j, k \in seen : Equal(j, k) => j = k
  /\ resultPending \subseteq seen
  /\ \A s \in Simulators : simulator[s] \in {"run", "notify"} => simJob[s] \in seen
  /\ \A s \in Simulators : simulator[s] = "notify" => simJob[s] \in resultPending
  /\ \A s \in Simulators : simulator[s] # "panic"
  /\ \A s \in Simulators : simulator[s] = "done" => \A m \in Mergers : merger[m] = "done"
  /\ \A j \in seen :
       \/ j \in resultPending
       \/ \E s \in Simulators : simulator[s] = "run" /\ simJob[s] = j
       \/ \E m \in Mergers : merger[m] = "send" /\ next[m] = j

\* What the proposals refer to.
RefInv ==
  /\ \A j \in Jobs : Ref(j) \in seen \/ Ref(j) = Nil \/ Ref(j) = j
  /\ \A j \in Jobs : Ref(j) \notin merged
  /\ \A j \in Jobs : Ref(j) # Nil => Equal(Ref(j), j)
  /\ \A j \in Jobs : j \in seen \/ j = sending => Ref(j) = j
  /\ \A m \in Mergers : Active(m) =>
       Ref(next[m]) = IF merger[m] = "pass" THEN found[m] ELSE next[m]

\* Who waits for a job.
WaitInv ==
  /\ \A j \in Jobs : j \notin seen /\ j \notin merged => multiPending[j] = {j[1]}
  /\ \A j \in merged : multiPending[j] = {}
  /\ \A j \in resultPending :
       multiPending[j] = {} \/ \E s \in Simulators : simulator[s] = "notify" /\ simJob[s] = j

\* The proposal is still to be notified for the label of its job j.
Waits(j) == Ref(j) = Nil \/ j[1] \in multiPending[j] \/ j[1] \in multiPending[Ref(j)]

\* No notification is lost.
NotifyInv ==
  /\ \A j \in Jobs : ~Waits(j) => Ref(j) \in resultPending
  /\ \A p \in Proposals : ready[p] \/ \E l \in Labels : Waits(<<p, l>>)

ReportInv ==
  /\ report # "panic"
  /\ report = "done" => \E x \in Proposals \union {Nil} : Proposals \ final \subseteq {x}

SimJobsInv ==
  /\ TypeOK /\ PrepareInv /\ SentInv /\ PlaceInv /\ MergerInv /\ SeenInv /\ RefInv /\ WaitInv
  /\ NotifyInv /\ ReportInv

LEMMA JobPair ==
  /\ \A j \in Jobs : j[1] \in Proposals /\ j[2] \in Labels /\ j = <<j[1], j[2]>>
  /\ \A p \in Proposals, l \in Labels :
       <<p, l>> \in Jobs /\ <<p, l>>[1] = p /\ <<p, l>>[2] = l
  BY DEF Jobs

\* setJob gives the proposal the reference to its new job and changes no other.
LEMMA CreateEffect ==
  ASSUME SimJobsInv, NEW l \in Labels, CreatePendingJob(l)
  PROVE  /\ <<proposal, l>> \in Jobs /\ Uncreated(<<proposal, l>>)
         /\ sending = Nil /\ sending' = <<proposal, l>>
         /\ \A j \in Jobs : Ref(j)' = IF j = <<proposal, l>> THEN j ELSE Ref(j)
         /\ \A j \in Jobs : Uncreated(j)' <=> (Uncreated(j) /\ j # <<proposal, l>>)
<1>1. proposal \in Proposals /\ labels \subseteq Labels
  BY DEF SimJobsInv, PrepareInv, CreatePendingJob, TypeOK
<1>2. <<proposal, l>> \in Jobs /\ Uncreated(<<proposal, l>>)
  BY <1>1, JobPair DEF Uncreated, CreatePendingJob
<1>3. sending = Nil /\ sending' = <<proposal, l>>
  BY DEF SimJobsInv, PrepareInv, CreatePendingJob
<1>4. ASSUME NEW j \in Jobs PROVE Ref(j)' = IF j = <<proposal, l>> THEN j ELSE Ref(j)
  <2>1. simPendingZ' = [simPendingZ EXCEPT ![proposal][l] = <<proposal, l>>]
    BY DEF CreatePendingJob
  <2>2. simPendingZ \in [Proposals -> [Labels -> Jobs \union {Nil}]]
    BY DEF SimJobsInv, TypeOK
  <2>3. simPendingZ'[j[1]][j[2]] = IF j[1] = proposal /\ j[2] = l THEN <<proposal, l>> ELSE Ref(j)
    BY <1>1, <2>1, <2>2, JobPair DEF Ref
  <2> QED
    BY <2>3, JobPair DEF Ref
<1>5. ASSUME NEW j \in Jobs PROVE Uncreated(j)' <=> (Uncreated(j) /\ j # <<proposal, l>>)
  <2>1. proposal \notin todo /\ todo' = todo /\ proposal' = proposal /\ labels' = labels \ {l}
    BY DEF SimJobsInv, PrepareInv, CreatePendingJob
  <2>2. j[1] = proposal /\ j[2] = l <=> j = <<proposal, l>>
    BY JobPair
  <2> QED
    BY <2>1, <2>2 DEF Uncreated
<1> QED
  BY <1>2, <1>3, <1>4, <1>5

\* replaceReference changes the reference to the merged job and no other: only
\* its own proposal refers to it.
LEMMA ReplaceEffect ==
  ASSUME SimJobsInv, NEW m \in Mergers, ReplaceReference(m)
  PROVE  /\ next[m] \in Jobs /\ found[m] \in seen
         /\ \A j \in Jobs : Ref(j)' = IF j = next[m] THEN found[m] ELSE Ref(j)
<1>1. /\ next[m] \in Jobs /\ next[m] # Nil /\ found[m] \in seen
      /\ next[m] \notin seen /\ next[m] \notin merged
  BY SimJobsAssumption DEF SimJobsInv, TypeOK, MergerInv, Active, ReplaceReference
<1>2. multiPending[next[m]] = {next[m][1]}
  BY <1>1 DEF SimJobsInv, WaitInv
<1>3. ASSUME NEW j \in Jobs PROVE Ref(j)' = IF j = next[m] THEN found[m] ELSE Ref(j)
  <2>1. Ref(j) = next[m] => j = next[m]
    BY <1>1 DEF SimJobsInv, RefInv
  <2>2. Ref(next[m]) = next[m]
    BY DEF SimJobsInv, RefInv, Active, ReplaceReference
  <2>3. simPendingZ'[j[1]][j[2]] =
          IF j[1] = next[m][1] /\ Ref(j) = next[m] THEN found[m] ELSE Ref(j)
    BY <1>2, JobPair DEF Ref, ReplaceReference
  <2> QED
    BY <2>1, <2>2, <2>3 DEF Ref
<1> QED
  BY <1>1, <1>3

\* The job that is kept waits for the proposals of both.
LEMMA AppendEffect ==
  ASSUME SimJobsInv, NEW m \in Mergers, MergeAppend(m)
  PROVE  /\ next[m] \in Jobs /\ found[m] \in Jobs /\ next[m] # found[m]
         /\ next[m] \notin seen /\ next[m] \notin merged
         /\ found[m] \in seen /\ found[m] \notin merged /\ found[m] \notin resultPending
         /\ multiPending'[next[m]] = {}
         /\ multiPending'[found[m]] = multiPending[found[m]] \union multiPending[next[m]]
         /\ \A j \in Jobs : j # next[m] /\ j # found[m] => multiPending'[j] = multiPending[j]
         /\ merged' = merged \union {next[m]}
<1>1. /\ next[m] \in Jobs /\ found[m] \in Jobs /\ found[m] \in seen /\ found[m] \notin merged
      /\ next[m] \notin seen /\ next[m] \notin merged /\ found[m] \notin resultPending
  BY DEF SimJobsInv, TypeOK, MergerInv, SeenInv, Active, MergeAppend
<1>2. multiPending' = [multiPending EXCEPT ![found[m]] = @ \union multiPending[next[m]],
                                          ![next[m]] = {}]
  BY DEF MergeAppend
<1>3. multiPending \in [Jobs -> SUBSET Proposals]
  BY DEF SimJobsInv, TypeOK
<1> QED
  BY <1>1, <1>2, <1>3 DEF MergeAppend, MergeDone

LEMMA NotifySame ==
  NotifyInv /\ UNCHANGED <<simPendingZ, multiPending, ready, resultPending>> => NotifyInv'
  BY DEF NotifyInv, Waits, Ref

LEMMA TypeOKStep == SimJobsInv /\ [Next]_vars => TypeOK'
<1> SUFFICES ASSUME SimJobsInv, [Next]_vars PROVE TypeOK'
  OBVIOUS
<1> USE SimJobsAssumption DEF prepareVars, jobVars, mergerVars, simulatorVars, collectVars,
  reportVars, SimJobsInv, Jobs, TypeOK
<1>1. ASSUME NEW p \in Proposals, TakeProposal(p) PROVE TypeOK'
  BY <1>1 DEF TakeProposal
<1>2. ASSUME NEW l \in Labels, CreatePendingJob(l) PROVE TypeOK'
  BY <1>2, JobPair DEF CreatePendingJob, PrepareInv
<1>3. ASSUME NEW m \in Mergers, SendJob(m) PROVE TypeOK'
  BY <1>3 DEF SendJob, PrepareInv
<1>4. ASSUME SendProposal PROVE TypeOK'
  BY <1>4 DEF SendProposal
<1>5. ASSUME CloseJobs PROVE TypeOK'
  BY <1>5 DEF CloseJobs
<1>6. ASSUME Append PROVE TypeOK'
  BY <1>6 DEF Append
<1>7. ASSUME FinalReport PROVE TypeOK'
  BY <1>7 DEF FinalReport
<1>8. ASSUME NEW m \in Mergers, KeepJob(m) PROVE TypeOK'
  BY <1>8 DEF KeepJob
<1>9. ASSUME NEW m \in Mergers, FindDuplicate(m) PROVE TypeOK'
  BY <1>9 DEF FindDuplicate
<1>10. ASSUME NEW m \in Mergers, MergersEnd(m) PROVE TypeOK'
  BY <1>10 DEF MergersEnd
<1>11. ASSUME NEW m \in Mergers, NEW s \in Simulators, SendKept(m, s) PROVE TypeOK'
  BY <1>11 DEF SendKept
<1>12. ASSUME NEW m \in Mergers, MergeLock(m) PROVE TypeOK'
  BY <1>12 DEF MergeLock
<1>13. ASSUME NEW m \in Mergers, ReplaceReference(m) PROVE TypeOK'
  BY <1>13 DEF ReplaceReference
<1>14. ASSUME NEW m \in Mergers, MergeNotify(m) PROVE TypeOK'
  BY <1>14 DEF MergeNotify, MergeDone, MergerReceives
<1>15. ASSUME NEW m \in Mergers, MergeAppend(m) PROVE TypeOK'
  BY <1>15 DEF MergeAppend, MergeDone, MergerReceives
<1>16. ASSUME NEW s \in Simulators, SetResult(s) PROVE TypeOK'
  BY <1>16 DEF SetResult
<1>17. ASSUME NEW s \in Simulators, SetResultDone(s) PROVE TypeOK'
  BY <1>17 DEF SetResultDone
<1>18. ASSUME NEW s \in Simulators, SimulatorEnds(s) PROVE TypeOK'
  BY <1>18 DEF SimulatorEnds
<1>19. ASSUME NEW s \in Simulators, NEW p \in Proposals, NotifyOnResult(s, p) PROVE TypeOK'
  BY <1>19 DEF NotifyOnResult
<1>20. CASE UNCHANGED vars
  BY <1>20 DEF vars
<1> QED
  BY <1>1, <1>2, <1>3, <1>4, <1>5, <1>6, <1>7, <1>8, <1>9, <1>10, <1>11, <1>12, <1>13, <1>14,
     <1>15, <1>16, <1>17, <1>18, <1>19, <1>20 DEF Next, PrepareStep, MergerStep, SimulatorStep

LEMMA PrepareInvStep == SimJobsInv /\ [Next]_vars => PrepareInv'
<1> SUFFICES ASSUME SimJobsInv, [Next]_vars PROVE PrepareInv'
  OBVIOUS
<1> USE SimJobsAssumption DEF prepareVars, jobVars, mergerVars, simulatorVars, collectVars,
  reportVars, SimJobsInv, TypeOK, PrepareInv, Uncreated
<1>1. ASSUME NEW p \in Proposals, TakeProposal(p) PROVE PrepareInv'
  BY <1>1 DEF TakeProposal
<1>2. ASSUME NEW l \in Labels, CreatePendingJob(l) PROVE PrepareInv'
  <2>1. sending' \in Jobs /\ ~Uncreated(sending)'
    BY <1>2, CreateEffect
  <2> QED
    BY <1>2, <2>1 DEF CreatePendingJob
<1>3. ASSUME NEW m \in Mergers, SendJob(m) PROVE PrepareInv'
  BY <1>3 DEF SendJob
<1>4. ASSUME SendProposal PROVE PrepareInv'
  BY <1>4 DEF SendProposal
<1>5. ASSUME CloseJobs PROVE PrepareInv'
  BY <1>5 DEF CloseJobs
<1>6. ASSUME Append PROVE PrepareInv'
  BY <1>6 DEF Append
<1>7. ASSUME FinalReport PROVE PrepareInv'
  BY <1>7 DEF FinalReport
<1>8. ASSUME NEW m \in Mergers, KeepJob(m) PROVE PrepareInv'
  BY <1>8 DEF KeepJob
<1>9. ASSUME NEW m \in Mergers, FindDuplicate(m) PROVE PrepareInv'
  BY <1>9 DEF FindDuplicate
<1>10. ASSUME NEW m \in Mergers, MergersEnd(m) PROVE PrepareInv'
  BY <1>10 DEF MergersEnd
<1>11. ASSUME NEW m \in Mergers, NEW s \in Simulators, SendKept(m, s) PROVE PrepareInv'
  BY <1>11 DEF SendKept
<1>12. ASSUME NEW m \in Mergers, MergeLock(m) PROVE PrepareInv'
  BY <1>12 DEF MergeLock
<1>13. ASSUME NEW m \in Mergers, ReplaceReference(m) PROVE PrepareInv'
  BY <1>13 DEF ReplaceReference
<1>14. ASSUME NEW m \in Mergers, MergeNotify(m) PROVE PrepareInv'
  BY <1>14 DEF MergeNotify, MergeDone, MergerReceives
<1>15. ASSUME NEW m \in Mergers, MergeAppend(m) PROVE PrepareInv'
  BY <1>15 DEF MergeAppend, MergeDone, MergerReceives
<1>16. ASSUME NEW s \in Simulators, SetResult(s) PROVE PrepareInv'
  BY <1>16 DEF SetResult
<1>17. ASSUME NEW s \in Simulators, SetResultDone(s) PROVE PrepareInv'
  BY <1>17 DEF SetResultDone
<1>18. ASSUME NEW s \in Simulators, SimulatorEnds(s) PROVE PrepareInv'
  BY <1>18 DEF SimulatorEnds
<1>19. ASSUME NEW s \in Simulators, NEW p \in Proposals, NotifyOnResult(s, p) PROVE PrepareInv'
  BY <1>19 DEF NotifyOnResult
<1>20. CASE UNCHANGED vars
  BY <1>20 DEF vars
<1> QED
  BY <1>1, <1>2, <1>3, <1>4, <1>5, <1>6, <1>7, <1>8, <1>9, <1>10, <1>11, <1>12, <1>13, <1>14,
     <1>15, <1>16, <1>17, <1>18, <1>19, <1>20 DEF Next, PrepareStep, MergerStep, SimulatorStep

LEMMA SentInvStep == SimJobsInv /\ [Next]_vars => SentInv'
<1> SUFFICES ASSUME SimJobsInv, [Next]_vars PROVE SentInv'
  OBVIOUS
<1> USE SimJobsAssumption DEF prepareVars, jobVars, mergerVars, simulatorVars, collectVars,
  reportVars, SimJobsInv, TypeOK, SentInv, PrepareInv
<1>1. ASSUME NEW p \in Proposals, TakeProposal(p) PROVE SentInv'
  BY <1>1 DEF TakeProposal
<1>2. ASSUME NEW l \in Labels, CreatePendingJob(l) PROVE SentInv'
  BY <1>2 DEF CreatePendingJob
<1>3. ASSUME NEW m \in Mergers, SendJob(m) PROVE SentInv'
  BY <1>3 DEF SendJob
<1>4. ASSUME SendProposal PROVE SentInv'
  BY <1>4 DEF SendProposal
<1>5. ASSUME CloseJobs PROVE SentInv'
  BY <1>5 DEF CloseJobs
<1>6. ASSUME Append PROVE SentInv'
  BY <1>6 DEF Append
<1>7. ASSUME FinalReport PROVE SentInv'
  BY <1>7 DEF FinalReport
<1>8. ASSUME NEW m \in Mergers, KeepJob(m) PROVE SentInv'
  BY <1>8 DEF KeepJob
<1>9. ASSUME NEW m \in Mergers, FindDuplicate(m) PROVE SentInv'
  BY <1>9 DEF FindDuplicate
<1>10. ASSUME NEW m \in Mergers, MergersEnd(m) PROVE SentInv'
  BY <1>10 DEF MergersEnd
<1>11. ASSUME NEW m \in Mergers, NEW s \in Simulators, SendKept(m, s) PROVE SentInv'
  BY <1>11 DEF SendKept
<1>12. ASSUME NEW m \in Mergers, MergeLock(m) PROVE SentInv'
  BY <1>12 DEF MergeLock
<1>13. ASSUME NEW m \in Mergers, ReplaceReference(m) PROVE SentInv'
  BY <1>13 DEF ReplaceReference
<1>14. ASSUME NEW m \in Mergers, MergeNotify(m) PROVE SentInv'
  BY <1>14 DEF MergeNotify, MergeDone, MergerReceives
<1>15. ASSUME NEW m \in Mergers, MergeAppend(m) PROVE SentInv'
  BY <1>15 DEF MergeAppend, MergeDone, MergerReceives
<1>16. ASSUME NEW s \in Simulators, SetResult(s) PROVE SentInv'
  BY <1>16 DEF SetResult
<1>17. ASSUME NEW s \in Simulators, SetResultDone(s) PROVE SentInv'
  BY <1>17 DEF SetResultDone
<1>18. ASSUME NEW s \in Simulators, SimulatorEnds(s) PROVE SentInv'
  BY <1>18 DEF SimulatorEnds
<1>19. ASSUME NEW s \in Simulators, NEW p \in Proposals, NotifyOnResult(s, p) PROVE SentInv'
  BY <1>19 DEF NotifyOnResult
<1>20. CASE UNCHANGED vars
  BY <1>20 DEF vars
<1> QED
  BY <1>1, <1>2, <1>3, <1>4, <1>5, <1>6, <1>7, <1>8, <1>9, <1>10, <1>11, <1>12, <1>13, <1>14,
     <1>15, <1>16, <1>17, <1>18, <1>19, <1>20 DEF Next, PrepareStep, MergerStep, SimulatorStep

LEMMA PlaceInvStep == SimJobsInv /\ [Next]_vars => PlaceInv'
<1> SUFFICES ASSUME SimJobsInv, [Next]_vars PROVE PlaceInv'
  OBVIOUS
<1> USE SimJobsAssumption DEF prepareVars, jobVars, mergerVars, simulatorVars, collectVars,
  reportVars, SimJobsInv, TypeOK, PlaceInv, PrepareInv, MergerInv, Uncreated, Ref, Active
<1>1. ASSUME NEW p \in Proposals, TakeProposal(p) PROVE PlaceInv'
  <2>1. \A j \in Jobs : Uncreated(j)' <=> Uncreated(j)
    BY <1>1, JobPair DEF TakeProposal
  <2> QED
    BY <1>1, <2>1 DEF TakeProposal
<1>2. ASSUME NEW l \in Labels, CreatePendingJob(l) PROVE PlaceInv'
  <2> HIDE DEF Ref, Uncreated
  <2>1. /\ seen' = seen /\ merged' = merged /\ merger' = merger /\ next' = next
    BY <1>2 DEF CreatePendingJob
  <2>2. \A n \in Mergers : Active(n)' <=> Active(n)
    BY <2>1
  <2> HIDE DEF Active
  <2>3. <<proposal, l>> \notin seen /\ <<proposal, l>> \notin merged
        /\ \A n \in Mergers : Active(n) => next[n] # <<proposal, l>>
    BY <1>2, CreateEffect
  <2>4. ASSUME NEW j \in Jobs, Uncreated(j)'
        PROVE  /\ j \notin seen' /\ j \notin merged' /\ Ref(j)' = Nil
               /\ \A n \in Mergers : Active(n)' => next'[n] # j
    BY <2>1, <2>2, <2>4, <1>2, CreateEffect
  <2>5. ASSUME NEW j \in Jobs, ~Uncreated(j)'
        PROVE  /\ Ref(j)' # Nil
               /\ \/ j = sending' \/ j \in seen' \/ j \in merged'
                  \/ \E n \in Mergers : Active(n)' /\ next'[n] = j
    <3>1. CASE j = <<proposal, l>>
      BY <3>1, <1>2, CreateEffect
    <3>2. CASE j # <<proposal, l>>
      <4>1. ~Uncreated(j) /\ Ref(j)' = Ref(j)
        BY <3>2, <2>5, <1>2, CreateEffect
      <4>2. sending = Nil
        BY <1>2, CreateEffect
      <4> QED
        BY <4>1, <4>2, <2>1, <2>2
    <3> QED
      BY <3>1, <3>2
  <2>6. /\ sending' \notin seen' /\ sending' \notin merged'
        /\ \A n \in Mergers : Active(n)' => next'[n] # sending'
    BY <2>1, <2>2, <2>3, <1>2, CreateEffect
  <2> QED
    BY <2>4, <2>5, <2>6 DEF PlaceInv
<1>3. ASSUME NEW m \in Mergers, SendJob(m) PROVE PlaceInv'
  BY <1>3 DEF SendJob
<1>4. ASSUME SendProposal PROVE PlaceInv'
  BY <1>4 DEF SendProposal
<1>5. ASSUME CloseJobs PROVE PlaceInv'
  BY <1>5 DEF CloseJobs
<1>6. ASSUME Append PROVE PlaceInv'
  BY <1>6 DEF Append
<1>7. ASSUME FinalReport PROVE PlaceInv'
  BY <1>7 DEF FinalReport
<1>8. ASSUME NEW m \in Mergers, KeepJob(m) PROVE PlaceInv'
  BY <1>8 DEF KeepJob
<1>9. ASSUME NEW m \in Mergers, FindDuplicate(m) PROVE PlaceInv'
  BY <1>9 DEF FindDuplicate
<1>10. ASSUME NEW m \in Mergers, MergersEnd(m) PROVE PlaceInv'
  BY <1>10 DEF MergersEnd
<1>11. ASSUME NEW m \in Mergers, NEW s \in Simulators, SendKept(m, s) PROVE PlaceInv'
  BY <1>11 DEF SendKept
<1>12. ASSUME NEW m \in Mergers, MergeLock(m) PROVE PlaceInv'
  BY <1>12 DEF MergeLock
<1>13. ASSUME NEW m \in Mergers, ReplaceReference(m) PROVE PlaceInv'
  <2> HIDE DEF Ref, Uncreated
  <2>1. /\ seen' = seen /\ merged' = merged /\ next' = next /\ sending' = sending
        /\ \A n \in Mergers : Active(n)' <=> Active(n)
    BY <1>13 DEF ReplaceReference
  <2>2. \A j \in Jobs : Uncreated(j)' <=> Uncreated(j)
    BY <1>13 DEF ReplaceReference, Uncreated
  <2>3. found[m] # Nil /\ ~Uncreated(next[m])
    BY <1>13 DEF ReplaceReference
  <2> HIDE DEF Active
  <2>4. ASSUME NEW j \in Jobs, Uncreated(j)'
        PROVE  /\ j \notin seen' /\ j \notin merged' /\ Ref(j)' = Nil
               /\ \A n \in Mergers : Active(n)' => next'[n] # j
    BY <2>1, <2>2, <2>3, <2>4, <1>13, ReplaceEffect
  <2>5. ASSUME NEW j \in Jobs, ~Uncreated(j)'
        PROVE  /\ Ref(j)' # Nil
               /\ \/ j = sending' \/ j \in seen' \/ j \in merged'
                  \/ \E n \in Mergers : Active(n)' /\ next'[n] = j
    BY <2>1, <2>2, <2>3, <2>5, <1>13, ReplaceEffect
  <2>6. /\ sending' \notin seen' /\ sending' \notin merged'
        /\ \A n \in Mergers : Active(n)' => next'[n] # sending'
    BY <2>1
  <2> QED
    BY <2>4, <2>5, <2>6 DEF PlaceInv
<1>14. ASSUME NEW m \in Mergers, MergeNotify(m) PROVE PlaceInv'
  BY <1>14 DEF MergeNotify, MergeDone, MergerReceives
<1>15. ASSUME NEW m \in Mergers, MergeAppend(m) PROVE PlaceInv'
  BY <1>15 DEF MergeAppend, MergeDone, MergerReceives
<1>16. ASSUME NEW s \in Simulators, SetResult(s) PROVE PlaceInv'
  BY <1>16 DEF SetResult
<1>17. ASSUME NEW s \in Simulators, SetResultDone(s) PROVE PlaceInv'
  BY <1>17 DEF SetResultDone
<1>18. ASSUME NEW s \in Simulators, SimulatorEnds(s) PROVE PlaceInv'
  BY <1>18 DEF SimulatorEnds
<1>19. ASSUME NEW s \in Simulators, NEW p \in Proposals, NotifyOnResult(s, p) PROVE PlaceInv'
  BY <1>19 DEF NotifyOnResult
<1>20. CASE UNCHANGED vars
  BY <1>20 DEF vars
<1> QED
  BY <1>1, <1>2, <1>3, <1>4, <1>5, <1>6, <1>7, <1>8, <1>9, <1>10, <1>11, <1>12, <1>13, <1>14,
     <1>15, <1>16, <1>17, <1>18, <1>19, <1>20 DEF Next, PrepareStep, MergerStep, SimulatorStep

LEMMA MergerInvStep == SimJobsInv /\ [Next]_vars => MergerInv'
<1> SUFFICES ASSUME SimJobsInv, [Next]_vars PROVE MergerInv'
  OBVIOUS
<1> USE SimJobsAssumption DEF prepareVars, jobVars, mergerVars, simulatorVars, collectVars,
  reportVars, SimJobsInv, TypeOK, MergerInv, PlaceInv, PrepareInv, SeenInv, Active, Equal
<1>1. ASSUME NEW p \in Proposals, TakeProposal(p) PROVE MergerInv'
  BY <1>1 DEF TakeProposal
<1>2. ASSUME NEW l \in Labels, CreatePendingJob(l) PROVE MergerInv'
  BY <1>2 DEF CreatePendingJob
<1>3. ASSUME NEW m \in Mergers, SendJob(m) PROVE MergerInv'
  BY <1>3 DEF SendJob
<1>4. ASSUME SendProposal PROVE MergerInv'
  BY <1>4 DEF SendProposal
<1>5. ASSUME CloseJobs PROVE MergerInv'
  BY <1>5 DEF CloseJobs
<1>6. ASSUME Append PROVE MergerInv'
  BY <1>6 DEF Append
<1>7. ASSUME FinalReport PROVE MergerInv'
  BY <1>7 DEF FinalReport
<1>8. ASSUME NEW m \in Mergers, KeepJob(m) PROVE MergerInv'
  BY <1>8 DEF KeepJob
<1>9. ASSUME NEW m \in Mergers, FindDuplicate(m) PROVE MergerInv'
  BY <1>9 DEF FindDuplicate
<1>10. ASSUME NEW m \in Mergers, MergersEnd(m) PROVE MergerInv'
  BY <1>10 DEF MergersEnd
<1>11. ASSUME NEW m \in Mergers, NEW s \in Simulators, SendKept(m, s) PROVE MergerInv'
  BY <1>11 DEF SendKept
<1>12. ASSUME NEW m \in Mergers, MergeLock(m) PROVE MergerInv'
  BY <1>12 DEF MergeLock
<1>13. ASSUME NEW m \in Mergers, ReplaceReference(m) PROVE MergerInv'
  BY <1>13 DEF ReplaceReference
<1>14. ASSUME NEW m \in Mergers, MergeNotify(m) PROVE MergerInv'
  BY <1>14 DEF MergeNotify, MergeDone, MergerReceives
<1>15. ASSUME NEW m \in Mergers, MergeAppend(m) PROVE MergerInv'
  BY <1>15 DEF MergeAppend, MergeDone, MergerReceives
<1>16. ASSUME NEW s \in Simulators, SetResult(s) PROVE MergerInv'
  BY <1>16 DEF SetResult
<1>17. ASSUME NEW s \in Simulators, SetResultDone(s) PROVE MergerInv'
  BY <1>17 DEF SetResultDone
<1>18. ASSUME NEW s \in Simulators, SimulatorEnds(s) PROVE MergerInv'
  BY <1>18 DEF SimulatorEnds
<1>19. ASSUME NEW s \in Simulators, NEW p \in Proposals, NotifyOnResult(s, p) PROVE MergerInv'
  BY <1>19 DEF NotifyOnResult
<1>20. CASE UNCHANGED vars
  BY <1>20 DEF vars
<1> QED
  BY <1>1, <1>2, <1>3, <1>4, <1>5, <1>6, <1>7, <1>8, <1>9, <1>10, <1>11, <1>12, <1>13, <1>14,
     <1>15, <1>16, <1>17, <1>18, <1>19, <1>20 DEF Next, PrepareStep, MergerStep, SimulatorStep

LEMMA SeenInvStep == SimJobsInv /\ [Next]_vars => SeenInv'
<1> SUFFICES ASSUME SimJobsInv, [Next]_vars PROVE SeenInv'
  OBVIOUS
<1> USE SimJobsAssumption DEF prepareVars, jobVars, mergerVars, simulatorVars, collectVars,
  reportVars, SimJobsInv, TypeOK, SeenInv, MergerInv, Active, Equal
<1>1. ASSUME NEW p \in Proposals, TakeProposal(p) PROVE SeenInv'
  BY <1>1 DEF TakeProposal
<1>2. ASSUME NEW l \in Labels, CreatePendingJob(l) PROVE SeenInv'
  BY <1>2 DEF CreatePendingJob
<1>3. ASSUME NEW m \in Mergers, SendJob(m) PROVE SeenInv'
  BY <1>3 DEF SendJob
<1>4. ASSUME SendProposal PROVE SeenInv'
  BY <1>4 DEF SendProposal
<1>5. ASSUME CloseJobs PROVE SeenInv'
  BY <1>5 DEF CloseJobs
<1>6. ASSUME Append PROVE SeenInv'
  BY <1>6 DEF Append
<1>7. ASSUME FinalReport PROVE SeenInv'
  BY <1>7 DEF FinalReport
<1>8. ASSUME NEW m \in Mergers, KeepJob(m) PROVE SeenInv'
  BY <1>8 DEF KeepJob
<1>9. ASSUME NEW m \in Mergers, FindDuplicate(m) PROVE SeenInv'
  BY <1>9 DEF FindDuplicate
<1>10. ASSUME NEW m \in Mergers, MergersEnd(m) PROVE SeenInv'
  BY <1>10 DEF MergersEnd
<1>11. ASSUME NEW m \in Mergers, NEW s \in Simulators, SendKept(m, s) PROVE SeenInv'
  BY <1>11 DEF SendKept
<1>12. ASSUME NEW m \in Mergers, MergeLock(m) PROVE SeenInv'
  BY <1>12 DEF MergeLock
<1>13. ASSUME NEW m \in Mergers, ReplaceReference(m) PROVE SeenInv'
  BY <1>13 DEF ReplaceReference
<1>14. ASSUME NEW m \in Mergers, MergeNotify(m) PROVE SeenInv'
  BY <1>14 DEF MergeNotify, MergeDone, MergerReceives
<1>15. ASSUME NEW m \in Mergers, MergeAppend(m) PROVE SeenInv'
  <2>1. /\ merged' = merged \union {next[m]} /\ next[m] \notin seen
        /\ merger' = [merger EXCEPT ![m] = "receive"] /\ next' = [next EXCEPT ![m] = Nil]
        /\ UNCHANGED <<seen, resultPending, simulator, simJob>>
    BY <1>15, AppendEffect DEF MergeAppend, MergeDone, MergerReceives
  <2>2. merger[m] = "pass"
    BY <1>15 DEF MergeAppend
  <2> QED
    BY <2>1, <2>2
<1>16. ASSUME NEW s \in Simulators, SetResult(s) PROVE SeenInv'
  BY <1>16 DEF SetResult
<1>17. ASSUME NEW s \in Simulators, SetResultDone(s) PROVE SeenInv'
  BY <1>17 DEF SetResultDone
<1>18. ASSUME NEW s \in Simulators, SimulatorEnds(s) PROVE SeenInv'
  BY <1>18 DEF SimulatorEnds
<1>19. ASSUME NEW s \in Simulators, NEW p \in Proposals, NotifyOnResult(s, p) PROVE SeenInv'
  BY <1>19 DEF NotifyOnResult
<1>20. CASE UNCHANGED vars
  BY <1>20 DEF vars
<1> QED
  BY <1>1, <1>2, <1>3, <1>4, <1>5, <1>6, <1>7, <1>8, <1>9, <1>10, <1>11, <1>12, <1>13, <1>14,
     <1>15, <1>16, <1>17, <1>18, <1>19, <1>20 DEF Next, PrepareStep, MergerStep, SimulatorStep

LEMMA RefInvStep == SimJobsInv /\ [Next]_vars => RefInv'
<1> SUFFICES ASSUME SimJobsInv, [Next]_vars PROVE RefInv'
  OBVIOUS
<1> USE SimJobsAssumption DEF prepareVars, jobVars, mergerVars, simulatorVars, collectVars,
  reportVars, SimJobsInv, TypeOK, RefInv, MergerInv, SeenInv, PlaceInv, PrepareInv, Ref,
  Active, Equal, Uncreated
<1>1. ASSUME NEW p \in Proposals, TakeProposal(p) PROVE RefInv'
  BY <1>1 DEF TakeProposal
<1>2. ASSUME NEW l \in Labels, CreatePendingJob(l) PROVE RefInv'
  <2> HIDE DEF Ref, Uncreated
  <2>1. /\ seen' = seen /\ merged' = merged /\ merger' = merger /\ next' = next /\ found' = found
    BY <1>2 DEF CreatePendingJob
  <2>2. /\ <<proposal, l>> \notin seen /\ <<proposal, l>> \notin merged
        /\ \A n \in Mergers : Active(n) => next[n] # <<proposal, l>> /\ next[n] \in Jobs
    BY <1>2, CreateEffect
  <2>3. \A j \in Jobs : Ref(j)' \in seen' \/ Ref(j)' = Nil \/ Ref(j)' = j
    BY <2>1, <2>2, <1>2, CreateEffect
  <2>4. \A j \in Jobs : Ref(j)' \notin merged'
    BY <2>1, <2>2, <1>2, CreateEffect
  <2>5. \A j \in Jobs : Ref(j)' # Nil => Equal(Ref(j)', j)
    BY <2>1, <2>2, <1>2, CreateEffect
  <2>6. \A j \in Jobs : j \in seen' \/ j = sending' => Ref(j)' = j
    BY <2>1, <2>2, <1>2, CreateEffect
  <2>7. \A n \in Mergers : Active(n)' =>
          Ref(next[n])' = IF merger'[n] = "pass" THEN found'[n] ELSE next'[n]
    BY <2>1, <2>2, <1>2, CreateEffect
  <2> HIDE DEF Active, Equal
  <2> QED
    BY <2>1, <2>3, <2>4, <2>5, <2>6, <2>7 DEF RefInv, Equal
<1>3. ASSUME NEW m \in Mergers, SendJob(m) PROVE RefInv'
  BY <1>3 DEF SendJob
<1>4. ASSUME SendProposal PROVE RefInv'
  BY <1>4 DEF SendProposal
<1>5. ASSUME CloseJobs PROVE RefInv'
  BY <1>5 DEF CloseJobs
<1>6. ASSUME Append PROVE RefInv'
  BY <1>6 DEF Append
<1>7. ASSUME FinalReport PROVE RefInv'
  BY <1>7 DEF FinalReport
<1>8. ASSUME NEW m \in Mergers, KeepJob(m) PROVE RefInv'
  BY <1>8 DEF KeepJob
<1>9. ASSUME NEW m \in Mergers, FindDuplicate(m) PROVE RefInv'
  BY <1>9 DEF FindDuplicate
<1>10. ASSUME NEW m \in Mergers, MergersEnd(m) PROVE RefInv'
  BY <1>10 DEF MergersEnd
<1>11. ASSUME NEW m \in Mergers, NEW s \in Simulators, SendKept(m, s) PROVE RefInv'
  BY <1>11 DEF SendKept
<1>12. ASSUME NEW m \in Mergers, MergeLock(m) PROVE RefInv'
  BY <1>12 DEF MergeLock
<1>13. ASSUME NEW m \in Mergers, ReplaceReference(m) PROVE RefInv'
  <2> HIDE DEF Ref, Uncreated
  <2>1. /\ seen' = seen /\ merged' = merged /\ next' = next /\ found' = found
        /\ sending' = sending /\ merger[m] = "replace"
        /\ merger' = [merger EXCEPT ![m] = "pass"]
    BY <1>13 DEF ReplaceReference
  <2>2. /\ next[m] \notin seen /\ next[m] # sending /\ found[m] \notin merged
        /\ \A n \in Mergers : Active(n) /\ n # m => next[n] # next[m] /\ next[n] \in Jobs
    BY <2>1, <1>13, ReplaceEffect
  <2>3. ASSUME NEW j \in Jobs PROVE Ref(j)' \in seen' \/ Ref(j)' = Nil \/ Ref(j)' = j
    <3>1. found[m] \in seen /\ Ref(j)' = IF j = next[m] THEN found[m] ELSE Ref(j)
      BY <1>13, ReplaceEffect
    <3>2. Ref(j) \in seen \/ Ref(j) = Nil \/ Ref(j) = j
      OBVIOUS
    <3> QED
      BY <2>1, <3>1, <3>2
  <2>4. \A j \in Jobs : Ref(j)' \notin merged'
    BY <2>1, <2>2, <1>13, ReplaceEffect
  <2>5. \A j \in Jobs : Ref(j)' # Nil => Equal(Ref(j)', j)
    BY <2>1, <2>2, <1>13, ReplaceEffect
  <2>6. \A j \in Jobs : j \in seen' \/ j = sending' => Ref(j)' = j
    BY <2>1, <2>2, <1>13, ReplaceEffect
  <2>7. \A n \in Mergers : Active(n)' =>
          Ref(next[n])' = IF merger'[n] = "pass" THEN found'[n] ELSE next'[n]
    BY <2>1, <2>2, <1>13, ReplaceEffect
  <2> HIDE DEF Active, Equal
  <2> QED
    BY <2>1, <2>3, <2>4, <2>5, <2>6, <2>7 DEF RefInv, Equal
<1>14. ASSUME NEW m \in Mergers, MergeNotify(m) PROVE RefInv'
  BY <1>14 DEF MergeNotify, MergeDone, MergerReceives
<1>15. ASSUME NEW m \in Mergers, MergeAppend(m) PROVE RefInv'
  BY <1>15 DEF MergeAppend, MergeDone, MergerReceives
<1>16. ASSUME NEW s \in Simulators, SetResult(s) PROVE RefInv'
  BY <1>16 DEF SetResult
<1>17. ASSUME NEW s \in Simulators, SetResultDone(s) PROVE RefInv'
  BY <1>17 DEF SetResultDone
<1>18. ASSUME NEW s \in Simulators, SimulatorEnds(s) PROVE RefInv'
  BY <1>18 DEF SimulatorEnds
<1>19. ASSUME NEW s \in Simulators, NEW p \in Proposals, NotifyOnResult(s, p) PROVE RefInv'
  BY <1>19 DEF NotifyOnResult
<1>20. CASE UNCHANGED vars
  BY <1>20 DEF vars
<1> QED
  BY <1>1, <1>2, <1>3, <1>4, <1>5, <1>6, <1>7, <1>8, <1>9, <1>10, <1>11, <1>12, <1>13, <1>14,
     <1>15, <1>16, <1>17, <1>18, <1>19, <1>20 DEF Next, PrepareStep, MergerStep, SimulatorStep

LEMMA WaitInvStep == SimJobsInv /\ [Next]_vars => WaitInv'
<1> SUFFICES ASSUME SimJobsInv, [Next]_vars PROVE WaitInv'
  OBVIOUS
<1> USE SimJobsAssumption DEF prepareVars, jobVars, mergerVars, simulatorVars, collectVars,
  reportVars, SimJobsInv, TypeOK, WaitInv, MergerInv, SeenInv, Active
<1>1. ASSUME NEW p \in Proposals, TakeProposal(p) PROVE WaitInv'
  BY <1>1 DEF TakeProposal
<1>2. ASSUME NEW l \in Labels, CreatePendingJob(l) PROVE WaitInv'
  BY <1>2 DEF CreatePendingJob
<1>3. ASSUME NEW m \in Mergers, SendJob(m) PROVE WaitInv'
  BY <1>3 DEF SendJob
<1>4. ASSUME SendProposal PROVE WaitInv'
  BY <1>4 DEF SendProposal
<1>5. ASSUME CloseJobs PROVE WaitInv'
  BY <1>5 DEF CloseJobs
<1>6. ASSUME Append PROVE WaitInv'
  BY <1>6 DEF Append
<1>7. ASSUME FinalReport PROVE WaitInv'
  BY <1>7 DEF FinalReport
<1>8. ASSUME NEW m \in Mergers, KeepJob(m) PROVE WaitInv'
  BY <1>8 DEF KeepJob
<1>9. ASSUME NEW m \in Mergers, FindDuplicate(m) PROVE WaitInv'
  BY <1>9 DEF FindDuplicate
<1>10. ASSUME NEW m \in Mergers, MergersEnd(m) PROVE WaitInv'
  BY <1>10 DEF MergersEnd
<1>11. ASSUME NEW m \in Mergers, NEW s \in Simulators, SendKept(m, s) PROVE WaitInv'
  BY <1>11 DEF SendKept
<1>12. ASSUME NEW m \in Mergers, MergeLock(m) PROVE WaitInv'
  BY <1>12 DEF MergeLock
<1>13. ASSUME NEW m \in Mergers, ReplaceReference(m) PROVE WaitInv'
  BY <1>13 DEF ReplaceReference
<1>14. ASSUME NEW m \in Mergers, MergeNotify(m) PROVE WaitInv'
  BY <1>14 DEF MergeNotify, MergeDone, MergerReceives
<1>15. ASSUME NEW m \in Mergers, MergeAppend(m) PROVE WaitInv'
  <2>1. UNCHANGED <<seen, resultPending, simulator, simJob>>
    BY <1>15 DEF MergeAppend
  <2>2. \A j \in Jobs : j \notin seen' /\ j \notin merged' => multiPending'[j] = {j[1]}
    BY <2>1, <1>15, AppendEffect
  <2>3. \A j \in merged' : multiPending'[j] = {}
    BY <2>1, <1>15, AppendEffect
  <2>4. ASSUME NEW j \in resultPending'
        PROVE  \/ multiPending'[j] = {}
               \/ \E s \in Simulators : simulator'[s] = "notify" /\ simJob'[s] = j
    <3>1. j \in Jobs /\ j \in resultPending /\ j \in seen
      BY <2>1, <2>4
    <3>2. multiPending'[j] = multiPending[j]
      BY <3>1, <1>15, AppendEffect
    <3> QED
      BY <2>1, <3>1, <3>2
  <2> QED
    BY <2>2, <2>3, <2>4
<1>16. ASSUME NEW s \in Simulators, SetResult(s) PROVE WaitInv'
  BY <1>16 DEF SetResult
<1>17. ASSUME NEW s \in Simulators, SetResultDone(s) PROVE WaitInv'
  BY <1>17 DEF SetResultDone
<1>18. ASSUME NEW s \in Simulators, SimulatorEnds(s) PROVE WaitInv'
  BY <1>18 DEF SimulatorEnds
<1>19. ASSUME NEW s \in Simulators, NEW p \in Proposals, NotifyOnResult(s, p) PROVE WaitInv'
  <2>1. /\ simJob[s] \in resultPending /\ simJob[s] \in Jobs /\ simJob[s] \in seen /\ simulator[s] = "notify"
        /\ simJob[s] \notin merged
    BY <1>19 DEF NotifyOnResult
  <2>2. multiPending' = [multiPending EXCEPT ![simJob[s]] = @ \ {p}]
    BY <1>19 DEF NotifyOnResult
  <2>3. UNCHANGED <<seen, merged, resultPending, simulator, simJob>>
    BY <1>19 DEF NotifyOnResult
  <2> QED
    BY <2>1, <2>2, <2>3
<1>20. CASE UNCHANGED vars
  BY <1>20 DEF vars
<1> QED
  BY <1>1, <1>2, <1>3, <1>4, <1>5, <1>6, <1>7, <1>8, <1>9, <1>10, <1>11, <1>12, <1>13, <1>14,
     <1>15, <1>16, <1>17, <1>18, <1>19, <1>20 DEF Next, PrepareStep, MergerStep, SimulatorStep

LEMMA NotifyInvStep == SimJobsInv /\ [Next]_vars => NotifyInv'
<1> SUFFICES ASSUME SimJobsInv, [Next]_vars PROVE NotifyInv'
  OBVIOUS
<1>1. ASSUME NEW p \in Proposals, TakeProposal(p) PROVE NotifyInv'
  BY <1>1, NotifySame DEF TakeProposal, SimJobsInv, prepareVars, jobVars, mergerVars,
     simulatorVars, collectVars, reportVars
<1>2. ASSUME NEW l \in Labels, CreatePendingJob(l) PROVE NotifyInv'
  <2>1. ~(<<proposal, l>> \in seen) /\ ~(<<proposal, l>> \in merged)
    BY <1>2, CreateEffect DEF SimJobsInv, PlaceInv
  <2>2. multiPending[<<proposal, l>>] = {proposal} /\ <<proposal, l>>[1] = proposal
    BY <2>1, <1>2, CreateEffect DEF SimJobsInv, WaitInv
  <2>3. \A j \in Jobs : Waits(j)' <=> Waits(j)
    <3>1. UNCHANGED <<multiPending>>
      BY <1>2 DEF CreatePendingJob, jobVars
    <3>2. Ref(<<proposal, l>>) = Nil
      BY <1>2, CreateEffect DEF SimJobsInv, PlaceInv
    <3> QED
      BY <2>2, <3>1, <3>2, <1>2, CreateEffect DEF Waits
  <2>4. UNCHANGED <<ready, resultPending>>
    BY <1>2 DEF CreatePendingJob, jobVars
  <2>5. \A j \in Jobs : ~Waits(j) => Ref(j)' = Ref(j)
    BY <2>2, <1>2, CreateEffect DEF Waits, SimJobsInv, PlaceInv
  <2> QED
    BY <2>3, <2>4, <2>5, JobPair DEF SimJobsInv, NotifyInv
<1>3. ASSUME NEW m \in Mergers, SendJob(m) PROVE NotifyInv'
  BY <1>3, NotifySame DEF SendJob, SimJobsInv, prepareVars, jobVars, mergerVars,
     simulatorVars, collectVars, reportVars
<1>4. ASSUME SendProposal PROVE NotifyInv'
  BY <1>4, NotifySame DEF SendProposal, SimJobsInv, prepareVars, jobVars, mergerVars,
     simulatorVars, collectVars, reportVars
<1>5. ASSUME CloseJobs PROVE NotifyInv'
  BY <1>5, NotifySame DEF CloseJobs, SimJobsInv, prepareVars, jobVars, mergerVars,
     simulatorVars, collectVars, reportVars
<1>6. ASSUME Append PROVE NotifyInv'
  BY <1>6, NotifySame DEF Append, SimJobsInv, prepareVars, jobVars, mergerVars, simulatorVars,
     collectVars, reportVars
<1>7. ASSUME FinalReport PROVE NotifyInv'
  BY <1>7, NotifySame DEF FinalReport, SimJobsInv, prepareVars, jobVars, mergerVars,
     simulatorVars, collectVars, reportVars
<1>8. ASSUME NEW m \in Mergers, KeepJob(m) PROVE NotifyInv'
  BY <1>8, NotifySame DEF KeepJob, SimJobsInv, prepareVars, jobVars, mergerVars,
     simulatorVars, collectVars, reportVars
<1>9. ASSUME NEW m \in Mergers, FindDuplicate(m) PROVE NotifyInv'
  BY <1>9, NotifySame DEF FindDuplicate, SimJobsInv, prepareVars, jobVars, mergerVars,
     simulatorVars, collectVars, reportVars
<1>10. ASSUME NEW m \in Mergers, MergersEnd(m) PROVE NotifyInv'
  BY <1>10, NotifySame DEF MergersEnd, SimJobsInv, prepareVars, jobVars, mergerVars,
     simulatorVars, collectVars, reportVars
<1>11. ASSUME NEW m \in Mergers, NEW s \in Simulators, SendKept(m, s) PROVE NotifyInv'
  BY <1>11, NotifySame DEF SendKept, SimJobsInv, prepareVars, jobVars, mergerVars,
     simulatorVars, collectVars, reportVars
<1>12. ASSUME NEW m \in Mergers, MergeLock(m) PROVE NotifyInv'
  BY <1>12, NotifySame DEF MergeLock, SimJobsInv, prepareVars, jobVars, mergerVars,
     simulatorVars, collectVars, reportVars
<1>13. ASSUME NEW m \in Mergers, ReplaceReference(m) PROVE NotifyInv'
  <2>1. UNCHANGED <<multiPending, ready, resultPending>>
    BY <1>13 DEF ReplaceReference, jobVars
  <2>2. next[m] \in Jobs /\ multiPending[next[m]] = {next[m][1]}
    BY <1>13 DEF ReplaceReference, SimJobsInv, TypeOK, WaitInv, MergerInv, Active
  <2>3. \A j \in Jobs : Waits(j)' <=> Waits(j)
    BY <2>1, <2>2, <1>13, ReplaceEffect DEF Waits
  <2>4. \A j \in Jobs : ~Waits(j) => Ref(j)' = Ref(j)
    BY <2>2, <1>13, ReplaceEffect DEF Waits
  <2> QED
    BY <2>1, <2>3, <2>4, JobPair DEF SimJobsInv, NotifyInv
<1>14. ASSUME NEW m \in Mergers, MergeNotify(m) PROVE NotifyInv'
  <2>1. /\ next[m] \in Jobs /\ next[m] \notin seen /\ next[m] \notin merged
        /\ found[m] \in resultPending /\ found[m] # next[m] /\ next[m] # Nil
    BY <1>14, SimJobsAssumption DEF MergeNotify, SimJobsInv, TypeOK, MergerInv, SeenInv, Active
  <2>2. multiPending[next[m]] = {next[m][1]} /\ Ref(next[m]) = found[m]
    BY <2>1, <1>14 DEF MergeNotify, SimJobsInv, WaitInv, RefInv, Active
  <2>3. \A j \in Jobs : Ref(j) # next[m]
    BY <2>1, <2>2 DEF SimJobsInv, RefInv
  <2>4. /\ UNCHANGED <<simPendingZ, resultPending>>
        /\ multiPending' = [multiPending EXCEPT ![next[m]] = {}]
        /\ multiPending \in [Jobs -> SUBSET Proposals]
        /\ \A p \in Proposals : ready'[p] = (ready[p] \/ (p \in multiPending[next[m]] /\ AllReady(p)))
    BY <1>14 DEF MergeNotify, SimJobsInv, TypeOK
  <2>5. \A j \in Jobs : Ref(j)' = Ref(j)
    BY <2>4 DEF Ref
  <2>6. \A j \in Jobs : j # next[m] => (Waits(j)' <=> Waits(j))
    <3> SUFFICES ASSUME NEW j \in Jobs, j # next[m] PROVE Waits(j)' <=> Waits(j)
      OBVIOUS
    <3>1. multiPending'[j] = multiPending[j]
      BY <2>4
    <3>2. Ref(j) = Nil \/ (Ref(j) \in Jobs /\ multiPending'[Ref(j)] = multiPending[Ref(j)])
      BY <2>3, <2>4, JobPair DEF Ref, SimJobsInv, TypeOK
    <3> QED
      BY <2>5, <3>1, <3>2 DEF Waits
  <2>7. \A j \in Jobs : ~Waits(j)' => Ref(j)' \in resultPending'
    BY <2>1, <2>2, <2>4, <2>5, <2>6 DEF SimJobsInv, NotifyInv
  <2>8. ASSUME NEW p \in Proposals PROVE ready'[p] \/ \E l \in Labels : Waits(<<p, l>>)'
    <3>1. CASE ready[p]
      BY <3>1, <2>4
    <3>2. CASE ~ready[p] /\ p # next[m][1]
      BY <3>2, <2>6, JobPair DEF SimJobsInv, NotifyInv
    <3>3. CASE ~ready[p] /\ p = next[m][1] /\ AllReady(p)
      BY <3>3, <2>2, <2>4
    <3>4. CASE ~ready[p] /\ p = next[m][1] /\ ~AllReady(p)
      <4>1. PICK l \in Labels : Ref(<<p, l>>) # Nil /\ Ref(<<p, l>>) \notin resultPending
        BY <3>4, JobPair DEF AllReady, Ref
      <4>2. <<p, l>> \in Jobs /\ <<p, l>> # next[m]
        BY <4>1, <2>1, <2>2, JobPair
      <4> QED
        BY <4>1, <4>2, <2>6 DEF SimJobsInv, NotifyInv
    <3> QED
      BY <3>1, <3>2, <3>3, <3>4
  <2> QED
    BY <2>7, <2>8 DEF NotifyInv
<1>15. ASSUME NEW m \in Mergers, MergeAppend(m) PROVE NotifyInv'
  <2>1. /\ UNCHANGED <<simPendingZ, ready, resultPending>> /\ merger[m] = "pass"
    BY <1>15 DEF MergeAppend
  <2>2. Ref(next[m]) = found[m]
    BY <2>1 DEF SimJobsInv, RefInv, Active
  <2>3. \A j \in Jobs : Ref(j)' = Ref(j) /\ (Ref(j) = Nil \/ Ref(j) \in Jobs) /\ Ref(j) # next[m]
    <3>1. \A j \in Jobs : Ref(j)' = Ref(j) /\ (Ref(j) = Nil \/ Ref(j) \in Jobs)
      BY <2>1, JobPair DEF Ref, SimJobsInv, TypeOK
    <3>2. next[m] # Nil
      BY <1>15, AppendEffect, SimJobsAssumption
    <3> QED
      BY <2>2, <3>1, <3>2, <1>15, AppendEffect DEF SimJobsInv, RefInv
  <2>4. \A j \in Jobs : Waits(j) => Waits(j)'
    BY <2>2, <2>3, <1>15, AppendEffect DEF Waits
  <2> QED
    BY <2>1, <2>3, <2>4, JobPair DEF SimJobsInv, NotifyInv
<1>16. ASSUME NEW s \in Simulators, SetResult(s) PROVE NotifyInv'
  <2>1. UNCHANGED <<simPendingZ, multiPending, ready>> /\ resultPending \subseteq resultPending'
    BY <1>16 DEF SetResult
  <2>2. \A j \in Jobs : Ref(j)' = Ref(j) /\ (Waits(j)' <=> Waits(j))
    BY <2>1 DEF Waits, Ref
  <2> QED
    BY <2>1, <2>2, JobPair DEF SimJobsInv, NotifyInv
<1>17. ASSUME NEW s \in Simulators, SetResultDone(s) PROVE NotifyInv'
  BY <1>17, NotifySame DEF SetResultDone, SimJobsInv, prepareVars, jobVars, mergerVars,
     simulatorVars, collectVars, reportVars
<1>18. ASSUME NEW s \in Simulators, SimulatorEnds(s) PROVE NotifyInv'
  BY <1>18, NotifySame DEF SimulatorEnds, SimJobsInv, prepareVars, jobVars, mergerVars,
     simulatorVars, collectVars, reportVars
<1>19. ASSUME NEW s \in Simulators, NEW p \in Proposals, NotifyOnResult(s, p) PROVE NotifyInv'
  <2>1. /\ simJob[s] \in resultPending /\ simJob[s] \in Jobs /\ simJob[s] \in seen
    BY <1>19 DEF NotifyOnResult, SimJobsInv, TypeOK, SeenInv
  <2>2. /\ UNCHANGED <<simPendingZ, resultPending>>
        /\ multiPending' = [multiPending EXCEPT ![simJob[s]] = multiPending[simJob[s]] \ {p}]
        /\ multiPending \in [Jobs -> SUBSET Proposals]
        /\ \A q \in Proposals : ready'[q] = IF q = p THEN ready[p] \/ AllReady(p) ELSE ready[q]
    BY <1>19 DEF NotifyOnResult, SimJobsInv, TypeOK
  <2>3. \A j \in Jobs : Ref(j)' = Ref(j) /\ (Ref(j) = Nil \/ Ref(j) \in Jobs)
    BY <2>2, JobPair DEF Ref, SimJobsInv, TypeOK
  <2>4. \A j \in Jobs : Waits(j) => Waits(j)' \/ (j[1] = p /\ (j = simJob[s] \/ Ref(j) = simJob[s]))
    BY <2>1, <2>2, <2>3 DEF Waits
  <2>5. \A j \in Jobs : j = simJob[s] => Ref(j) = simJob[s]
    BY <2>1 DEF SimJobsInv, RefInv
  <2>6. \A j \in Jobs : ~Waits(j)' => Ref(j)' \in resultPending'
    BY <2>1, <2>2, <2>3, <2>4, <2>5 DEF SimJobsInv, NotifyInv
  <2>7. ASSUME NEW q \in Proposals PROVE ready'[q] \/ \E l \in Labels : Waits(<<q, l>>)'
    <3>1. CASE q # p
      BY <3>1, <2>2, <2>4, JobPair DEF SimJobsInv, NotifyInv
    <3>2. CASE q = p /\ AllReady(p)
      BY <3>2, <2>2
    <3>3. CASE q = p /\ ~AllReady(p)
      <4>1. PICK l \in Labels : Ref(<<p, l>>) # Nil /\ Ref(<<p, l>>) \notin resultPending
        BY <3>3, JobPair DEF AllReady, Ref
      <4> QED
        BY <3>3, <4>1, <2>1, <2>4, <2>5, JobPair DEF SimJobsInv, NotifyInv
    <3> QED
      BY <3>1, <3>2, <3>3
  <2> QED
    BY <2>6, <2>7 DEF NotifyInv
<1>20. CASE UNCHANGED vars
  BY <1>20, NotifySame DEF vars, SimJobsInv, prepareVars, jobVars, mergerVars, simulatorVars,
     collectVars, reportVars
<1> QED
  BY <1>1, <1>2, <1>3, <1>4, <1>5, <1>6, <1>7, <1>8, <1>9, <1>10, <1>11, <1>12, <1>13, <1>14,
     <1>15, <1>16, <1>17, <1>18, <1>19, <1>20 DEF Next, PrepareStep, MergerStep, SimulatorStep

\* When all simulators have ended, every job has come to its end: each proposal
\* refers to jobs with results and was told of the last of them.
LEMMA Finished ==
  ASSUME SimJobsInv, \A s \in Simulators : simulator[s] = "done"
  PROVE  /\ prepare = "closed" /\ todo = {}
         /\ \A p \in Proposals : ready[p] /\ HasAllResults(p)
<1>1. \A m \in Mergers : merger[m] = "done"
  BY SimJobsAssumption DEF SimJobsInv, SeenInv
<1>2. prepare = "closed"
  BY <1>1, SimJobsAssumption DEF SimJobsInv, MergerInv
<1>3. todo = {} /\ labels = {} /\ sending = Nil
  BY <1>2 DEF SimJobsInv, PrepareInv
<1>4. ASSUME NEW j \in Jobs PROVE Ref(j) # Nil /\ (j \in seen \/ j \in merged)
  BY <1>1, <1>3, SimJobsAssumption DEF SimJobsInv, PlaceInv, Uncreated, Active
<1>5. ASSUME NEW j \in Jobs PROVE Ref(j) \in resultPending
  BY <1>1, <1>4 DEF SimJobsInv, RefInv, SeenInv
<1>6. ASSUME NEW j \in seen PROVE multiPending[j] = {}
  BY <1>1 DEF SimJobsInv, SeenInv, WaitInv
<1>7. ASSUME NEW j \in Jobs PROVE ~Waits(j)
  BY <1>4, <1>5, <1>6 DEF Waits, SimJobsInv, SeenInv, WaitInv
<1>8. ASSUME NEW p \in Proposals PROVE ready[p] /\ HasAllResults(p)
  <2>1. ready[p]
    BY <1>7, JobPair DEF SimJobsInv, NotifyInv
  <2>2. ASSUME NEW l \in Labels PROVE simPendingZ[p][l] \in resultPending
    <3>1. Ref(<<p, l>>) \in resultPending
      BY <1>5, JobPair
    <3> QED
      BY <3>1, JobPair DEF Ref
  <2> QED
    BY <2>1, <2>2 DEF HasAllResults
<1> QED
  BY <1>2, <1>3, <1>8

LEMMA ReportInvStep == SimJobsInv /\ [Next]_vars => ReportInv'
<1> SUFFICES ASSUME SimJobsInv, [Next]_vars PROVE ReportInv'
  OBVIOUS
<1> USE SimJobsAssumption DEF prepareVars, jobVars, mergerVars, simulatorVars, collectVars,
  reportVars, SimJobsInv, TypeOK, ReportInv
<1>1. ASSUME NEW p \in Proposals, TakeProposal(p) PROVE ReportInv'
  BY <1>1 DEF TakeProposal
<1>2. ASSUME NEW l \in Labels, CreatePendingJob(l) PROVE ReportInv'
  BY <1>2 DEF CreatePendingJob
<1>3. ASSUME NEW m \in Mergers, SendJob(m) PROVE ReportInv'
  BY <1>3 DEF SendJob
<1>4. ASSUME SendProposal PROVE ReportInv'
  BY <1>4 DEF SendProposal
<1>5. ASSUME CloseJobs PROVE ReportInv'
  BY <1>5 DEF CloseJobs
<1>6. ASSUME Append PROVE ReportInv'
  BY <1>6 DEF Append
<1>7. ASSUME FinalReport PROVE ReportInv'
  <2>1. \A q \in Proposals : ready[q] /\ HasAllResults(q)
    BY <1>7, Finished DEF FinalReport
  <2>2. prepare = "closed" /\ todo = {}
    BY <1>7, Finished DEF FinalReport
  <2>3. Proposals \ slice \subseteq {arriving}
    BY <2>2 DEF SentInv
  <2>4. report' = "done" /\ final' = slice
    BY <2>1, <1>7 DEF FinalReport
  <2> QED
    BY <2>3, <2>4
<1>8. ASSUME NEW m \in Mergers, KeepJob(m) PROVE ReportInv'
  BY <1>8 DEF KeepJob
<1>9. ASSUME NEW m \in Mergers, FindDuplicate(m) PROVE ReportInv'
  BY <1>9 DEF FindDuplicate
<1>10. ASSUME NEW m \in Mergers, MergersEnd(m) PROVE ReportInv'
  BY <1>10 DEF MergersEnd
<1>11. ASSUME NEW m \in Mergers, NEW s \in Simulators, SendKept(m, s) PROVE ReportInv'
  BY <1>11 DEF SendKept
<1>12. ASSUME NEW m \in Mergers, MergeLock(m) PROVE ReportInv'
  BY <1>12 DEF MergeLock
<1>13. ASSUME NEW m \in Mergers, ReplaceReference(m) PROVE ReportInv'
  BY <1>13 DEF ReplaceReference
<1>14. ASSUME NEW m \in Mergers, MergeNotify(m) PROVE ReportInv'
  BY <1>14 DEF MergeNotify, MergeDone, MergerReceives
<1>15. ASSUME NEW m \in Mergers, MergeAppend(m) PROVE ReportInv'
  BY <1>15 DEF MergeAppend, MergeDone, MergerReceives
<1>16. ASSUME NEW s \in Simulators, SetResult(s) PROVE ReportInv'
  BY <1>16 DEF SetResult
<1>17. ASSUME NEW s \in Simulators, SetResultDone(s) PROVE ReportInv'
  BY <1>17 DEF SetResultDone
<1>18. ASSUME NEW s \in Simulators, SimulatorEnds(s) PROVE ReportInv'
  BY <1>18 DEF SimulatorEnds
<1>19. ASSUME NEW s \in Simulators, NEW p \in Proposals, NotifyOnResult(s, p) PROVE ReportInv'
  BY <1>19 DEF NotifyOnResult
<1>20. CASE UNCHANGED vars
  BY <1>20 DEF vars
<1> QED
  BY <1>1, <1>2, <1>3, <1>4, <1>5, <1>6, <1>7, <1>8, <1>9, <1>10, <1>11, <1>12, <1>13, <1>14,
     <1>15, <1>16, <1>17, <1>18, <1>19, <1>20 DEF Next, PrepareStep, MergerStep, SimulatorStep

LEMMA SimJobsInit == Init => SimJobsInv
<1> SUFFICES ASSUME Init PROVE SimJobsInv
  OBVIOUS
<1> USE SimJobsAssumption DEF Init
<1>1. TypeOK
  BY DEF TypeOK, Jobs
<1>2. PrepareInv /\ SentInv
  BY DEF PrepareInv, SentInv
<1>3. PlaceInv
  BY JobPair DEF PlaceInv, Uncreated, Active, Ref
<1>4. MergerInv /\ SeenInv /\ ReportInv
  BY DEF MergerInv, SeenInv, ReportInv, Active
<1>5. RefInv
  BY JobPair DEF RefInv, Active, Ref
<1>6. WaitInv
  BY DEF WaitInv
<1>7. NotifyInv
  BY JobPair DEF NotifyInv, Waits, Ref
<1> QED
  BY <1>1, <1>2, <1>3, <1>4, <1>5, <1>6, <1>7 DEF SimJobsInv

LEMMA SimJobsInvariant == Spec => []SimJobsInv
<1>1. SimJobsInv /\ [Next]_vars => SimJobsInv'
  BY TypeOKStep, PrepareInvStep, SentInvStep, PlaceInvStep, MergerInvStep, SeenInvStep,
     RefInvStep, WaitInvStep, NotifyInvStep, ReportInvStep DEF SimJobsInv
<1> QED
  BY SimJobsInit, <1>1, PTL DEF Spec

\* The variables of prepareSimList, the mergers, the simulators and the report
\* keep their types.
THEOREM SimJobsTypes == Spec => []TypeOK
<1>1. SimJobsInv => TypeOK
  BY DEF SimJobsInv
<1> QED
  BY <1>1, SimJobsInvariant, PTL

\* Of equal jobs one is simulated, whichever merger meets them, no merged job
\* is, and a proposal is given for a label only a result of its own gear.
THEOREM MergingIsRight == Spec => []MergedRight
<1>1. SimJobsInv => OncePerJob
  <2> SUFFICES ASSUME SimJobsInv PROVE OncePerJob
    OBVIOUS
  <2>1. Simulated \subseteq seen
    BY DEF SimJobsInv, TypeOK, SeenInv, Simulated
  <2>2. ASSUME NEW p \in Proposals, NEW l \in Labels PROVE simPendingZ[p][l] \notin merged
    <3>1. Ref(<<p, l>>) \notin merged
      BY JobPair DEF SimJobsInv, RefInv
    <3> QED
      BY <3>1, JobPair DEF Ref
  <2> QED
    BY <2>1, <2>2 DEF SimJobsInv, SeenInv, OncePerJob, SimulatedOnce, MergedHasNoResult
<1>2. SimJobsInv => OwnResults
  BY JobPair DEF SimJobsInv, RefInv, Ref, OwnResults
<1>3. SimJobsInv => MergedRight
  BY <1>1, <1>2 DEF MergedRight
<1> QED
  BY <1>3, SimJobsInvariant, PTL

\* No proposal is reported in part, and the final report lacks none of them but
\* the one the collector has received and not appended.
THEOREM ReportIsComplete == Spec => []ReportComplete
<1>1. SimJobsInv => ReportedWhole
  <2> SUFFICES ASSUME SimJobsInv, NEW p \in slice \union {arriving}, p # Nil, NEW l \in Labels
               PROVE  simPendingZ[p][l] # Nil
    BY DEF ReportedWhole
  <2>1. p \in Proposals /\ p \notin todo /\ (p = proposal => labels = {})
    BY DEF SimJobsInv, TypeOK, SentInv, PrepareInv
  <2>2. <<p, l>> \in Jobs /\ ~Uncreated(<<p, l>>)
    BY <2>1, JobPair DEF Uncreated
  <2>3. Ref(<<p, l>>) # Nil
    BY <2>2 DEF SimJobsInv, PlaceInv
  <2> QED
    BY <2>1, <2>3, JobPair DEF Ref
<1>2. SimJobsInv => FinalComplete
  BY Finished DEF FinalComplete, SimJobsInv, TypeOK, ReportInv
<1>3. SimJobsInv => LeavesOutLast
  <2> SUFFICES ASSUME SimJobsInv, report = "done" PROVE Cardinality(Proposals \ final) <= 1
    BY DEF LeavesOutLast
  <2>1. PICK x : Proposals \ final \subseteq {x}
    BY DEF SimJobsInv, ReportInv
  <2>2. IsFiniteSet({x}) /\ Cardinality({x}) = 1
    BY FS_Singleton
  <2>3. /\ IsFiniteSet(Proposals \ final)
        /\ Cardinality(Proposals \ final) <= Cardinality({x})
    BY <2>1, <2>2, FS_Subset
  <2> QED
    BY <2>2, <2>3
<1>4. SimJobsInv => ReportComplete
  BY <1>1, <1>2, <1>3 DEF ReportComplete
<1> QED
  BY <1>4, SimJobsInvariant, PTL
\* Who holds a mutex: a merger at the end of a merge, a simulator that notifies,
\* and of the lock of seen a merger that sends.
LockInv ==
  /\ seenLock = Free \/ merger[seenLock] = "send"
  /\ \A j \in Jobs :
       \/ jobMutex[j] = Free
       \/ /\ jobMutex[j] \in Mergers /\ merger[jobMutex[j]] \in {"replace", "pass"}
          /\ j \in {next[jobMutex[j]], found[jobMutex[j]]}
       \/ /\ jobMutex[j] \in Simulators /\ simulator[jobMutex[j]] = "notify"
          /\ j = simJob[jobMutex[j]]

LEMMA LockInvStep == SimJobsInv /\ LockInv /\ [Next]_vars => LockInv'
<1> SUFFICES ASSUME SimJobsInv, TypeOK, LockInv, [Next]_vars PROVE LockInv'
  BY DEF SimJobsInv
<1> USE SimJobsAssumption DEF prepareVars, jobVars, mergerVars, simulatorVars, collectVars,
  reportVars, TypeOK, LockInv
<1>1. ASSUME NEW p \in Proposals, TakeProposal(p) PROVE LockInv'
  BY <1>1 DEF TakeProposal
<1>2. ASSUME NEW l \in Labels, CreatePendingJob(l) PROVE LockInv'
  BY <1>2 DEF CreatePendingJob
<1>3. ASSUME NEW m \in Mergers, SendJob(m) PROVE LockInv'
  BY <1>3 DEF SendJob
<1>4. ASSUME SendProposal PROVE LockInv'
  BY <1>4 DEF SendProposal
<1>5. ASSUME CloseJobs PROVE LockInv'
  BY <1>5 DEF CloseJobs
<1>6. ASSUME Append PROVE LockInv'
  BY <1>6 DEF Append
<1>7. ASSUME FinalReport PROVE LockInv'
  BY <1>7 DEF FinalReport
<1>8. ASSUME NEW m \in Mergers, KeepJob(m) PROVE LockInv'
  BY <1>8 DEF KeepJob
<1>9. ASSUME NEW m \in Mergers, FindDuplicate(m) PROVE LockInv'
  BY <1>9 DEF FindDuplicate
<1>10. ASSUME NEW m \in Mergers, MergersEnd(m) PROVE LockInv'
  BY <1>10 DEF MergersEnd
<1>11. ASSUME NEW m \in Mergers, NEW s \in Simulators, SendKept(m, s) PROVE LockInv'
  BY <1>11 DEF SendKept
<1>12. ASSUME NEW m \in Mergers, MergeLock(m) PROVE LockInv'
  BY <1>12 DEF MergeLock
<1>13. ASSUME NEW m \in Mergers, ReplaceReference(m) PROVE LockInv'
  BY <1>13 DEF ReplaceReference
<1>14. ASSUME NEW m \in Mergers, MergeNotify(m) PROVE LockInv'
  BY <1>14 DEF MergeNotify, MergeDone, MergerReceives
<1>15. ASSUME NEW m \in Mergers, MergeAppend(m) PROVE LockInv'
  BY <1>15 DEF MergeAppend, MergeDone, MergerReceives
<1>16. ASSUME NEW s \in Simulators, SetResult(s) PROVE LockInv'
  <2>1. /\ simulator[s] = "run" /\ simJob[s] \in Jobs /\ jobMutex[simJob[s]] = Free
        /\ jobMutex' = [jobMutex EXCEPT ![simJob[s]] = s]
        /\ UNCHANGED <<seenLock, merger, next, found, simJob>>
        /\ \A z \in Simulators : z # s => simulator'[z] = simulator[z]
    BY <1>16 DEF SetResult
  <2>2. simulator'[s] = "notify"
    BY <1>16 DEF SetResult, SimJobsInv, SeenInv
  <2>3. ASSUME NEW j \in Jobs, j # simJob[s] PROVE jobMutex'[j] = jobMutex[j] /\ jobMutex[j] # s
    BY <2>1, <2>3
  <2> QED
    BY <2>1, <2>2, <2>3
<1>17. ASSUME NEW s \in Simulators, SetResultDone(s) PROVE LockInv'
  BY <1>17 DEF SetResultDone
<1>18. ASSUME NEW s \in Simulators, SimulatorEnds(s) PROVE LockInv'
  BY <1>18 DEF SimulatorEnds
<1>19. ASSUME NEW s \in Simulators, NEW p \in Proposals, NotifyOnResult(s, p) PROVE LockInv'
  BY <1>19 DEF NotifyOnResult
<1>20. CASE UNCHANGED vars
  BY <1>20 DEF vars
<1> QED
  BY <1>1, <1>2, <1>3, <1>4, <1>5, <1>6, <1>7, <1>8, <1>9, <1>10, <1>11, <1>12, <1>13, <1>14,
     <1>15, <1>16, <1>17, <1>18, <1>19, <1>20 DEF Next, PrepareStep, MergerStep, SimulatorStep

\* Goroutines wait for each other in one direction only: simulators for mergers
\* that merge, mergers for simulators, prepareSimList for mergers.
LEMMA NobodyWaitsForAll == SimJobsInv /\ LockInv => NeverStuck
<1> SUFFICES ASSUME SimJobsInv, LockInv, report # "done", ~SomeoneGoesOn PROVE FALSE
  BY DEF NeverStuck
<1>1. TypeOK /\ report = "wait"
  BY DEF SimJobsInv, TypeOK, ReportInv
<1>2. prepare \in {"send", "closed"}
  BY <1>1 DEF TypeOK, SomeoneGoesOn
<1>3. \A s \in Simulators : simulator[s] \in {"receive", "run", "done"}
  BY <1>1 DEF SimJobsInv, SeenInv, TypeOK, SomeoneGoesOn
<1>4. \A m \in Mergers : merger[m] \in {"receive", "lock", "send", "merge", "done"}
  BY <1>1 DEF TypeOK, SomeoneGoesOn
<1>5. \A j \in Jobs : jobMutex[j] = Free
  BY <1>1, <1>3, <1>4, SimJobsAssumption DEF TypeOK, LockInv
<1>6. \A s \in Simulators : simulator[s] \in {"receive", "done"}
  BY <1>1, <1>3, <1>5 DEF TypeOK, SomeoneGoesOn
<1>7. \A m \in Mergers : merger[m] # "merge"
  BY <1>1, <1>5 DEF TypeOK, SomeoneGoesOn
<1>8. \A m \in Mergers : merger[m] # "send"
  <2> SUFFICES ASSUME NEW m \in Mergers, merger[m] = "send" PROVE FALSE
    OBVIOUS
  <2>1. \A s \in Simulators : simulator[s] # "receive"
    BY DEF SomeoneGoesOn
  <2>2. PICK s \in Simulators : simulator[s] = "done"
    BY <1>6, <2>1, SimJobsAssumption
  <2> QED
    BY <2>2 DEF SimJobsInv, SeenInv
<1>9. \A m \in Mergers : merger[m] \in {"receive", "done"}
  <2>1. seenLock = Free
    BY <1>1, <1>8, SimJobsAssumption DEF TypeOK, LockInv
  <2> QED
    BY <1>4, <1>7, <1>8, <2>1 DEF SomeoneGoesOn
<1>10. \A m \in Mergers : merger[m] = "done"
  <2>1. CASE prepare = "send"
    <3>1. \A m \in Mergers : merger[m] # "receive"
      BY <2>1 DEF SomeoneGoesOn
    <3> QED
      BY <1>9, <3>1
  <2>2. CASE prepare = "closed"
    BY <1>9, <2>2 DEF SomeoneGoesOn
  <2> QED
    BY <1>2, <2>1, <2>2
<1>11. \A s \in Simulators : simulator[s] = "done"
  BY <1>6, <1>10 DEF SomeoneGoesOn
<1> QED
  BY <1>1, <1>11 DEF SomeoneGoesOn

\* Until the report is done some goroutine can go on, however many mergers and
\* simulators there are, and with whatever mutexes they hold.
THEOREM PipelineDrains == Spec => []NeverStuck
<1>1. Init => LockInv
  BY DEF Init, LockInv
<1>2. SimJobsInv /\ LockInv /\ [Next]_vars => LockInv'
  BY LockInvStep
<1> QED
  BY <1>1, <1>2, SimJobsInvariant, NobodyWaitsForAll, PTL DEF Spec
=============================================================================
