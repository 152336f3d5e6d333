------------------------ MODULE MultiSetSolve_proofs ------------------------
(***************************************************************************)
(* Proofs about MultiSetSolve, for any number of variants and threads: the *)
(* types, that nobody sends on the closed channel of a job that was not    *)
(* cancelled, that its reader gets what it was told to expect, and that a  *)
(* cancellation reaches every run a thread waits for.                      *)
(*                                                                         *)
(* The inductive invariant says of a run how its solver, its mapper and    *)
(* its futures stand to each other (RunInv), that without a cancellation   *)
(* no future ends as cancelled or empty (OpenInv), that a run is in the    *)
(* hands of a thread until its end was taken note of (HeldInv), and that   *)
(* the variants still planned and those started are the expected ones      *)
(* (CountInv).                                                             *)
(***************************************************************************)
EXTENDS MultiSetSolve, FiniteSetTheorems, TLAPS

\* A thread works on the variant.
Held(b) == \E t \in Threads : thread[t] # "idle" /\ block[t] = b

\* A handler of the signal cancels the run.
Chained(r) == \E i \in 1 .. Len(chained) : chained[i] = r

\* The runs of which expectedCount told, as long as none was passed over.
Counted == {Initial} \union plan \union {b \in Blocks : outer[b] # "none"}

\* How the goroutines and the futures of a run stand to each other.
RunInv ==
  \A r \in Runs :
    /\ outer[r] = "none" <=> solver[r] = "none"
    /\ outer[r] = "none" <=> mapper[r] = "none"
    /\ inner[r] = "solved" => solver[r] = "done"
    /\ outer[r] \in {"error", "value"} => inner[r] = "solved" /\ mapper[r] = "done"
    /\ mapper[r] \in {"send", "set"} => r = Initial /\ inner[r] = "solved"
    /\ mapper[r] = "done" => outer[r] # "open"

\* Only a cancellation ends a future as cancelled or empty.
OpenInv ==
  signal = "open" =>
    /\ interrupting = {}
    /\ \A r \in Runs : inner[r] # "cancelled" /\ outer[r] \notin {"cancelled", "empty"}

\* What the callbacks of Run know of the first run.
MainInv ==
  /\ outer[Initial] = "none" <=> main = "start"
  /\ main \in {"variants", "close"} => outer[Initial] = "value"
  /\ main = "failed" => outer[Initial] # "value"
  /\ main \in {"failed", "ended"} => outer[Initial] # "open"
  /\ main = "ended" /\ outer[Initial] = "error" => Initial \in errors
  /\ closed <=> main \in {"failed", "ended"}

\* The variants and the threads of the group.
GroupInv ==
  /\ main \in {"start", "chain", "wait"} \/ outer[Initial] # "value" =>
       plan = {} /\ \A b \in Blocks : outer[b] = "none"
  /\ feeding => main = "variants"
  /\ feeding \/ plan = {} \/ signal = "closed"
  /\ \A b \in plan : outer[b] = "none"
  /\ \A t \in Threads : thread[t] # "idle" => main = "variants" /\ outer[block[t]] # "none"
  /\ \A t \in Threads : thread[t] = "send" => outer[block[t]] = "value"
  /\ ~shouldContinue => groupErrors # {}
  /\ main # "variants" => groupErrors \subseteq errors

\* A run's end is noted, or a thread has it in its hands.
HeldInv ==
  /\ \A b \in Blocks : outer[b] = "open" => Held(b)
  /\ \A b \in Blocks : outer[b] = "error" => b \in groupErrors \/ Held(b)
  /\ \A b \in Blocks : outer[b] = "value" => b \in finals \/ Held(b) \/ panicked
  /\ mapper[Initial] = "set" \/ outer[Initial] = "value" => Initial \in finals \/ panicked
  /\ \A r \in finals : outer[r] # "none"

\* The count that was told is that of the runs.
CountInv ==
  main \in {"variants", "close", "ended"} /\ outer[Initial] = "value" /\ groupErrors = {} =>
    expected = Cardinality(Counted)

\* A thread waits for a run that has ended or that the signal's handlers cancel.
ChainedInv ==
  \A t \in Threads :
    thread[t] = "wait" /\ outer[block[t]] = "open" => signal # "closed" /\ Chained(block[t])

SolveInv ==
  /\ TypeOK /\ RunInv /\ OpenInv /\ MainInv /\ GroupInv /\ HeldInv /\ CountInv /\ ChainedInv
  /\ ClosedLast

\* The variants that are chosen, with the first run, are as many as expected.
LEMMA FirstSolvedEffect ==
  ASSUME SolveInv, NEW target \in Targets, FirstSolved(target)
  PROVE  /\ plan' \subseteq Blocks /\ IsFiniteSet(plan')
         /\ expected' = Cardinality(plan') + 1 /\ expected' \in Nat
         /\ Cardinality({Initial} \union plan') = expected'
<1>1. plan' \subseteq Blocks /\ expected' = Cardinality(plan') + 1
  BY DEF FirstSolved, kSubset
<1>2. IsFiniteSet(plan')
  BY <1>1, SolveAssumption, FS_Subset
<1>3. Cardinality(plan') \in Nat
  BY <1>2, FS_CardinalityType
<1>4. Initial \notin plan'
  BY <1>1, SolveAssumption
<1>5. Cardinality(plan' \union {Initial}) = Cardinality(plan') + 1
  BY <1>2, <1>4, FS_AddElement
<1>6. plan' \union {Initial} = {Initial} \union plan'
  OBVIOUS
<1> QED
  BY <1>1, <1>2, <1>3, <1>5, <1>6

\* Neither the end of a run nor its being taken changes what is counted.
LEMMA CountedSame ==
  plan' = plan /\ (\A b \in Blocks : outer'[b] = "none" <=> outer[b] = "none") =>
    Counted' = Counted
  BY DEF Counted

LEMMA TypeOKStep == SolveInv /\ [Next]_vars => TypeOK'
<1> SUFFICES ASSUME SolveInv, [Next]_vars PROVE TypeOK'
  OBVIOUS
<1> USE SolveAssumption DEF Runs, cancelVars, runVars, groupVars, resultVars, SolveInv, TypeOK
<1>1. ASSUME Cancel, ~panicked PROVE TypeOK'
  BY <1>1 DEF Cancel
<1>2. ASSUME HandleNext, ~panicked PROVE TypeOK'
  BY <1>2 DEF HandleNext, CancelOuter
<1>3. ASSUME HandleDone, ~panicked PROVE TypeOK'
  BY <1>3 DEF HandleDone
<1>4. ASSUME CancelDone, ~panicked PROVE TypeOK'
  BY <1>4 DEF CancelDone
<1>5. ASSUME NEW r \in Runs, CancelInner(r), ~panicked PROVE TypeOK'
  BY <1>5 DEF CancelInner
<1>6. ASSUME Start, ~panicked PROVE TypeOK'
  BY <1>6 DEF Start, StartRun
<1>7. ASSUME ChainFirst, ~panicked PROVE TypeOK'
  BY <1>7 DEF ChainFirst
<1>8. ASSUME ChainFirstLate, ~panicked PROVE TypeOK'
  BY <1>8 DEF ChainFirstLate, CancelOuter
<1>9. ASSUME ChainFirstDone, ~panicked PROVE TypeOK'
  BY <1>9 DEF ChainFirstDone
<1>10. ASSUME NEW target \in Targets, FirstSolved(target), ~panicked PROVE TypeOK'
  BY <1>10, FirstSolvedEffect DEF FirstSolved
<1>11. ASSUME FirstOnly, ~panicked PROVE TypeOK'
  BY <1>11 DEF FirstOnly
<1>12. ASSUME FirstFailed, ~panicked PROVE TypeOK'
  BY <1>12 DEF FirstFailed
<1>13. ASSUME FailedAddError, ~panicked PROVE TypeOK'
  BY <1>13 DEF FailedAddError
<1>14. ASSUME FeedEnds, ~panicked PROVE TypeOK'
  BY <1>14 DEF FeedEnds
<1>15. ASSUME GroupDone, ~panicked PROVE TypeOK'
  BY <1>15 DEF GroupDone
<1>16. ASSUME Close, ~panicked PROVE TypeOK'
  BY <1>16 DEF Close
<1>17. ASSUME NEW r \in Runs, Improve(r), ~panicked PROVE TypeOK'
  BY <1>17 DEF Improve
<1>18. ASSUME NEW r \in Runs, SendInterim(r), ~panicked PROVE TypeOK'
  BY <1>18 DEF SendInterim
<1>19. ASSUME NEW r \in Runs, SolverEnds(r), ~panicked PROVE TypeOK'
  BY <1>19 DEF SolverEnds
<1>20. ASSUME NEW r \in Runs, MapEmpty(r), ~panicked PROVE TypeOK'
  BY <1>20 DEF MapEmpty, MapperEnds, SetOuter
<1>21. ASSUME NEW r \in Runs, MapError(r), ~panicked PROVE TypeOK'
  BY <1>21 DEF MapError, MapperEnds, SetOuter
<1>22. ASSUME NEW r \in Runs, MapValue(r), ~panicked PROVE TypeOK'
  BY <1>22 DEF MapValue, MapperEnds, SetOuter
<1>23. ASSUME MapInitial, ~panicked PROVE TypeOK'
  BY <1>23 DEF MapInitial
<1>24. ASSUME MapInitialSend, ~panicked PROVE TypeOK'
  BY <1>24 DEF MapInitialSend, Send
<1>25. ASSUME MapInitialSet, ~panicked PROVE TypeOK'
  BY <1>25 DEF MapInitialSet, MapperEnds, SetOuter
<1>26. ASSUME NEW t \in Threads, NEW b \in Blocks, Take(t, b), ~panicked PROVE TypeOK'
  BY <1>26 DEF Take, StartRun, Goto
<1>27. ASSUME NEW t \in Threads, NEW b \in Blocks, TakeSkipped(t, b), ~panicked PROVE TypeOK'
  BY <1>27 DEF TakeSkipped
<1>28. ASSUME NEW t \in Threads, ChainVariant(t), ~panicked PROVE TypeOK'
  BY <1>28 DEF ChainVariant, Goto
<1>29. ASSUME NEW t \in Threads, ChainVariantLate(t), ~panicked PROVE TypeOK'
  BY <1>29 DEF ChainVariantLate, CancelOuter
<1>30. ASSUME NEW t \in Threads, ChainVariantDone(t), ~panicked PROVE TypeOK'
  BY <1>30 DEF ChainVariantDone, Goto
<1>31. ASSUME NEW t \in Threads, VariantEmpty(t), ~panicked PROVE TypeOK'
  BY <1>31 DEF VariantEmpty, ThreadIdle, Goto
<1>32. ASSUME NEW t \in Threads, VariantError(t), ~panicked PROVE TypeOK'
  BY <1>32 DEF VariantError, ThreadIdle, Goto
<1>33. ASSUME NEW t \in Threads, VariantSolved(t), ~panicked PROVE TypeOK'
  BY <1>33 DEF VariantSolved, Goto
<1>34. ASSUME NEW t \in Threads, VariantSend(t), ~panicked PROVE TypeOK'
  BY <1>34 DEF VariantSend, Send, ThreadIdle, Goto
<1>35. CASE UNCHANGED vars
  BY <1>35 DEF vars
<1> QED
  BY <1>1, <1>2, <1>3, <1>4, <1>5, <1>6, <1>7, <1>8, <1>9, <1>10, <1>11, <1>12, <1>13, <1>14,
     <1>15, <1>16, <1>17, <1>18, <1>19, <1>20, <1>21, <1>22, <1>23, <1>24, <1>25, <1>26,
     <1>27, <1>28, <1>29, <1>30, <1>31, <1>32, <1>33, <1>34, <1>35 DEF Next, CancelStep,
     MapperStep, MainStep, ThreadStep, SolverStep

LEMMA RunInvStep == SolveInv /\ [Next]_vars => RunInv'
<1> SUFFICES ASSUME SolveInv, [Next]_vars PROVE RunInv'
  OBVIOUS
<1> USE SolveAssumption DEF Runs, cancelVars, runVars, groupVars, resultVars, SolveInv,
  TypeOK, RunInv, GroupInv, MainInv
<1>1. ASSUME Cancel, ~panicked PROVE RunInv'
  BY <1>1 DEF Cancel
<1>2. ASSUME HandleNext, ~panicked PROVE RunInv'
  BY <1>2 DEF HandleNext, CancelOuter
<1>3. ASSUME HandleDone, ~panicked PROVE RunInv'
  BY <1>3 DEF HandleDone
<1>4. ASSUME CancelDone, ~panicked PROVE RunInv'
  BY <1>4 DEF CancelDone
<1>5. ASSUME NEW r \in Runs, CancelInner(r), ~panicked PROVE RunInv'
  BY <1>5 DEF CancelInner
<1>6. ASSUME Start, ~panicked PROVE RunInv'
  BY <1>6 DEF Start, StartRun
<1>7. ASSUME ChainFirst, ~panicked PROVE RunInv'
  BY <1>7 DEF ChainFirst
<1>8. ASSUME ChainFirstLate, ~panicked PROVE RunInv'
  BY <1>8 DEF ChainFirstLate, CancelOuter
<1>9. ASSUME ChainFirstDone, ~panicked PROVE RunInv'
  BY <1>9 DEF ChainFirstDone
<1>10. ASSUME NEW target \in Targets, FirstSolved(target), ~panicked PROVE RunInv'
  BY <1>10 DEF FirstSolved
<1>11. ASSUME FirstOnly, ~panicked PROVE RunInv'
  BY <1>11 DEF FirstOnly
<1>12. ASSUME FirstFailed, ~panicked PROVE RunInv'
  BY <1>12 DEF FirstFailed
<1>13. ASSUME FailedAddError, ~panicked PROVE RunInv'
  BY <1>13 DEF FailedAddError
<1>14. ASSUME FeedEnds, ~panicked PROVE RunInv'
  BY <1>14 DEF FeedEnds
<1>15. ASSUME GroupDone, ~panicked PROVE RunInv'
  BY <1>15 DEF GroupDone
<1>16. ASSUME Close, ~panicked PROVE RunInv'
  BY <1>16 DEF Close
<1>17. ASSUME NEW r \in Runs, Improve(r), ~panicked PROVE RunInv'
  BY <1>17 DEF Improve
<1>18. ASSUME NEW r \in Runs, SendInterim(r), ~panicked PROVE RunInv'
  BY <1>18 DEF SendInterim
<1>19. ASSUME NEW r \in Runs, SolverEnds(r), ~panicked PROVE RunInv'
  BY <1>19 DEF SolverEnds
<1>20. ASSUME NEW r \in Runs, MapEmpty(r), ~panicked PROVE RunInv'
  BY <1>20 DEF MapEmpty, MapperEnds, SetOuter
<1>21. ASSUME NEW r \in Runs, MapError(r), ~panicked PROVE RunInv'
  BY <1>21 DEF MapError, MapperEnds, SetOuter
<1>22. ASSUME NEW r \in Runs, MapValue(r), ~panicked PROVE RunInv'
  BY <1>22 DEF MapValue, MapperEnds, SetOuter
<1>23. ASSUME MapInitial, ~panicked PROVE RunInv'
  BY <1>23 DEF MapInitial
<1>24. ASSUME MapInitialSend, ~panicked PROVE RunInv'
  BY <1>24 DEF MapInitialSend, Send
<1>25. ASSUME MapInitialSet, ~panicked PROVE RunInv'
  BY <1>25 DEF MapInitialSet, MapperEnds, SetOuter
<1>26. ASSUME NEW t \in Threads, NEW b \in Blocks, Take(t, b), ~panicked PROVE RunInv'
  BY <1>26 DEF Take, StartRun, Goto
<1>27. ASSUME NEW t \in Threads, NEW b \in Blocks, TakeSkipped(t, b), ~panicked PROVE RunInv'
  BY <1>27 DEF TakeSkipped
<1>28. ASSUME NEW t \in Threads, ChainVariant(t), ~panicked PROVE RunInv'
  BY <1>28 DEF ChainVariant, Goto
<1>29. ASSUME NEW t \in Threads, ChainVariantLate(t), ~panicked PROVE RunInv'
  BY <1>29 DEF ChainVariantLate, CancelOuter
<1>30. ASSUME NEW t \in Threads, ChainVariantDone(t), ~panicked PROVE RunInv'
  BY <1>30 DEF ChainVariantDone, Goto
<1>31. ASSUME NEW t \in Threads, VariantEmpty(t), ~panicked PROVE RunInv'
  BY <1>31 DEF VariantEmpty, ThreadIdle, Goto
<1>32. ASSUME NEW t \in Threads, VariantError(t), ~panicked PROVE RunInv'
  BY <1>32 DEF VariantError, ThreadIdle, Goto
<1>33. ASSUME NEW t \in Threads, VariantSolved(t), ~panicked PROVE RunInv'
  BY <1>33 DEF VariantSolved, Goto
<1>34. ASSUME NEW t \in Threads, VariantSend(t), ~panicked PROVE RunInv'
  BY <1>34 DEF VariantSend, Send, ThreadIdle, Goto
<1>35. CASE UNCHANGED vars
  BY <1>35 DEF vars
<1> QED
  BY <1>1, <1>2, <1>3, <1>4, <1>5, <1>6, <1>7, <1>8, <1>9, <1>10, <1>11, <1>12, <1>13, <1>14,
     <1>15, <1>16, <1>17, <1>18, <1>19, <1>20, <1>21, <1>22, <1>23, <1>24, <1>25, <1>26,
     <1>27, <1>28, <1>29, <1>30, <1>31, <1>32, <1>33, <1>34, <1>35 DEF Next, CancelStep,
     MapperStep, MainStep, ThreadStep, SolverStep

LEMMA OpenInvStep == SolveInv /\ [Next]_vars => OpenInv'
<1> SUFFICES ASSUME SolveInv, [Next]_vars PROVE OpenInv'
  OBVIOUS
<1> USE SolveAssumption DEF Runs, cancelVars, runVars, groupVars, resultVars, SolveInv,
  TypeOK, RunInv, OpenInv
<1>1. ASSUME Cancel, ~panicked PROVE OpenInv'
  BY <1>1 DEF Cancel
<1>2. ASSUME HandleNext, ~panicked PROVE OpenInv'
  BY <1>2 DEF HandleNext, CancelOuter
<1>3. ASSUME HandleDone, ~panicked PROVE OpenInv'
  BY <1>3 DEF HandleDone
<1>4. ASSUME CancelDone, ~panicked PROVE OpenInv'
  BY <1>4 DEF CancelDone
<1>5. ASSUME NEW r \in Runs, CancelInner(r), ~panicked PROVE OpenInv'
  BY <1>5 DEF CancelInner
<1>6. ASSUME Start, ~panicked PROVE OpenInv'
  BY <1>6 DEF Start, StartRun
<1>7. ASSUME ChainFirst, ~panicked PROVE OpenInv'
  BY <1>7 DEF ChainFirst
<1>8. ASSUME ChainFirstLate, ~panicked PROVE OpenInv'
  BY <1>8 DEF ChainFirstLate, CancelOuter
<1>9. ASSUME ChainFirstDone, ~panicked PROVE OpenInv'
  BY <1>9 DEF ChainFirstDone
<1>10. ASSUME NEW target \in Targets, FirstSolved(target), ~panicked PROVE OpenInv'
  BY <1>10 DEF FirstSolved
<1>11. ASSUME FirstOnly, ~panicked PROVE OpenInv'
  BY <1>11 DEF FirstOnly
<1>12. ASSUME FirstFailed, ~panicked PROVE OpenInv'
  BY <1>12 DEF FirstFailed
<1>13. ASSUME FailedAddError, ~panicked PROVE OpenInv'
  BY <1>13 DEF FailedAddError
<1>14. ASSUME FeedEnds, ~panicked PROVE OpenInv'
  BY <1>14 DEF FeedEnds
<1>15. ASSUME GroupDone, ~panicked PROVE OpenInv'
  BY <1>15 DEF GroupDone
<1>16. ASSUME Close, ~panicked PROVE OpenInv'
  BY <1>16 DEF Close
<1>17. ASSUME NEW r \in Runs, Improve(r), ~panicked PROVE OpenInv'
  BY <1>17 DEF Improve
<1>18. ASSUME NEW r \in Runs, SendInterim(r), ~panicked PROVE OpenInv'
  BY <1>18 DEF SendInterim
<1>19. ASSUME NEW r \in Runs, SolverEnds(r), ~panicked PROVE OpenInv'
  BY <1>19 DEF SolverEnds
<1>20. ASSUME NEW r \in Runs, MapEmpty(r), ~panicked PROVE OpenInv'
  BY <1>20 DEF MapEmpty, MapperEnds, SetOuter
<1>21. ASSUME NEW r \in Runs, MapError(r), ~panicked PROVE OpenInv'
  BY <1>21 DEF MapError, MapperEnds, SetOuter
<1>22. ASSUME NEW r \in Runs, MapValue(r), ~panicked PROVE OpenInv'
  BY <1>22 DEF MapValue, MapperEnds, SetOuter
<1>23. ASSUME MapInitial, ~panicked PROVE OpenInv'
  BY <1>23 DEF MapInitial
<1>24. ASSUME MapInitialSend, ~panicked PROVE OpenInv'
  BY <1>24 DEF MapInitialSend, Send
<1>25. ASSUME MapInitialSet, ~panicked PROVE OpenInv'
  BY <1>25 DEF MapInitialSet, MapperEnds, SetOuter
<1>26. ASSUME NEW t \in Threads, NEW b \in Blocks, Take(t, b), ~panicked PROVE OpenInv'
  BY <1>26 DEF Take, StartRun, Goto
<1>27. ASSUME NEW t \in Threads, NEW b \in Blocks, TakeSkipped(t, b), ~panicked PROVE OpenInv'
  BY <1>27 DEF TakeSkipped
<1>28. ASSUME NEW t \in Threads, ChainVariant(t), ~panicked PROVE OpenInv'
  BY <1>28 DEF ChainVariant, Goto
<1>29. ASSUME NEW t \in Threads, ChainVariantLate(t), ~panicked PROVE OpenInv'
  BY <1>29 DEF ChainVariantLate, CancelOuter
<1>30. ASSUME NEW t \in Threads, ChainVariantDone(t), ~panicked PROVE OpenInv'
  BY <1>30 DEF ChainVariantDone, Goto
<1>31. ASSUME NEW t \in Threads, VariantEmpty(t), ~panicked PROVE OpenInv'
  BY <1>31 DEF VariantEmpty, ThreadIdle, Goto
<1>32. ASSUME NEW t \in Threads, VariantError(t), ~panicked PROVE OpenInv'
  BY <1>32 DEF VariantError, ThreadIdle, Goto
<1>33. ASSUME NEW t \in Threads, VariantSolved(t), ~panicked PROVE OpenInv'
  BY <1>33 DEF VariantSolved, Goto
<1>34. ASSUME NEW t \in Threads, VariantSend(t), ~panicked PROVE OpenInv'
  BY <1>34 DEF VariantSend, Send, ThreadIdle, Goto
<1>35. CASE UNCHANGED vars
  BY <1>35 DEF vars
<1> QED
  BY <1>1, <1>2, <1>3, <1>4, <1>5, <1>6, <1>7, <1>8, <1>9, <1>10, <1>11, <1>12, <1>13, <1>14,
     <1>15, <1>16, <1>17, <1>18, <1>19, <1>20, <1>21, <1>22, <1>23, <1>24, <1>25, <1>26,
     <1>27, <1>28, <1>29, <1>30, <1>31, <1>32, <1>33, <1>34, <1>35 DEF Next, CancelStep,
     MapperStep, MainStep, ThreadStep, SolverStep

LEMMA MainInvStep == SolveInv /\ [Next]_vars => MainInv'
<1> SUFFICES ASSUME SolveInv, [Next]_vars PROVE MainInv'
  OBVIOUS
<1> USE SolveAssumption DEF Runs, cancelVars, runVars, groupVars, resultVars, SolveInv,
  TypeOK, RunInv, MainInv, GroupInv
<1>1. ASSUME Cancel, ~panicked PROVE MainInv'
  BY <1>1 DEF Cancel
<1>2. ASSUME HandleNext, ~panicked PROVE MainInv'
  BY <1>2 DEF HandleNext, CancelOuter
<1>3. ASSUME HandleDone, ~panicked PROVE MainInv'
  BY <1>3 DEF HandleDone
<1>4. ASSUME CancelDone, ~panicked PROVE MainInv'
  BY <1>4 DEF CancelDone
<1>5. ASSUME NEW r \in Runs, CancelInner(r), ~panicked PROVE MainInv'
  BY <1>5 DEF CancelInner
<1>6. ASSUME Start, ~panicked PROVE MainInv'
  BY <1>6 DEF Start, StartRun
<1>7. ASSUME ChainFirst, ~panicked PROVE MainInv'
  BY <1>7 DEF ChainFirst
<1>8. ASSUME ChainFirstLate, ~panicked PROVE MainInv'
  BY <1>8 DEF ChainFirstLate, CancelOuter
<1>9. ASSUME ChainFirstDone, ~panicked PROVE MainInv'
  BY <1>9 DEF ChainFirstDone
<1>10. ASSUME NEW target \in Targets, FirstSolved(target), ~panicked PROVE MainInv'
  BY <1>10 DEF FirstSolved
<1>11. ASSUME FirstOnly, ~panicked PROVE MainInv'
  BY <1>11 DEF FirstOnly
<1>12. ASSUME FirstFailed, ~panicked PROVE MainInv'
  BY <1>12 DEF FirstFailed
<1>13. ASSUME FailedAddError, ~panicked PROVE MainInv'
  BY <1>13 DEF FailedAddError
<1>14. ASSUME FeedEnds, ~panicked PROVE MainInv'
  BY <1>14 DEF FeedEnds
<1>15. ASSUME GroupDone, ~panicked PROVE MainInv'
  BY <1>15 DEF GroupDone
<1>16. ASSUME Close, ~panicked PROVE MainInv'
  BY <1>16 DEF Close
<1>17. ASSUME NEW r \in Runs, Improve(r), ~panicked PROVE MainInv'
  BY <1>17 DEF Improve
<1>18. ASSUME NEW r \in Runs, SendInterim(r), ~panicked PROVE MainInv'
  BY <1>18 DEF SendInterim
<1>19. ASSUME NEW r \in Runs, SolverEnds(r), ~panicked PROVE MainInv'
  BY <1>19 DEF SolverEnds
<1>20. ASSUME NEW r \in Runs, MapEmpty(r), ~panicked PROVE MainInv'
  BY <1>20 DEF MapEmpty, MapperEnds, SetOuter
<1>21. ASSUME NEW r \in Runs, MapError(r), ~panicked PROVE MainInv'
  BY <1>21 DEF MapError, MapperEnds, SetOuter
<1>22. ASSUME NEW r \in Runs, MapValue(r), ~panicked PROVE MainInv'
  BY <1>22 DEF MapValue, MapperEnds, SetOuter
<1>23. ASSUME MapInitial, ~panicked PROVE MainInv'
  BY <1>23 DEF MapInitial
<1>24. ASSUME MapInitialSend, ~panicked PROVE MainInv'
  BY <1>24 DEF MapInitialSend, Send
<1>25. ASSUME MapInitialSet, ~panicked PROVE MainInv'
  BY <1>25 DEF MapInitialSet, MapperEnds, SetOuter
<1>26. ASSUME NEW t \in Threads, NEW b \in Blocks, Take(t, b), ~panicked PROVE MainInv'
  BY <1>26 DEF Take, StartRun, Goto
<1>27. ASSUME NEW t \in Threads, NEW b \in Blocks, TakeSkipped(t, b), ~panicked PROVE MainInv'
  BY <1>27 DEF TakeSkipped
<1>28. ASSUME NEW t \in Threads, ChainVariant(t), ~panicked PROVE MainInv'
  BY <1>28 DEF ChainVariant, Goto
<1>29. ASSUME NEW t \in Threads, ChainVariantLate(t), ~panicked PROVE MainInv'
  BY <1>29 DEF ChainVariantLate, CancelOuter
<1>30. ASSUME NEW t \in Threads, ChainVariantDone(t), ~panicked PROVE MainInv'
  BY <1>30 DEF ChainVariantDone, Goto
<1>31. ASSUME NEW t \in Threads, VariantEmpty(t), ~panicked PROVE MainInv'
  BY <1>31 DEF VariantEmpty, ThreadIdle, Goto
<1>32. ASSUME NEW t \in Threads, VariantError(t), ~panicked PROVE MainInv'
  BY <1>32 DEF VariantError, ThreadIdle, Goto
<1>33. ASSUME NEW t \in Threads, VariantSolved(t), ~panicked PROVE MainInv'
  BY <1>33 DEF VariantSolved, Goto
<1>34. ASSUME NEW t \in Threads, VariantSend(t), ~panicked PROVE MainInv'
  BY <1>34 DEF VariantSend, Send, ThreadIdle, Goto
<1>35. CASE UNCHANGED vars
  BY <1>35 DEF vars
<1> QED
  BY <1>1, <1>2, <1>3, <1>4, <1>5, <1>6, <1>7, <1>8, <1>9, <1>10, <1>11, <1>12, <1>13, <1>14,
     <1>15, <1>16, <1>17, <1>18, <1>19, <1>20, <1>21, <1>22, <1>23, <1>24, <1>25, <1>26,
     <1>27, <1>28, <1>29, <1>30, <1>31, <1>32, <1>33, <1>34, <1>35 DEF Next, CancelStep,
     MapperStep, MainStep, ThreadStep, SolverStep

LEMMA GroupInvStep == SolveInv /\ [Next]_vars => GroupInv'
<1> SUFFICES ASSUME SolveInv, [Next]_vars PROVE GroupInv'
  OBVIOUS
<1> USE SolveAssumption DEF Runs, cancelVars, runVars, groupVars, resultVars, SolveInv,
  TypeOK, GroupInv, RunInv, MainInv
<1>1. ASSUME Cancel, ~panicked PROVE GroupInv'
  BY <1>1 DEF Cancel
<1>2. ASSUME HandleNext, ~panicked PROVE GroupInv'
  BY <1>2 DEF HandleNext, CancelOuter
<1>3. ASSUME HandleDone, ~panicked PROVE GroupInv'
  BY <1>3 DEF HandleDone
<1>4. ASSUME CancelDone, ~panicked PROVE GroupInv'
  BY <1>4 DEF CancelDone
<1>5. ASSUME NEW r \in Runs, CancelInner(r), ~panicked PROVE GroupInv'
  BY <1>5 DEF CancelInner
<1>6. ASSUME Start, ~panicked PROVE GroupInv'
  BY <1>6 DEF Start, StartRun
<1>7. ASSUME ChainFirst, ~panicked PROVE GroupInv'
  BY <1>7 DEF ChainFirst
<1>8. ASSUME ChainFirstLate, ~panicked PROVE GroupInv'
  BY <1>8 DEF ChainFirstLate, CancelOuter
<1>9. ASSUME ChainFirstDone, ~panicked PROVE GroupInv'
  BY <1>9 DEF ChainFirstDone
<1>10. ASSUME NEW target \in Targets, FirstSolved(target), ~panicked PROVE GroupInv'
  <2>1. plan' \subseteq Blocks /\ \A b \in Blocks : outer[b] = "none"
    BY <1>10, FirstSolvedEffect DEF FirstSolved
  <2>2. /\ main = "wait" /\ outer[Initial] = "value" /\ feeding' = TRUE /\ main' = "variants"
        /\ UNCHANGED <<signal, outer, thread, block, shouldContinue, groupErrors, errors>>
    BY <1>10 DEF FirstSolved
  <2> QED
    BY <2>1, <2>2
<1>11. ASSUME FirstOnly, ~panicked PROVE GroupInv'
  BY <1>11 DEF FirstOnly
<1>12. ASSUME FirstFailed, ~panicked PROVE GroupInv'
  BY <1>12 DEF FirstFailed
<1>13. ASSUME FailedAddError, ~panicked PROVE GroupInv'
  BY <1>13 DEF FailedAddError
<1>14. ASSUME FeedEnds, ~panicked PROVE GroupInv'
  BY <1>14 DEF FeedEnds
<1>15. ASSUME GroupDone, ~panicked PROVE GroupInv'
  BY <1>15 DEF GroupDone
<1>16. ASSUME Close, ~panicked PROVE GroupInv'
  BY <1>16 DEF Close
<1>17. ASSUME NEW r \in Runs, Improve(r), ~panicked PROVE GroupInv'
  BY <1>17 DEF Improve
<1>18. ASSUME NEW r \in Runs, SendInterim(r), ~panicked PROVE GroupInv'
  BY <1>18 DEF SendInterim
<1>19. ASSUME NEW r \in Runs, SolverEnds(r), ~panicked PROVE GroupInv'
  BY <1>19 DEF SolverEnds
<1>20. ASSUME NEW r \in Runs, MapEmpty(r), ~panicked PROVE GroupInv'
  BY <1>20 DEF MapEmpty, MapperEnds, SetOuter
<1>21. ASSUME NEW r \in Runs, MapError(r), ~panicked PROVE GroupInv'
  BY <1>21 DEF MapError, MapperEnds, SetOuter
<1>22. ASSUME NEW r \in Runs, MapValue(r), ~panicked PROVE GroupInv'
  BY <1>22 DEF MapValue, MapperEnds, SetOuter
<1>23. ASSUME MapInitial, ~panicked PROVE GroupInv'
  BY <1>23 DEF MapInitial
<1>24. ASSUME MapInitialSend, ~panicked PROVE GroupInv'
  BY <1>24 DEF MapInitialSend, Send
<1>25. ASSUME MapInitialSet, ~panicked PROVE GroupInv'
  BY <1>25 DEF MapInitialSet, MapperEnds, SetOuter
<1>26. ASSUME NEW t \in Threads, NEW b \in Blocks, Take(t, b), ~panicked PROVE GroupInv'
  BY <1>26 DEF Take, StartRun, Goto
<1>27. ASSUME NEW t \in Threads, NEW b \in Blocks, TakeSkipped(t, b), ~panicked PROVE GroupInv'
  BY <1>27 DEF TakeSkipped
<1>28. ASSUME NEW t \in Threads, ChainVariant(t), ~panicked PROVE GroupInv'
  BY <1>28 DEF ChainVariant, Goto
<1>29. ASSUME NEW t \in Threads, ChainVariantLate(t), ~panicked PROVE GroupInv'
  BY <1>29 DEF ChainVariantLate, CancelOuter
<1>30. ASSUME NEW t \in Threads, ChainVariantDone(t), ~panicked PROVE GroupInv'
  BY <1>30 DEF ChainVariantDone, Goto
<1>31. ASSUME NEW t \in Threads, VariantEmpty(t), ~panicked PROVE GroupInv'
  BY <1>31 DEF VariantEmpty, ThreadIdle, Goto
<1>32. ASSUME NEW t \in Threads, VariantError(t), ~panicked PROVE GroupInv'
  BY <1>32 DEF VariantError, ThreadIdle, Goto
<1>33. ASSUME NEW t \in Threads, VariantSolved(t), ~panicked PROVE GroupInv'
  BY <1>33 DEF VariantSolved, Goto
<1>34. ASSUME NEW t \in Threads, VariantSend(t), ~panicked PROVE GroupInv'
  BY <1>34 DEF VariantSend, Send, ThreadIdle, Goto
<1>35. CASE UNCHANGED vars
  BY <1>35 DEF vars
<1> QED
  BY <1>1, <1>2, <1>3, <1>4, <1>5, <1>6, <1>7, <1>8, <1>9, <1>10, <1>11, <1>12, <1>13, <1>14,
     <1>15, <1>16, <1>17, <1>18, <1>19, <1>20, <1>21, <1>22, <1>23, <1>24, <1>25, <1>26,
     <1>27, <1>28, <1>29, <1>30, <1>31, <1>32, <1>33, <1>34, <1>35 DEF Next, CancelStep,
     MapperStep, MainStep, ThreadStep, SolverStep

LEMMA HeldInvStep == SolveInv /\ [Next]_vars => HeldInv'
<1> SUFFICES ASSUME SolveInv, [Next]_vars PROVE HeldInv'
  OBVIOUS
<1> USE SolveAssumption DEF Runs, cancelVars, runVars, groupVars, resultVars, SolveInv,
  TypeOK, HeldInv, GroupInv, RunInv, MainInv, Held
<1>1. ASSUME Cancel, ~panicked PROVE HeldInv'
  BY <1>1 DEF Cancel
<1>2. ASSUME HandleNext, ~panicked PROVE HeldInv'
  BY <1>2 DEF HandleNext, CancelOuter
<1>3. ASSUME HandleDone, ~panicked PROVE HeldInv'
  BY <1>3 DEF HandleDone
<1>4. ASSUME CancelDone, ~panicked PROVE HeldInv'
  BY <1>4 DEF CancelDone
<1>5. ASSUME NEW r \in Runs, CancelInner(r), ~panicked PROVE HeldInv'
  BY <1>5 DEF CancelInner
<1>6. ASSUME Start, ~panicked PROVE HeldInv'
  BY <1>6 DEF Start, StartRun
<1>7. ASSUME ChainFirst, ~panicked PROVE HeldInv'
  BY <1>7 DEF ChainFirst
<1>8. ASSUME ChainFirstLate, ~panicked PROVE HeldInv'
  BY <1>8 DEF ChainFirstLate, CancelOuter
<1>9. ASSUME ChainFirstDone, ~panicked PROVE HeldInv'
  BY <1>9 DEF ChainFirstDone
<1>10. ASSUME NEW target \in Targets, FirstSolved(target), ~panicked PROVE HeldInv'
  BY <1>10 DEF FirstSolved
<1>11. ASSUME FirstOnly, ~panicked PROVE HeldInv'
  BY <1>11 DEF FirstOnly
<1>12. ASSUME FirstFailed, ~panicked PROVE HeldInv'
  BY <1>12 DEF FirstFailed
<1>13. ASSUME FailedAddError, ~panicked PROVE HeldInv'
  BY <1>13 DEF FailedAddError
<1>14. ASSUME FeedEnds, ~panicked PROVE HeldInv'
  BY <1>14 DEF FeedEnds
<1>15. ASSUME GroupDone, ~panicked PROVE HeldInv'
  BY <1>15 DEF GroupDone
<1>16. ASSUME Close, ~panicked PROVE HeldInv'
  BY <1>16 DEF Close
<1>17. ASSUME NEW r \in Runs, Improve(r), ~panicked PROVE HeldInv'
  BY <1>17 DEF Improve
<1>18. ASSUME NEW r \in Runs, SendInterim(r), ~panicked PROVE HeldInv'
  BY <1>18 DEF SendInterim
<1>19. ASSUME NEW r \in Runs, SolverEnds(r), ~panicked PROVE HeldInv'
  BY <1>19 DEF SolverEnds
<1>20. ASSUME NEW r \in Runs, MapEmpty(r), ~panicked PROVE HeldInv'
  BY <1>20 DEF MapEmpty, MapperEnds, SetOuter
<1>21. ASSUME NEW r \in Runs, MapError(r), ~panicked PROVE HeldInv'
  BY <1>21 DEF MapError, MapperEnds, SetOuter
<1>22. ASSUME NEW r \in Runs, MapValue(r), ~panicked PROVE HeldInv'
  BY <1>22 DEF MapValue, MapperEnds, SetOuter
<1>23. ASSUME MapInitial, ~panicked PROVE HeldInv'
  BY <1>23 DEF MapInitial
<1>24. ASSUME MapInitialSend, ~panicked PROVE HeldInv'
  BY <1>24 DEF MapInitialSend, Send
<1>25. ASSUME MapInitialSet, ~panicked PROVE HeldInv'
  BY <1>25 DEF MapInitialSet, MapperEnds, SetOuter
<1>26. ASSUME NEW t \in Threads, NEW b \in Blocks, Take(t, b), ~panicked PROVE HeldInv'
  BY <1>26 DEF Take, StartRun, Goto
<1>27. ASSUME NEW t \in Threads, NEW b \in Blocks, TakeSkipped(t, b), ~panicked PROVE HeldInv'
  BY <1>27 DEF TakeSkipped
<1>28. ASSUME NEW t \in Threads, ChainVariant(t), ~panicked PROVE HeldInv'
  BY <1>28 DEF ChainVariant, Goto
<1>29. ASSUME NEW t \in Threads, ChainVariantLate(t), ~panicked PROVE HeldInv'
  BY <1>29 DEF ChainVariantLate, CancelOuter
<1>30. ASSUME NEW t \in Threads, ChainVariantDone(t), ~panicked PROVE HeldInv'
  BY <1>30 DEF ChainVariantDone, Goto
<1>31. ASSUME NEW t \in Threads, VariantEmpty(t), ~panicked PROVE HeldInv'
  BY <1>31 DEF VariantEmpty, ThreadIdle, Goto
<1>32. ASSUME NEW t \in Threads, VariantError(t), ~panicked PROVE HeldInv'
  BY <1>32 DEF VariantError, ThreadIdle, Goto
<1>33. ASSUME NEW t \in Threads, VariantSolved(t), ~panicked PROVE HeldInv'
  BY <1>33 DEF VariantSolved, Goto
<1>34. ASSUME NEW t \in Threads, VariantSend(t), ~panicked PROVE HeldInv'
  BY <1>34 DEF VariantSend, Send, ThreadIdle, Goto
<1>35. CASE UNCHANGED vars
  BY <1>35 DEF vars
<1> QED
  BY <1>1, <1>2, <1>3, <1>4, <1>5, <1>6, <1>7, <1>8, <1>9, <1>10, <1>11, <1>12, <1>13, <1>14,
     <1>15, <1>16, <1>17, <1>18, <1>19, <1>20, <1>21, <1>22, <1>23, <1>24, <1>25, <1>26,
     <1>27, <1>28, <1>29, <1>30, <1>31, <1>32, <1>33, <1>34, <1>35 DEF Next, CancelStep,
     MapperStep, MainStep, ThreadStep, SolverStep

LEMMA CountInvStep == SolveInv /\ [Next]_vars => CountInv'
<1> SUFFICES ASSUME SolveInv, [Next]_vars PROVE CountInv'
  OBVIOUS
<1> USE SolveAssumption DEF Runs, cancelVars, runVars, groupVars, resultVars, SolveInv,
  TypeOK, CountInv, GroupInv, MainInv, RunInv
<1>1. ASSUME Cancel, ~panicked PROVE CountInv'
  BY <1>1, CountedSame DEF Cancel
<1>2. ASSUME HandleNext, ~panicked PROVE CountInv'
  <2>1. plan' = plan /\ \A b \in Blocks : outer'[b] = "none" <=> outer[b] = "none"
    BY <1>2 DEF HandleNext, CancelOuter
  <2>2. main \in {"variants", "close", "ended"} /\ outer'[Initial] = "value" => outer[Initial] = "value"
    BY <1>2 DEF HandleNext, CancelOuter
  <2>3. main' = main /\ expected' = expected /\ groupErrors' = groupErrors
    BY <1>2 DEF HandleNext, CancelOuter
  <2> QED
    BY <2>1, <2>2, <2>3, CountedSame
<1>3. ASSUME HandleDone, ~panicked PROVE CountInv'
  BY <1>3, CountedSame DEF HandleDone
<1>4. ASSUME CancelDone, ~panicked PROVE CountInv'
  BY <1>4, CountedSame DEF CancelDone
<1>5. ASSUME NEW r \in Runs, CancelInner(r), ~panicked PROVE CountInv'
  BY <1>5, CountedSame DEF CancelInner
<1>6. ASSUME Start, ~panicked PROVE CountInv'
  BY <1>6, CountedSame DEF Start, StartRun
<1>7. ASSUME ChainFirst, ~panicked PROVE CountInv'
  BY <1>7, CountedSame DEF ChainFirst
<1>8. ASSUME ChainFirstLate, ~panicked PROVE CountInv'
  <2>1. plan' = plan /\ \A b \in Blocks : outer'[b] = "none" <=> outer[b] = "none"
    BY <1>8 DEF ChainFirstLate, CancelOuter
  <2>2. main \in {"variants", "close", "ended"} /\ outer'[Initial] = "value" => outer[Initial] = "value"
    BY <1>8 DEF ChainFirstLate, CancelOuter
  <2>3. main' = main /\ expected' = expected /\ groupErrors' = groupErrors
    BY <1>8 DEF ChainFirstLate, CancelOuter
  <2> QED
    BY <2>1, <2>2, <2>3, CountedSame
<1>9. ASSUME ChainFirstDone, ~panicked PROVE CountInv'
  BY <1>9, CountedSame DEF ChainFirstDone
<1>10. ASSUME NEW target \in Targets, FirstSolved(target), ~panicked PROVE CountInv'
  <2>1. Counted' = {Initial} \union plan'
    BY <1>10 DEF FirstSolved, Counted
  <2> QED
    BY <1>10, <2>1, FirstSolvedEffect
<1>11. ASSUME FirstOnly, ~panicked PROVE CountInv'
  <2>1. Counted' = {Initial}
    BY <1>11 DEF FirstOnly, Counted
  <2>2. Cardinality({Initial}) = 1
    BY FS_Singleton
  <2> QED
    BY <1>11, <2>1, <2>2 DEF FirstOnly
<1>12. ASSUME FirstFailed, ~panicked PROVE CountInv'
  BY <1>12, CountedSame DEF FirstFailed
<1>13. ASSUME FailedAddError, ~panicked PROVE CountInv'
  BY <1>13, CountedSame DEF FailedAddError
<1>14. ASSUME FeedEnds, ~panicked PROVE CountInv'
  BY <1>14, CountedSame DEF FeedEnds
<1>15. ASSUME GroupDone, ~panicked PROVE CountInv'
  BY <1>15, CountedSame DEF GroupDone
<1>16. ASSUME Close, ~panicked PROVE CountInv'
  BY <1>16, CountedSame DEF Close
<1>17. ASSUME NEW r \in Runs, Improve(r), ~panicked PROVE CountInv'
  BY <1>17, CountedSame DEF Improve
<1>18. ASSUME NEW r \in Runs, SendInterim(r), ~panicked PROVE CountInv'
  BY <1>18, CountedSame DEF SendInterim
<1>19. ASSUME NEW r \in Runs, SolverEnds(r), ~panicked PROVE CountInv'
  BY <1>19, CountedSame DEF SolverEnds
<1>20. ASSUME NEW r \in Runs, MapEmpty(r), ~panicked PROVE CountInv'
  <2>1. plan' = plan /\ \A b \in Blocks : outer'[b] = "none" <=> outer[b] = "none"
    BY <1>20 DEF MapEmpty, MapperEnds, SetOuter
  <2>2. main \in {"variants", "close", "ended"} /\ outer'[Initial] = "value" => outer[Initial] = "value"
    BY <1>20 DEF MapEmpty, MapperEnds, SetOuter
  <2>3. main' = main /\ expected' = expected /\ groupErrors' = groupErrors
    BY <1>20 DEF MapEmpty, MapperEnds, SetOuter
  <2> QED
    BY <2>1, <2>2, <2>3, CountedSame
<1>21. ASSUME NEW r \in Runs, MapError(r), ~panicked PROVE CountInv'
  <2>1. plan' = plan /\ \A b \in Blocks : outer'[b] = "none" <=> outer[b] = "none"
    BY <1>21 DEF MapError, MapperEnds, SetOuter
  <2>2. main \in {"variants", "close", "ended"} /\ outer'[Initial] = "value" => outer[Initial] = "value"
    BY <1>21 DEF MapError, MapperEnds, SetOuter
  <2>3. main' = main /\ expected' = expected /\ groupErrors' = groupErrors
    BY <1>21 DEF MapError, MapperEnds, SetOuter
  <2> QED
    BY <2>1, <2>2, <2>3, CountedSame
<1>22. ASSUME NEW r \in Runs, MapValue(r), ~panicked PROVE CountInv'
  <2>1. plan' = plan /\ \A b \in Blocks : outer'[b] = "none" <=> outer[b] = "none"
    BY <1>22 DEF MapValue, MapperEnds, SetOuter
  <2>2. main \in {"variants", "close", "ended"} /\ outer'[Initial] = "value" => outer[Initial] = "value"
    BY <1>22 DEF MapValue, MapperEnds, SetOuter
  <2>3. main' = main /\ expected' = expected /\ groupErrors' = groupErrors
    BY <1>22 DEF MapValue, MapperEnds, SetOuter
  <2> QED
    BY <2>1, <2>2, <2>3, CountedSame
<1>23. ASSUME MapInitial, ~panicked PROVE CountInv'
  BY <1>23, CountedSame DEF MapInitial
<1>24. ASSUME MapInitialSend, ~panicked PROVE CountInv'
  BY <1>24, CountedSame DEF MapInitialSend, Send
<1>25. ASSUME MapInitialSet, ~panicked PROVE CountInv'
  <2>1. plan' = plan /\ \A b \in Blocks : outer'[b] = "none" <=> outer[b] = "none"
    BY <1>25 DEF MapInitialSet, MapperEnds, SetOuter
  <2>2. main \in {"variants", "close", "ended"} /\ outer'[Initial] = "value" => outer[Initial] = "value"
    BY <1>25 DEF MapInitialSet, MapperEnds, SetOuter
  <2>3. main' = main /\ expected' = expected /\ groupErrors' = groupErrors
    BY <1>25 DEF MapInitialSet, MapperEnds, SetOuter
  <2> QED
    BY <2>1, <2>2, <2>3, CountedSame
<1>26. ASSUME NEW t \in Threads, NEW b \in Blocks, Take(t, b), ~panicked PROVE CountInv'
  <2>1. /\ plan' = plan \ {b} /\ b \in plan /\ outer' = [outer EXCEPT ![b] = "open"]
        /\ main' = main /\ expected' = expected /\ groupErrors' = groupErrors
    BY <1>26 DEF Take, StartRun
  <2>2. Counted' = Counted
    BY <2>1 DEF Counted
  <2>3. outer'[Initial] = outer[Initial]
    BY <2>1
  <2> QED
    BY <2>1, <2>2, <2>3
<1>27. ASSUME NEW t \in Threads, NEW b \in Blocks, TakeSkipped(t, b), ~panicked PROVE CountInv'
  BY <1>27, CountedSame DEF TakeSkipped
<1>28. ASSUME NEW t \in Threads, ChainVariant(t), ~panicked PROVE CountInv'
  BY <1>28, CountedSame DEF ChainVariant, Goto
<1>29. ASSUME NEW t \in Threads, ChainVariantLate(t), ~panicked PROVE CountInv'
  <2>1. plan' = plan /\ \A b \in Blocks : outer'[b] = "none" <=> outer[b] = "none"
    BY <1>29 DEF ChainVariantLate, CancelOuter
  <2>2. main \in {"variants", "close", "ended"} /\ outer'[Initial] = "value" => outer[Initial] = "value"
    BY <1>29 DEF ChainVariantLate, CancelOuter
  <2>3. main' = main /\ expected' = expected /\ groupErrors' = groupErrors
    BY <1>29 DEF ChainVariantLate, CancelOuter
  <2> QED
    BY <2>1, <2>2, <2>3, CountedSame
<1>30. ASSUME NEW t \in Threads, ChainVariantDone(t), ~panicked PROVE CountInv'
  BY <1>30, CountedSame DEF ChainVariantDone, Goto
<1>31. ASSUME NEW t \in Threads, VariantEmpty(t), ~panicked PROVE CountInv'
  BY <1>31, CountedSame DEF VariantEmpty, ThreadIdle, Goto
<1>32. ASSUME NEW t \in Threads, VariantError(t), ~panicked PROVE CountInv'
  BY <1>32, CountedSame DEF VariantError, ThreadIdle, Goto
<1>33. ASSUME NEW t \in Threads, VariantSolved(t), ~panicked PROVE CountInv'
  BY <1>33, CountedSame DEF VariantSolved, Goto
<1>34. ASSUME NEW t \in Threads, VariantSend(t), ~panicked PROVE CountInv'
  BY <1>34, CountedSame DEF VariantSend, Send, ThreadIdle, Goto
<1>35. CASE UNCHANGED vars
  BY <1>35, CountedSame DEF vars
<1> QED
  BY <1>1, <1>2, <1>3, <1>4, <1>5, <1>6, <1>7, <1>8, <1>9, <1>10, <1>11, <1>12, <1>13, <1>14,
     <1>15, <1>16, <1>17, <1>18, <1>19, <1>20, <1>21, <1>22, <1>23, <1>24, <1>25, <1>26,
     <1>27, <1>28, <1>29, <1>30, <1>31, <1>32, <1>33, <1>34, <1>35 DEF Next, CancelStep,
     MapperStep, MainStep, ThreadStep, SolverStep

LEMMA ChainedSame == chained' = chained => \A r \in Runs : Chained(r)' = Chained(r)
  BY DEF Chained

LEMMA ChainedInvStep == SolveInv /\ [Next]_vars => ChainedInv'
<1> SUFFICES ASSUME SolveInv, [Next]_vars PROVE ChainedInv'
  OBVIOUS
<1> USE SolveAssumption DEF Runs, cancelVars, runVars, groupVars, resultVars, SolveInv,
  TypeOK, ChainedInv, GroupInv, OpenInv
<1>1. ASSUME Cancel, ~panicked PROVE ChainedInv'
  BY <1>1, ChainedSame DEF Cancel
<1>2. ASSUME HandleNext, ~panicked PROVE ChainedInv'
  BY <1>2, ChainedSame DEF HandleNext, CancelOuter
<1>3. ASSUME HandleDone, ~panicked PROVE ChainedInv'
  <2>1. /\ chained \in Seq(Runs) /\ chained # <<>> /\ chained' = Tail(chained)
        /\ outer[Head(chained)] # "open"
        /\ UNCHANGED <<signal, outer, thread, block>>
    BY <1>3 DEF HandleDone
  <2>2. ASSUME NEW r \in Runs, Chained(r), outer[r] = "open" PROVE Chained(r)'
    <3>1. PICK i \in 1 .. Len(chained) : chained[i] = r
      BY <2>2 DEF Chained
    <3>2. i # 1
      BY <2>1, <2>2, <3>1
    <3>3. i - 1 \in 1 .. Len(Tail(chained)) /\ Tail(chained)[i - 1] = r
      BY <2>1, <3>1, <3>2
    <3> QED
      BY <2>1, <3>3 DEF Chained
  <2> QED
    BY <2>1, <2>2
<1>4. ASSUME CancelDone, ~panicked PROVE ChainedInv'
  BY <1>4 DEF CancelDone, Chained
<1>5. ASSUME NEW r \in Runs, CancelInner(r), ~panicked PROVE ChainedInv'
  BY <1>5, ChainedSame DEF CancelInner
<1>6. ASSUME Start, ~panicked PROVE ChainedInv'
  BY <1>6, ChainedSame DEF Start, StartRun
<1>7. ASSUME ChainFirst, ~panicked PROVE ChainedInv'
  <2>1. \A r \in Runs : Chained(r) => Chained(r)'
    BY <1>7 DEF ChainFirst, Chained
  <2> QED
    BY <1>7, <2>1 DEF ChainFirst
<1>8. ASSUME ChainFirstLate, ~panicked PROVE ChainedInv'
  BY <1>8, ChainedSame DEF ChainFirstLate, CancelOuter
<1>9. ASSUME ChainFirstDone, ~panicked PROVE ChainedInv'
  BY <1>9, ChainedSame DEF ChainFirstDone
<1>10. ASSUME NEW target \in Targets, FirstSolved(target), ~panicked PROVE ChainedInv'
  BY <1>10, ChainedSame DEF FirstSolved
<1>11. ASSUME FirstOnly, ~panicked PROVE ChainedInv'
  BY <1>11, ChainedSame DEF FirstOnly
<1>12. ASSUME FirstFailed, ~panicked PROVE ChainedInv'
  BY <1>12, ChainedSame DEF FirstFailed
<1>13. ASSUME FailedAddError, ~panicked PROVE ChainedInv'
  BY <1>13, ChainedSame DEF FailedAddError
<1>14. ASSUME FeedEnds, ~panicked PROVE ChainedInv'
  BY <1>14, ChainedSame DEF FeedEnds
<1>15. ASSUME GroupDone, ~panicked PROVE ChainedInv'
  BY <1>15, ChainedSame DEF GroupDone
<1>16. ASSUME Close, ~panicked PROVE ChainedInv'
  BY <1>16, ChainedSame DEF Close
<1>17. ASSUME NEW r \in Runs, Improve(r), ~panicked PROVE ChainedInv'
  BY <1>17, ChainedSame DEF Improve
<1>18. ASSUME NEW r \in Runs, SendInterim(r), ~panicked PROVE ChainedInv'
  BY <1>18, ChainedSame DEF SendInterim
<1>19. ASSUME NEW r \in Runs, SolverEnds(r), ~panicked PROVE ChainedInv'
  BY <1>19, ChainedSame DEF SolverEnds
<1>20. ASSUME NEW r \in Runs, MapEmpty(r), ~panicked PROVE ChainedInv'
  BY <1>20, ChainedSame DEF MapEmpty, MapperEnds, SetOuter
<1>21. ASSUME NEW r \in Runs, MapError(r), ~panicked PROVE ChainedInv'
  BY <1>21, ChainedSame DEF MapError, MapperEnds, SetOuter
<1>22. ASSUME NEW r \in Runs, MapValue(r), ~panicked PROVE ChainedInv'
  BY <1>22, ChainedSame DEF MapValue, MapperEnds, SetOuter
<1>23. ASSUME MapInitial, ~panicked PROVE ChainedInv'
  BY <1>23, ChainedSame DEF MapInitial
<1>24. ASSUME MapInitialSend, ~panicked PROVE ChainedInv'
  BY <1>24, ChainedSame DEF MapInitialSend, Send
<1>25. ASSUME MapInitialSet, ~panicked PROVE ChainedInv'
  BY <1>25, ChainedSame DEF MapInitialSet, MapperEnds, SetOuter
<1>26. ASSUME NEW t \in Threads, NEW b \in Blocks, Take(t, b), ~panicked PROVE ChainedInv'
  BY <1>26, ChainedSame DEF Take, StartRun, Goto
<1>27. ASSUME NEW t \in Threads, NEW b \in Blocks, TakeSkipped(t, b), ~panicked PROVE ChainedInv'
  BY <1>27, ChainedSame DEF TakeSkipped
<1>28. ASSUME NEW t \in Threads, ChainVariant(t), ~panicked PROVE ChainedInv'
  <2>1. \A r \in Runs : Chained(r) => Chained(r)'
    BY <1>28 DEF ChainVariant, Chained
  <2>2. Chained(block[t])'
    BY <1>28 DEF ChainVariant, Chained
  <2> QED
    BY <1>28, <2>1, <2>2 DEF ChainVariant, Goto
<1>29. ASSUME NEW t \in Threads, ChainVariantLate(t), ~panicked PROVE ChainedInv'
  BY <1>29, ChainedSame DEF ChainVariantLate, CancelOuter
<1>30. ASSUME NEW t \in Threads, ChainVariantDone(t), ~panicked PROVE ChainedInv'
  BY <1>30, ChainedSame DEF ChainVariantDone, Goto
<1>31. ASSUME NEW t \in Threads, VariantEmpty(t), ~panicked PROVE ChainedInv'
  BY <1>31, ChainedSame DEF VariantEmpty, ThreadIdle, Goto
<1>32. ASSUME NEW t \in Threads, VariantError(t), ~panicked PROVE ChainedInv'
  BY <1>32, ChainedSame DEF VariantError, ThreadIdle, Goto
<1>33. ASSUME NEW t \in Threads, VariantSolved(t), ~panicked PROVE ChainedInv'
  BY <1>33, ChainedSame DEF VariantSolved, Goto
<1>34. ASSUME NEW t \in Threads, VariantSend(t), ~panicked PROVE ChainedInv'
  BY <1>34, ChainedSame DEF VariantSend, Send, ThreadIdle, Goto
<1>35. CASE UNCHANGED vars
  BY <1>35, ChainedSame DEF vars
<1> QED
  BY <1>1, <1>2, <1>3, <1>4, <1>5, <1>6, <1>7, <1>8, <1>9, <1>10, <1>11, <1>12, <1>13, <1>14,
     <1>15, <1>16, <1>17, <1>18, <1>19, <1>20, <1>21, <1>22, <1>23, <1>24, <1>25, <1>26,
     <1>27, <1>28, <1>29, <1>30, <1>31, <1>32, <1>33, <1>34, <1>35 DEF Next, CancelStep,
     MapperStep, MainStep, ThreadStep, SolverStep

LEMMA ClosedLastStep == SolveInv /\ [Next]_vars => ClosedLast'
<1> SUFFICES ASSUME SolveInv, [Next]_vars PROVE ClosedLast'
  OBVIOUS
<1> USE SolveAssumption DEF Runs, cancelVars, runVars, groupVars, resultVars, SolveInv,
  TypeOK, ClosedLast, GroupInv, RunInv, OpenInv, MainInv, HeldInv
<1>1. ASSUME Cancel, ~panicked PROVE ClosedLast'
  BY <1>1 DEF Cancel
<1>2. ASSUME HandleNext, ~panicked PROVE ClosedLast'
  BY <1>2 DEF HandleNext, CancelOuter
<1>3. ASSUME HandleDone, ~panicked PROVE ClosedLast'
  BY <1>3 DEF HandleDone
<1>4. ASSUME CancelDone, ~panicked PROVE ClosedLast'
  BY <1>4 DEF CancelDone
<1>5. ASSUME NEW r \in Runs, CancelInner(r), ~panicked PROVE ClosedLast'
  BY <1>5 DEF CancelInner
<1>6. ASSUME Start, ~panicked PROVE ClosedLast'
  BY <1>6 DEF Start, StartRun
<1>7. ASSUME ChainFirst, ~panicked PROVE ClosedLast'
  BY <1>7 DEF ChainFirst
<1>8. ASSUME ChainFirstLate, ~panicked PROVE ClosedLast'
  BY <1>8 DEF ChainFirstLate, CancelOuter
<1>9. ASSUME ChainFirstDone, ~panicked PROVE ClosedLast'
  BY <1>9 DEF ChainFirstDone
<1>10. ASSUME NEW target \in Targets, FirstSolved(target), ~panicked PROVE ClosedLast'
  BY <1>10 DEF FirstSolved
<1>11. ASSUME FirstOnly, ~panicked PROVE ClosedLast'
  BY <1>11 DEF FirstOnly
<1>12. ASSUME FirstFailed, ~panicked PROVE ClosedLast'
  BY <1>12 DEF FirstFailed
<1>13. ASSUME FailedAddError, ~panicked PROVE ClosedLast'
  BY <1>13 DEF FailedAddError
<1>14. ASSUME FeedEnds, ~panicked PROVE ClosedLast'
  BY <1>14 DEF FeedEnds
<1>15. ASSUME GroupDone, ~panicked PROVE ClosedLast'
  BY <1>15 DEF GroupDone
<1>16. ASSUME Close, ~panicked PROVE ClosedLast'
  BY <1>16 DEF Close
<1>17. ASSUME NEW r \in Runs, Improve(r), ~panicked PROVE ClosedLast'
  BY <1>17 DEF Improve
<1>18. ASSUME NEW r \in Runs, SendInterim(r), ~panicked PROVE ClosedLast'
  BY <1>18 DEF SendInterim, Held
<1>19. ASSUME NEW r \in Runs, SolverEnds(r), ~panicked PROVE ClosedLast'
  BY <1>19 DEF SolverEnds
<1>20. ASSUME NEW r \in Runs, MapEmpty(r), ~panicked PROVE ClosedLast'
  BY <1>20 DEF MapEmpty, MapperEnds, SetOuter
<1>21. ASSUME NEW r \in Runs, MapError(r), ~panicked PROVE ClosedLast'
  BY <1>21 DEF MapError, MapperEnds, SetOuter
<1>22. ASSUME NEW r \in Runs, MapValue(r), ~panicked PROVE ClosedLast'
  BY <1>22 DEF MapValue, MapperEnds, SetOuter
<1>23. ASSUME MapInitial, ~panicked PROVE ClosedLast'
  BY <1>23 DEF MapInitial
<1>24. ASSUME MapInitialSend, ~panicked PROVE ClosedLast'
  BY <1>24 DEF MapInitialSend, Send
<1>25. ASSUME MapInitialSet, ~panicked PROVE ClosedLast'
  BY <1>25 DEF MapInitialSet, MapperEnds, SetOuter
<1>26. ASSUME NEW t \in Threads, NEW b \in Blocks, Take(t, b), ~panicked PROVE ClosedLast'
  BY <1>26 DEF Take, StartRun, Goto
<1>27. ASSUME NEW t \in Threads, NEW b \in Blocks, TakeSkipped(t, b), ~panicked PROVE ClosedLast'
  BY <1>27 DEF TakeSkipped
<1>28. ASSUME NEW t \in Threads, ChainVariant(t), ~panicked PROVE ClosedLast'
  BY <1>28 DEF ChainVariant, Goto
<1>29. ASSUME NEW t \in Threads, ChainVariantLate(t), ~panicked PROVE ClosedLast'
  BY <1>29 DEF ChainVariantLate, CancelOuter
<1>30. ASSUME NEW t \in Threads, ChainVariantDone(t), ~panicked PROVE ClosedLast'
  BY <1>30 DEF ChainVariantDone, Goto
<1>31. ASSUME NEW t \in Threads, VariantEmpty(t), ~panicked PROVE ClosedLast'
  BY <1>31 DEF VariantEmpty, ThreadIdle, Goto
<1>32. ASSUME NEW t \in Threads, VariantError(t), ~panicked PROVE ClosedLast'
  BY <1>32 DEF VariantError, ThreadIdle, Goto
<1>33. ASSUME NEW t \in Threads, VariantSolved(t), ~panicked PROVE ClosedLast'
  BY <1>33 DEF VariantSolved, Goto
<1>34. ASSUME NEW t \in Threads, VariantSend(t), ~panicked PROVE ClosedLast'
  BY <1>34 DEF VariantSend, Send, ThreadIdle, Goto
<1>35. CASE UNCHANGED vars
  BY <1>35 DEF vars
<1> QED
  BY <1>1, <1>2, <1>3, <1>4, <1>5, <1>6, <1>7, <1>8, <1>9, <1>10, <1>11, <1>12, <1>13, <1>14,
     <1>15, <1>16, <1>17, <1>18, <1>19, <1>20, <1>21, <1>22, <1>23, <1>24, <1>25, <1>26,
     <1>27, <1>28, <1>29, <1>30, <1>31, <1>32, <1>33, <1>34, <1>35 DEF Next, CancelStep,
     MapperStep, MainStep, ThreadStep, SolverStep

LEMMA SolveInit == Init => SolveInv
<1> SUFFICES ASSUME Init PROVE SolveInv
  OBVIOUS
<1> USE SolveAssumption DEF Init, Runs
<1>1. TypeOK
  <2>1. chained \in Seq(Runs)
    BY DEF Runs
  <2>2. /\ inner \in [Runs -> {"none", "open", "cancelled", "solved"}]
        /\ outer \in [Runs -> {"none", "open", "cancelled", "empty", "error", "value"}]
        /\ solver \in [Runs -> {"none", "run", "interim", "done"}]
        /\ mapper \in [Runs -> {"none", "wait", "send", "set", "done"}]
    OBVIOUS
  <2>3. /\ block \in [Threads -> Blocks \union {NoBlock}]
        /\ thread \in [Threads -> {"idle", "chain", "wait", "send"}]
        /\ \A t \in Threads : thread[t] # "idle" => block[t] \in Blocks
    OBVIOUS
  <2> QED
    BY <2>1, <2>2, <2>3 DEF TypeOK
<1>2. RunInv /\ OpenInv /\ MainInv /\ GroupInv /\ HeldInv
  BY DEF RunInv, OpenInv, MainInv, GroupInv, HeldInv
<1>3. CountInv /\ ChainedInv /\ ClosedLast
  BY DEF CountInv, ChainedInv, ClosedLast
<1> QED
  BY <1>1, <1>2, <1>3 DEF SolveInv

LEMMA SolveInvariant == Spec => []SolveInv
<1>1. SolveInv /\ [Next]_vars => SolveInv'
  BY TypeOKStep, RunInvStep, OpenInvStep, MainInvStep, GroupInvStep, HeldInvStep, CountInvStep,
     ChainedInvStep, ClosedLastStep DEF SolveInv
<1> QED
  BY SolveInit, <1>1, PTL DEF Spec

\* The variables of Run, of its runs and of the group keep their types.
THEOREM SolveTypes == Spec => []TypeOK
<1>1. SolveInv => TypeOK
  BY DEF SolveInv
<1> QED
  BY <1>1, SolveInvariant, PTL

\* Unless the job is cancelled, neither a thread nor the callback of a solver
\* sends on resultChannel after Run has closed it.
THEOREM ChannelClosedLast == Spec => []ClosedLast
<1>1. SolveInv => ClosedLast
  BY DEF SolveInv
<1> QED
  BY <1>1, SolveInvariant, PTL

\* The reader of resultChannel gets as many results as expectedCount told it,
\* or futureError has the errors of all runs that failed.
THEOREM ResultsAreTold == Spec => []ResultsTold
<1>1. SolveInv => ErrorsTold
  <2> SUFFICES ASSUME SolveInv, main = "ended", NEW r \in Runs, outer[r] = "error"
               PROVE  r \in errors
    BY DEF ErrorsTold
  <2>1. CASE r = Initial
    BY <2>1 DEF SolveInv, MainInv
  <2>2. CASE r \in Blocks
    <3>1. ~Held(r)
      BY DEF Held, SolveInv, GroupInv
    <3> QED
      BY <2>2, <3>1 DEF SolveInv, HeldInv, GroupInv
  <2> QED
    BY <2>1, <2>2 DEF Runs
<1>2. SolveInv => AsExpected
  <2> SUFFICES ASSUME SolveInv, main = "ended", signal = "open", errors = {}
               PROVE  Cardinality(finals) = expected
    BY DEF AsExpected
  <2>1. /\ \A r \in Runs : outer[r] \notin {"cancelled", "empty", "error"}
        /\ ~panicked
    BY <1>1 DEF SolveInv, ErrorsTold, OpenInv, ClosedLast, TypeOK
  <2>2. outer[Initial] = "value" /\ Initial \in finals
    BY <2>1 DEF SolveInv, TypeOK, MainInv, HeldInv, Runs
  <2>3. groupErrors = {} /\ plan = {}
    BY DEF SolveInv, GroupInv
  <2>4. ASSUME NEW b \in Blocks PROVE b \in finals <=> outer[b] # "none"
    <3>1. ~Held(b)
      BY DEF Held, SolveInv, GroupInv
    <3> QED
      BY <2>1, <3>1 DEF SolveInv, TypeOK, HeldInv, Runs
  <2>5. finals = Counted
    BY <2>2, <2>3, <2>4 DEF Counted, SolveInv, TypeOK, Runs
  <2> QED
    BY <2>2, <2>3, <2>5 DEF SolveInv, CountInv
<1>3. SolveInv => ResultsTold
  BY <1>1, <1>2 DEF ResultsTold
<1> QED
  BY <1>3, SolveInvariant, PTL

\* After a cancellation no thread waits for a run that nobody cancels: its
\* handler was chained in time, or the thread cancelled the run itself.
THEOREM NoRunIsLeft == Spec => []NoneLeftRunning
<1>1. SolveInv => NoneLeftRunning
  BY DEF SolveInv, ChainedInv, NoneLeftRunning
<1> QED
  BY <1>1, SolveInvariant, PTL
=============================================================================
