-------------------------- MODULE Proposals_proofs --------------------------
(* Proofs about Proposals, for any number of groups, sources and proposals. *)
EXTENDS Proposals, FiniteSetTheorems, TLAPS

\* The futures that were added and are still to be counted down
Counting == {s \in Sources : adder[s] = "waiting" \/ (adder[s] = "send" /\ s \notin Values)}

\* The types without the bound of waitingFutures
Types ==
  /\ main \in {"count", "mixer", "ready"} /\ closer \in {"wait", "send", "done"}
  /\ step \in [Sources -> {"setup", "channel", "send", "future", "end"}]
  /\ left \in [Sources -> 0..Most] /\ announced \in [Sources -> BOOLEAN]
  /\ mixer \in {"Init", "Running", "Stopping", "Stopped", "panic"}
  /\ mixerMutex \in Sources \union {Shutdown, Free}
  /\ initial \subseteq Sources /\ active \subseteq Sources
  /\ continuing \in BOOLEAN /\ held \in Sources \union {Free}
  /\ adder \in [Sources -> {"none", "start", "value", "add", "waiting", "send", "done"}]
  /\ adderMutex \in Sources \union {Free}
  /\ ready \in BOOLEAN /\ open \in BOOLEAN
  /\ waitingFutures \in Int /\ told \subseteq total /\ total \subseteq Sources

\* A value is told without a future, and the future of a solve is added once.
CountKinds ==
  \A s \in Sources :
    /\ step[s] = "future" => s \in Solves
    /\ s \in Solves /\ step[s] # "end" => adder[s] = "none"
    /\ s \in Values => adder[s] \in {"none", "value", "send", "done"}
    /\ adder[s] = "value" => s \in Values

CountRight == waitingFutures = Cardinality(Counting)

\* Who reads the totals has the last one, unless one is on its way.
TotalTold ==
  /\ main = "count" => ~ready /\ open
  /\ open /\ adderMutex = Free => told = total

\* The mixer is ready before it runs and is shut down after the last group; only
\* a group or main that came too late or too early meets a panic.
ShutdownOrder ==
  /\ IF main = "ready" THEN mixer \notin {"Init", "panic"} /\ initial = {} ELSE active = {}
  /\ mixer \in {"Running", "Stopping"} => main = "ready"
  /\ mixer \in {"Stopping", "Stopped"} =>
       closer # "wait" /\ \A s \in Sources : step[s] = "end"
  /\ closer = "send" => mixer = "Stopping" /\ continuing
  /\ ~continuing => closer = "done" /\ main = "ready" /\ mixer # "Running"

\* A source is still to be added, or in the mixer, or has sent all it will send.
SourceSomewhere ==
  \A s \in Sources :
    /\ \/ step[s] \in {"setup", "channel", "send"}
       \/ s \in initial \union active
       \/ announced[s] /\ left[s] = 0
    /\ step[s] = "setup" \/ adder[s] \in {"start", "add"} => left[s] = 0
    /\ adder[s] \in {"start", "add"} => ~announced[s] /\ s \in Extras
    /\ step[s] = "setup" => s \in Solves

\* The loop holds no value and has no source when it has ended.
LoopEmpty == mixer = "Stopped" /\ main = "ready" => held = Free /\ active = {}

PInv ==
  /\ Types /\ CountKinds /\ CountRight /\ TotalTold
  /\ ShutdownOrder /\ SourceSomewhere /\ LoopEmpty

LEMMA PInvInit == Init => PInv
<1> SUFFICES ASSUME Init PROVE PInv
  OBVIOUS
<1> USE ProposalsAssumption
<1>1. Types
  <2>1. 0 \in 0..Most /\ 1 \in 0..Most
    OBVIOUS
  <2>2. left \in [Sources -> 0..Most]
    BY <2>1 DEF Init
  <2>3. step \in [Sources -> {"setup", "channel", "send", "future", "end"}]
    BY DEF Init
  <2>4. adder \in [Sources -> {"none", "start", "value", "add", "waiting", "send", "done"}]
    BY DEF Init
  <2>5. announced \in [Sources -> BOOLEAN]
    BY DEF Init
  <2>6. /\ main = "count" /\ closer = "wait" /\ mixer = "Init" /\ mixerMutex = Free
        /\ initial = {} /\ active = {} /\ continuing = TRUE /\ held = Free
        /\ adderMutex = Free /\ ready = FALSE /\ open = TRUE
        /\ waitingFutures = 0 /\ total = {} /\ told = {}
    BY DEF Init
  <2>7. waitingFutures \in Int /\ told \subseteq total /\ total \subseteq Sources
    BY <2>6
  <2>8. ready \in BOOLEAN /\ open \in BOOLEAN /\ continuing \in BOOLEAN
    BY <2>6
  <2>9. /\ mixerMutex \in Sources \union {Shutdown, Free} /\ adderMutex \in Sources \union {Free}
        /\ held \in Sources \union {Free} /\ initial \subseteq Sources /\ active \subseteq Sources
        /\ main \in {"count", "mixer", "ready"} /\ closer \in {"wait", "send", "done"}
        /\ mixer \in {"Init", "Running", "Stopping", "Stopped", "panic"}
    BY <2>6
  <2> QED BY <2>2, <2>3, <2>4, <2>5, <2>7, <2>8, <2>9 DEF Types
<1>2. CountKinds BY DEF Init, CountKinds, Sources
<1>3. CountRight
  <2>1. Counting = {} BY DEF Init, Counting
  <2> QED BY <2>1, FS_EmptySet DEF Init, CountRight
<1>4. TotalTold /\ ShutdownOrder /\ LoopEmpty
  BY DEF Init, TotalTold, ShutdownOrder, LoopEmpty
<1>5. SourceSomewhere BY DEF Init, SourceSomewhere, Sources
<1> QED BY <1>1, <1>2, <1>3, <1>4, <1>5 DEF PInv

LEMMA CountingFinite ==
  IsFiniteSet(Counting) /\ Cardinality(Counting) \in Nat
  BY FS_Subset, FS_CardinalityType, ProposalsAssumption DEF Counting
-----------------------------------------------------------------------------
(* Each part of the invariant is preserved. *)

\* The values of the variables
LEMMA TypesStep ==
  ASSUME Types, CountKinds, [Next]_vars PROVE Types'
<1> USE ProposalsAssumption
    DEF Types, CountKinds, Running, Sources, programVars, solverVars, mixerVars, adderVars
<1>1. CASE ReadyCount BY <1>1 DEF ReadyCount
<1>2. CASE ReadyMixer BY <1>2 DEF ReadyMixer
<1>3. CASE ShutdownAsync BY <1>3 DEF ShutdownAsync
<1>4. CASE StopMessage BY <1>4 DEF StopMessage, Selecting
<1>5. CASE Output BY <1>5 DEF Output
<1>6. CASE LoopEnds BY <1>6 DEF LoopEnds
<1>7. ASSUME NEW s \in Sources, GroupStep(s) PROVE Types'
  <2>1. CASE SetupFails(s) BY <2>1 DEF SetupFails
  <2>2. CASE Setup(s) BY <2>2 DEF Setup, Runs
  <2>3. CASE StartExtra(s) BY <2>3 DEF StartExtra, Turn
  <2>4. CASE AddInitial(s) BY <2>4 DEF AddInitial, CanAdd, Turn, NextStep, StartsCount
  <2>5. CASE AddLock(s) BY <2>5 DEF AddLock, CanAdd, Turn
  <2>6. CASE AddSend(s) BY <2>6 DEF AddSend, Selecting, NextStep, StartsCount
  <2>7. CASE AddFuture(s) BY <2>7 DEF AddFuture, Counted
  <2> QED BY <1>7, <2>1, <2>2, <2>3, <2>4, <2>5, <2>6, <2>7 DEF GroupStep
<1>8. ASSUME NEW s \in Sources, CountStep(s) PROVE Types'
  <2>1. CASE AddExtraFuture(s) BY <2>1 DEF AddExtraFuture, Counted, Runs
  <2>2. CASE ExtraFails(s) BY <2>2 DEF ExtraFails
  <2>3. CASE AddTotal(s) BY <2>3 DEF AddTotal, OneLess
  <2>4. CASE SendTotal(s)
    <3>1. open' \in BOOLEAN BY <2>4 DEF SendTotal, OneLess
    <3>2. waitingFutures' \in Int BY <2>4 DEF SendTotal, OneLess
    <3>3. told' \subseteq total' /\ adder' \in [Sources -> {"none", "start", "value", "add", "waiting", "send", "done"}]
      BY <2>4 DEF SendTotal
    <3> QED BY <2>4, <3>1, <3>2, <3>3 DEF SendTotal
  <2> QED BY <1>8, <2>1, <2>2, <2>3, <2>4 DEF CountStep
<1>9. ASSUME NEW s \in Sources, SelectValue(s) PROVE Types'
  BY <1>9 DEF SelectValue, Selecting
<1>10. ASSUME NEW s \in Sources, SelectClosed(s) PROVE Types'
  BY <1>10 DEF SelectClosed, Selecting
<1>11. ASSUME NEW s \in Sources, Announce(s) PROVE Types'
  BY <1>11 DEF Announce
<1>12. CASE UNCHANGED vars BY <1>12 DEF vars
<1> QED BY <1>1, <1>2, <1>3, <1>4, <1>5, <1>6, <1>7, <1>8, <1>9, <1>10, <1>11, <1>12
   DEF Next, MainStep, CloserStep, LoopStep

\* A source keeps its kind.
LEMMA KindsStep ==
  ASSUME Types, CountKinds, [Next]_vars PROVE CountKinds'
<1> USE ProposalsAssumption
    DEF Types, CountKinds, Running, Sources, programVars, solverVars, mixerVars, adderVars
<1>1. CASE ReadyCount BY <1>1 DEF ReadyCount
<1>2. CASE ReadyMixer BY <1>2 DEF ReadyMixer
<1>3. CASE ShutdownAsync BY <1>3 DEF ShutdownAsync
<1>4. CASE StopMessage BY <1>4 DEF StopMessage, Selecting
<1>5. CASE Output BY <1>5 DEF Output
<1>6. CASE LoopEnds BY <1>6 DEF LoopEnds
<1>7. ASSUME NEW s \in Sources, GroupStep(s) PROVE CountKinds'
  <2>1. CASE SetupFails(s) BY <2>1 DEF SetupFails
  <2>2. CASE Setup(s) BY <2>2 DEF Setup, Runs
  <2>3. CASE StartExtra(s) BY <2>3 DEF StartExtra, Turn
  <2>4. CASE AddInitial(s) BY <2>4 DEF AddInitial, CanAdd, Turn, NextStep, StartsCount
  <2>5. CASE AddLock(s) BY <2>5 DEF AddLock, CanAdd, Turn
  <2>6. CASE AddSend(s) BY <2>6 DEF AddSend, Selecting, NextStep, StartsCount
  <2>7. CASE AddFuture(s) BY <2>7 DEF AddFuture, Counted
  <2> QED BY <1>7, <2>1, <2>2, <2>3, <2>4, <2>5, <2>6, <2>7 DEF GroupStep
<1>8. ASSUME NEW s \in Sources, CountStep(s) PROVE CountKinds'
  <2>1. CASE AddExtraFuture(s) BY <2>1 DEF AddExtraFuture, Counted, Runs
  <2>2. CASE ExtraFails(s) BY <2>2 DEF ExtraFails
  <2>3. CASE AddTotal(s) BY <2>3 DEF AddTotal, OneLess
  <2>4. CASE SendTotal(s) BY <2>4 DEF SendTotal, OneLess
  <2> QED BY <1>8, <2>1, <2>2, <2>3, <2>4 DEF CountStep
<1>9. ASSUME NEW s \in Sources, SelectValue(s) PROVE CountKinds'
  BY <1>9 DEF SelectValue, Selecting
<1>10. ASSUME NEW s \in Sources, SelectClosed(s) PROVE CountKinds'
  BY <1>10 DEF SelectClosed, Selecting
<1>11. ASSUME NEW s \in Sources, Announce(s) PROVE CountKinds'
  BY <1>11 DEF Announce
<1>12. CASE UNCHANGED vars BY <1>12 DEF vars
<1> QED BY <1>1, <1>2, <1>3, <1>4, <1>5, <1>6, <1>7, <1>8, <1>9, <1>10, <1>11, <1>12
   DEF Next, MainStep, CloserStep, LoopStep

\* The mutex of the adder is free only when the total has been told.
LEMMA TotalStep ==
  ASSUME Types, TotalTold, [Next]_vars PROVE TotalTold'
<1> USE ProposalsAssumption
    DEF Types, TotalTold, Running, programVars, solverVars, mixerVars, adderVars
<1>1. CASE ReadyCount BY <1>1 DEF ReadyCount
<1>2. CASE ReadyMixer BY <1>2 DEF ReadyMixer
<1>3. CASE ShutdownAsync BY <1>3 DEF ShutdownAsync
<1>4. CASE StopMessage BY <1>4 DEF StopMessage, Selecting
<1>5. CASE Output BY <1>5 DEF Output
<1>6. CASE LoopEnds BY <1>6 DEF LoopEnds
<1>7. ASSUME NEW s \in Sources, GroupStep(s) PROVE TotalTold'
  <2>1. CASE SetupFails(s) BY <2>1 DEF SetupFails
  <2>2. CASE Setup(s) BY <2>2 DEF Setup, Runs
  <2>3. CASE StartExtra(s) BY <2>3 DEF StartExtra, Turn
  <2>4. CASE AddInitial(s) BY <2>4 DEF AddInitial, CanAdd, Turn, NextStep, StartsCount
  <2>5. CASE AddLock(s) BY <2>5 DEF AddLock, CanAdd, Turn
  <2>6. CASE AddSend(s) BY <2>6 DEF AddSend, Selecting, NextStep, StartsCount
  <2>7. CASE AddFuture(s) BY <2>7 DEF AddFuture, Counted
  <2> QED BY <1>7, <2>1, <2>2, <2>3, <2>4, <2>5, <2>6, <2>7 DEF GroupStep
<1>8. ASSUME NEW s \in Sources, CountStep(s) PROVE TotalTold'
  <2>1. CASE AddExtraFuture(s) BY <2>1 DEF AddExtraFuture, Counted, Runs
  <2>2. CASE ExtraFails(s) BY <2>2 DEF ExtraFails
  <2>3. CASE AddTotal(s) BY <2>3 DEF AddTotal, OneLess
  <2>4. CASE SendTotal(s) BY <2>4 DEF SendTotal, OneLess
  <2> QED BY <1>8, <2>1, <2>2, <2>3, <2>4 DEF CountStep
<1>9. ASSUME NEW s \in Sources, SelectValue(s) PROVE TotalTold'
  BY <1>9 DEF SelectValue, Selecting
<1>10. ASSUME NEW s \in Sources, SelectClosed(s) PROVE TotalTold'
  BY <1>10 DEF SelectClosed, Selecting
<1>11. ASSUME NEW s \in Sources, Announce(s) PROVE TotalTold'
  BY <1>11 DEF Announce
<1>12. CASE UNCHANGED vars BY <1>12 DEF vars
<1> QED BY <1>1, <1>2, <1>3, <1>4, <1>5, <1>6, <1>7, <1>8, <1>9, <1>10, <1>11, <1>12
   DEF Next, MainStep, CloserStep, LoopStep

\* Groups, main and the goroutine that shuts down keep their order.
LEMMA OrderStep ==
  ASSUME Types, ShutdownOrder, [Next]_vars PROVE ShutdownOrder'
<1> USE ProposalsAssumption
    DEF Types, ShutdownOrder, Running, programVars, solverVars, mixerVars, adderVars
<1>1. CASE ReadyCount BY <1>1 DEF ReadyCount
<1>2. CASE ReadyMixer BY <1>2 DEF ReadyMixer
<1>3. CASE ShutdownAsync BY <1>3 DEF ShutdownAsync
<1>4. CASE StopMessage BY <1>4 DEF StopMessage, Selecting
<1>5. CASE Output BY <1>5 DEF Output
<1>6. CASE LoopEnds BY <1>6 DEF LoopEnds
<1>7. ASSUME NEW s \in Sources, GroupStep(s) PROVE ShutdownOrder'
  <2>1. CASE SetupFails(s) BY <2>1 DEF SetupFails
  <2>2. CASE Setup(s) BY <2>2 DEF Setup, Runs
  <2>3. CASE StartExtra(s) BY <2>3 DEF StartExtra, Turn
  <2>4. CASE AddInitial(s) BY <2>4 DEF AddInitial, CanAdd, Turn, NextStep, StartsCount
  <2>5. CASE AddLock(s) BY <2>5 DEF AddLock, CanAdd, Turn
  <2>6. CASE AddSend(s) BY <2>6 DEF AddSend, Selecting, NextStep, StartsCount
  <2>7. CASE AddFuture(s) BY <2>7 DEF AddFuture, Counted
  <2> QED BY <1>7, <2>1, <2>2, <2>3, <2>4, <2>5, <2>6, <2>7 DEF GroupStep
<1>8. ASSUME NEW s \in Sources, CountStep(s) PROVE ShutdownOrder'
  <2>1. CASE AddExtraFuture(s) BY <2>1 DEF AddExtraFuture, Counted, Runs
  <2>2. CASE ExtraFails(s) BY <2>2 DEF ExtraFails
  <2>3. CASE AddTotal(s) BY <2>3 DEF AddTotal, OneLess
  <2>4. CASE SendTotal(s) BY <2>4 DEF SendTotal, OneLess
  <2> QED BY <1>8, <2>1, <2>2, <2>3, <2>4 DEF CountStep
<1>9. ASSUME NEW s \in Sources, SelectValue(s) PROVE ShutdownOrder'
  BY <1>9 DEF SelectValue, Selecting
<1>10. ASSUME NEW s \in Sources, SelectClosed(s) PROVE ShutdownOrder'
  BY <1>10 DEF SelectClosed, Selecting
<1>11. ASSUME NEW s \in Sources, Announce(s) PROVE ShutdownOrder'
  BY <1>11 DEF Announce
<1>12. CASE UNCHANGED vars BY <1>12 DEF vars
<1> QED BY <1>1, <1>2, <1>3, <1>4, <1>5, <1>6, <1>7, <1>8, <1>9, <1>10, <1>11, <1>12
   DEF Next, MainStep, CloserStep, LoopStep

\* No source is lost on its way.
LEMMA SourceStep ==
  ASSUME Types, CountKinds, ShutdownOrder, SourceSomewhere, [Next]_vars PROVE SourceSomewhere'
<1> USE ProposalsAssumption
    DEF Types, CountKinds, ShutdownOrder, SourceSomewhere, Running, Sources, programVars, solverVars, mixerVars, adderVars
<1>1. CASE ReadyCount BY <1>1 DEF ReadyCount
<1>2. CASE ReadyMixer BY <1>2 DEF ReadyMixer
<1>3. CASE ShutdownAsync BY <1>3 DEF ShutdownAsync
<1>4. CASE StopMessage BY <1>4 DEF StopMessage, Selecting
<1>5. CASE Output BY <1>5 DEF Output
<1>6. CASE LoopEnds BY <1>6 DEF LoopEnds
<1>7. ASSUME NEW s \in Sources, GroupStep(s) PROVE SourceSomewhere'
  <2>1. CASE SetupFails(s) BY <2>1 DEF SetupFails
  <2>2. CASE Setup(s) BY <2>2 DEF Setup, Runs
  <2>3. CASE StartExtra(s) BY <2>3 DEF StartExtra, Turn
  <2>4. CASE AddInitial(s) BY <2>4 DEF AddInitial, CanAdd, Turn, NextStep, StartsCount
  <2>5. CASE AddLock(s) BY <2>5 DEF AddLock, CanAdd, Turn
  <2>6. CASE AddSend(s) BY <2>6 DEF AddSend, Selecting, NextStep, StartsCount
  <2>7. CASE AddFuture(s) BY <2>7 DEF AddFuture, Counted
  <2> QED BY <1>7, <2>1, <2>2, <2>3, <2>4, <2>5, <2>6, <2>7 DEF GroupStep
<1>8. ASSUME NEW s \in Sources, CountStep(s) PROVE SourceSomewhere'
  <2>1. CASE AddExtraFuture(s) BY <2>1 DEF AddExtraFuture, Counted, Runs
  <2>2. CASE ExtraFails(s) BY <2>2 DEF ExtraFails
  <2>3. CASE AddTotal(s) BY <2>3 DEF AddTotal, OneLess
  <2>4. CASE SendTotal(s) BY <2>4 DEF SendTotal, OneLess
  <2> QED BY <1>8, <2>1, <2>2, <2>3, <2>4 DEF CountStep
<1>9. ASSUME NEW s \in Sources, SelectValue(s) PROVE SourceSomewhere'
  BY <1>9 DEF SelectValue, Selecting
<1>10. ASSUME NEW s \in Sources, SelectClosed(s) PROVE SourceSomewhere'
  BY <1>10 DEF SelectClosed, Selecting
<1>11. ASSUME NEW s \in Sources, Announce(s) PROVE SourceSomewhere'
  BY <1>11 DEF Announce
<1>12. CASE UNCHANGED vars BY <1>12 DEF vars
<1> QED BY <1>1, <1>2, <1>3, <1>4, <1>5, <1>6, <1>7, <1>8, <1>9, <1>10, <1>11, <1>12
   DEF Next, MainStep, CloserStep, LoopStep

\* A loop that has ended takes nothing more.
LEMMA LoopStepEmpty ==
  ASSUME Types, ShutdownOrder, LoopEmpty, [Next]_vars PROVE LoopEmpty'
<1> USE ProposalsAssumption
    DEF Types, ShutdownOrder, LoopEmpty, Running, programVars, solverVars, mixerVars, adderVars
<1>1. CASE ReadyCount BY <1>1 DEF ReadyCount
<1>2. CASE ReadyMixer BY <1>2 DEF ReadyMixer
<1>3. CASE ShutdownAsync BY <1>3 DEF ShutdownAsync
<1>4. CASE StopMessage BY <1>4 DEF StopMessage, Selecting
<1>5. CASE Output BY <1>5 DEF Output
<1>6. CASE LoopEnds BY <1>6 DEF LoopEnds
<1>7. ASSUME NEW s \in Sources, GroupStep(s) PROVE LoopEmpty'
  <2>1. CASE SetupFails(s) BY <2>1 DEF SetupFails
  <2>2. CASE Setup(s) BY <2>2 DEF Setup, Runs
  <2>3. CASE StartExtra(s) BY <2>3 DEF StartExtra, Turn
  <2>4. CASE AddInitial(s) BY <2>4 DEF AddInitial, CanAdd, Turn, NextStep, StartsCount
  <2>5. CASE AddLock(s) BY <2>5 DEF AddLock, CanAdd, Turn
  <2>6. CASE AddSend(s) BY <2>6 DEF AddSend, Selecting, NextStep, StartsCount
  <2>7. CASE AddFuture(s) BY <2>7 DEF AddFuture, Counted
  <2> QED BY <1>7, <2>1, <2>2, <2>3, <2>4, <2>5, <2>6, <2>7 DEF GroupStep
<1>8. ASSUME NEW s \in Sources, CountStep(s) PROVE LoopEmpty'
  <2>1. CASE AddExtraFuture(s) BY <2>1 DEF AddExtraFuture, Counted, Runs
  <2>2. CASE ExtraFails(s) BY <2>2 DEF ExtraFails
  <2>3. CASE AddTotal(s) BY <2>3 DEF AddTotal, OneLess
  <2>4. CASE SendTotal(s) BY <2>4 DEF SendTotal, OneLess
  <2> QED BY <1>8, <2>1, <2>2, <2>3, <2>4 DEF CountStep
<1>9. ASSUME NEW s \in Sources, SelectValue(s) PROVE LoopEmpty'
  BY <1>9 DEF SelectValue, Selecting
<1>10. ASSUME NEW s \in Sources, SelectClosed(s) PROVE LoopEmpty'
  BY <1>10 DEF SelectClosed, Selecting
<1>11. ASSUME NEW s \in Sources, Announce(s) PROVE LoopEmpty'
  BY <1>11 DEF Announce
<1>12. CASE UNCHANGED vars BY <1>12 DEF vars
<1> QED BY <1>1, <1>2, <1>3, <1>4, <1>5, <1>6, <1>7, <1>8, <1>9, <1>10, <1>11, <1>12
   DEF Next, MainStep, CloserStep, LoopStep

-----------------------------------------------------------------------------
(* The count of the futures *)

LEMMA OneMore ==
  ASSUME NEW s \in Sources, s \notin Counting, Counting' = Counting \union {s},
         CountRight, waitingFutures' = waitingFutures + 1
  PROVE  CountRight'
<1>1. Cardinality(Counting \union {s}) = Cardinality(Counting) + 1
  BY CountingFinite, FS_AddElement
<1> QED BY <1>1 DEF CountRight

LEMMA OneFewer ==
  ASSUME NEW s \in Counting, Counting' = Counting \ {s},
         CountRight, waitingFutures' = waitingFutures - 1
  PROVE  CountRight'
<1>1. Cardinality(Counting \ {s}) = Cardinality(Counting) - 1
  BY CountingFinite, FS_RemoveElement
<1> QED BY <1>1 DEF CountRight

LEMMA SameCount ==
  ASSUME Counting' = Counting, CountRight, waitingFutures' = waitingFutures
  PROVE  CountRight'
  BY DEF CountRight

LEMMA CountRightStep ==
  ASSUME Types, CountKinds, CountRight, [Next]_vars PROVE CountRight'
<1> USE DEF programVars, solverVars, mixerVars, adderVars
<1>1. CASE UNCHANGED <<adder, waitingFutures>>
  BY <1>1, SameCount DEF Counting
<1>2. ASSUME NEW s \in Sources, StartExtra(s) \/ AddInitial(s) \/ AddSend(s) \/ ExtraFails(s)
      PROVE CountRight'
  <2>1. Counting' = Counting
    <3>1. CASE StartExtra(s) BY <3>1 DEF StartExtra, Counting, Types
    <3>2. CASE AddInitial(s) BY <3>2 DEF AddInitial, StartsCount, Counting, Types, CountKinds
    <3>3. CASE AddSend(s) BY <3>3 DEF AddSend, StartsCount, Counting, Types, CountKinds
    <3>4. CASE ExtraFails(s) BY <3>4 DEF ExtraFails, Counting, Types
    <3> QED BY <1>2, <3>1, <3>2, <3>3, <3>4
  <2>2. waitingFutures' = waitingFutures
    BY <1>2 DEF StartExtra, AddInitial, AddSend, ExtraFails
  <2> QED BY <2>1, <2>2, SameCount
<1>3. ASSUME NEW s \in Sources, AddFuture(s) \/ AddExtraFuture(s)
      PROVE CountRight'
  <2>1. adder[s] \in {"none", "add"}
    BY <1>3, ProposalsAssumption DEF AddFuture, AddExtraFuture, CountKinds
  <2>2. waitingFutures' = waitingFutures + 1 /\ adder' = [adder EXCEPT ![s] = "waiting"]
    BY <1>3 DEF AddFuture, AddExtraFuture, Counted
  <2>3. s \notin Counting /\ Counting' = Counting \union {s}
    BY <2>1, <2>2 DEF Counting, Types
  <2> QED BY <2>2, <2>3, OneMore
<1>4. ASSUME NEW s \in Sources, AddTotal(s) PROVE CountRight'
  <2>1. CASE open
    <3>1. adder' = [adder EXCEPT ![s] = "send"] /\ waitingFutures' = waitingFutures
      BY <1>4, <2>1 DEF AddTotal
    <3>2. IF adder[s] = "waiting" THEN s \notin Values ELSE adder[s] = "value" /\ s \in Values
      BY <1>4 DEF AddTotal, CountKinds
    <3>3. Counting' = Counting BY <3>1, <3>2 DEF Counting, Types
    <3> QED BY <3>1, <3>3, SameCount
  <2>2. CASE ~open /\ s \in Values
    <3>1. adder' = [adder EXCEPT ![s] = "done"] /\ waitingFutures' = waitingFutures
      BY <1>4, <2>2 DEF AddTotal
    <3>2. adder[s] = "value" BY <1>4, <2>2 DEF AddTotal, CountKinds
    <3>3. Counting' = Counting BY <3>1, <3>2 DEF Counting, Types
    <3> QED BY <3>1, <3>3, SameCount
  <2>3. CASE ~open /\ s \notin Values
    <3>1. adder' = [adder EXCEPT ![s] = "done"] /\ waitingFutures' = waitingFutures - 1
      BY <1>4, <2>3 DEF AddTotal, OneLess
    <3>2. adder[s] = "waiting" BY <1>4, <2>3 DEF AddTotal, CountKinds
    <3>3. s \in Counting /\ Counting' = Counting \ {s}
      BY <3>1, <3>2 DEF Counting, Types
    <3> QED BY <3>1, <3>3, OneFewer
  <2> QED BY <2>1, <2>2, <2>3
<1>5. ASSUME NEW s \in Sources, SendTotal(s) PROVE CountRight'
  <2>1. adder[s] = "send" /\ adder' = [adder EXCEPT ![s] = "done"]
    BY <1>5 DEF SendTotal
  <2>2. CASE s \in Values
    <3>1. Counting' = Counting BY <2>1, <2>2 DEF Counting, Types
    <3> QED BY <1>5, <2>2, <3>1, SameCount DEF SendTotal
  <2>3. CASE s \notin Values
    <3>1. s \in Counting /\ Counting' = Counting \ {s}
      BY <2>1, <2>3 DEF Counting, Types
    <3> QED BY <1>5, <2>3, <3>1, OneFewer DEF SendTotal, OneLess
  <2> QED BY <2>2, <2>3
<1>6. MainStep \/ CloserStep \/ LoopStep => UNCHANGED <<adder, waitingFutures>>
  BY DEF MainStep, CloserStep, LoopStep, ReadyCount, ReadyMixer, ShutdownAsync, StopMessage,
         Output, LoopEnds, SelectValue, SelectClosed
<1>7. ASSUME NEW s \in Sources, SetupFails(s) \/ Setup(s) \/ AddLock(s) \/ Announce(s)
      PROVE  UNCHANGED <<adder, waitingFutures>>
  BY <1>7 DEF SetupFails, Setup, AddLock, Announce
<1>8. UNCHANGED vars => UNCHANGED <<adder, waitingFutures>>
  BY DEF vars
<1> QED BY <1>1, <1>2, <1>3, <1>4, <1>5, <1>6, <1>7, <1>8 DEF Next, GroupStep, CountStep

LEMMA PInvStep == PInv /\ [Next]_vars => PInv'
  BY TypesStep, KindsStep, CountRightStep, TotalStep, OrderStep, SourceStep, LoopStepEmpty
  DEF PInv

THEOREM ProposalsInvariant == Spec => []PInv
  BY PInvInit, PInvStep, PTL DEF Spec
-----------------------------------------------------------------------------
(* The theorems *)

\* For any groups and sources the variables have their types, and no future is
\* counted down that was not added (FutureValueAdder).
THEOREM TypeCorrect == Spec => []TypeOK
<1>1. PInv => TypeOK
  <2> SUFFICES ASSUME PInv PROVE TypeOK
    OBVIOUS
  <2>1. waitingFutures \in Nat BY CountingFinite DEF PInv, CountRight
  <2> QED BY <2>1 DEF PInv, Types, TypeOK
<1> QED BY <1>1, ProposalsInvariant, PTL

\* For any groups and sources the mixer closes its output after the last
\* proposal, and panics only before it runs (FutureChannelMixerContinuing).
THEOREM ShutdownIsLast == Spec => []ShutdownLast
<1>1. PInv => ShutdownLast
  <2> SUFFICES ASSUME PInv PROVE ShutdownLast
    OBVIOUS
  <2>1. PanicsOnlyEarly BY DEF PInv, ShutdownOrder, PanicsOnlyEarly
  <2>2. ASSUME mixer = "Stopped", main = "ready"
        PROVE  held = Free /\ \A s \in Sources : step[s] = "end" /\ announced[s] /\ left[s] = 0
    BY <2>2 DEF PInv, ShutdownOrder, SourceSomewhere, LoopEmpty
  <2> QED BY <2>1, <2>2 DEF ShutdownLast, ClosesLast
<1> QED BY <1>1, ProposalsInvariant, PTL

\* The channel of the counts closes only with the last future.
LEMMA ClosesWithLast ==
  ASSUME PInv, CountRight', Next, open, ~open', NEW s \in Sources
  PROVE  adder'[s] # "waiting"
<1>1. waitingFutures' <= 0
  <2>1. CASE ReadyCount
    <3>1. waitingFutures' = waitingFutures /\ (~open' => ~(waitingFutures > 0))
      BY <2>1 DEF ReadyCount
    <3> QED BY <3>1 DEF PInv, Types
  <2>2. ASSUME NEW r \in Sources, SendTotal(r) PROVE waitingFutures' <= 0
    BY <2>2 DEF SendTotal, OneLess
  <2>3. ASSUME NEW r \in Sources, AddTotal(r) PROVE FALSE
    BY <2>3 DEF AddTotal
  <2>4. ASSUME NEW r \in Sources, GroupStep(r) \/ Announce(r) PROVE FALSE
    BY <2>4 DEF GroupStep, SetupFails, Setup, StartExtra, AddInitial, AddLock, AddSend,
                AddFuture, Announce, adderVars
  <2>5. ASSUME NEW r \in Sources, AddExtraFuture(r) \/ ExtraFails(r) PROVE FALSE
    BY <2>5 DEF AddExtraFuture, ExtraFails
  <2>6. ASSUME ReadyMixer \/ CloserStep \/ LoopStep PROVE FALSE
    BY <2>6 DEF CloserStep, LoopStep, ReadyMixer, ShutdownAsync, StopMessage, Output, LoopEnds,
                SelectValue, SelectClosed, adderVars
  <2> QED BY <2>1, <2>2, <2>3, <2>4, <2>5, <2>6 DEF Next, MainStep, CountStep
<1>2. PInv'
  BY PInvStep
<1>3. IsFiniteSet(Counting') /\ Cardinality(Counting') <= 0
  <2>1. IsFiniteSet(Counting')
    BY FS_Subset, ProposalsAssumption DEF Counting
  <2> QED BY <1>1, <2>1 DEF CountRight
<1>4. Counting' = {}
  BY <1>3, FS_CardinalityType, FS_EmptySet
<1> QED BY <1>4 DEF Counting

\* For any groups and sources the reader of the counts is told each total, and
\* the last (FutureValueAdder).
THEOREM CountsAreTold == Spec => CountTold
<1> DEFINE Told == /\ open' /\ adderMutex' = Free => told' = total'
                   /\ open /\ ~open' => \A s \in Sources : adder'[s] # "waiting"
<1>1. ASSUME PInv, [Next]_vars PROVE [Told]_vars
  <2>1. PInv' BY <1>1, PInvStep
  <2>2. open' /\ adderMutex' = Free => told' = total'
    BY <2>1 DEF PInv, TotalTold
  <2>3. ASSUME Next, open, ~open' PROVE \A s \in Sources : adder'[s] # "waiting"
    BY <1>1, <2>1, <2>3, ClosesWithLast DEF PInv
  <2> QED BY <1>1, <2>2, <2>3
<1> QED BY <1>1, ProposalsInvariant, PTL DEF Spec, CountTold
=============================================================================
