--------------------- MODULE PossibleFutureErrors_proofs ---------------------
(***************************************************************************)
(* Proofs about the error collectors, for any collectors, any wiring and   *)
(* any callers: the state has its types, a collector is read or forwarded  *)
(* but never both, the report of a reader is all its collector will ever   *)
(* hold, and forwarding neither loses nor doubles an error nor leaves any  *)
(* behind.                                                                 *)
(***************************************************************************)
EXTENDS PossibleFutureErrors, FiniteSetTheorems, TLAPS

\* What the lock stands for: it is held by a forwarding of that collector.
OwnerInv ==
  \A c \in Collectors : owner[c] # NoThread => owner[c][1] = c

\* A reader that has returned has marked its collector as read.
ReadInv ==
  \A r \in Readers \intersect returned : hasReturnedResult[ReadAt[r]]

IndInv == TypeOK /\ OwnerInv /\ ReadInv /\ OneDestination /\ ReportIsAll
-----------------------------------------------------------------------------
(* Types *)

\* The calls of different kinds are different: who has returned is no mix-up.
LEMMA CallKinds ==
  ASSUME NEW r \in Readers
  PROVE  r \notin Errors /\ r \notin Links
BY CollectorAssumption

\* AddError keeps the types of what it changes.
LEMMA AddErrorTypes ==
  ASSUME TypeOK, NEW c \in Collectors, NEW e \in Errors, AddError(c, e)
  PROVE  /\ errorSlice' \in [Collectors -> Seq(Errors)]
         /\ warned' \subseteq Errors /\ late' \subseteq Errors
<1>1. CASE hasReturnedResult[c]
  BY <1>1 DEF TypeOK, AddError
<1>2. CASE ~hasReturnedResult[c]
  <2>1. /\ errorSlice' = [errorSlice EXCEPT ![c] = Append(errorSlice[c], e)]
        /\ warned' = warned /\ late' \subseteq late \union {e}
    BY <1>2 DEF AddError
  <2>2. Append(errorSlice[c], e) \in Seq(Errors)
    BY DEF TypeOK
  <2> QED
    BY <2>1, <2>2 DEF TypeOK
<1> QED
  BY <1>1, <1>2

\* A forwarding passes on errors that are in its collector.
LEMMA PassedIsError ==
  ASSUME TypeOK, NEW l \in Links, ForwardOne(l)
  PROVE  /\ l[1] \in Collectors /\ l[2] \in Collectors
         /\ errorSlice[l[1]][passed[l] + 1] \in Errors
<1>1. l[1] \in Collectors /\ l[2] \in Collectors
  BY CollectorAssumption
<1>2. errorSlice[l[1]] \in Seq(Errors)
  BY <1>1 DEF TypeOK
<1>3. passed[l] \in Nat /\ passed[l] < Len(errorSlice[l[1]])
  BY DEF TypeOK, ForwardOne
<1> QED
  BY <1>1, <1>2, <1>3

LEMMA TypeStep ==
  ASSUME TypeOK, Next
  PROVE  TypeOK'
<1>1. ASSUME NEW e \in Errors, Add(e)
      PROVE  TypeOK'
  <2>1. At[e] \in Collectors
    BY CollectorAssumption
  <2>2. /\ errorSlice' \in [Collectors -> Seq(Errors)]
        /\ warned' \subseteq Errors /\ late' \subseteq Errors
    BY <1>1, <2>1, AddErrorTypes DEF Add
  <2> QED
    BY <1>1, <2>2 DEF TypeOK, Add, Calls
<1>2. ASSUME NEW r \in Readers, Read(r)
      PROVE  TypeOK'
  <2>1. ReadAt[r] \in Collectors
    BY CollectorAssumption
  <2>2. CASE GetResultNoWait(r)
    BY <2>1, <2>2 DEF TypeOK, GetResultNoWait, Calls
  <2>3. CASE GetResultPanics(r)
    BY <2>3 DEF TypeOK, GetResultPanics, Panic
  <2> QED
    BY <1>2, <2>2, <2>3 DEF Read
<1>3. ASSUME NEW l \in Links, Forward(l)
      PROVE  TypeOK'
  <2>1. l[1] \in Collectors /\ l[2] \in Collectors
    BY CollectorAssumption
  <2>2. CASE ForwardLock(l)
    BY <2>1, <2>2 DEF TypeOK, ForwardLock
  <2>3. CASE ForwardPanics(l)
    BY <2>3 DEF TypeOK, ForwardPanics, Panic
  <2>4. CASE ForwardOne(l)
    <3>1. /\ errorSlice' \in [Collectors -> Seq(Errors)]
          /\ warned' \subseteq Errors /\ late' \subseteq Errors
      BY <2>4, PassedIsError, AddErrorTypes DEF ForwardOne
    <3>2. passed' \in [Links -> Nat]
      BY <2>4 DEF ForwardOne, TypeOK
    <3> QED
      BY <2>4, <3>1, <3>2 DEF TypeOK, ForwardOne
  <2>5. CASE ForwardUnlock(l)
    <3>1. errorSlice' \in [Collectors -> Seq(Errors)]
      BY <2>1, <2>5 DEF TypeOK, ForwardUnlock
    <3>2. owner' \in [Collectors -> Links \union {NoThread}]
      BY <2>1, <2>5 DEF TypeOK, ForwardUnlock
    <3> QED
      BY <2>1, <2>5, <3>1, <3>2 DEF TypeOK, ForwardUnlock, Calls
  <2> QED
    BY <1>3, <2>2, <2>3, <2>4, <2>5 DEF Forward
<1> QED
  BY <1>1, <1>2, <1>3 DEF Next
-----------------------------------------------------------------------------
(* Destinations *)

LEMMA OwnerStep ==
  ASSUME TypeOK, OwnerInv, Next
  PROVE  OwnerInv'
<1>1. ASSUME NEW e \in Errors, Add(e)
      PROVE  OwnerInv'
  BY <1>1 DEF OwnerInv, Add
<1>2. ASSUME NEW r \in Readers, Read(r)
      PROVE  OwnerInv'
  BY <1>2 DEF OwnerInv, Read, GetResultNoWait, GetResultPanics, Panic
<1>3. ASSUME NEW l \in Links, Forward(l)
      PROVE  OwnerInv'
  <2>1. l[1] \in Collectors
    BY CollectorAssumption
  <2>2. CASE ForwardLock(l)
    BY <2>1, <2>2 DEF TypeOK, OwnerInv, ForwardLock
  <2>3. CASE ForwardUnlock(l)
    BY <2>1, <2>3 DEF TypeOK, OwnerInv, ForwardUnlock
  <2>4. CASE ForwardPanics(l) \/ ForwardOne(l)
    BY <2>4 DEF OwnerInv, ForwardPanics, Panic, ForwardOne
  <2> QED
    BY <1>3, <2>2, <2>3, <2>4 DEF Forward
<1> QED
  BY <1>1, <1>2, <1>3 DEF Next

\* A collector is marked as read, or locked for a forwarding and then marked
\* as forwarded, only when it is neither.
LEMMA DestinationStep ==
  ASSUME TypeOK, OwnerInv, OneDestination, Next
  PROVE  OneDestination'
<1>1. ASSUME NEW e \in Errors, Add(e)
      PROVE  OneDestination'
  BY <1>1 DEF OneDestination, Add
<1>2. ASSUME NEW r \in Readers, Read(r)
      PROVE  OneDestination'
  BY <1>2, CollectorAssumption
     DEF TypeOK, OneDestination, Read, GetResultNoWait, GetResultPanics, Panic, Starts
<1>3. ASSUME NEW l \in Links, Forward(l)
      PROVE  OneDestination'
  <2>1. l # NoThread /\ l[1] \in Collectors
    BY CollectorAssumption
  <2>2. CASE ForwardLock(l)
    BY <2>1, <2>2 DEF TypeOK, OneDestination, ForwardLock
  <2>3. CASE ForwardPanics(l)
    BY <2>3 DEF OneDestination, ForwardPanics, Panic
  <2>4. CASE ForwardOne(l)
    BY <2>4 DEF OneDestination, ForwardOne
  <2>5. CASE ForwardUnlock(l)
    BY <2>1, <2>5 DEF TypeOK, OneDestination, ForwardUnlock
  <2> QED
    BY <1>3, <2>2, <2>3, <2>4, <2>5 DEF Forward
<1> QED
  BY <1>1, <1>2, <1>3 DEF Next
-----------------------------------------------------------------------------
(* Reports *)

LEMMA ReadStep ==
  ASSUME TypeOK, ReadInv, Next
  PROVE  ReadInv'
<1>1. ASSUME NEW e \in Errors, Add(e)
      PROVE  ReadInv'
  BY <1>1, CallKinds DEF ReadInv, Add
<1>2. ASSUME NEW r \in Readers, Read(r)
      PROVE  ReadInv'
  BY <1>2, CollectorAssumption
     DEF TypeOK, ReadInv, Read, GetResultNoWait, GetResultPanics, Panic
<1>3. ASSUME NEW l \in Links, Forward(l)
      PROVE  ReadInv'
  BY <1>3, CallKinds
     DEF ReadInv, Forward, ForwardLock, ForwardPanics, Panic, ForwardOne, ForwardUnlock
<1> QED
  BY <1>1, <1>2, <1>3 DEF Next

\* A collector that was read gets no more errors: AddError warns of them.
LEMMA AddErrorSpares ==
  ASSUME TypeOK, NEW c \in Collectors, NEW e \in Errors, AddError(c, e)
  PROVE  \A d \in Collectors : hasReturnedResult[d] => errorSlice'[d] = errorSlice[d]
BY DEF TypeOK, AddError

LEMMA ReportStep ==
  ASSUME IndInv, Next
  PROVE  ReportIsAll'
<1> USE DEF IndInv
<1>1. ASSUME NEW e \in Errors, Add(e)
      PROVE  ReportIsAll'
  <2>1. At[e] \in Collectors
    BY CollectorAssumption
  <2>2. \A d \in Collectors : hasReturnedResult[d] => errorSlice'[d] = errorSlice[d]
    BY <1>1, <2>1, AddErrorSpares DEF Add
  <2> QED
    BY <1>1, <2>2, CallKinds, CollectorAssumption DEF ReportIsAll, ReadInv, Add
<1>2. ASSUME NEW r \in Readers, Read(r)
      PROVE  ReportIsAll'
  BY <1>2 DEF TypeOK, ReportIsAll, Read, GetResultNoWait, GetResultPanics, Panic
<1>3. ASSUME NEW l \in Links, Forward(l)
      PROVE  ReportIsAll'
  <2>1. l # NoThread /\ l[1] \in Collectors /\ l[2] \in Collectors
    BY CollectorAssumption
  <2>2. \A d \in Collectors : hasReturnedResult[d] => errorSlice'[d] = errorSlice[d]
    <3>1. CASE ForwardOne(l)
      BY <3>1, PassedIsError, AddErrorSpares DEF ForwardOne
    <3>2. CASE ForwardUnlock(l)
      BY <2>1, <3>2 DEF TypeOK, OneDestination, ForwardUnlock
    <3> QED
      BY <1>3, <3>1, <3>2 DEF Forward, ForwardLock, ForwardPanics, Panic
  <2>3. /\ report' = report
        /\ Readers \intersect returned' = Readers \intersect returned
    BY <1>3, CallKinds
       DEF Forward, ForwardLock, ForwardPanics, Panic, ForwardOne, ForwardUnlock
  <2> QED
    BY <2>2, <2>3, CollectorAssumption DEF ReportIsAll, ReadInv
<1> QED
  BY <1>1, <1>2, <1>3 DEF Next
-----------------------------------------------------------------------------
LEMMA IndInvHolds == Spec => []IndInv
<1>1. Init => IndInv
  <2> SUFFICES ASSUME Init PROVE IndInv
    OBVIOUS
  <2>1. <<>> \in Seq(Errors)
    OBVIOUS
  <2>2. TypeOK
    BY <2>1 DEF Init, TypeOK
  <2>3. OwnerInv /\ ReadInv /\ OneDestination /\ ReportIsAll
    BY DEF Init, OwnerInv, ReadInv, OneDestination, ReportIsAll
  <2> QED
    BY <2>2, <2>3 DEF IndInv
<1>2. IndInv /\ [Next]_vars => IndInv'
  <2>1. ASSUME IndInv, Next
        PROVE  IndInv'
    BY <2>1, TypeStep, OwnerStep, DestinationStep, ReadStep, ReportStep DEF IndInv
  <2>2. ASSUME IndInv, UNCHANGED vars
        PROVE  IndInv'
    BY <2>2 DEF vars, IndInv, TypeOK, OwnerInv, ReadInv, OneDestination, ReportIsAll
  <2> QED
    BY <2>1, <2>2
<1> QED
  BY <1>1, <1>2, PTL DEF Spec

\* The state has its types, for any wiring.
THEOREM TypeCorrect == Spec => []TypeOK
<1>1. IndInv => TypeOK
  BY DEF IndInv
<1> QED
  BY <1>1, IndInvHolds, PTL

\* A collector is never both read and forwarded, whatever the callers do: the
\* checks at error.go:49 and 69 exclude each other under the lock.
THEOREM ReadOrForwarded == Spec => []OneDestination
<1>1. IndInv => OneDestination
  BY DEF IndInv
<1> QED
  BY <1>1, IndInvHolds, PTL

\* What GetResultNoWait reported is all its collector will ever hold: later
\* errors go to the warning handler (error.go:30).
THEOREM ReportsAreFinal == Spec => []ReportIsAll
<1>1. IndInv => ReportIsAll
  BY DEF IndInv
<1> QED
  BY <1>1, IndInvHolds, PTL

\* A collector that is read has no other destination and its report is final
\* (error.go:45-79).
THEOREM ReportsStay == Spec => []ReportIsFinal
<1>1. ReportIsAll /\ OneDestination => ReportIsFinal
  BY DEF ReportIsFinal
<1> QED
  BY <1>1, ReadOrForwarded, ReportsAreFinal, PTL
-----------------------------------------------------------------------------
(* Where the errors are *)

\* A forwarding has passed on some of the errors of its collector, and none
\* before it begins.
PassedInv ==
  \A l \in Links :
    IF owner[l[1]] = l THEN l \notin returned /\ passed[l] <= Len(errorSlice[l[1]])
    ELSE l \notin returned => passed[l] = 0

\* The first error of a collector that was not passed on
First(c) == IF owner[c] = NoThread THEN 1 ELSE passed[owner[c]] + 1

Holds(c, i, e) == First(c) <= i /\ i <= Len(errorSlice[c]) /\ errorSlice[c][i] = e

\* An error that was added and not warned of has one place, and no other error
\* has any.
PlaceInv ==
  /\ warned \subseteq returned
  /\ \A e \in Errors, c \in Collectors, i \in Nat : Holds(c, i, e) =>
       /\ e \in returned /\ e \notin warned
       /\ \A d \in Collectors, j \in Nat : Holds(d, j, e) => d = c /\ j = i
  /\ \A e \in Errors : e \in returned /\ e \notin warned =>
       \E c \in Collectors, i \in Nat : Holds(c, i, e)

LEMMA LinkEnds ==
  ASSUME NEW l \in Links
  PROVE  l[1] \in Collectors /\ l[2] \in Collectors /\ l[1] # l[2] /\ l # NoThread
BY CollectorAssumption

\* The collector of a forwarding is not touched by others.
LEMMA PassedStep ==
  ASSUME TypeOK, PassedInv, [Next]_vars
  PROVE  PassedInv'
<1>1. ASSUME NEW c \in Collectors, NEW e \in Errors, AddError(c, e), NEW d \in Collectors, d # c
      PROVE  errorSlice'[d] = errorSlice[d]
  BY <1>1 DEF AddError, TypeOK
<1>2. ASSUME NEW c \in Collectors, NEW e \in Errors, AddError(c, e), NEW l \in Links,
             owner[l[1]] = l
      PROVE  errorSlice'[l[1]] = errorSlice[l[1]]
  BY <1>1, <1>2, LinkEnds DEF AddError
<1>3. ASSUME NEW e \in Errors, Add(e) PROVE PassedInv'
  <2>1. At[e] \in Collectors /\ e \notin Links
    BY CollectorAssumption
  <2> QED
    BY <1>2, <1>3, <2>1 DEF Add, PassedInv
<1>4. ASSUME NEW r \in Readers, Read(r) PROVE PassedInv'
  BY <1>4, CallKinds DEF Read, GetResultNoWait, GetResultPanics, Panic, PassedInv
<1>5. ASSUME NEW l \in Links, ForwardLock(l) PROVE PassedInv'
  <2>1. passed[l] = 0 /\ l \notin returned
    BY <1>5, LinkEnds DEF ForwardLock, Starts, PassedInv
  <2>2. Len(errorSlice[l[1]]) \in Nat
    BY LinkEnds DEF TypeOK
  <2>3. ASSUME NEW m \in Links, m # l
        PROVE  owner[m[1]] # m => owner'[m[1]] # m
    BY <1>5, <2>3, LinkEnds DEF ForwardLock, TypeOK
  <2>4. ASSUME NEW m \in Links, owner[m[1]] = m PROVE owner'[m[1]] = m
    BY <1>5, <2>4, LinkEnds DEF ForwardLock, Starts, TypeOK
  <2>5. owner'[l[1]] = l
    BY <1>5, LinkEnds DEF ForwardLock, TypeOK
  <2> QED
    BY <1>5, <2>1, <2>2, <2>3, <2>4, <2>5 DEF ForwardLock, PassedInv
<1>6. ASSUME NEW l \in Links, ForwardOne(l) PROVE PassedInv'
  <2>1. errorSlice'[l[1]] = errorSlice[l[1]]
    BY <1>2, <1>6, PassedIsError DEF ForwardOne
  <2>2. \A m \in Links : owner[m[1]] = m => errorSlice'[m[1]] = errorSlice[m[1]]
    BY <1>2, <1>6, PassedIsError DEF ForwardOne
  <2>3. /\ passed'[l] = passed[l] + 1 /\ passed[l] + 1 <= Len(errorSlice[l[1]])
        /\ \A m \in Links : m # l => passed'[m] = passed[m]
    <3>1. passed[l] \in Nat /\ Len(errorSlice[l[1]]) \in Nat
      BY LinkEnds DEF TypeOK
    <3> QED
      BY <1>6, <3>1 DEF ForwardOne, TypeOK
  <2> QED
    BY <1>6, <2>1, <2>2, <2>3 DEF ForwardOne, PassedInv
<1>7. ASSUME NEW l \in Links, ForwardUnlock(l) PROVE PassedInv'
  <2>1. owner'[l[1]] = NoThread
    BY <1>7, LinkEnds DEF ForwardUnlock, TypeOK
  <2>2. ASSUME NEW m \in Links, m # l, owner[m[1]] = m
        PROVE  owner'[m[1]] = m /\ errorSlice'[m[1]] = errorSlice[m[1]]
    BY <1>7, <2>2, LinkEnds DEF ForwardUnlock, TypeOK
  <2>3. ASSUME NEW m \in Links, m # l, owner[m[1]] # m
        PROVE  owner'[m[1]] # m
    BY <1>7, <2>3, LinkEnds DEF ForwardUnlock, TypeOK
  <2>4. owner'[l[1]] # l
    BY <2>1, LinkEnds
  <2> QED
    BY <1>7, <2>2, <2>3, <2>4 DEF ForwardUnlock, PassedInv
<1>8. ASSUME NEW l \in Links, ForwardPanics(l) PROVE PassedInv'
  BY <1>8 DEF ForwardPanics, Panic, PassedInv
<1>9. CASE UNCHANGED vars
  BY <1>9 DEF vars, PassedInv
<1> QED
  BY <1>3, <1>4, <1>5, <1>6, <1>7, <1>8, <1>9 DEF Next, Forward

\* The places stay what they are when no collector and no lock changes.
LEMMA SamePlaces ==
  ASSUME PlaceInv, warned' = warned, Errors \intersect returned' = Errors \intersect returned,
         warned \subseteq Errors,
         \A e \in Errors, c \in Collectors, i \in Nat : Holds(c, i, e)' <=> Holds(c, i, e)
  PROVE  PlaceInv'
BY DEF PlaceInv

\* An error of which the user is warned loses its place.
LEMMA WarnedInstead ==
  ASSUME PlaceInv, NEW e \in Errors, warned' = warned \union {e},
         returned' = returned \union {e},
         \A f \in Errors, d \in Collectors, j \in Nat :
           Holds(d, j, f)' <=> Holds(d, j, f) /\ f # e
  PROVE  PlaceInv'
BY DEF PlaceInv

\* What AddError adds to a collector
LEMMA AddedPlace ==
  ASSUME TypeOK, NEW c \in Collectors, NEW e \in Errors, AddError(c, e), ~hasReturnedResult[c]
  PROVE  /\ warned' = warned
         /\ Len(errorSlice[c]) + 1 \in Nat
         /\ Len(errorSlice'[c]) = Len(errorSlice[c]) + 1
         /\ errorSlice'[c][Len(errorSlice[c]) + 1] = e
         /\ \A j \in 1..Len(errorSlice[c]) : errorSlice'[c][j] = errorSlice[c][j]
         /\ \A d \in Collectors : d # c => errorSlice'[d] = errorSlice[d]
<1>1. /\ errorSlice' = [errorSlice EXCEPT ![c] = Append(errorSlice[c], e)]
      /\ warned' = warned
  BY DEF AddError
<1>2. errorSlice[c] \in Seq(Errors) /\ errorSlice'[c] = Append(errorSlice[c], e)
      /\ \A d \in Collectors : d # c => errorSlice'[d] = errorSlice[d]
  BY <1>1 DEF TypeOK
<1> QED
  BY <1>1, <1>2

\* A lock is held by a forwarding of its own collector, so two collectors have
\* different holders.
LEMMA OwnedBySelf ==
  ASSUME OwnerInv, TypeOK, NEW c \in Collectors, NEW d \in Collectors, c # d, owner[c] # NoThread
  PROVE  owner[d] # owner[c]
BY DEF OwnerInv

LEMMA AddPlaces ==
  ASSUME TypeOK, PlaceInv, NEW e \in Errors, Add(e)
  PROVE  PlaceInv'
<1> DEFINE c == At[e]
           n == Len(errorSlice[c]) + 1
<1>1. c \in Collectors /\ owner[c] = NoThread /\ e \notin returned /\ e \notin warned
  BY CollectorAssumption DEF Add, Starts, PlaceInv
<1>2. /\ AddError(c, e) /\ owner' = owner /\ passed' = passed
      /\ returned' = returned \union {e}
  BY DEF Add
<1>3. \A d \in Collectors, j \in Nat : ~Holds(d, j, e)
  BY <1>1 DEF PlaceInv
<1>4. CASE hasReturnedResult[c]
  <2>1. warned' = warned \union {e} /\ errorSlice' = errorSlice
    BY <1>2, <1>4 DEF AddError
  <2>2. \A f \in Errors, d \in Collectors, j \in Nat : Holds(d, j, f)' <=> Holds(d, j, f)
    BY <1>2, <2>1 DEF Holds, First
  <2> QED
    BY <1>2, <1>3, <2>1, <2>2, WarnedInstead
<1>5. CASE ~hasReturnedResult[c]
  <2>1. First(c) = 1 /\ First(c)' = 1 /\ \A d \in Collectors : First(d)' = First(d)
    BY <1>1, <1>2 DEF First
  <2>2. /\ warned' = warned /\ n \in Nat /\ Len(errorSlice[c]) \in Nat
        /\ Len(errorSlice'[c]) = n /\ errorSlice'[c][n] = e
        /\ \A j \in 1..Len(errorSlice[c]) : errorSlice'[c][j] = errorSlice[c][j]
        /\ \A d \in Collectors : d # c => errorSlice'[d] = errorSlice[d]
    <3>1. Len(errorSlice[c]) \in Nat
      BY <1>1 DEF TypeOK
    <3> QED
      BY <1>1, <1>2, <1>5, <3>1, AddedPlace
  <2>3. ASSUME NEW f \in Errors, NEW d \in Collectors, NEW j \in Nat
        PROVE  Holds(d, j, f)' <=> Holds(d, j, f) \/ (f = e /\ d = c /\ j = n)
    <3>1. CASE d # c
      BY <2>1, <2>2, <3>1 DEF Holds
    <3>2. CASE d = c
      BY <2>1, <2>2, <3>2 DEF Holds
    <3> QED
      BY <3>1, <3>2
  <2> HIDE DEF n, c
  <2> QED
    BY <1>1, <1>2, <1>3, <2>2, <2>3 DEF PlaceInv
<1> QED
  BY <1>4, <1>5

LEMMA ForwardOnePlaces ==
  ASSUME TypeOK, OwnerInv, PlaceInv, NEW l \in Links, ForwardOne(l)
  PROVE  PlaceInv'
<1> DEFINE a == l[1]
           b == l[2]
           n == Len(errorSlice[b]) + 1
<1> PICK k : k = passed[l] + 1
  OBVIOUS
<1> PICK e : e = errorSlice[a][k]
  OBVIOUS
<1>1. /\ a \in Collectors /\ b \in Collectors /\ a # b /\ e \in Errors /\ l # NoThread
      /\ owner[a] = l /\ AddError(b, e) /\ owner[b] = NoThread
      /\ owner' = owner /\ returned' = returned
  BY PassedIsError, LinkEnds DEF ForwardOne, AddError
<1>2. k \in Nat /\ k >= 1 /\ k <= Len(errorSlice[a]) /\ Len(errorSlice[a]) \in Nat
  <2>1. passed[l] \in Nat /\ Len(errorSlice[a]) \in Nat
    BY <1>1 DEF TypeOK
  <2> QED
    BY <2>1 DEF ForwardOne
<1>3. /\ First(a) = k /\ First(a)' = k + 1 /\ First(b) = 1
      /\ \A d \in Collectors : d # a => First(d)' = First(d)
  <2>1. passed'[l] = k /\ \A m \in Links : m # l => passed'[m] = passed[m]
    BY DEF ForwardOne, TypeOK
  <2>2. \A d \in Collectors : d # a /\ owner[d] # NoThread => owner[d] \in Links /\ owner[d] # l
    BY <1>1, OwnedBySelf DEF TypeOK
  <2> QED
    BY <1>1, <2>1, <2>2 DEF First
<1>4. Holds(a, k, e)
  BY <1>2, <1>3 DEF Holds
<1>5. ASSUME errorSlice'[a] = errorSlice[a], NEW f \in Errors, NEW j \in Nat
      PROVE  Holds(a, j, f)' <=> Holds(a, j, f) /\ j # k
  BY <1>2, <1>3, <1>5 DEF Holds
<1>6. CASE hasReturnedResult[b]
  <2>1. warned' = warned \union {e} /\ errorSlice' = errorSlice
    BY <1>1, <1>6 DEF AddError
  <2>2. ASSUME NEW f \in Errors, NEW d \in Collectors, NEW j \in Nat
        PROVE  Holds(d, j, f)' <=> Holds(d, j, f) /\ f # e
    <3>1. CASE d = a
      BY <1>2, <1>4, <1>5, <2>1, <3>1 DEF PlaceInv, Holds
    <3>2. CASE d # a
      <4>1. Holds(d, j, f)' <=> Holds(d, j, f)
        BY <1>3, <2>1, <3>2 DEF Holds
      <4>2. Holds(d, j, f) => f # e
        BY <1>1, <1>2, <1>4, <3>2 DEF PlaceInv
      <4> QED
        BY <4>1, <4>2
    <3> QED
      BY <3>1, <3>2
  <2>3. returned' = returned \union {e}
    BY <1>1, <1>2, <1>4 DEF PlaceInv
  <2> HIDE DEF a, b, n
  <2> QED
    BY <1>1, <2>1, <2>2, <2>3, WarnedInstead
<1>7. CASE ~hasReturnedResult[b]
  <2>1. /\ warned' = warned /\ n \in Nat /\ Len(errorSlice[b]) \in Nat
        /\ Len(errorSlice'[b]) = n /\ errorSlice'[b][n] = e
        /\ \A j \in 1..Len(errorSlice[b]) : errorSlice'[b][j] = errorSlice[b][j]
        /\ \A d \in Collectors : d # b => errorSlice'[d] = errorSlice[d]
    <3>1. Len(errorSlice[b]) \in Nat
      BY <1>1 DEF TypeOK
    <3> QED
      BY <1>1, <1>7, <3>1, AddedPlace
  <2>2. ASSUME NEW f \in Errors, NEW d \in Collectors, NEW j \in Nat
        PROVE  Holds(d, j, f)' <=>
                 (Holds(d, j, f) /\ ~(d = a /\ j = k)) \/ (f = e /\ d = b /\ j = n)
    <3>1. CASE d = a
      BY <1>1, <1>5, <2>1, <3>1
    <3>2. CASE d = b
      <4>1. First(d) = 1 /\ First(d)' = First(d)
        BY <1>1, <1>3, <3>2
      <4>2. Holds(d, j, f) <=> 1 <= j /\ j <= Len(errorSlice[b]) /\ errorSlice[b][j] = f
        BY <3>2, <4>1 DEF Holds
      <4>3. Holds(d, j, f)' <=> 1 <= j /\ j <= n /\ errorSlice'[b][j] = f
        BY <2>1, <3>2, <4>1 DEF Holds
      <4>4. d # a
        BY <1>1, <3>2
      <4> QED
        BY <2>1, <3>2, <4>2, <4>3, <4>4
    <3>3. CASE d # a /\ d # b
      BY <1>3, <2>1, <3>3 DEF Holds
    <3> QED
      BY <3>1, <3>2, <3>3
  <2> HIDE DEF a, b, n
  <2>3. \A d \in Collectors, j \in Nat : Holds(d, j, e)' <=> d = b /\ j = n
    <3>1. ASSUME NEW d \in Collectors, NEW j \in Nat, Holds(d, j, e) PROVE d = a /\ j = k
      BY <1>1, <1>2, <1>4, <3>1 DEF PlaceInv
    <3> QED
      BY <1>1, <2>2, <3>1
  <2>4. ASSUME NEW f \in Errors, f # e, NEW d \in Collectors, NEW j \in Nat
        PROVE  Holds(d, j, f)' <=> Holds(d, j, f)
    <3>1. Holds(d, j, f) => ~(d = a /\ j = k)
      BY <1>4, <2>4 DEF Holds
    <3> QED
      BY <2>2, <2>4, <3>1
  <2>5. e \in returned /\ e \notin warned
    BY <1>1, <1>2, <1>4 DEF PlaceInv
  <2> QED
    <3>1. warned' \subseteq returned'
      BY <1>1, <2>1 DEF PlaceInv
    <3>2. ASSUME NEW f \in Errors, NEW c \in Collectors, NEW i \in Nat, Holds(c, i, f)'
          PROVE  /\ f \in returned' /\ f \notin warned'
                 /\ \A d \in Collectors, j \in Nat : Holds(d, j, f)' => d = c /\ j = i
      <4>1. CASE f = e
        BY <1>1, <2>1, <2>3, <2>5, <3>2, <4>1
      <4>2. CASE f # e
        BY <1>1, <2>1, <2>4, <3>2, <4>2 DEF PlaceInv
      <4> QED
        BY <4>1, <4>2
    <3>3. ASSUME NEW f \in Errors, f \in returned', f \notin warned'
          PROVE  \E c \in Collectors, i \in Nat : Holds(c, i, f)'
      <4>1. CASE f = e
        BY <1>1, <2>1, <2>3, <4>1
      <4>2. CASE f # e
        BY <1>1, <2>1, <2>4, <3>3, <4>2 DEF PlaceInv
      <4> QED
        BY <4>1, <4>2
    <3> QED
      BY <3>1, <3>2, <3>3 DEF PlaceInv
<1> QED
  BY <1>6, <1>7

LEMMA PlaceStep ==
  ASSUME IndInv, PassedInv, PlaceInv, [Next]_vars
  PROVE  PlaceInv'
<1>1. ASSUME NEW e \in Errors, Add(e) PROVE PlaceInv'
  BY <1>1, AddPlaces DEF IndInv
<1>2. ASSUME NEW l \in Links, ForwardOne(l) PROVE PlaceInv'
  BY <1>2, ForwardOnePlaces DEF IndInv
<1>3. ASSUME NEW r \in Readers, Read(r) PROVE PlaceInv'
  <2>1. /\ owner' = owner /\ passed' = passed /\ errorSlice' = errorSlice /\ warned' = warned
        /\ Errors \intersect returned' = Errors \intersect returned
    BY <1>3, CallKinds DEF Read, GetResultNoWait, GetResultPanics, Panic
  <2>2. \A f \in Errors, d \in Collectors, j \in Nat : Holds(d, j, f)' <=> Holds(d, j, f)
    BY <2>1 DEF Holds, First
  <2> QED
    BY <2>1, <2>2, SamePlaces DEF IndInv, TypeOK
<1>4. ASSUME NEW l \in Links, ForwardLock(l) PROVE PlaceInv'
  <2>1. /\ passed' = passed /\ errorSlice' = errorSlice /\ warned' = warned /\ returned' = returned
        /\ passed[l] = 0 /\ owner[l[1]] = NoThread /\ owner'[l[1]] = l
        /\ \A d \in Collectors : d # l[1] => owner'[d] = owner[d]
    BY <1>4, LinkEnds DEF ForwardLock, Starts, PassedInv, IndInv, TypeOK
  <2>2. \A d \in Collectors : First(d)' = First(d)
    BY <2>1, LinkEnds DEF First
  <2>3. \A f \in Errors, d \in Collectors, j \in Nat : Holds(d, j, f)' <=> Holds(d, j, f)
    BY <2>1, <2>2 DEF Holds
  <2> QED
    BY <2>1, <2>3, SamePlaces DEF IndInv, TypeOK
<1>5. ASSUME NEW l \in Links, ForwardUnlock(l) PROVE PlaceInv'
  <2>1. /\ passed' = passed /\ warned' = warned /\ l[1] \in Collectors
        /\ Errors \intersect returned' = Errors \intersect returned
        /\ owner[l[1]] = l /\ l # NoThread /\ passed[l] = Len(errorSlice[l[1]])
        /\ owner'[l[1]] = NoThread /\ errorSlice'[l[1]] = <<>>
        /\ \A d \in Collectors : d # l[1] => owner'[d] = owner[d] /\ errorSlice'[d] = errorSlice[d]
    BY <1>5, LinkEnds, CollectorAssumption DEF ForwardUnlock, IndInv, TypeOK
  <2>2. ASSUME NEW f \in Errors, NEW d \in Collectors, NEW j \in Nat
        PROVE  Holds(d, j, f)' <=> Holds(d, j, f)
    <3>1. CASE d # l[1]
      BY <2>1, <3>1 DEF Holds, First
    <3>2. CASE d = l[1]
      <4>1. Len(errorSlice[l[1]]) \in Nat
        BY <2>1 DEF IndInv, TypeOK
      <4>2. ~Holds(d, j, f)
        BY <2>1, <3>2, <4>1 DEF Holds, First
      <4>3. First(d)' = 1 /\ Len(errorSlice'[d]) = 0
        BY <2>1, <3>2 DEF First
      <4> QED
        BY <4>2, <4>3 DEF Holds
    <3> QED
      BY <3>1, <3>2
  <2> QED
    BY <2>1, <2>2, SamePlaces DEF IndInv, TypeOK
<1>6. CASE UNCHANGED vars \/ \E l \in Links : ForwardPanics(l)
  <2>1. UNCHANGED <<owner, passed, errorSlice, warned, returned>>
    BY <1>6 DEF vars, ForwardPanics, Panic
  <2> QED
    BY <2>1 DEF PlaceInv, Holds, First
<1> QED
  BY <1>1, <1>2, <1>3, <1>4, <1>5, <1>6 DEF Next, Forward
-----------------------------------------------------------------------------
\* With one place at most, an error is found where InOnePlace looks for it.
LEMMA PlacesCounted ==
  ASSUME TypeOK, OwnerInv, PassedInv, PlaceInv, NEW e \in Errors \intersect returned
  PROVE  LET places == UNION {{<<c, i>> : i \in {j \in DOMAIN Kept(c) : Kept(c)[j] = e}} :
                                c \in Collectors}
         IN Cardinality(places) = IF e \in warned THEN 0 ELSE 1
<1> DEFINE at(c) == {j \in DOMAIN Kept(c) : Kept(c)[j] = e}
           places == UNION {{<<c, i>> : i \in at(c)} : c \in Collectors}
<1>1. ASSUME NEW c \in Collectors
      PROVE  /\ First(c) \in Nat /\ First(c) >= 1
             /\ \A j : j \in at(c) <=> j \in Nat /\ j >= 1 /\ Holds(c, First(c) + j - 1, e)
  <2>1. errorSlice[c] \in Seq(Errors) /\ Len(errorSlice[c]) \in Nat
    BY DEF TypeOK
  <2>2. CASE owner[c] = NoThread
    BY <2>1, <2>2 DEF First, Kept, Holds
  <2>3. CASE owner[c] # NoThread
    <3>1. owner[c] \in Links /\ owner[c][1] = c
      BY <2>3 DEF TypeOK, OwnerInv
    <3>2. passed[owner[c]] \in Nat /\ passed[owner[c]] <= Len(errorSlice[c])
      BY <3>1 DEF PassedInv, TypeOK
    <3> DEFINE p == passed[owner[c]]
               s == errorSlice[c]
               q == SubSeq(s, p + 1, Len(s))
    <3>3. DOMAIN q = 1..Len(s) - p /\ \A j \in 1..Len(s) - p : q[j] = s[p + j]
      <4>1. p \in Nat /\ s \in Seq(Errors) /\ Len(s) \in Nat /\ p <= Len(s)
        BY <2>1, <3>2
      <4> HIDE DEF p, s
      <4> QED
        BY <4>1
    <3>4. Kept(c) = q /\ First(c) = p + 1
      BY <2>3 DEF Kept, First
    <3>5. \A j : j \in at(c) <=> j \in 1..Len(s) - p /\ s[p + j] = e
      BY <3>3, <3>4
    <3>6. \A j \in Nat : First(c) + j - 1 = p + j
      <4>1. p \in Nat
        BY <3>2
      <4> HIDE DEF p
      <4> QED
        BY <3>4, <4>1
    <3>7. ASSUME NEW j
          PROVE  j \in at(c) <=> j \in Nat /\ j >= 1 /\ Holds(c, First(c) + j - 1, e)
      <4>1. CASE j \notin Nat
        BY <3>5, <4>1
      <4>2. CASE j \in Nat
        <5>1. First(c) + j - 1 = p + j /\ First(c) = p + 1 /\ p \in Nat /\ Len(s) \in Nat
          BY <2>1, <3>2, <3>4, <3>6, <4>2
        <5>2. Holds(c, First(c) + j - 1, e) <=> p + 1 <= p + j /\ p + j <= Len(s) /\ s[p + j] = e
          BY <5>1 DEF Holds
        <5> HIDE DEF p, s, at
        <5> QED
          BY <3>5, <4>2, <5>1, <5>2
      <4> QED
        BY <4>1, <4>2
    <3> QED
      BY <3>2, <3>4, <3>7
  <2> QED
    BY <2>2, <2>3
<1>2. \A x : x \in places <=> \E c \in Collectors : \E j \in at(c) : x = <<c, j>>
  OBVIOUS
<1> HIDE DEF at, places
<1>3. CASE e \in warned
  <2>1. \A c \in Collectors, i \in Nat : ~Holds(c, i, e)
    BY <1>3 DEF PlaceInv
  <2>2. \A c \in Collectors : at(c) = {}
    BY <1>1, <2>1
  <2>3. places = {}
    BY <1>2, <2>2
  <2> QED
    BY <1>3, <2>3, FS_EmptySet DEF places, at
<1>4. CASE e \notin warned
  <2>1. PICK c \in Collectors, i \in Nat : Holds(c, i, e)
    BY <1>4 DEF PlaceInv
  <2>2. \A d \in Collectors, j \in Nat : Holds(d, j, e) => d = c /\ j = i
    BY <2>1 DEF PlaceInv
  <2> DEFINE k == i + 1 - First(c)
  <2>3. k \in Nat /\ k >= 1 /\ First(c) + k - 1 = i
    BY <1>1, <2>1 DEF Holds
  <2>4. k \in at(c)
    BY <1>1, <2>1, <2>3
  <2>5. ASSUME NEW d \in Collectors, NEW j \in at(d) PROVE d = c /\ j = k
    <3>1. j \in Nat /\ j >= 1 /\ First(d) \in Nat /\ First(d) >= 1 /\ Holds(d, First(d) + j - 1, e)
      BY <1>1, <2>5
    <3>2. First(d) + j - 1 \in Nat
      BY <3>1
    <3>3. d = c /\ First(d) + j - 1 = i
      BY <2>2, <3>1, <3>2
    <3> QED
      BY <3>1, <3>3
  <2> HIDE DEF k
  <2>6. places = {<<c, k>>}
    BY <1>2, <2>4, <2>5
  <2> QED
    BY <1>4, <2>6, FS_Singleton DEF places, at
<1> QED
  BY <1>3, <1>4

-----------------------------------------------------------------------------
(* What stays *)

\* A collector that was forwarded is not locked again, and what it has is late.
LateInv ==
  \A c \in Collectors : forwardTo[c] # NoCollector =>
    owner[c] = NoThread /\ \A i \in DOMAIN errorSlice[c] : errorSlice[c][i] \in late

\* AddError notes what it puts into a forwarded collector.
LEMMA AddErrorLate ==
  ASSUME TypeOK, LateInv, NEW c \in Collectors, NEW e \in Errors, AddError(c, e),
         forwardTo' = forwardTo, owner' = owner
  PROVE  LateInv'
<1> SUFFICES ASSUME NEW d \in Collectors, forwardTo[d] # NoCollector
             PROVE  /\ owner[d] = NoThread
                    /\ \A i \in DOMAIN errorSlice'[d] : errorSlice'[d][i] \in late'
  BY DEF LateInv
<1>1. owner[d] = NoThread /\ \A i \in DOMAIN errorSlice[d] : errorSlice[d][i] \in late
  BY DEF LateInv
<1>2. late \subseteq late'
  BY DEF AddError
<1>3. CASE errorSlice'[d] = errorSlice[d]
  BY <1>1, <1>2, <1>3
<1>4. CASE errorSlice'[d] # errorSlice[d]
  <2>1. ~hasReturnedResult[c]
    BY <1>4 DEF AddError
  <2>2. d = c /\ Len(errorSlice'[c]) = Len(errorSlice[c]) + 1
        /\ errorSlice'[c][Len(errorSlice[c]) + 1] = e
        /\ \A j \in 1..Len(errorSlice[c]) : errorSlice'[c][j] = errorSlice[c][j]
    BY <1>4, <2>1, AddedPlace
  <2>3. e \in late'
    BY <2>1, <2>2 DEF AddError
  <2>4. errorSlice[c] \in Seq(Errors) /\ errorSlice'[c] \in Seq(Errors)
    BY AddErrorTypes DEF TypeOK
  <2>5. ASSUME NEW i \in DOMAIN errorSlice'[c] PROVE errorSlice'[c][i] \in late'
    <3>1. i \in 1..Len(errorSlice[c]) \/ i = Len(errorSlice[c]) + 1
      BY <2>2, <2>4
    <3>2. i \in 1..Len(errorSlice[c]) => errorSlice'[c][i] \in late
      BY <1>1, <2>2, <2>4
    <3> QED
      BY <1>2, <2>2, <2>3, <3>1, <3>2
  <2> QED
    BY <1>1, <2>2, <2>5
<1> QED
  BY <1>3, <1>4

LEMMA LateStep ==
  ASSUME TypeOK, LateInv, [Next]_vars
  PROVE  LateInv'
<1>1. ASSUME NEW e \in Errors, Add(e) PROVE LateInv'
  <2>1. At[e] \in Collectors
    BY CollectorAssumption
  <2> QED
    BY <1>1, <2>1, AddErrorLate DEF Add
<1>2. ASSUME NEW l \in Links, ForwardOne(l) PROVE LateInv'
  BY <1>2, PassedIsError, AddErrorLate DEF ForwardOne
<1>3. ASSUME NEW l \in Links, ForwardLock(l) PROVE LateInv'
  BY <1>3, LinkEnds DEF ForwardLock, Starts, LateInv, TypeOK
<1>4. ASSUME NEW l \in Links, ForwardUnlock(l) PROVE LateInv'
  <2>1. /\ owner'[l[1]] = NoThread /\ errorSlice'[l[1]] = <<>> /\ late' = late
        /\ \A d \in Collectors : d # l[1] =>
             owner'[d] = owner[d] /\ errorSlice'[d] = errorSlice[d] /\ forwardTo'[d] = forwardTo[d]
    BY <1>4, LinkEnds DEF ForwardUnlock, TypeOK
  <2>2. DOMAIN <<>> = {}
    OBVIOUS
  <2> QED
    BY <2>1, <2>2 DEF LateInv
<1>5. CASE UNCHANGED vars \/ (\E l \in Links : ForwardPanics(l)) \/ (\E r \in Readers : Read(r))
  <2>1. UNCHANGED <<owner, errorSlice, forwardTo, late>>
    BY <1>5 DEF vars, ForwardPanics, Read, GetResultNoWait, GetResultPanics, Panic
  <2> QED
    BY <2>1 DEF LateInv
<1> QED
  BY <1>1, <1>2, <1>3, <1>4, <1>5 DEF Next, Forward

\* Forwarding and adding in any order neither lose nor double an error nor leave
\* it behind, for any wiring and any callers: each is in one collector that was not
\* forwarded yet, or was warned of, or came to its collector when that had been
\* forwarded, and stays there (error.go:25-79).
THEOREM ErrorsAreConserved == Spec => []Conserved
<1>1. Init => PassedInv /\ PlaceInv /\ LateInv
  <2> SUFFICES ASSUME Init PROVE PassedInv /\ PlaceInv /\ LateInv
    OBVIOUS
  <2>1. PassedInv
    BY LinkEnds DEF Init, PassedInv
  <2>2. \A c \in Collectors : First(c) = 1 /\ Len(errorSlice[c]) = 0
    BY DEF Init, First
  <2>3. \A e \in Errors, c \in Collectors, i \in Nat : ~Holds(c, i, e)
    BY <2>2 DEF Holds
  <2>4. LateInv
    BY DEF Init, LateInv
  <2> QED
    BY <2>1, <2>3, <2>4 DEF Init, PlaceInv
<1>2. IndInv /\ PassedInv /\ PlaceInv /\ LateInv /\ [Next]_vars =>
        PassedInv' /\ PlaceInv' /\ LateInv'
  BY PassedStep, PlaceStep, LateStep DEF IndInv
<1>3. IndInv /\ PassedInv /\ PlaceInv => InOnePlace
  BY PlacesCounted DEF IndInv, InOnePlace
<1>4. LateInv => OnlyLateStay
  BY DEF LateInv, OnlyLateStay, Range
<1>5. IndInv /\ PassedInv /\ PlaceInv /\ LateInv => Conserved
  BY <1>3, <1>4 DEF Conserved
<1> QED
  BY <1>1, <1>2, <1>5, IndInvHolds, PTL DEF Spec
=============================================================================
