------------------------ MODULE PossibleFutureErrors ------------------------
(***************************************************************************)
(* The error collectors of util_async/error.go and how a job wires them.   *)
(*                                                                         *)
(* Goroutines add errors to a collector with AddError.  A collector is     *)
(* emptied into another one with ForwardErrorToOtherFuture, or read with   *)
(* GetResultNoWait; it panics when asked for both.  multi/run.go:27        *)
(* forwards the collector of the proposals into that of the working        *)
(* groups, multi/proposal.go:77 and 293 forward the collector of each      *)
(* solver run into that of the proposals, and finalMultiReport reads the   *)
(* last one.  All these calls are made by different goroutines.            *)
(*                                                                         *)
(* AddError and GetResultNoWait touch only their own collector and are one *)
(* step; ForwardErrorToOtherFuture holds the lock of its collector while   *)
(* it takes the other's lock once for every error.  isForwarding is never  *)
(* assigned, so the branch of AddError that tests it is not here.          *)
(***************************************************************************)
EXTENDS Naturals, Sequences, FiniteSets, SequencesExt

CONSTANTS
  Collectors,   \* the PossibleFutureErrors
  Errors,       \* the errors that occur, one AddError call each
  At,           \* the collector each error is added to
  Links,        \* the pairs <<collector, other>> to be forwarded
  Readers,      \* calls of GetResultNoWait
  ReadAt,       \* the collector each of them reads
  Careless,     \* calls that the program should not make, and may
  NoThread,     \* a lock that is free
  NoCollector   \* a forwardTo that is nil

Calls == Errors \union Links \union Readers

ASSUME CollectorAssumption ==
  /\ At \in [Errors -> Collectors]
  /\ Links \subseteq Collectors \X Collectors
  /\ \A l \in Links : l[1] # l[2]
  /\ ReadAt \in [Readers -> Collectors]
  /\ Errors \intersect (Links \union Readers) = {}
  /\ Links \intersect Readers = {}
  /\ Careless \subseteq Calls
  /\ NoThread \notin Links
  /\ NoCollector \notin Collectors

VARIABLES
  owner,               \* the forwarding that holds each collector's lock
  errorSlice,          \* the errors each collector has
  forwardTo,           \* where it was forwarded to
  hasReturnedResult,   \* was it read?
  passed,              \* how many errors an ongoing forwarding has passed on
  warned,              \* errors given to GlobalWarnHandler instead
  late,                \* history: errors kept by a collector that was forwarded before
  report,              \* what each reader was told
  returned,            \* the calls that have returned
  panicked             \* has a call stopped the program?

vars == <<owner, errorSlice, forwardTo, hasReturnedResult, passed, warned, late,
          report, returned, panicked>>

Init ==
  /\ owner = [c \in Collectors |-> NoThread]
  /\ errorSlice = [c \in Collectors |-> <<>>]
  /\ forwardTo = [c \in Collectors |-> NoCollector]
  /\ hasReturnedResult = [c \in Collectors |-> FALSE]
  /\ passed = [l \in Links |-> 0]
  /\ warned = {} /\ late = {}
  /\ report = [r \in Readers |-> <<>>]
  /\ returned = {}
  /\ panicked = FALSE

\* A call that has not begun finds the lock of its collector free.
Starts(call, c) ==
  /\ ~panicked
  /\ call \notin returned
  /\ owner[c] = NoThread

\* "inconsistent result destination": a panic no caller recovers from.
Panic ==
  /\ panicked' = TRUE
  /\ UNCHANGED <<owner, errorSlice, forwardTo, hasReturnedResult, passed, warned, late,
                 report, returned>>
-----------------------------------------------------------------------------
\* Mutant: an error is kept by a collector nobody will read again.
AddErrorKeepsAlways(c, e) ==
  /\ owner[c] = NoThread
  /\ errorSlice' = [errorSlice EXCEPT ![c] = Append(@, e)]
  /\ UNCHANGED <<warned, late>>

\* The critical section of AddError, on behalf of any goroutine.
AddError(c, e) ==
  /\ owner[c] = NoThread
  /\ \/ /\ hasReturnedResult[c]
        /\ warned' = warned \union {e}
        /\ UNCHANGED <<errorSlice, late>>
     \/ /\ ~hasReturnedResult[c]
        /\ errorSlice' = [errorSlice EXCEPT ![c] = Append(@, e)]
        /\ late' = IF forwardTo[c] = NoCollector THEN late ELSE late \union {e}
        /\ warned' = warned

Add(e) ==
  /\ Starts(e, At[e])
  /\ AddError(At[e], e)
  /\ returned' = returned \union {e}
  /\ UNCHANGED <<owner, forwardTo, hasReturnedResult, passed, report, panicked>>
-----------------------------------------------------------------------------
\* Mutant: a collector that was forwarded can be read.
GetResultAlways(r) ==
  /\ Starts(r, ReadAt[r])
  /\ hasReturnedResult' = [hasReturnedResult EXCEPT ![ReadAt[r]] = TRUE]
  /\ report' = [report EXCEPT ![r] = errorSlice[ReadAt[r]]]
  /\ returned' = returned \union {r}
  /\ UNCHANGED <<owner, errorSlice, forwardTo, passed, warned, late, panicked>>

GetResultNoWait(r) ==
  /\ Starts(r, ReadAt[r])
  /\ forwardTo[ReadAt[r]] = NoCollector
  /\ hasReturnedResult' = [hasReturnedResult EXCEPT ![ReadAt[r]] = TRUE]
  /\ report' = [report EXCEPT ![r] = errorSlice[ReadAt[r]]]
  /\ returned' = returned \union {r}
  /\ UNCHANGED <<owner, errorSlice, forwardTo, passed, warned, late, panicked>>

GetResultPanics(r) ==
  /\ Starts(r, ReadAt[r])
  /\ forwardTo[ReadAt[r]] # NoCollector
  /\ Panic
-----------------------------------------------------------------------------
(* ForwardErrorToOtherFuture: lock, pass the errors on, clear, unlock. *)

ForwardLock(l) ==
  /\ Starts(l, l[1])
  /\ ~hasReturnedResult[l[1]]
  /\ forwardTo[l[1]] = NoCollector
  /\ owner' = [owner EXCEPT ![l[1]] = l]
  /\ UNCHANGED <<errorSlice, forwardTo, hasReturnedResult, passed, warned, late, report,
                 returned, panicked>>

ForwardPanics(l) ==
  /\ Starts(l, l[1])
  /\ hasReturnedResult[l[1]] \/ forwardTo[l[1]] # NoCollector
  /\ Panic

ForwardOne(l) ==
  /\ ~panicked
  /\ owner[l[1]] = l
  /\ passed[l] < Len(errorSlice[l[1]])
  /\ AddError(l[2], errorSlice[l[1]][passed[l] + 1])
  /\ passed' = [passed EXCEPT ![l] = @ + 1]
  /\ UNCHANGED <<owner, forwardTo, hasReturnedResult, report, returned, panicked>>

\* Mutant: the errors passed on are kept as well.
ForwardUnlockKeeps(l) ==
  /\ ~panicked
  /\ owner[l[1]] = l
  /\ passed[l] = Len(errorSlice[l[1]])
  /\ forwardTo' = [forwardTo EXCEPT ![l[1]] = l[2]]
  /\ owner' = [owner EXCEPT ![l[1]] = NoThread]
  /\ returned' = returned \union {l}
  /\ UNCHANGED <<errorSlice, hasReturnedResult, passed, warned, late, report, panicked>>

\* Mutant: the destination is the pair instead of its second collector.
ForwardUnlockPair(l) ==
  /\ ~panicked
  /\ owner[l[1]] = l
  /\ passed[l] = Len(errorSlice[l[1]])
  /\ errorSlice' = [errorSlice EXCEPT ![l[1]] = <<>>]
  /\ forwardTo' = [forwardTo EXCEPT ![l[1]] = l]
  /\ owner' = [owner EXCEPT ![l[1]] = NoThread]
  /\ returned' = returned \union {l}
  /\ UNCHANGED <<hasReturnedResult, passed, warned, late, report, panicked>>

\* Mutant: a return from within the loop, with what is not passed on yet.
ForwardUnlockEarly(l) ==
  /\ ~panicked
  /\ owner[l[1]] = l
  /\ errorSlice' = [errorSlice EXCEPT ![l[1]] = SubSeq(@, passed[l] + 1, Len(@))]
  /\ forwardTo' = [forwardTo EXCEPT ![l[1]] = l[2]]
  /\ owner' = [owner EXCEPT ![l[1]] = NoThread]
  /\ returned' = returned \union {l}
  /\ UNCHANGED <<hasReturnedResult, passed, warned, late, report, panicked>>

\* Mutant: a return without the deferred unlock.
ForwardUnlockForgotten(l) ==
  /\ ~panicked
  /\ owner[l[1]] = l
  /\ l \notin returned
  /\ passed[l] = Len(errorSlice[l[1]])
  /\ errorSlice' = [errorSlice EXCEPT ![l[1]] = <<>>]
  /\ forwardTo' = [forwardTo EXCEPT ![l[1]] = l[2]]
  /\ returned' = returned \union {l}
  /\ UNCHANGED <<owner, hasReturnedResult, passed, warned, late, report, panicked>>

ForwardUnlock(l) ==
  /\ ~panicked
  /\ owner[l[1]] = l
  /\ passed[l] = Len(errorSlice[l[1]])
  /\ errorSlice' = [errorSlice EXCEPT ![l[1]] = <<>>]
  /\ forwardTo' = [forwardTo EXCEPT ![l[1]] = l[2]]
  /\ owner' = [owner EXCEPT ![l[1]] = NoThread]
  /\ returned' = returned \union {l}
  /\ UNCHANGED <<hasReturnedResult, passed, warned, late, report, panicked>>
-----------------------------------------------------------------------------
Forward(l) == ForwardLock(l) \/ ForwardPanics(l) \/ ForwardOne(l) \/ ForwardUnlock(l)

Read(r) == GetResultNoWait(r) \/ GetResultPanics(r)

Next ==
  \/ \E e \in Errors : Add(e)
  \/ \E r \in Readers : Read(r)
  \/ \E l \in Links : Forward(l)

\* Every goroutine that is in a call goes on; sync.Mutex starves nobody.
\* Whether the careless calls are made is open.
Fairness ==
  /\ \A e \in Errors \ Careless : WF_vars(Add(e))
  /\ \A r \in Readers \ Careless : WF_vars(Read(r))
  /\ \A l \in Links \ Careless : WF_vars(Forward(l))
  /\ \A l \in Links \intersect Careless : WF_vars(ForwardOne(l) \/ ForwardUnlock(l))

Spec == Init /\ [][Next]_vars

FairSpec == Spec /\ Fairness
-----------------------------------------------------------------------------
(* Properties *)

TypeOK ==
  /\ owner \in [Collectors -> Links \union {NoThread}]
  /\ errorSlice \in [Collectors -> Seq(Errors)]
  /\ forwardTo \in [Collectors -> Collectors \union {NoCollector}]
  /\ hasReturnedResult \in [Collectors -> BOOLEAN]
  /\ passed \in [Links -> Nat]
  /\ warned \subseteq Errors
  /\ late \subseteq Errors
  /\ report \in [Readers -> Seq(Errors)]
  /\ returned \subseteq Calls
  /\ panicked \in BOOLEAN

\* The errors that wait in a collector: without those that an ongoing
\* forwarding has passed on already.
Kept(c) ==
  IF owner[c] = NoThread THEN errorSlice[c]
  ELSE SubSeq(errorSlice[c], passed[owner[c]] + 1, Len(errorSlice[c]))

\* Every error that was added is in exactly one place: it waits in one
\* collector, once, or the user was warned of it.
InOnePlace ==
  \A e \in Errors \intersect returned :
    LET places == UNION {{<<c, i>> : i \in {j \in DOMAIN Kept(c) : Kept(c)[j] = e}} :
                           c \in Collectors}
    IN Cardinality(places) = IF e \in warned THEN 0 ELSE 1

\* A forwarding leaves nothing behind: what a forwarded collector has came to it
\* afterwards.
OnlyLateStay ==
  \A c \in Collectors : forwardTo[c] # NoCollector => Range(errorSlice[c]) \subseteq late

\* Forwarding (error.go:65-79) neither drops nor doubles an error nor leaves it
\* behind, whatever is added to the two collectors meanwhile: every error has one
\* place, and that is a collector that can be read or forwarded still, unless the
\* user was warned of it or it came when its collector had been forwarded.  Such a
\* late one stays where it is (see ForwardedKeepsNothing).
Conserved == InOnePlace /\ OnlyLateStay

\* Once a collector is read, its report is all that it will ever hold: an
\* error that comes later, even by a forwarding that was under way, is warned
\* of instead of being kept where nobody looks.
ReportIsAll ==
  \A r \in Readers \intersect returned : report[r] = errorSlice[ReadAt[r]]

\* A collector is read or forwarded, never both, in either order and even if
\* the calls race: no error is told twice.
OneDestination ==
  \A c \in Collectors :
    hasReturnedResult[c] => forwardTo[c] = NoCollector /\ owner[c] = NoThread

\* A collector that is read has no other destination, and its report is final.
ReportIsFinal == ReportIsAll /\ OneDestination

\* Every call returns, or one of them has stopped the program: collectors
\* that wait for each other's locks never wait in a circle.
CallsReturn == \A call \in Calls \ Careless : <>(panicked \/ call \in returned)

\* A collector that has been forwarded keeps nothing for itself: a later error
\* is forwarded as well (error.go:32-33).
ForwardedKeepsNothing ==
  \A c \in Collectors :
    forwardTo[c] # NoCollector => errorSlice[c] = <<>>
=============================================================================
