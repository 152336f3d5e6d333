---------------------------- MODULE ChannelPools ----------------------------
(***************************************************************************)
(* The pools of util_async/channel_op.go which deal inputs to threads and  *)
(* can be cancelled, one of each kind the program uses:                    *)
(*   "slice"  MapOptional_SliceToSlice_Cancellable_PassError (makedata.go) *)
(*            and Map_SliceToSlice_Cancellable*, which has less            *)
(*   "each"   ForEach_Channel_PassError over SeqToChannel_Cancellable      *)
(*            (decimation and fitting)                                     *)
(*   "multi"  MapMulti_ChannelToChannel_Cancellable over SeqToChannel      *)
(*            (the extra proposals); an input gives one output or none     *)
(* The caller gathers what the threads send until their channel is closed  *)
(* and reads the errors then.                                              *)
(*                                                                         *)
(* The flags of the signal and of the pool are read without a lock: a      *)
(* thread may see that one is set or not yet.                              *)
(***************************************************************************)
EXTENDS Integers, FiniteSets

CONSTANTS
  PoolThreads,
  InputCount

ASSUME ChannelPoolsAssumption ==
  /\ IsFiniteSet(PoolThreads) /\ PoolThreads # {} /\ InputCount \in Nat

Kinds == {"slice", "each", "multi"}
Inputs == 1..InputCount

VARIABLES
  kind,
  dealer,      \* the goroutine that deals the inputs
  dealt,       \* how many it has dealt
  hand,        \* where each thread is
  input,       \* the input it works on
  goOn,        \* shouldContinue of "each"
  signal,      \* the job's: "no", "flag" while its handlers run, "closed"
  outside,     \* who else may cancel the job, "done" from the first if nobody does
  results,     \* what is in the channel of the results
  outClosed,   \* the threads have ended and their channel is closed
  gathered,    \* the inputs whose output the caller has
  valueless,   \* the inputs that have none
  skipped,     \* the inputs a thread has left out
  failures,    \* the inputs whose error is in futureError
  caller, told \* what it was told of these

flowVars == <<dealer, dealt, signal, outside, goOn>>
endVars == <<results, outClosed, gathered, caller, told>>
channelVars == <<kind, hand, input, flowVars, endVars, valueless, skipped, failures>>

ChannelInit ==
  /\ kind \in Kinds
  /\ dealer = "deal" /\ dealt = 0
  /\ hand = [w \in PoolThreads |-> "receive"] /\ input = [w \in PoolThreads |-> 0]
  /\ goOn = TRUE
  /\ signal = "no" /\ outside \in {"idle", "done"}
  /\ results = {} /\ outClosed = FALSE
  /\ gathered = {} /\ valueless = {} /\ skipped = {} /\ failures = {}
  /\ caller = "gather" /\ told = {}

Moves(w, from, to) == hand[w] = from /\ hand' = [hand EXCEPT ![w] = to]

\* Where a thread goes on after an input.
Again == IF kind = "multi" THEN "recheck" ELSE "receive"
-----------------------------------------------------------------------------
(* The goroutine of the inputs *)

Deal(w) ==
  /\ dealer = "deal" /\ dealt < InputCount
  /\ Moves(w, "receive", "check")
  /\ dealt' = dealt + 1
  /\ input' = [input EXCEPT ![w] = dealt + 1]
  /\ UNCHANGED <<kind, dealer, signal, outside, goOn, endVars, valueless, skipped, failures>>

\* Mutant: after a cancellation the goroutine ends without closing its channel.
DealEndsOpen ==
  /\ dealer = "deal"
  /\ \/ dealt = InputCount /\ dealer' = "closed"
     \/ kind # "multi" /\ signal = "closed" /\ dealer' = "gone"
  /\ UNCHANGED <<kind, dealt, signal, outside, goOn, hand, input, endVars, valueless, skipped,
                 failures>>

\* SeqToChannel, unlike the others, does not listen to the signal.
DealEnds ==
  /\ dealer = "deal"
  /\ dealt = InputCount \/ (kind # "multi" /\ signal = "closed")
  /\ dealer' = "closed"
  /\ UNCHANGED <<kind, dealt, signal, outside, goOn, hand, input, endVars, valueless, skipped,
                 failures>>
-----------------------------------------------------------------------------
(* A thread *)

HandEnds(w) ==
  /\ dealer = "closed" /\ Moves(w, "receive", "end")
  /\ UNCHANGED <<kind, input, flowVars, endVars, valueless, skipped, failures>>

Begin(w) ==
  /\ Moves(w, "check", "work")
  /\ UNCHANGED <<kind, input, flowVars, endVars, valueless, skipped, failures>>

\* It sees the cancellation or the error of another: "multi" leaves its loop.
Skip(w) ==
  /\ IF kind = "each" THEN ~goOn ELSE signal # "no"
  /\ Moves(w, "check", IF kind = "multi" THEN "end" ELSE "receive")
  /\ skipped' = skipped \union {input[w]}
  /\ UNCHANGED <<kind, input, flowVars, endVars, valueless, failures>>

\* mapper, process
WorkValue(w) ==
  /\ kind # "each" /\ Moves(w, "work", "send")
  /\ UNCHANGED <<kind, input, flowVars, endVars, valueless, skipped, failures>>

WorkNothing(w) ==
  /\ Moves(w, "work", Again)
  /\ valueless' = valueless \union {input[w]}
  /\ UNCHANGED <<kind, input, flowVars, endVars, skipped, failures>>

WorkFails(w) ==
  /\ \/ kind = "slice" /\ Moves(w, "work", "cancel")
     \/ kind = "each" /\ Moves(w, "work", "add")
  /\ UNCHANGED <<kind, input, flowVars, endVars, valueless, skipped, failures>>

\* CancelSignalBasic.Cancel; its lock is held while the handlers run.
CancelBegin(w) ==
  /\ signal # "flag"
  /\ Moves(w, "cancel", IF signal = "no" THEN "handlers" ELSE "add")
  /\ signal' = IF signal = "no" THEN "flag" ELSE signal
  /\ UNCHANGED <<kind, input, dealer, dealt, outside, goOn, endVars, valueless, skipped, failures>>

CancelEnds(w) ==
  /\ Moves(w, "handlers", "add")
  /\ signal' = "closed"
  /\ UNCHANGED <<kind, input, dealer, dealt, outside, goOn, endVars, valueless, skipped, failures>>

AddError(w) ==
  /\ Moves(w, "add", IF kind = "each" THEN "stop" ELSE "receive")
  /\ failures' = failures \union {input[w]}
  /\ UNCHANGED <<kind, input, flowVars, endVars, valueless, skipped>>

StopOthers(w) ==
  /\ Moves(w, "stop", "receive")
  /\ goOn' = FALSE
  /\ UNCHANGED <<kind, input, dealer, dealt, signal, outside, endVars, valueless, skipped, failures>>

\* tempChannel has room for one result of each thread.
SendValue(w) ==
  /\ kind = "slice" /\ Moves(w, "send", "receive")
  /\ Cardinality(results) < Cardinality(PoolThreads)
  /\ results' = results \union {input[w]}
  /\ UNCHANGED <<kind, input, flowVars, outClosed, gathered, caller, told, valueless, skipped,
                 failures>>

\* outputChannel has none: its reader takes it.
SendOutput(w) ==
  /\ kind = "multi" /\ Moves(w, "send", "recheck")
  /\ gathered' = gathered \union {input[w]}
  /\ UNCHANGED <<kind, input, flowVars, results, outClosed, caller, told, valueless, skipped,
                 failures>>

Recheck(w) ==
  /\ \/ Moves(w, "recheck", "receive")
     \/ signal # "no" /\ Moves(w, "recheck", "end")
  /\ UNCHANGED <<kind, input, flowVars, endVars, valueless, skipped, failures>>
-----------------------------------------------------------------------------
(* The caller *)

Gather ==
  /\ \E i \in results : results' = results \ {i} /\ gathered' = gathered \union {i}
  /\ UNCHANGED <<kind, hand, input, flowVars, outClosed, caller, told, valueless, skipped, failures>>

\* closeChannelOnGroupFinished, or waitGroup.Wait
Close ==
  /\ ~outClosed /\ \A w \in PoolThreads : hand[w] = "end"
  /\ outClosed' = TRUE
  /\ UNCHANGED <<kind, hand, input, flowVars, results, gathered, caller, told, valueless, skipped,
                 failures>>

\* Mutant: the caller does not wait for the threads once it is cancelled.
ReturnCancelled ==
  /\ caller = "gather" /\ (outClosed \/ signal = "closed") /\ results = {}
  /\ caller' = "done" /\ told' = failures
  /\ UNCHANGED <<kind, hand, input, flowVars, results, outClosed, gathered, valueless, skipped,
                 failures>>

Return ==
  /\ caller = "gather" /\ outClosed /\ results = {}
  /\ caller' = "done" /\ told' = failures
  /\ UNCHANGED <<kind, hand, input, flowVars, results, outClosed, gathered, valueless, skipped,
                 failures>>

\* A key press, a time limit or another pool
CancelOutside ==
  /\ \/ /\ outside = "idle" /\ signal = "no"
        /\ outside' = "handlers" /\ signal' = "flag"
     \/ /\ outside = "handlers"
        /\ outside' = "done" /\ signal' = "closed"
  /\ UNCHANGED <<kind, dealer, dealt, goOn, hand, input, endVars, valueless, skipped, failures>>
-----------------------------------------------------------------------------
HandStep(w) ==
  \/ HandEnds(w) \/ Begin(w) \/ Skip(w)
  \/ WorkValue(w) \/ WorkNothing(w) \/ WorkFails(w)
  \/ CancelBegin(w) \/ CancelEnds(w) \/ AddError(w) \/ StopOthers(w)
  \/ SendValue(w) \/ SendOutput(w) \/ Recheck(w)

ChannelNext ==
  \/ DealEnds \/ Gather \/ Close \/ Return \/ CancelOutside
  \/ \E w \in PoolThreads : Deal(w) \/ HandStep(w)

ChannelSpec == ChannelInit /\ [][ChannelNext]_channelVars
-----------------------------------------------------------------------------
(* Properties *)

ChannelTypeOK ==
  /\ kind \in Kinds
  /\ dealer \in {"deal", "closed"} /\ dealt \in 0..InputCount
  /\ hand \in [PoolThreads -> {"receive", "check", "work", "send", "cancel", "handlers", "add",
                               "stop", "recheck", "end"}]
  /\ input \in [PoolThreads -> 0..InputCount]
  /\ goOn \in BOOLEAN /\ outClosed \in BOOLEAN
  /\ signal \in {"no", "flag", "closed"} /\ outside \in {"idle", "handlers", "done"}
  /\ results \subseteq Inputs /\ gathered \subseteq Inputs
  /\ valueless \subseteq Inputs /\ skipped \subseteq Inputs
  /\ failures \subseteq Inputs /\ told \subseteq Inputs
  /\ caller \in {"gather", "done"}

\* Results that are not all there are never taken for all: the caller is told
\* of an error, or the job was cancelled.
NoneMissing ==
  caller = "done" /\ told = {} /\ signal = "no" => gathered \union valueless = Inputs

\* No error comes after the caller has looked for errors.
ErrorsInTime == caller = "done" => told = failures

\* No goroutine is left behind, but for the one of SeqToChannel when the
\* threads of "multi" have left their loops on a cancellation.
NobodyLeft ==
  caller = "done" =>
    /\ \A w \in PoolThreads : hand[w] = "end"
    /\ dealer = "closed" \/ (kind = "multi" /\ signal # "no")

\* What a caller may rely on when a pool returns.
PoolReturns == NoneMissing /\ ErrorsInTime /\ NobodyLeft

\* Some goroutine of the pool does not wait: what each of them needs to go on.
PoolMoves ==
  \/ dealer = "deal" /\ dealt = InputCount
  \/ \E w \in PoolThreads :
       \/ hand[w] = "receive" /\ (dealer = "closed" \/ dealt < InputCount)
       \/ hand[w] \in {"check", "work", "handlers", "add", "stop", "recheck"}
       \/ hand[w] = "cancel" /\ signal # "flag"
       \/ hand[w] = "send" /\ kind = "slice" /\ Cardinality(results) < Cardinality(PoolThreads)
       \/ hand[w] = "send" /\ kind = "multi"
  \/ results # {}
  \/ ~outClosed /\ \A w \in PoolThreads : hand[w] = "end"
  \/ outClosed /\ caller = "gather"
  \/ outside = "handlers"

\* Until then the pool can go on without a cancellation from outside to come to
\* its help: nobody waits for room in a channel, for an input or for the lock of
\* the signal that does not come.
PoolGoesOn == caller = "done" \/ PoolMoves
=============================================================================
