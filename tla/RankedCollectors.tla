-------------------------- MODULE RankedCollectors --------------------------
(***************************************************************************)
(* The collectors of the n best of util/util_rank/collectorN.go.  Each is  *)
(* offered candidates in any order, again and again, and one may be merged *)
(* into another.  HighestCollectorN is modelled; LowestCollectorN is the   *)
(* same code with the order turned round.  Candidates that are Equals are  *)
(* one candidate here, and so have one rating.                             *)
(***************************************************************************)
EXTENDS Integers, Sequences, FiniteSets, Functions

CONSTANTS
  Candidates,
  Ratings,     \* the numbers a candidate may be rated with
  Rankings,    \* the collectors
  Limit,       \* how many candidates a collector is to keep
  MaxOffers    \* bound: calls of Offer

ASSUME RankingAssumption ==
  /\ Candidates # {} /\ Ratings \subseteq Int /\ Limit \in Nat \ {0} /\ MaxOffers \in Nat

VARIABLES
  rating,     \* of each candidate
  array,      \* what each collector keeps, the worst first
  size,       \* and how many it thinks these are
  worst,
  offered,    \* candidates each was offered, or took over with another
  again,      \* history: how often one came that the collector kept already
  mergedFrom, \* collectors that were merged into another
  mergedInto,
  offers

rankVars == <<rating, array, size, worst, offered, again, mergedFrom, mergedInto, offers>>

RankInit ==
  /\ rating \in [Candidates -> Ratings]
  /\ array = [k \in Rankings |-> <<>>]
  /\ size = [k \in Rankings |-> 0]
  /\ worst = [k \in Rankings |-> 0]
  /\ offered = [k \in Rankings |-> {}]
  /\ again = [k \in Rankings |-> 0]
  /\ mergedFrom = {} /\ mergedInto = {} /\ offers = 0

InOrder(s) == \A i, j \in DOMAIN s : i < j => rating[s[i]] <= rating[s[j]]

\* Mutant: entries of one rating are one entry, whatever equals says.
CompactRating(s) ==
  LET first[n \in 0..Len(s)] ==
        IF n = 0 THEN <<>>
        ELSE IF n > 1 /\ rating[s[n]] = rating[s[n - 1]] THEN first[n - 1]
        ELSE Append(first[n - 1], s[n])
  IN first[Len(s)]

\* slices.CompactFunc drops an entry that equals the one before it.
Compact(s) ==
  LET first[n \in 0..Len(s)] ==
        IF n = 0 THEN <<>>
        ELSE IF n > 1 /\ s[n] = s[n - 1] THEN first[n - 1] ELSE Append(first[n - 1], s[n])
  IN first[Len(s)]

\* slices.SortFunc leaves candidates of the same rating in any order.
SortContent(s) ==
  LET orders == {[i \in DOMAIN s |-> s[p[i]]] : p \in Bijection(DOMAIN s, DOMAIN s)}
  IN {Compact(t) : t \in {o \in orders : InOrder(o)}}

\* Mutant: the worst rating is not looked up again after an exchange.
KeepWorst(k, s) ==
  \E t \in SortContent(s) :
    /\ array' = [array EXCEPT ![k] = t]
    /\ worst' = [worst EXCEPT ![k] = IF size[k] < Limit THEN rating[t[1]] ELSE @]

\* The collector k has the content s, sorted, and remembers its worst entry.
Keep(k, s) ==
  \E t \in SortContent(s) :
    /\ array' = [array EXCEPT ![k] = t]
    /\ worst' = [worst EXCEPT ![k] = rating[t[1]]]

\* There is room, as far as the collector knows.
OfferAppended(k, c) ==
  /\ size[k] < Limit
  /\ Keep(k, Append(array[k], c))
  /\ size' = [size EXCEPT ![k] = @ + 1]

OfferExchanged(k, c) ==
  /\ size[k] >= Limit /\ rating[c] > worst[k]
  /\ Keep(k, [array[k] EXCEPT ![1] = c])
  /\ size' = size

OfferRefused(k, c) ==
  /\ size[k] >= Limit /\ rating[c] <= worst[k]
  /\ UNCHANGED <<array, worst, size>>

Offer(k, c) ==
  /\ k \notin mergedFrom /\ offers < MaxOffers
  /\ OfferAppended(k, c) \/ OfferExchanged(k, c) \/ OfferRefused(k, c)
  /\ offered' = [offered EXCEPT ![k] = @ \union {c}]
  /\ again' = [again EXCEPT ![k] = IF c \in Range(array[k]) THEN @ + 1 ELSE @]
  /\ offers' = offers + 1
  /\ UNCHANGED <<rating, mergedFrom, mergedInto>>

\* Mutant: the others are kept.
CutBest(s) == IF Len(s) > Limit THEN SubSeq(s, 1, Limit) ELSE s

\* What is kept of the sorted content of two collectors: the best ones.
Cut(s) == IF Len(s) > Limit THEN SubSeq(s, Len(s) - Limit + 1, Len(s)) ELSE s

\* Merge_Mutating: k takes over what j keeps, which is not used any more.
MergeMutating(k, j) ==
  /\ k # j /\ k \notin mergedFrom /\ j \notin mergedFrom
  /\ IF size[j] > 0
     THEN \E t \in {Cut(s) : s \in SortContent(array[k] \o array[j])} :
            /\ array' = [array EXCEPT ![k] = t]
            /\ size' = [size EXCEPT ![k] = Len(t)]
            /\ worst' = [worst EXCEPT ![k] = rating[t[1]]]
     ELSE UNCHANGED <<array, size, worst>>
  /\ offered' = [offered EXCEPT ![k] = @ \union offered[j]]
  /\ again' = [again EXCEPT ![k] = @ + again[j]
                                     + Cardinality(Range(array[k]) \intersect Range(array[j]))]
  /\ mergedFrom' = mergedFrom \union {j}
  /\ mergedInto' = mergedInto \union {k}
  /\ UNCHANGED <<rating, offers>>

RankNext ==
  \/ \E k \in Rankings, c \in Candidates : Offer(k, c)
  \/ \E k, j \in Rankings : MergeMutating(k, j)

RankSpec == RankInit /\ [][RankNext]_rankVars
-----------------------------------------------------------------------------
RankTypeOK ==
  /\ rating \in [Candidates -> Ratings]
  /\ array \in [Rankings -> Seq(Candidates)]
  /\ size \in [Rankings -> 0..Limit]
  /\ worst \in [Rankings -> Ratings \union {0}]
  /\ offered \in [Rankings -> SUBSET Candidates]
  /\ again \in [Rankings -> Nat]
  /\ mergedFrom \subseteq Rankings /\ mergedInto \subseteq Rankings
  /\ offers \in 0..MaxOffers

\* GetBest1 is never worse than anything the collector was offered.
BestIsLast(k) ==
  offered[k] # {} => \A c \in offered[k] : rating[c] <= rating[array[k][Len(array[k])]]

\* What is kept is sorted, was offered, and fills the places that are counted but
\* for one per candidate that came again: sortContent drops it, size counts it.
PlacesFilled(k) ==
  /\ InOrder(array[k]) /\ Range(array[k]) \subseteq offered[k]
  /\ Len(array[k]) <= size[k] /\ size[k] <= Cardinality(Range(array[k])) + again[k]

\* One that is missing gave way to Limit others at least as good, less one for each
\* candidate that came again.
GaveWayToBest(k) ==
  \A c \in offered[k] \ Range(array[k]) :
    Limit <= Cardinality({d \in Range(array[k]) : rating[c] <= rating[d]}) + again[k]

\* And if nothing was merged into the collector, it is no better than any that is
\* kept, however often one came again.
MissingAreWorse(k) ==
  k \notin mergedInto =>
    \A c \in offered[k] \ Range(array[k]), d \in Range(array[k]) : rating[c] <= rating[d]

\* A collector of collectorN.go to which no candidate came while it kept it keeps
\* the Limit best of what it was offered, each once, in whatever order they came
\* and however collectors were merged.  Every candidate that came again may cost it
\* one of these, and no more; the best of all is never lost.
BestAreKept ==
  \A k \in Rankings \ mergedFrom :
    BestIsLast(k) /\ PlacesFilled(k) /\ GaveWayToBest(k) /\ MissingAreWorse(k)
=============================================================================
