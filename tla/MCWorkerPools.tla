--------------------------- MODULE MCWorkerPools ---------------------------
(* The pools of workers, and the collectors of the best that searches fill,  *)
(* checked one at a time: the first state says which.  The others stay as    *)
(* they begin.                                                               *)
EXTENDS MCNestedTaskPool, SearchPool, Culling, ChannelPools, RankedCollectors

CONSTANTS g1, g2, g3, g4

MCRatings == -1..1

VARIABLE pool

poolVars == <<vars, searchVars, cullVars, channelVars, rankVars, pool>>

\* Candidates are like each other, so they may as well be named by their ratings.
Ascending == InOrder(<<g1, g2, g3, g4>>)

PoolsInit ==
  /\ pool \in {"tasks", "search", "culling", "channels", "ranking"}
  /\ Init /\ SearchInit /\ CullInit /\ ChannelInit /\ RankInit /\ Ascending
  /\ pool # "channels" => kind = "slice" /\ outside = "idle"
  /\ pool # "ranking" => \A c \in Candidates : rating[c] = 0

PoolsNext ==
  \/ pool = "tasks" /\ Next /\ UNCHANGED <<searchVars, cullVars, channelVars, rankVars, pool>>
  \/ pool = "search" /\ SearchNext /\ UNCHANGED <<vars, cullVars, channelVars, rankVars, pool>>
  \/ pool = "culling" /\ CullNext /\ UNCHANGED <<vars, searchVars, channelVars, rankVars, pool>>
  \/ pool = "channels" /\ ChannelNext /\ UNCHANGED <<vars, searchVars, cullVars, rankVars, pool>>
  \/ pool = "ranking" /\ RankNext /\ UNCHANGED <<vars, searchVars, cullVars, channelVars, pool>>

\* The pools of channels may stop when their caller has returned, the others end
\* as their properties say.
PoolsEnd ==
  /\ pool = "channels" => caller = "done"
  /\ UNCHANGED poolVars

PoolsSpec == PoolsInit /\ [][PoolsNext \/ PoolsEnd]_poolVars

\* The types of all of them
PoolsTypeOK == TypeOK /\ SearchTypeOK /\ CullTypeOK /\ ChannelTypeOK /\ RankTypeOK

\* The threads of the search other than the main one are like each other too.
PoolsSymmetric == Symmetric \union Permutations(Threads \ {MainThread})
=============================================================================
