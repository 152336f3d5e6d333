------------------------- MODULE CancelChain_proofs -------------------------
(***************************************************************************)
(* Proofs about CancelChain, for any signals and futures, any links that   *)
(* go upwards in some Rank, and any callers of Cancel.                     *)
(***************************************************************************)
EXTENDS CancelChain, TLAPS, SequenceTheorems

\* A goroutine that has not called Cancel or ChainCancel is in no node.
IdleInv == \A t \in Threads : t \notin called => stack[t] = <<>>

\* It holds the lock of every node on its way but perhaps the last ...
HeldInv == \A t \in Threads : \A i \in 1..Len(stack[t]) - 1 : owner[stack[t][i]] = t

\* ... and a lock is held by nobody else: its holder has the node on its way.
OwnerInv ==
  \A n \in Nodes : owner[n] # NoThread =>
    \E i \in 1..Len(stack[owner[n]]) : stack[owner[n]][i] = n

\* The way of a goroutine goes down the links.
RankInv ==
  \A t \in Threads : \A i, j \in 1..Len(stack[t]) :
    i < j => Rank[stack[t][i]] < Rank[stack[t][j]]

\* Only chained nodes are cancelled along with a node.
LinkInv ==
  \A n \in Nodes : \A i \in 1..Len(handlers[n]) : <<n, handlers[n][i]>> \in Links \intersect called

\* How a goroutine came to each node on its way.
PathInv ==
  \A t \in Threads : stack[t] # <<>> =>
    /\ t \in Cancellers => t \in called /\ stack[t][1] = Target[t]
    /\ t \in Links => stack[t][1] = t[1] /\ cancelled[t[1]]
    /\ \A i \in 1..Len(stack[t]) - 1 : <<stack[t][i], stack[t][i + 1]>> \in Links \intersect called

\* What the flags of a node say of its lock and its handlers.
NodeInv ==
  \A n \in Nodes :
    /\ cancelled[n] => settled[n]
    /\ owner[n] # NoThread => cancelled[n]
    /\ settled[n] /\ owner[n] = NoThread => handlers[n] = <<>>

\* A goroutine on its way through both nodes of a link.
OnWay(t, l) ==
  \E i \in 1..Len(stack[t]) - 1 : stack[t][i] = l[1] /\ stack[t][i + 1] = l[2]

\* The inner node of a link is settled, or it will be: it is a handler of the
\* outer one, or somebody is on his way from the outer to the inner.
Reached(l) ==
  \/ settled[l[2]]
  \/ settled[l[1]] /\ ~cancelled[l[1]]
  \/ \E i \in 1..Len(handlers[l[1]]) : handlers[l[1]][i] = l[2]
  \/ \E t \in Threads : OnWay(t, l)

ReachInv == \A l \in Links \intersect called : Reached(l)

IndInv ==
  /\ TypeOK /\ IdleInv /\ HeldInv /\ OwnerInv /\ RankInv
  /\ LinkInv /\ PathInv /\ CancelledFromAbove /\ NodeInv /\ ReachInv
-----------------------------------------------------------------------------
(* Sequences and links *)

LEMMA Basics ==
  /\ Links \subseteq Threads /\ Cancellers \subseteq Threads /\ NoThread \notin Threads
  /\ Rank \in [Nodes -> Nat] /\ Target \in [Cancellers -> Nodes]
  /\ \A l \in Links : /\ l \notin Cancellers
                      /\ l = <<l[1], l[2]>> /\ l[1] \in Nodes /\ l[2] \in Nodes
                      /\ Rank[l[1]] < Rank[l[2]]
BY ChainAssumption DEF Threads

LEMMA TopNode ==
  ASSUME TypeOK, NEW t \in Threads, stack[t] # <<>>
  PROVE  /\ stack[t] \in Seq(Nodes) /\ Len(stack[t]) \in Nat /\ Len(stack[t]) > 0
         /\ Top(t) = stack[t][Len(stack[t])] /\ Top(t) \in Nodes
BY DEF TypeOK, Top, Last

LEMMA FrontProps ==
  ASSUME NEW q \in Seq(Nodes), q # <<>>
  PROVE  /\ Front(q) \in Seq(Nodes) /\ Len(Front(q)) = Len(q) - 1
         /\ \A i \in 1..Len(q) - 1 : Front(q)[i] = q[i]
<1>1. Len(q) \in Nat /\ Len(q) > 0 /\ \A i \in 1..Len(q) : q[i] \in Nodes
  OBVIOUS
<1> DEFINE m == Len(q) - 1
<1>2. m \in Nat /\ m \in Int /\ 1 \in Int /\ \A i \in 1..m : q[i] \in Nodes
  BY <1>1
<1>3. /\ SubSeq(q, 1, m) \in Seq(Nodes)
      /\ Len(SubSeq(q, 1, m)) = IF 1 <= m THEN m - 1 + 1 ELSE 0
      /\ \A i \in 1..(m - 1 + 1) : SubSeq(q, 1, m)[i] = q[1 + i - 1]
  BY <1>2, SubSeqProperties
<1>4. Front(q) = SubSeq(q, 1, m)
  BY DEF Front
<1> HIDE DEF m
<1>5. m - 1 + 1 = m /\ (~(1 <= m) => m = 0) /\ \A i \in 1..m : 1 + i - 1 = i
  BY <1>2
<1>6. Front(q) \in Seq(Nodes) /\ Len(Front(q)) = m /\ \A i \in 1..m : Front(q)[i] = q[i]
  BY <1>2, <1>3, <1>4, <1>5
<1> QED
  BY <1>6 DEF m

\* How a call leaves the last node on its way, ...
LEMMA PopEffect ==
  ASSUME TypeOK, NEW t \in Threads, stack[t] # <<>>, stack' = [stack EXCEPT ![t] = Front(@)]
  PROVE  /\ stack' \in [Threads -> Seq(Nodes)]
         /\ Len(stack'[t]) = Len(stack[t]) - 1
         /\ \A i \in 1..Len(stack[t]) - 1 : stack'[t][i] = stack[t][i]
         /\ \A u \in Threads : u # t => stack'[u] = stack[u]
<1>1. stack \in [Threads -> Seq(Nodes)] /\ stack[t] \in Seq(Nodes)
  BY DEF TypeOK
<1>2. stack'[t] = Front(stack[t]) /\ \A u \in Threads : u # t => stack'[u] = stack[u]
  BY <1>1
<1>3. Front(stack[t]) \in Seq(Nodes)
  BY <1>1, FrontProps
<1> QED
  BY <1>1, <1>2, <1>3, FrontProps

\* ... goes on to a next one, ...
LEMMA PushEffect ==
  ASSUME TypeOK, NEW t \in Threads, NEW n \in Nodes, stack' = [stack EXCEPT ![t] = Append(@, n)]
  PROVE  /\ stack' \in [Threads -> Seq(Nodes)]
         /\ Len(stack'[t]) = Len(stack[t]) + 1
         /\ \A i \in 1..Len(stack[t]) : stack'[t][i] = stack[t][i]
         /\ stack'[t][Len(stack[t]) + 1] = n
         /\ \A u \in Threads : u # t => stack'[u] = stack[u]
<1>1. stack \in [Threads -> Seq(Nodes)] /\ stack[t] \in Seq(Nodes)
  BY DEF TypeOK
<1>2. stack'[t] = Append(stack[t], n) /\ \A u \in Threads : u # t => stack'[u] = stack[u]
  BY <1>1
<1> QED
  BY <1>1, <1>2, AppendProperties

\* ... or begins.
LEMMA StartEffect ==
  ASSUME TypeOK, NEW t \in Threads, NEW q \in Seq(Nodes), stack' = [stack EXCEPT ![t] = q]
  PROVE  /\ stack' \in [Threads -> Seq(Nodes)] /\ stack'[t] = q
         /\ \A u \in Threads : u # t => stack'[u] = stack[u]
BY DEF TypeOK
-----------------------------------------------------------------------------
(* What is left of a way still goes down the links, and it was left at a     *)
(* node that is settled.                                                     *)

Popped(t) ==
  /\ stack[t] # <<>> /\ stack[t] \in Seq(Nodes)
  /\ Len(stack'[t]) = Len(stack[t]) - 1
  /\ \A i \in 1..Len(stack[t]) - 1 : stack'[t][i] = stack[t][i]
  /\ \A u \in Threads : u # t => stack'[u] = stack[u]

LEMMA PoppedPlaces ==
  ASSUME NEW t \in Threads, Popped(t), NEW u \in Threads, NEW i \in 1..Len(stack'[u])
  PROVE  i \in 1..Len(stack[u]) /\ stack'[u][i] = stack[u][i]
<1>1. Len(stack[t]) \in Nat /\ Len(stack[t]) > 0
  BY DEF Popped
<1>2. CASE u = t
  <2>1. i \in 1..Len(stack[t]) - 1
    BY <1>2 DEF Popped
  <2> QED
    BY <1>1, <1>2, <2>1 DEF Popped
<1>3. CASE u # t
  BY <1>3 DEF Popped
<1> QED
  BY <1>2, <1>3

LEMMA PopFalls ==
  ASSUME NEW t \in Threads, Popped(t), RankInv
  PROVE  RankInv'
BY PoppedPlaces DEF RankInv

LEMMA PopPath ==
  ASSUME NEW t \in Threads, Popped(t), PathInv, called' = called, cancelled' = cancelled,
         stack' \in [Threads -> Seq(Nodes)]
  PROVE  PathInv'
<1> SUFFICES ASSUME NEW u \in Threads, stack'[u] # <<>>
             PROVE  /\ u \in Cancellers => u \in called /\ stack'[u][1] = Target[u]
                    /\ u \in Links => stack'[u][1] = u[1] /\ cancelled[u[1]]
                    /\ \A i \in 1..Len(stack'[u]) - 1 :
                         <<stack'[u][i], stack'[u][i + 1]>> \in Links \intersect called
  BY DEF PathInv
<1>1. Len(stack'[u]) \in Nat /\ Len(stack'[u]) > 0 /\ 1 \in 1..Len(stack'[u])
  OBVIOUS
<1>2. stack[u] # <<>> /\ stack'[u][1] = stack[u][1]
  <2>1. 1 \in 1..Len(stack[u]) /\ stack'[u][1] = stack[u][1]
    BY <1>1, PoppedPlaces
  <2> QED
    BY <2>1
<1>3. ASSUME NEW i \in 1..Len(stack'[u]) - 1
      PROVE  <<stack'[u][i], stack'[u][i + 1]>> \in Links \intersect called
  <2>1. i \in 1..Len(stack'[u]) /\ i + 1 \in 1..Len(stack'[u])
    BY <1>1
  <2>2. /\ i \in 1..Len(stack[u]) /\ stack'[u][i] = stack[u][i]
        /\ i + 1 \in 1..Len(stack[u]) /\ stack'[u][i + 1] = stack[u][i + 1]
    BY <2>1, PoppedPlaces
  <2>3. i \in 1..Len(stack[u]) - 1
    BY <2>2
  <2> QED
    BY <1>2, <2>2, <2>3 DEF PathInv
<1> QED
  BY <1>2, <1>3 DEF PathInv

LEMMA PopReach ==
  ASSUME NEW t \in Threads, Popped(t), ReachInv, settled[stack[t][Len(stack[t])]],
         called' = called, cancelled' = cancelled, settled' = settled, handlers' = handlers
  PROVE  ReachInv'
<1> SUFFICES ASSUME NEW l \in Links \intersect called PROVE Reached(l)'
  BY DEF ReachInv
<1>1. Reached(l)
  BY DEF ReachInv
<1>2. ASSUME NEW u \in Threads, OnWay(u, l)
      PROVE  Reached(l)'
  <2>1. PICK i \in 1..Len(stack[u]) - 1 : stack[u][i] = l[1] /\ stack[u][i + 1] = l[2]
    BY <1>2 DEF OnWay
  <2>2. CASE u = t /\ i + 1 = Len(stack[t])
    BY <2>1, <2>2 DEF Reached
  <2>3. CASE u = t /\ i + 1 # Len(stack[t])
    <3>1. i \in 1..Len(stack[t]) - 1 /\ i + 1 \in 1..Len(stack[t]) - 1
      BY <2>1, <2>3 DEF Popped
    <3>2. i \in 1..Len(stack'[t]) - 1 /\ stack'[t][i] = l[1] /\ stack'[t][i + 1] = l[2]
      BY <2>1, <2>3, <3>1 DEF Popped
    <3> QED
      BY <2>3, <3>2 DEF Reached, OnWay
  <2>4. CASE u # t
    BY <1>2, <2>4 DEF Popped, Reached, OnWay
  <2> QED
    BY <2>2, <2>3, <2>4
<1> QED
  BY <1>1, <1>2 DEF Reached
-----------------------------------------------------------------------------
(* One lemma per action *)

LEMMA CallCancelStep ==
  ASSUME IndInv, NEW c \in Cancellers, CallCancel(c)
  PROVE  IndInv'
<1>1. c \in Threads /\ Target[c] \in Nodes /\ stack[c] = <<>>
  BY Basics DEF IndInv, IdleInv, CallCancel
<1>2. /\ stack' \in [Threads -> Seq(Nodes)] /\ stack'[c] = <<Target[c]>>
      /\ \A u \in Threads : u # c => stack'[u] = stack[u]
  <2>1. <<Target[c]>> \in Seq(Nodes)
    BY <1>1
  <2> QED
    BY <1>1, <2>1, StartEffect DEF IndInv, CallCancel
<1>3. Len(stack'[c]) = 1 /\ stack'[c][1] = Target[c] /\ Len(stack[c]) = 0
  BY <1>1, <1>2
<1>4. /\ called' = called \union {c} /\ owner' = owner /\ cancelled' = cancelled
      /\ settled' = settled /\ handlers' = handlers /\ closed' = closed /\ value' = value
  BY DEF CallCancel, node
<1>5. TypeOK'
  BY <1>1, <1>2, <1>4 DEF IndInv, TypeOK
<1>6. IdleInv'
  BY <1>2, <1>4 DEF IndInv, IdleInv
<1>7. HeldInv'
  <2>1. \A i \in 1..Len(stack'[c]) - 1 : FALSE
    BY <1>3
  <2> QED
    BY <1>2, <1>4, <2>1 DEF IndInv, HeldInv
<1>8. RankInv'
  <2>1. \A i, j \in 1..Len(stack'[c]) : ~(i < j)
    BY <1>3
  <2> QED
    BY <1>2, <2>1 DEF IndInv, RankInv
<1>9. OwnerInv'
  <2> SUFFICES ASSUME NEW n \in Nodes, owner[n] # NoThread
               PROVE  \E i \in 1..Len(stack'[owner[n]]) : stack'[owner[n]][i] = n
    BY <1>4 DEF OwnerInv
  <2>1. owner[n] \in Threads
    BY DEF IndInv, TypeOK
  <2>2. PICK i \in 1..Len(stack[owner[n]]) : stack[owner[n]][i] = n
    BY DEF IndInv, OwnerInv
  <2>3. owner[n] # c
    BY <1>3, <2>2
  <2> QED
    BY <1>2, <2>1, <2>2, <2>3
<1>10. LinkInv' /\ CancelledFromAbove' /\ NodeInv'
  BY <1>4 DEF IndInv, LinkInv, CancelledFromAbove, NodeInv
<1>11. PathInv'
  <2>1. \A i \in 1..Len(stack'[c]) - 1 : FALSE
    BY <1>3
  <2>2. c \notin Links
    BY Basics
  <2> QED
    BY <1>2, <1>3, <1>4, <2>1, <2>2 DEF IndInv, PathInv
<1>12. ReachInv'
  <2>1. Links \intersect called' = Links \intersect called
    BY <1>4, Basics
  <2>2. ASSUME NEW u \in Threads, NEW l \in Links, OnWay(u, l)
        PROVE  OnWay(u, l)'
    <3>1. u # c
      BY <1>3, <2>2 DEF OnWay
    <3> QED
      BY <1>2, <2>2, <3>1 DEF OnWay
  <2> QED
    BY <1>4, <2>1, <2>2 DEF IndInv, ReachInv, Reached
<1> QED
  BY <1>5, <1>6, <1>7, <1>8, <1>9, <1>10, <1>11, <1>12 DEF IndInv

LEMMA CancelIgnoredStep ==
  ASSUME IndInv, NEW t \in Threads, CancelIgnored(t)
  PROVE  IndInv'
<1>1. /\ stack[t] # <<>> /\ stack[t] \in Seq(Nodes) /\ Len(stack[t]) \in Nat /\ Len(stack[t]) > 0
      /\ Top(t) = stack[t][Len(stack[t])] /\ Top(t) \in Nodes
      /\ owner[Top(t)] = NoThread /\ settled[Top(t)]
  BY TopNode DEF IndInv, CancelIgnored, Waiting
<1>2. /\ stack' \in [Threads -> Seq(Nodes)]
      /\ Len(stack'[t]) = Len(stack[t]) - 1
      /\ \A i \in 1..Len(stack[t]) - 1 : stack'[t][i] = stack[t][i]
      /\ \A u \in Threads : u # t => stack'[u] = stack[u]
  BY <1>1, PopEffect DEF IndInv, CancelIgnored
<1>3. /\ called' = called /\ owner' = owner /\ cancelled' = cancelled
      /\ settled' = settled /\ handlers' = handlers /\ closed' = closed /\ value' = value
  BY DEF CancelIgnored, node
<1>4. TypeOK'
  BY <1>2, <1>3 DEF IndInv, TypeOK
<1>5. IdleInv'
  BY <1>1, <1>2, <1>3 DEF IndInv, IdleInv
<1>6. HeldInv'
  <2> SUFFICES ASSUME NEW u \in Threads, NEW i \in 1..Len(stack'[u]) - 1
               PROVE  owner[stack'[u][i]] = u
    BY <1>3 DEF HeldInv
  <2>1. i \in 1..Len(stack[u]) - 1 /\ stack'[u][i] = stack[u][i]
    BY <1>1, <1>2
  <2> QED
    BY <2>1 DEF IndInv, HeldInv
<1>7. RankInv'
  BY <1>1, <1>2, PopFalls DEF IndInv, Popped
<1>8. OwnerInv'
  <2> SUFFICES ASSUME NEW n \in Nodes, owner[n] # NoThread
               PROVE  \E i \in 1..Len(stack'[owner[n]]) : stack'[owner[n]][i] = n
    BY <1>3 DEF OwnerInv
  <2>1. owner[n] \in Threads
    BY DEF IndInv, TypeOK
  <2>2. PICK i \in 1..Len(stack[owner[n]]) : stack[owner[n]][i] = n
    BY DEF IndInv, OwnerInv
  <2>3. owner[n] = t => i # Len(stack[t])
    BY <1>1, <2>2
  <2>4. i \in 1..Len(stack'[owner[n]]) /\ stack'[owner[n]][i] = n
    <3>1. CASE owner[n] = t
      BY <1>1, <1>2, <2>2, <2>3, <3>1
    <3>2. CASE owner[n] # t
      BY <1>2, <2>1, <2>2, <3>2
    <3> QED
      BY <3>1, <3>2
  <2> QED
    BY <2>4
<1>9. LinkInv' /\ CancelledFromAbove' /\ NodeInv'
  BY <1>3 DEF IndInv, LinkInv, CancelledFromAbove, NodeInv
<1>10. PathInv'
  BY <1>1, <1>2, <1>3, PopPath DEF IndInv, Popped
<1>11. ReachInv'
  BY <1>1, <1>2, <1>3, PopReach DEF IndInv, Popped
<1> QED
  BY <1>4, <1>5, <1>6, <1>7, <1>8, <1>9, <1>10, <1>11 DEF IndInv
LEMMA CancelLeaveStep ==
  ASSUME IndInv, NEW t \in Threads, CancelLeave(t)
  PROVE  IndInv'
<1> DEFINE n == stack[t][Len(stack[t])]
<1>1. /\ stack[t] # <<>> /\ stack[t] \in Seq(Nodes) /\ Len(stack[t]) \in Nat /\ Len(stack[t]) > 0
      /\ Top(t) = n /\ n \in Nodes /\ owner[n] = t /\ handlers[n] = <<>>
  BY TopNode DEF IndInv, CancelLeave, Inside
<1>2. t # NoThread /\ cancelled[n] /\ settled[n]
  BY <1>1, Basics DEF IndInv, NodeInv
<1>3. /\ stack' \in [Threads -> Seq(Nodes)]
      /\ Len(stack'[t]) = Len(stack[t]) - 1
      /\ \A i \in 1..Len(stack[t]) - 1 : stack'[t][i] = stack[t][i]
      /\ \A u \in Threads : u # t => stack'[u] = stack[u]
  BY <1>1, PopEffect DEF IndInv, CancelLeave
<1>4. Popped(t)
  BY <1>1, <1>3 DEF Popped
<1>5. /\ called' = called /\ cancelled' = cancelled /\ settled' = settled
      /\ handlers' = handlers /\ value' = value
  BY DEF CancelLeave
<1>6. /\ owner' \in [Nodes -> Threads \union {NoThread}] /\ closed' \in [Nodes -> BOOLEAN]
      /\ owner'[n] = NoThread /\ \A m \in Nodes : m # n => owner'[m] = owner[m]
  BY <1>1 DEF IndInv, TypeOK, CancelLeave
<1> HIDE DEF n
<1>7. TypeOK'
  BY <1>3, <1>5, <1>6 DEF IndInv, TypeOK
<1>8. IdleInv'
  BY <1>1, <1>3, <1>5 DEF IndInv, IdleInv
<1>9. HeldInv'
  <2> SUFFICES ASSUME NEW u \in Threads, NEW i \in 1..Len(stack'[u]) - 1
               PROVE  owner'[stack'[u][i]] = u
    BY DEF HeldInv
  <2>1. i \in 1..Len(stack[u]) - 1 /\ stack'[u][i] = stack[u][i]
    BY <1>1, <1>3
  <2>2. owner[stack[u][i]] = u /\ stack[u][i] \in Nodes
    BY <2>1 DEF IndInv, HeldInv, TypeOK
  <2>3. stack[u][i] # n
    <3>1. CASE u = t
      <4>1. i \in 1..Len(stack[t]) /\ Len(stack[t]) \in 1..Len(stack[t]) /\ i < Len(stack[t])
        BY <1>1, <2>1, <3>1
      <4>2. Rank[stack[t][i]] < Rank[n]
        BY <4>1 DEF IndInv, RankInv, n
      <4>3. Rank[n] \in Nat
        BY <1>1, Basics
      <4> QED
        BY <3>1, <4>2, <4>3
    <3>2. CASE u # t
      BY <1>1, <2>2, <3>2
    <3> QED
      BY <3>1, <3>2
  <2> QED
    BY <1>6, <2>1, <2>2, <2>3
<1>10. RankInv'
  BY <1>4, PopFalls DEF IndInv
<1>11. OwnerInv'
  <2> SUFFICES ASSUME NEW m \in Nodes, owner'[m] # NoThread
               PROVE  \E i \in 1..Len(stack'[owner'[m]]) : stack'[owner'[m]][i] = m
    BY DEF OwnerInv
  <2>1. m # n /\ owner'[m] = owner[m] /\ owner[m] \in Threads
    BY <1>6 DEF IndInv, TypeOK
  <2>2. PICK i \in 1..Len(stack[owner[m]]) : stack[owner[m]][i] = m
    BY <2>1 DEF IndInv, OwnerInv
  <2>3. i \in 1..Len(stack'[owner[m]]) /\ stack'[owner[m]][i] = m
    <3>1. CASE owner[m] = t
      <4>1. i # Len(stack[t])
        BY <2>1, <2>2, <3>1 DEF n
      <4> QED
        BY <1>1, <1>3, <2>2, <3>1, <4>1
    <3>2. CASE owner[m] # t
      BY <1>3, <2>1, <2>2, <3>2
    <3> QED
      BY <3>1, <3>2
  <2> QED
    BY <2>1, <2>3
<1>12. LinkInv' /\ CancelledFromAbove'
  BY <1>5 DEF IndInv, LinkInv, CancelledFromAbove
<1>13. NodeInv'
  BY <1>1, <1>5, <1>6 DEF IndInv, NodeInv
<1>14. PathInv'
  BY <1>3, <1>4, <1>5, PopPath DEF IndInv
<1>15. ReachInv'
  BY <1>2, <1>4, <1>5, PopReach DEF IndInv, n
<1> QED
  BY <1>7, <1>8, <1>9, <1>10, <1>11, <1>12, <1>13, <1>14, <1>15 DEF IndInv

LEMMA CancelEnterStep ==
  ASSUME IndInv, NEW t \in Threads, CancelEnter(t)
  PROVE  IndInv'
<1> DEFINE n == stack[t][Len(stack[t])]
<1>1. /\ stack[t] # <<>> /\ stack[t] \in Seq(Nodes) /\ Len(stack[t]) \in Nat /\ Len(stack[t]) > 0
      /\ Top(t) = n /\ n \in Nodes /\ owner[n] = NoThread /\ ~settled[n]
  BY TopNode DEF IndInv, CancelEnter, Waiting
<1>2. /\ called' = called /\ stack' = stack /\ handlers' = handlers /\ value' = value
      /\ owner' \in [Nodes -> Threads \union {NoThread}] /\ closed' \in [Nodes -> BOOLEAN]
      /\ owner'[n] = t /\ \A m \in Nodes : m # n => owner'[m] = owner[m]
  BY <1>1 DEF IndInv, TypeOK, CancelEnter
<1>3. /\ cancelled' \in [Nodes -> BOOLEAN] /\ settled' \in [Nodes -> BOOLEAN]
      /\ cancelled'[n] /\ \A m \in Nodes : m # n => cancelled'[m] = cancelled[m]
      /\ settled'[n] /\ \A m \in Nodes : m # n => settled'[m] = settled[m]
  BY <1>1 DEF IndInv, TypeOK, CancelEnter
<1>4. ~cancelled[n]
  BY <1>1 DEF IndInv, NodeInv
<1> HIDE DEF n
<1>5. TypeOK' /\ IdleInv' /\ RankInv' /\ LinkInv'
  BY <1>2, <1>3 DEF IndInv, TypeOK, IdleInv, RankInv, LinkInv
<1>6. HeldInv'
  <2> SUFFICES ASSUME NEW u \in Threads, NEW i \in 1..Len(stack[u]) - 1
               PROVE  owner'[stack[u][i]] = u
    BY <1>2 DEF HeldInv
  <2>1. owner[stack[u][i]] = u /\ stack[u][i] \in Nodes
    BY DEF IndInv, HeldInv, TypeOK
  <2>2. stack[u][i] # n
    BY <1>1, <2>1, Basics
  <2> QED
    BY <1>2, <2>1, <2>2
<1>7. OwnerInv'
  <2> SUFFICES ASSUME NEW m \in Nodes, owner'[m] # NoThread
               PROVE  \E i \in 1..Len(stack[owner'[m]]) : stack[owner'[m]][i] = m
    BY <1>2 DEF OwnerInv
  <2>1. CASE m = n
    BY <1>1, <1>2, <2>1 DEF n
  <2>2. CASE m # n
    BY <1>2, <2>2 DEF IndInv, OwnerInv
  <2> QED
    BY <2>1, <2>2
<1>8. NodeInv'
  BY <1>2, <1>3, Basics DEF IndInv, NodeInv
<1>9. PathInv'
  <2>1. \A l \in Links : cancelled[l[1]] => cancelled'[l[1]]
    BY <1>3, Basics
  <2> QED
    BY <1>2, <2>1 DEF IndInv, PathInv
<1>10. CancelledFromAbove'
  <2> SUFFICES ASSUME NEW m \in Nodes, cancelled'[m]
               PROVE  \/ \E c \in Cancellers \intersect called : Target[c] = m
                      \/ \E l \in Links \intersect called : l[2] = m /\ cancelled'[l[1]]
    BY <1>2 DEF CancelledFromAbove
  <2>1. \A l \in Links : cancelled[l[1]] => cancelled'[l[1]]
    BY <1>3, Basics
  <2>2. CASE m # n
    BY <1>3, <2>1, <2>2 DEF IndInv, CancelledFromAbove
  <2>3. CASE m = n /\ Len(stack[t]) = 1
    <3>1. t \notin Links
      BY <1>1, <1>4, <2>3 DEF IndInv, PathInv, n
    <3>2. t \in Cancellers \intersect called /\ Target[t] = m
      BY <1>1, <2>3, <3>1 DEF IndInv, PathInv, Threads, n
    <3> QED
      BY <3>2
  <2>4. CASE m = n /\ Len(stack[t]) # 1
    <3> DEFINE k == Len(stack[t]) - 1
               above == stack[t][k]
    <3>1. k \in 1..Len(stack[t]) - 1 /\ k + 1 = Len(stack[t])
      <4>1. \A q \in Nat : q > 0 /\ q # 1 => q - 1 \in 1..q - 1 /\ q - 1 + 1 = q
        OBVIOUS
      <4> QED
        BY <1>1, <2>4, <4>1
    <3>2. <<above, m>> \in Links \intersect called
      BY <1>1, <2>4, <3>1 DEF IndInv, PathInv, n
    <3>3. owner[above] = t /\ above \in Nodes
      BY <1>1, <3>1 DEF IndInv, HeldInv
    <3>4. cancelled'[above]
      <4>1. cancelled[above]
        BY <3>3, Basics DEF IndInv, NodeInv
      <4> QED
        BY <1>3, <3>3, <4>1
    <3> HIDE DEF above
    <3>5. <<above, m>>[1] = above /\ <<above, m>>[2] = m
      OBVIOUS
    <3> QED
      BY <3>2, <3>4, <3>5
  <2> QED
    BY <2>2, <2>3, <2>4
<1>11. ReachInv'
  <2> SUFFICES ASSUME NEW l \in Links \intersect called PROVE Reached(l)'
    BY <1>2 DEF ReachInv
  <2>1. Reached(l) /\ l[1] \in Nodes /\ l[2] \in Nodes
    BY Basics DEF IndInv, ReachInv
  <2>2. settled[l[2]] => settled'[l[2]]
    BY <1>3, <2>1
  <2>3. settled[l[1]] /\ ~cancelled[l[1]] => settled'[l[1]] /\ ~cancelled'[l[1]]
    BY <1>1, <1>3, <2>1
  <2>4. \A u \in Threads : OnWay(u, l)' = OnWay(u, l)
    BY <1>2 DEF OnWay
  <2> QED
    BY <1>2, <2>1, <2>2, <2>3, <2>4 DEF Reached
<1> QED
  BY <1>5, <1>6, <1>7, <1>8, <1>9, <1>10, <1>11 DEF IndInv

LEMMA RunHandlerStep ==
  ASSUME IndInv, NEW t \in Threads, RunHandler(t)
  PROVE  IndInv'
<1> DEFINE len == Len(stack[t])
           n == stack[t][len]
           h == handlers[n][1]
<1>1. /\ stack[t] # <<>> /\ stack[t] \in Seq(Nodes) /\ len \in Nat /\ len > 0
      /\ Top(t) = n /\ n \in Nodes /\ owner[n] = t /\ handlers[n] # <<>>
      /\ handlers[n] \in Seq(Nodes)
  BY TopNode DEF IndInv, TypeOK, RunHandler, Inside
<1>2. /\ h = Head(handlers[n]) /\ h \in Nodes /\ Tail(handlers[n]) \in Seq(Nodes)
      /\ Len(handlers[n]) \in Nat /\ Len(handlers[n]) > 0
      /\ Len(Tail(handlers[n])) = Len(handlers[n]) - 1
      /\ \A i \in 1..Len(handlers[n]) - 1 : Tail(handlers[n])[i] = handlers[n][i + 1]
  BY <1>1, HeadTailProperties
<1>3. t # NoThread /\ <<n, h>> \in Links \intersect called /\ Rank[n] < Rank[h]
  <2>1. <<n, h>> \in Links \intersect called
    BY <1>1, <1>2 DEF IndInv, LinkInv
  <2>2. <<n, h>>[1] = n /\ <<n, h>>[2] = h
    OBVIOUS
  <2> QED
    BY <2>1, <2>2, Basics
<1>4. /\ stack' \in [Threads -> Seq(Nodes)] /\ Len(stack'[t]) = len + 1
      /\ \A i \in 1..len : stack'[t][i] = stack[t][i]
      /\ stack'[t][len + 1] = h
      /\ \A u \in Threads : u # t => stack'[u] = stack[u]
  <2>1. stack' = [stack EXCEPT ![t] = Append(@, h)]
    BY <1>1, <1>2 DEF RunHandler
  <2> QED
    BY <1>2, <2>1, PushEffect DEF IndInv
<1>5. /\ called' = called /\ owner' = owner /\ cancelled' = cancelled /\ settled' = settled
      /\ closed' = closed /\ value' = value
  BY DEF RunHandler
<1>6. /\ handlers' \in [Nodes -> Seq(Nodes)] /\ handlers'[n] = Tail(handlers[n])
      /\ \A m \in Nodes : m # n => handlers'[m] = handlers[m]
  BY <1>1, <1>2 DEF IndInv, TypeOK, RunHandler
<1> HIDE DEF h, n, len
<1>7. TypeOK'
  BY <1>4, <1>5, <1>6 DEF IndInv, TypeOK
<1>8. IdleInv'
  BY <1>1, <1>4, <1>5 DEF IndInv, IdleInv
<1>9. HeldInv'
  <2> SUFFICES ASSUME NEW u \in Threads, NEW i \in 1..Len(stack'[u]) - 1
               PROVE  owner[stack'[u][i]] = u
    BY <1>5 DEF HeldInv
  <2>1. CASE u # t
    BY <1>4, <2>1 DEF IndInv, HeldInv
  <2>2. CASE u = t /\ i = len
    BY <1>1, <1>4, <2>2 DEF n
  <2>3. CASE u = t /\ i # len
    <3>1. i \in 1..len - 1 /\ i \in 1..len
      BY <1>1, <1>4, <2>3
    <3> QED
      BY <1>4, <2>3, <3>1 DEF IndInv, HeldInv, len
  <2> QED
    BY <2>1, <2>2, <2>3
<1>10. OwnerInv'
  <2> SUFFICES ASSUME NEW m \in Nodes, owner[m] # NoThread
               PROVE  \E i \in 1..Len(stack'[owner[m]]) : stack'[owner[m]][i] = m
    BY <1>5 DEF OwnerInv
  <2>1. owner[m] \in Threads
    BY DEF IndInv, TypeOK
  <2>2. PICK i \in 1..Len(stack[owner[m]]) : stack[owner[m]][i] = m
    BY DEF IndInv, OwnerInv
  <2>3. i \in 1..Len(stack'[owner[m]]) /\ stack'[owner[m]][i] = m
    <3>1. CASE owner[m] = t
      <4>1. i \in 1..len /\ i \in 1..len + 1
        BY <1>1, <2>2, <3>1 DEF len
      <4> QED
        BY <1>4, <2>2, <3>1, <4>1
    <3>2. CASE owner[m] # t
      BY <1>4, <2>1, <2>2, <3>2
    <3> QED
      BY <3>1, <3>2
  <2> QED
    BY <2>3
<1>11. RankInv'
  <2> SUFFICES ASSUME NEW u \in Threads, NEW i \in 1..Len(stack'[u]),
                      NEW j \in 1..Len(stack'[u]), i < j
               PROVE  Rank[stack'[u][i]] < Rank[stack'[u][j]]
    BY DEF RankInv
  <2>1. CASE u # t
    BY <1>4, <2>1 DEF IndInv, RankInv
  <2>2. CASE u = t /\ j # len + 1
    <3>1. i \in 1..len /\ j \in 1..len
      BY <1>1, <1>4, <2>2
    <3> QED
      BY <1>4, <2>2, <3>1 DEF IndInv, RankInv, len
  <2>3. CASE u = t /\ j = len + 1
    <3>1. i \in 1..len /\ len \in 1..len /\ (i < len \/ i = len)
      BY <1>1, <1>4, <2>3
    <3>2. stack[t][i] \in Nodes
      BY <1>1, <3>1 DEF len
    <3>3. i < len => Rank[stack[t][i]] < Rank[n]
      BY <3>1 DEF IndInv, RankInv, len, n
    <3>4. i = len => stack[t][i] = n
      BY DEF n
    <3>5. Rank[stack[t][i]] \in Nat /\ Rank[n] \in Nat /\ Rank[h] \in Nat
      BY <1>1, <1>2, <3>2, Basics
    <3>6. Rank[stack[t][i]] < Rank[h]
      BY <1>3, <3>1, <3>3, <3>4, <3>5
    <3> QED
      BY <1>4, <2>3, <3>1, <3>6
  <2> QED
    BY <2>1, <2>2, <2>3
<1>12. LinkInv'
  <2> SUFFICES ASSUME NEW m \in Nodes, NEW i \in 1..Len(handlers'[m])
               PROVE  <<m, handlers'[m][i]>> \in Links \intersect called
    BY <1>5 DEF LinkInv
  <2>1. CASE m # n
    BY <1>6, <2>1 DEF IndInv, LinkInv
  <2>2. CASE m = n
    <3>1. i + 1 \in 1..Len(handlers[n]) /\ handlers'[n][i] = handlers[n][i + 1]
      <4>1. i \in 1..Len(handlers[n]) - 1
        BY <1>2, <1>6, <2>2
      <4> QED
        BY <1>2, <1>6, <4>1
    <3> QED
      BY <1>1, <2>2, <3>1 DEF IndInv, LinkInv
  <2> QED
    BY <2>1, <2>2
<1>13. CancelledFromAbove'
  BY <1>5 DEF IndInv, CancelledFromAbove
<1>14. NodeInv'
  BY <1>1, <1>3, <1>5, <1>6 DEF IndInv, NodeInv
<1>15. PathInv'
  <2> SUFFICES ASSUME NEW u \in Threads, stack'[u] # <<>>
               PROVE  /\ u \in Cancellers => u \in called /\ stack'[u][1] = Target[u]
                      /\ u \in Links => stack'[u][1] = u[1] /\ cancelled[u[1]]
                      /\ \A i \in 1..Len(stack'[u]) - 1 :
                           <<stack'[u][i], stack'[u][i + 1]>> \in Links \intersect called
    BY <1>5 DEF PathInv
  <2>1. CASE u # t
    BY <1>4, <2>1 DEF IndInv, PathInv
  <2>2. CASE u = t
    <3>1. 1 \in 1..len /\ stack'[t][1] = stack[t][1]
      BY <1>1, <1>4
    <3>2. ASSUME NEW i \in 1..Len(stack'[t]) - 1
          PROVE  <<stack'[t][i], stack'[t][i + 1]>> \in Links \intersect called
      <4>1. CASE i = len
        <5>1. stack'[t][len] = n /\ stack'[t][len + 1] = h
          <6>1. len \in 1..len
            BY <1>1
          <6> QED
            BY <1>4, <6>1 DEF n
        <5> QED
          BY <1>3, <4>1, <5>1
      <4>2. CASE i # len
        <5>1. i \in 1..len - 1 /\ i \in 1..len /\ i + 1 \in 1..len
          BY <1>1, <1>4, <4>2
        <5> QED
          BY <1>1, <1>4, <5>1 DEF IndInv, PathInv, len
      <4> QED
        BY <4>1, <4>2
    <3> QED
      BY <1>1, <2>2, <3>1, <3>2 DEF IndInv, PathInv
  <2> QED
    BY <2>1, <2>2
<1>16. ReachInv'
  <2> SUFFICES ASSUME NEW l \in Links \intersect called PROVE Reached(l)'
    BY <1>5 DEF ReachInv
  <2>1. Reached(l) /\ l[1] \in Nodes
    BY Basics DEF IndInv, ReachInv
  <2>2. ASSUME NEW u \in Threads, OnWay(u, l)
        PROVE  Reached(l)'
    <3>1. PICK i \in 1..Len(stack[u]) - 1 : stack[u][i] = l[1] /\ stack[u][i + 1] = l[2]
      BY <2>2 DEF OnWay
    <3>2. CASE u = t
      <4>1. i \in 1..len /\ i + 1 \in 1..len /\ i \in 1..Len(stack'[t]) - 1
        BY <1>1, <1>4, <3>1, <3>2 DEF len
      <4>2. stack'[t][i] = l[1] /\ stack'[t][i + 1] = l[2]
        BY <1>4, <3>1, <3>2, <4>1
      <4> QED
        BY <3>2, <4>1, <4>2 DEF Reached, OnWay
    <3>3. CASE u # t
      <4>1. OnWay(u, l)'
        BY <1>4, <2>2, <3>3 DEF OnWay
      <4> QED
        BY <4>1 DEF Reached
    <3> QED
      BY <3>2, <3>3
  <2>3. ASSUME NEW i \in 1..Len(handlers[l[1]]), handlers[l[1]][i] = l[2]
        PROVE  Reached(l)'
    <3>1. CASE l[1] # n
      BY <1>6, <2>1, <2>3, <3>1 DEF Reached
    <3>2. CASE l[1] = n /\ i = 1
      <4>1. len \in 1..Len(stack'[t]) - 1 /\ len \in 1..len
        BY <1>1, <1>4
      <4>2. stack'[t][len] = l[1] /\ stack'[t][len + 1] = l[2]
        BY <1>4, <2>3, <3>2, <4>1 DEF n, h
      <4> QED
        BY <4>1, <4>2 DEF Reached, OnWay
    <3>3. CASE l[1] = n /\ i # 1
      <4>1. i - 1 \in 1..Len(handlers[n]) - 1 /\ i - 1 + 1 = i
        BY <1>2, <2>3, <3>3
      <4>2. i - 1 \in 1..Len(handlers'[l[1]]) /\ handlers'[l[1]][i - 1] = l[2]
        BY <1>2, <1>6, <2>3, <3>3, <4>1
      <4> QED
        BY <4>2 DEF Reached
    <3> QED
      BY <3>1, <3>2, <3>3
  <2> QED
    BY <1>5, <2>1, <2>2, <2>3 DEF Reached
<1> QED
  BY <1>7, <1>8, <1>9, <1>10, <1>11, <1>12, <1>13, <1>14, <1>15, <1>16 DEF IndInv

LEMMA ChainKeptStep ==
  ASSUME IndInv, NEW l \in Links, ChainKept(l)
  PROVE  IndInv'
<1> DEFINE n == l[1]
<1>1. /\ n \in Nodes /\ l[2] \in Nodes /\ l = <<n, l[2]>> /\ l \in Threads
      /\ handlers[n] \in Seq(Nodes) /\ ~settled[n]
  BY Basics DEF IndInv, TypeOK, ChainKept
<1>2. /\ called' = called \union {l} /\ stack' = stack /\ owner' = owner
      /\ cancelled' = cancelled /\ settled' = settled /\ closed' = closed /\ value' = value
  BY DEF ChainKept
<1>3. /\ handlers' \in [Nodes -> Seq(Nodes)] /\ handlers'[n] = Append(handlers[n], l[2])
      /\ \A m \in Nodes : m # n => handlers'[m] = handlers[m]
  <2>1. Append(handlers[n], l[2]) \in Seq(Nodes)
    BY <1>1
  <2>2. handlers' = [handlers EXCEPT ![n] = Append(handlers[n], l[2])]
    BY DEF ChainKept
  <2> QED
    BY <1>1, <2>1, <2>2 DEF IndInv, TypeOK
<1>4. /\ Len(handlers'[n]) = Len(handlers[n]) + 1 /\ Len(handlers[n]) \in Nat
      /\ handlers'[n][Len(handlers[n]) + 1] = l[2]
      /\ \A i \in 1..Len(handlers[n]) : handlers'[n][i] = handlers[n][i]
  BY <1>1, <1>3, AppendProperties
<1> HIDE DEF n
<1>5. TypeOK'
  BY <1>1, <1>2, <1>3 DEF IndInv, TypeOK
<1>6. IdleInv' /\ HeldInv' /\ OwnerInv' /\ RankInv'
  BY <1>2 DEF IndInv, IdleInv, HeldInv, OwnerInv, RankInv
<1>7. LinkInv'
  <2> SUFFICES ASSUME NEW m \in Nodes, NEW i \in 1..Len(handlers'[m])
               PROVE  <<m, handlers'[m][i]>> \in Links \intersect (called \union {l})
    BY <1>2 DEF LinkInv
  <2>1. CASE m # n
    BY <1>3, <2>1 DEF IndInv, LinkInv
  <2>2. CASE m = n /\ i = Len(handlers[n]) + 1
    BY <1>1, <1>4, <2>2
  <2>3. CASE m = n /\ i # Len(handlers[n]) + 1
    <3>1. i \in 1..Len(handlers[n])
      BY <1>4, <2>3
    <3> QED
      BY <1>1, <1>4, <2>3, <3>1 DEF IndInv, LinkInv
  <2> QED
    BY <2>1, <2>2, <2>3
<1>8. PathInv'
  BY <1>2 DEF IndInv, PathInv
<1>9. CancelledFromAbove'
  BY <1>2 DEF IndInv, CancelledFromAbove
<1>10. NodeInv'
  BY <1>1, <1>2, <1>3 DEF IndInv, NodeInv
<1>11. ReachInv'
  <2> SUFFICES ASSUME NEW k \in Links \intersect (called \union {l}) PROVE Reached(k)'
    BY <1>2 DEF ReachInv
  <2>1. CASE k = l
    <3>1. Len(handlers[n]) + 1 \in 1..Len(handlers'[n])
      BY <1>4
    <3> QED
      BY <1>4, <2>1, <3>1 DEF Reached, n
  <2>2. CASE k # l
    <3>1. Reached(k) /\ k[1] \in Nodes
      BY <2>2, Basics DEF IndInv, ReachInv
    <3>2. ASSUME NEW i \in 1..Len(handlers[k[1]]), handlers[k[1]][i] = k[2]
          PROVE  i \in 1..Len(handlers'[k[1]]) /\ handlers'[k[1]][i] = k[2]
      <4>1. CASE k[1] # n
        BY <1>3, <3>1, <3>2, <4>1
      <4>2. CASE k[1] = n
        BY <1>4, <3>2, <4>2
      <4> QED
        BY <4>1, <4>2
    <3>3. \A u \in Threads : OnWay(u, k)' = OnWay(u, k)
      BY <1>2 DEF OnWay
    <3> QED
      BY <1>2, <3>1, <3>2, <3>3 DEF Reached
  <2> QED
    BY <2>1, <2>2
<1> QED
  BY <1>5, <1>6, <1>7, <1>8, <1>9, <1>10, <1>11 DEF IndInv

LEMMA ChainDroppedStep ==
  ASSUME IndInv, NEW l \in Links, ChainDropped(l)
  PROVE  IndInv'
<1>1. /\ called' = called \union {l} /\ stack' = stack /\ owner' = owner
      /\ cancelled' = cancelled /\ settled' = settled /\ handlers' = handlers
      /\ closed' = closed /\ value' = value
  BY DEF ChainDropped, node
<1>2. l \in Threads
  BY Basics
<1>3. TypeOK'
  BY <1>1, <1>2 DEF IndInv, TypeOK
<1>4. IdleInv' /\ HeldInv' /\ OwnerInv' /\ RankInv'
  BY <1>1 DEF IndInv, IdleInv, HeldInv, OwnerInv, RankInv
<1>5. LinkInv' /\ PathInv' /\ CancelledFromAbove' /\ NodeInv'
  BY <1>1 DEF IndInv, LinkInv, PathInv, CancelledFromAbove, NodeInv
<1>6. ReachInv'
  <2> SUFFICES ASSUME NEW k \in Links \intersect (called \union {l}) PROVE Reached(k)'
    BY <1>1 DEF ReachInv
  <2>1. CASE k = l
    BY <1>1, <2>1 DEF ChainDropped, Reached
  <2>2. CASE k # l
    <3>1. Reached(k)
      BY <2>2 DEF IndInv, ReachInv
    <3>2. \A u \in Threads : OnWay(u, k)' = OnWay(u, k)
      BY <1>1 DEF OnWay
    <3> QED
      BY <1>1, <3>1, <3>2 DEF Reached
  <2> QED
    BY <2>1, <2>2
<1> QED
  BY <1>3, <1>4, <1>5, <1>6 DEF IndInv

LEMMA ChainLateStep ==
  ASSUME IndInv, NEW l \in Links, ChainLate(l)
  PROVE  IndInv'
<1> DEFINE n == l[1]
<1>1. /\ n \in Nodes /\ l[2] \in Nodes /\ l = <<n, l[2]>> /\ l \in Threads
      /\ l # NoThread /\ l \notin Cancellers /\ Rank[n] < Rank[l[2]]
      /\ owner[n] = NoThread /\ cancelled[n]
  BY Basics DEF ChainLate
<1>2. stack[l] = <<>> /\ Len(stack[l]) = 0
  BY <1>1 DEF IndInv, IdleInv, ChainLate
<1>3. /\ called' = called \union {l} /\ cancelled' = cancelled /\ settled' = settled
      /\ handlers' = handlers /\ closed' = closed /\ value' = value
  BY DEF ChainLate, node
<1>4. /\ owner' \in [Nodes -> Threads \union {NoThread}]
      /\ owner'[n] = l /\ \A m \in Nodes : m # n => owner'[m] = owner[m]
  BY <1>1 DEF IndInv, TypeOK, ChainLate
<1>5. /\ stack' \in [Threads -> Seq(Nodes)] /\ Len(stack'[l]) = 2
      /\ stack'[l][1] = n /\ stack'[l][2] = l[2]
      /\ \A u \in Threads : u # l => stack'[u] = stack[u]
  <2>1. <<n, l[2]>> \in Seq(Nodes) /\ Len(<<n, l[2]>>) = 2
        /\ <<n, l[2]>>[1] = n /\ <<n, l[2]>>[2] = l[2]
    BY <1>1
  <2>2. stack' = [stack EXCEPT ![l] = <<n, l[2]>>]
    BY <1>1 DEF ChainLate
  <2>3. /\ stack' \in [Threads -> Seq(Nodes)] /\ stack'[l] = <<n, l[2]>>
        /\ \A u \in Threads : u # l => stack'[u] = stack[u]
    BY <1>1, <2>1, <2>2, StartEffect DEF IndInv
  <2> QED
    BY <2>1, <2>3
<1> HIDE DEF n
<1>6. TypeOK'
  BY <1>1, <1>3, <1>4, <1>5 DEF IndInv, TypeOK
<1>7. IdleInv'
  BY <1>3, <1>5 DEF IndInv, IdleInv
<1>8. HeldInv'
  <2> SUFFICES ASSUME NEW u \in Threads, NEW i \in 1..Len(stack'[u]) - 1
               PROVE  owner'[stack'[u][i]] = u
    BY DEF HeldInv
  <2>1. CASE u = l
    <3>1. i = 1
      <4>1. Len(stack'[u]) = 2
        BY <1>5, <2>1
      <4>2. i \in 1..2 - 1
        BY <4>1
      <4> QED
        BY <4>2
    <3> QED
      BY <1>4, <1>5, <2>1, <3>1
  <2>2. CASE u # l
    <3>1. stack'[u] = stack[u] /\ stack[u][i] \in Nodes /\ owner[stack[u][i]] = u
      BY <1>5, <2>2 DEF IndInv, HeldInv, TypeOK
    <3>2. stack[u][i] # n
      BY <1>1, <3>1, Basics
    <3> QED
      BY <1>4, <3>1, <3>2
  <2> QED
    BY <2>1, <2>2
<1>9. OwnerInv'
  <2> SUFFICES ASSUME NEW m \in Nodes, owner'[m] # NoThread
               PROVE  \E i \in 1..Len(stack'[owner'[m]]) : stack'[owner'[m]][i] = m
    BY DEF OwnerInv
  <2>1. CASE m = n
    BY <1>4, <1>5, <2>1
  <2>2. CASE m # n
    <3>1. owner'[m] = owner[m] /\ owner[m] \in Threads
      BY <1>4, <2>2 DEF IndInv, TypeOK
    <3>2. PICK i \in 1..Len(stack[owner[m]]) : stack[owner[m]][i] = m
      BY <3>1 DEF IndInv, OwnerInv
    <3>3. owner[m] # l
      BY <1>2, <3>2
    <3> QED
      BY <1>5, <3>1, <3>2, <3>3
  <2> QED
    BY <2>1, <2>2
<1>10. RankInv'
  <2> SUFFICES ASSUME NEW u \in Threads, NEW i \in 1..Len(stack'[u]),
                      NEW j \in 1..Len(stack'[u]), i < j
               PROVE  Rank[stack'[u][i]] < Rank[stack'[u][j]]
    BY DEF RankInv
  <2>1. CASE u = l
    <3>1. i \in 1..2 /\ j \in 1..2
      BY <1>5, <2>1
    <3>2. i = 1 /\ j = 2
      BY <3>1
    <3> QED
      BY <1>1, <1>5, <2>1, <3>2
  <2>2. CASE u # l
    BY <1>5, <2>2 DEF IndInv, RankInv
  <2> QED
    BY <2>1, <2>2
<1>11. LinkInv' /\ CancelledFromAbove'
  BY <1>3 DEF IndInv, LinkInv, CancelledFromAbove
<1>12. NodeInv'
  BY <1>1, <1>3, <1>4 DEF IndInv, NodeInv
<1>13. PathInv'
  <2> SUFFICES ASSUME NEW u \in Threads, stack'[u] # <<>>
               PROVE  /\ u \in Cancellers => u \in called' /\ stack'[u][1] = Target[u]
                      /\ u \in Links => stack'[u][1] = u[1] /\ cancelled[u[1]]
                      /\ \A i \in 1..Len(stack'[u]) - 1 :
                           <<stack'[u][i], stack'[u][i + 1]>> \in Links \intersect called'
    BY <1>3 DEF PathInv
  <2>1. CASE u = l
    <3>1. \A i \in 1..Len(stack'[l]) - 1 : i = 1 /\ i + 1 = 2
      BY <1>5
    <3>2. <<stack'[l][1], stack'[l][2]>> \in Links \intersect called'
      BY <1>1, <1>3, <1>5
    <3> QED
      BY <1>1, <1>5, <2>1, <3>1, <3>2 DEF n
  <2>2. CASE u # l
    BY <1>3, <1>5, <2>2 DEF IndInv, PathInv
  <2> QED
    BY <2>1, <2>2
<1>14. ReachInv'
  <2> SUFFICES ASSUME NEW k \in Links \intersect (called \union {l}) PROVE Reached(k)'
    BY <1>3 DEF ReachInv
  <2>1. CASE k = l
    <3>1. 1 \in 1..Len(stack'[l]) - 1 /\ 1 + 1 = 2
      BY <1>5
    <3>2. OnWay(l, k)'
      BY <1>5, <2>1, <3>1 DEF OnWay, n
    <3> QED
      BY <1>1, <3>2 DEF Reached
  <2>2. CASE k # l
    <3>1. Reached(k)
      BY <2>2 DEF IndInv, ReachInv
    <3>2. ASSUME NEW u \in Threads, OnWay(u, k)
          PROVE  OnWay(u, k)'
      <4>1. u # l
        BY <1>2, <3>2 DEF OnWay
      <4> QED
        BY <1>5, <3>2, <4>1 DEF OnWay
    <3> QED
      BY <1>3, <3>1, <3>2 DEF Reached
  <2> QED
    BY <2>1, <2>2
<1> QED
  BY <1>6, <1>7, <1>8, <1>9, <1>10, <1>11, <1>12, <1>13, <1>14 DEF IndInv

LEMMA CompleteStep ==
  ASSUME IndInv, NEW f \in Nodes, NEW v \in BOOLEAN, Complete(f, v)
  PROVE  IndInv'
<1>1. /\ called' = called /\ stack' = stack /\ owner' = owner /\ cancelled' = cancelled
      /\ closed' = closed /\ ~settled[f] /\ owner[f] = NoThread
  BY DEF Complete
<1>2. /\ settled' \in [Nodes -> BOOLEAN] /\ value' \in [Nodes -> BOOLEAN]
      /\ settled'[f] /\ \A m \in Nodes : m # f => settled'[m] = settled[m]
  BY DEF IndInv, TypeOK, Complete
<1>3. /\ handlers' \in [Nodes -> Seq(Nodes)] /\ handlers'[f] = <<>>
      /\ \A m \in Nodes : m # f => handlers'[m] = handlers[m]
  <2>1. <<>> \in Seq(Nodes)
    OBVIOUS
  <2> QED
    BY <2>1 DEF IndInv, TypeOK, Complete
<1>4. TypeOK'
  BY <1>1, <1>2, <1>3 DEF IndInv, TypeOK
<1>5. IdleInv' /\ HeldInv' /\ OwnerInv' /\ RankInv' /\ PathInv' /\ CancelledFromAbove'
  BY <1>1 DEF IndInv, IdleInv, HeldInv, OwnerInv, RankInv, PathInv, CancelledFromAbove
<1>6. LinkInv'
  <2>1. \A i \in 1..Len(handlers'[f]) : FALSE
    BY <1>3
  <2> QED
    BY <1>1, <1>3, <2>1 DEF IndInv, LinkInv
<1>7. NodeInv'
  BY <1>1, <1>2, <1>3 DEF IndInv, NodeInv
<1>8. ReachInv'
  <2> SUFFICES ASSUME NEW l \in Links \intersect called PROVE Reached(l)'
    BY <1>1 DEF ReachInv
  <2>1. Reached(l) /\ l[1] \in Nodes /\ l[2] \in Nodes
    BY Basics DEF IndInv, ReachInv
  <2>2. CASE l[1] = f
    BY <1>1, <1>2, <2>2 DEF Reached, IndInv, NodeInv
  <2>3. CASE l[1] # f
    <3>1. \A u \in Threads : OnWay(u, l)' = OnWay(u, l)
      BY <1>1 DEF OnWay
    <3> QED
      BY <1>1, <1>2, <1>3, <2>1, <2>3, <3>1 DEF Reached
  <2> QED
    BY <2>2, <2>3
<1> QED
  BY <1>4, <1>5, <1>6, <1>7, <1>8 DEF IndInv
-----------------------------------------------------------------------------
LEMMA IndInvHolds == Spec => []IndInv
<1>1. Init => IndInv
  <2> SUFFICES ASSUME Init PROVE IndInv
    OBVIOUS
  <2>1. <<>> \in Seq(Nodes) /\ Len(<<>>) = 0
    OBVIOUS
  <2>2. TypeOK
    BY <2>1 DEF Init, TypeOK
  <2>3. /\ \A t \in Threads : stack[t] = <<>> /\ Len(stack[t]) = 0
        /\ \A n \in Nodes : handlers[n] = <<>> /\ Len(handlers[n]) = 0
    BY <2>1 DEF Init
  <2>4. IdleInv /\ HeldInv /\ RankInv /\ LinkInv /\ PathInv
    BY <2>3 DEF IdleInv, HeldInv, RankInv, LinkInv, PathInv
  <2>5. OwnerInv /\ CancelledFromAbove /\ NodeInv /\ ReachInv
    BY DEF Init, OwnerInv, CancelledFromAbove, NodeInv, ReachInv
  <2> QED
    BY <2>2, <2>4, <2>5 DEF IndInv
<1>2. IndInv /\ [Next]_vars => IndInv'
  <2> SUFFICES ASSUME IndInv, [Next]_vars PROVE IndInv'
    OBVIOUS
  <2>1. ASSUME NEW c \in Cancellers, CallCancel(c) PROVE IndInv'
    BY <2>1, CallCancelStep
  <2>2. ASSUME NEW l \in Links, ChainStep(l) PROVE IndInv'
    BY <2>2, ChainKeptStep, ChainDroppedStep, ChainLateStep DEF ChainStep
  <2>3. ASSUME NEW t \in Threads, CancelStep(t) PROVE IndInv'
    BY <2>3, CancelIgnoredStep, CancelEnterStep, RunHandlerStep, CancelLeaveStep DEF CancelStep
  <2>4. ASSUME NEW f \in Futures, SetResult(f) PROVE IndInv'
    BY <2>4, CompleteStep DEF SetResult, Nodes
  <2>5. ASSUME NEW l \in Maps, MapValue(l) PROVE IndInv'
    <3>1. l \in Links
      BY ChainAssumption
    <3>2. l[1] \in Nodes
      BY <3>1, Basics
    <3> QED
      BY <2>5, <3>2, CompleteStep DEF MapValue
  <2>6. ASSUME UNCHANGED vars PROVE IndInv'
    <3>1. \A t, l : OnWay(t, l)' = OnWay(t, l)
      BY <2>6 DEF vars, OnWay
    <3>2. ReachInv'
      BY <2>6, <3>1 DEF IndInv, vars, node, ReachInv, Reached
    <3> QED
      BY <2>6, <3>2 DEF IndInv, vars, node, TypeOK, IdleInv, HeldInv, OwnerInv, RankInv, LinkInv,
                        PathInv, CancelledFromAbove, NodeInv
  <2> QED
    BY <2>1, <2>2, <2>3, <2>4, <2>5, <2>6 DEF Next
<1> QED
  BY <1>1, <1>2, PTL DEF Spec

\* The state has its types, for any set of links that has a Rank.
THEOREM TypeCorrect == Spec => []TypeOK
<1>1. IndInv => TypeOK
  BY DEF IndInv
<1> QED
  BY <1>1, IndInvHolds, PTL

\* No two goroutines that cancel chained nodes wait for each other, because
\* each holds only locks above the one it waits for (CancelSignal.go:52-67,
\* Future.go:336-365 run the handlers under the lock).
THEOREM NobodyWaitsInACircle == Spec => []WaitsDownwards
<1>1. IndInv => WaitsDownwards
  <2> SUFFICES ASSUME IndInv, NEW t \in Threads, NEW u \in Threads,
                      Waiting(t), owner[Top(t)] = u
               PROVE  stack[u] # <<>> /\ (Waiting(u) => Rank[Top(t)] < Rank[Top(u)])
    BY DEF WaitsDownwards
  <2>1. Top(t) \in Nodes /\ u # NoThread
    BY TopNode, Basics DEF IndInv, Waiting
  <2>2. PICK i \in 1..Len(stack[u]) : stack[u][i] = Top(t)
    BY <2>1 DEF IndInv, OwnerInv
  <2>3. stack[u] # <<>>
    BY <2>2
  <2>4. /\ Top(u) = stack[u][Len(stack[u])] /\ Len(stack[u]) \in Nat
        /\ Len(stack[u]) \in 1..Len(stack[u])
    BY <2>3, TopNode DEF IndInv
  <2>5. Waiting(u) => i < Len(stack[u])
    BY <2>2, <2>4 DEF Waiting
  <2> QED
    BY <2>2, <2>3, <2>4, <2>5 DEF IndInv, RankInv
<1> QED
  BY <1>1, IndInvHolds, PTL

\* A Cancel that has let go of a node has settled whatever was chained to it.
THEOREM CancelReachesAll == Spec => []CancelPropagates
<1>1. IndInv => CancelPropagates
  <2> SUFFICES ASSUME IndInv, NEW l \in Links, Returned(l), cancelled[l[1]],
                      owner[l[1]] = NoThread
               PROVE  settled[l[2]]
    BY DEF CancelPropagates
  <2>1. Reached(l) /\ l[1] \in Nodes
    BY Basics DEF IndInv, ReachInv, Returned
  <2>2. handlers[l[1]] = <<>>
    BY <2>1 DEF IndInv, NodeInv
  <2>3. \A i \in 1..Len(handlers[l[1]]) : FALSE
    BY <2>2
  <2>4. \A t \in Threads : ~OnWay(t, l)
    BY Basics DEF IndInv, HeldInv, OnWay
  <2> QED
    BY <2>1, <2>3, <2>4 DEF Reached
<1> QED
  BY <1>1, IndInvHolds, PTL

\* A cancellation travels down the links only (future_ops.go and
\* solver code chain inner work to outer signals with ChainCancel).
THEOREM CancelComesFromAbove == Spec => []CancelledFromAbove
<1>1. IndInv => CancelledFromAbove
  BY DEF IndInv
<1> QED
  BY <1>1, IndInvHolds, PTL

\* A future that has its result is not cancelled by a later Cancel, of its own
\* or of a node above it (the test of isComplete at Future.go:339).
THEOREM ResultStays == Spec => ResultIsFinal
<1> DEFINE Final == \A n \in Nodes : settled[n] => settled'[n] /\ cancelled'[n] = cancelled[n]
<1>1. ASSUME TypeOK, [Next]_vars PROVE [Final]_vars
  <2>1. ASSUME NEW t \in Threads, CancelEnter(t) PROVE Final
    BY <1>1, <2>1 DEF TypeOK, CancelEnter
  <2>2. ASSUME NEW t \in Threads, CancelStep(t), ~CancelEnter(t) PROVE Final
    BY <2>2 DEF CancelStep, CancelIgnored, RunHandler, CancelLeave, node
  <2>3. ASSUME NEW c \in Cancellers, CallCancel(c) PROVE Final
    BY <2>3 DEF CallCancel, node
  <2>4. ASSUME NEW l \in Links, ChainStep(l) PROVE Final
    BY <2>4 DEF ChainStep, ChainKept, ChainDropped, ChainLate, node
  <2>5. ASSUME NEW f, NEW v, Complete(f, v) PROVE Final
    BY <1>1, <2>5 DEF TypeOK, Complete
  <2> HIDE DEF Final
  <2> QED
    BY <1>1, <2>1, <2>2, <2>3, <2>4, <2>5 DEF Next, SetResult, MapValue
<1>2. TypeOK /\ [Next]_vars => [Final]_vars
  BY <1>1
<1> QED
  BY <1>2, TypeCorrect, PTL DEF Spec, ResultIsFinal


\* A cancellation reaches what is chained below it and nothing else, whenever
\* the chaining was made (CancelSignal.go:41-67, Future.go:315-365).
THEOREM CancelIsExact == Spec => []CancelExact
<1>1. CancelPropagates /\ CancelledFromAbove => CancelExact
  BY DEF CancelExact
<1> QED
  BY <1>1, CancelReachesAll, CancelComesFromAbove, PTL
\* The channel of a signal is closed by its cancellation only.
SignalClosed == \A n \in Nodes : n \in Signals /\ closed[n] => cancelled[n]

LEMMA SignalClosedStep ==
  ASSUME TypeOK, SignalClosed, NodeInv, [Next]_vars
  PROVE  SignalClosed'
<1>1. ASSUME NEW t \in Threads, CancelLeave(t) PROVE SignalClosed'
  <2>1. Top(t) \in Nodes /\ owner[Top(t)] # NoThread
    BY <1>1, TopNode, Basics DEF CancelLeave, Inside
  <2> QED
    BY <1>1, <2>1 DEF CancelLeave, SignalClosed, NodeInv, TypeOK
<1>2. ASSUME NEW t \in Threads, CancelEnter(t) PROVE SignalClosed'
  BY <1>2, ChainAssumption DEF CancelEnter, SignalClosed, TypeOK
<1>3. ASSUME NEW t \in Threads, CancelIgnored(t) \/ RunHandler(t) PROVE SignalClosed'
  BY <1>3 DEF CancelIgnored, RunHandler, SignalClosed, node
<1>4. ASSUME NEW l \in Links, ChainStep(l) PROVE SignalClosed'
  BY <1>4 DEF ChainStep, ChainKept, ChainDropped, ChainLate, SignalClosed, node
<1>5. ASSUME NEW f, NEW v, Complete(f, v) PROVE SignalClosed'
  BY <1>5 DEF Complete, SignalClosed
<1>6. ASSUME NEW c \in Cancellers, CallCancel(c) PROVE SignalClosed'
  BY <1>6 DEF CallCancel, SignalClosed, node
<1>7. CASE UNCHANGED vars
  BY <1>7 DEF vars, node, SignalClosed
<1> QED
  BY <1>1, <1>2, <1>3, <1>4, <1>5, <1>6, <1>7 DEF Next, CancelStep, SetResult, MapValue

\* Only the end of a Cancel closes the channel of a signal, and frees its lock.
LEMMA ClosedByLeave ==
  ASSUME TypeOK, [Next]_vars, NEW n \in Nodes, n \in Signals, ~closed[n], closed'[n]
  PROVE  owner'[n] = NoThread
<1>1. ASSUME NEW t \in Threads, CancelLeave(t) PROVE owner'[n] = NoThread
  BY <1>1, TopNode DEF CancelLeave, Inside, TypeOK
<1>2. ASSUME NEW t \in Threads, CancelEnter(t) PROVE FALSE
  BY <1>2, ChainAssumption DEF CancelEnter, TypeOK
<1>3. ASSUME NEW t \in Threads, CancelIgnored(t) \/ RunHandler(t) PROVE FALSE
  BY <1>3 DEF CancelIgnored, RunHandler, node
<1>4. ASSUME NEW l \in Links, ChainStep(l) PROVE FALSE
  BY <1>4 DEF ChainStep, ChainKept, ChainDropped, ChainLate, node
<1>5. ASSUME NEW f, NEW v, Complete(f, v) PROVE FALSE
  BY <1>5 DEF Complete
<1>6. ASSUME NEW c \in Cancellers, CallCancel(c) PROVE FALSE
  BY <1>6 DEF CallCancel, node
<1>7. CASE UNCHANGED vars
  BY <1>7 DEF vars, node
<1> QED
  BY <1>1, <1>2, <1>3, <1>4, <1>5, <1>6, <1>7 DEF Next, CancelStep, SetResult, MapValue

\* A ChainCancel to a signal that is closed returns with the lock of the signal
\* free.
LEMMA ReturnsUnlocked ==
  ASSUME IndInv, SignalClosed, [Next]_vars, NEW l \in Links, l[1] \in Signals, closed[l[1]],
         ~Returned(l), Returned(l)'
  PROVE  owner'[l[1]] = NoThread
<1>1. l \in Threads /\ l \notin Cancellers /\ l[1] \in Nodes
  BY Basics
<1>2. cancelled[l[1]] /\ settled[l[1]]
  BY <1>1 DEF SignalClosed, IndInv, NodeInv
<1>3. ASSUME NEW t \in Threads, CancelIgnored(t) \/ CancelLeave(t)
      PROVE  owner'[l[1]] = NoThread
  <2>1. called' = called /\ stack[t] # <<>> /\ stack' = [stack EXCEPT ![t] = Front(@)]
    BY <1>3 DEF CancelIgnored, CancelLeave, Waiting, Inside
  <2>2. /\ Len(stack'[t]) = Len(stack[t]) - 1
        /\ \A u \in Threads : u # t => stack'[u] = stack[u]
    BY <2>1, PopEffect DEF IndInv
  <2>3. t = l /\ stack'[l] = <<>>
    BY <1>1, <2>1, <2>2 DEF Returned
  <2>4. Len(stack[l]) = 1
    <3>1. Len(stack[l]) \in Nat /\ Len(stack'[l]) = 0
      BY <1>1, <2>1, <2>3, TopNode DEF IndInv
    <3> QED
      BY <2>2, <2>3, <3>1
  <2>5. Top(l) = l[1]
    BY <1>1, <2>1, <2>3, <2>4, TopNode DEF IndInv, PathInv
  <2> QED
    BY <1>1, <1>3, <2>3, <2>5 DEF CancelIgnored, CancelLeave, IndInv, TypeOK
<1>4. ASSUME NEW t \in Threads, CancelEnter(t) PROVE FALSE
  BY <1>4 DEF CancelEnter, Returned
<1>5. ASSUME NEW t \in Threads, RunHandler(t) PROVE FALSE
  <2>1. stack[t] # <<>> /\ Top(t) \in Nodes
    BY <1>5, TopNode DEF RunHandler, Inside, IndInv
  <2>2. handlers[Top(t)] # <<>> /\ handlers[Top(t)] \in Seq(Nodes)
    BY <1>5, <2>1 DEF RunHandler, IndInv, TypeOK
  <2>3. Head(handlers[Top(t)]) \in Nodes
    BY <2>2, HeadTailProperties
  <2>4. /\ Len(stack'[t]) = Len(stack[t]) + 1
        /\ \A u \in Threads : u # t => stack'[u] = stack[u]
    BY <1>5, <2>3, PushEffect DEF RunHandler, IndInv
  <2>5. Len(stack[t]) \in Nat
    BY <2>1, TopNode DEF IndInv
  <2>6. stack'[t] # <<>>
    BY <2>4, <2>5
  <2> QED
    BY <1>1, <1>5, <2>1, <2>4, <2>6 DEF RunHandler, Returned
<1>6. ASSUME NEW m \in Links, ChainStep(m) PROVE FALSE
  <2>1. m = l
    BY <1>1, <1>6, Basics
       DEF ChainStep, ChainKept, ChainDropped, ChainLate, Returned, IndInv, TypeOK
  <2>2. ~ChainKept(m) /\ ~ChainDropped(m)
    BY <1>2, <2>1 DEF ChainKept, ChainDropped
  <2>3. stack'[l] = l
    BY <1>1, <1>6, <2>1, <2>2 DEF ChainStep, ChainLate, IndInv, TypeOK
  <2>4. l = <<l[1], l[2]>> /\ l # <<>>
    BY Basics
  <2> QED
    BY <2>3, <2>4 DEF Returned
<1>7. ASSUME NEW f, NEW v, Complete(f, v) PROVE FALSE
  BY <1>7 DEF Complete, Returned
<1>8. ASSUME NEW c \in Cancellers, CallCancel(c) PROVE FALSE
  BY <1>1, <1>8, Basics DEF CallCancel, Returned, IndInv, TypeOK
<1>9. CASE UNCHANGED vars
  BY <1>9 DEF vars, Returned
<1> QED
  BY <1>3, <1>4, <1>5, <1>6, <1>7, <1>8, <1>9 DEF Next, CancelStep, SetResult, MapValue

LEMMA SettledStays ==
  ASSUME TypeOK, [Next]_vars, NEW n \in Nodes, settled[n]
  PROVE  settled'[n]
<1>1. ASSUME NEW t \in Threads, CancelStep(t) PROVE settled'[n]
  BY <1>1 DEF TypeOK, CancelStep, CancelIgnored, CancelEnter, RunHandler, CancelLeave, node
<1>2. ASSUME NEW c \in Cancellers, CallCancel(c) PROVE settled'[n]
  BY <1>2 DEF CallCancel, node
<1>3. ASSUME NEW l \in Links, ChainStep(l) PROVE settled'[n]
  BY <1>3 DEF ChainStep, ChainKept, ChainDropped, ChainLate, node
<1>4. ASSUME NEW f, NEW v, Complete(f, v) PROVE settled'[n]
  BY <1>4 DEF TypeOK, Complete
<1>5. CASE UNCHANGED vars
  BY <1>5 DEF vars, node
<1> QED
  BY <1>1, <1>2, <1>3, <1>4, <1>5 DEF Next, SetResult, MapValue

\* Whoever hears of a cancellation from the channel of a CancelSignalBasic finds
\* everything settled that was chained to it (close after the handlers,
\* CancelSignal.go:58-64).
THEOREM ChannelTellsLast == Spec => []ClosedAfterHandlers
<1>1. Init => SignalClosed /\ ClosedAfterHandlers
  BY Basics DEF Init, SignalClosed, ClosedAfterHandlers, Returned
<1>2. ASSUME IndInv, IndInv', CancelPropagates', SignalClosed, ClosedAfterHandlers, [Next]_vars
      PROVE  SignalClosed' /\ ClosedAfterHandlers'
  <2>1. SignalClosed'
    BY <1>2, SignalClosedStep DEF IndInv
  <2>2. ASSUME NEW l \in Links, Returned(l)', l[1] \in Signals, closed'[l[1]]
        PROVE  settled'[l[2]]
    <3>1. l[1] \in Nodes /\ l[2] \in Nodes
      BY Basics
    <3>2. CASE Returned(l) /\ closed[l[1]]
      BY <1>2, <2>2, <3>1, <3>2, SettledStays DEF IndInv, ClosedAfterHandlers
    <3>3. CASE ~(Returned(l) /\ closed[l[1]])
      <4>1. owner'[l[1]] = NoThread
        BY <1>2, <2>2, <3>1, <3>3, ClosedByLeave, ReturnsUnlocked DEF IndInv
      <4>2. cancelled'[l[1]]
        BY <2>1, <2>2, <3>1 DEF SignalClosed
      <4> QED
        BY <1>2, <2>2, <4>1, <4>2 DEF CancelPropagates
    <3> QED
      BY <3>2, <3>3
  <2> QED
    BY <2>1, <2>2 DEF ClosedAfterHandlers
<1> QED
  BY <1>1, <1>2, IndInvHolds, CancelReachesAll, PTL DEF Spec
=============================================================================
