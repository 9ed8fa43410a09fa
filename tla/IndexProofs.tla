---------------------------- MODULE IndexProofs ----------------------------
(***************************************************************************)
(* Proofs about two of the structures the database keeps over a chain.     *)
(* The coin MMR, for any coins, any number of leaves and any checkpoints:  *)
(* the index names the newest leaf of each coin, the MMR implements a      *)
(* ledger, and the proof of a coin shows what stands at its leaf.  The     *)
(* cascade, for any blocks, difficulties, levels and length of the chain:  *)
(* pruning after every block leaves what a rebuild would, and a block      *)
(* costs the chain one node at most.                                       *)
(***************************************************************************)
EXTENDS CoinProofs, Cascade, NatSetInduction, SequenceTheorems, FiniteSetTheorems, TLAPS

-----------------------------------------------------------------------------
(* The walk of the cascade.  How many nodes it has kept decides its level. *)

Levels == 0 .. LevelsMax - 1
Nodes  == [block : Blocks, level : Levels]
Walks  == [kept : Seq(Nodes), level : Levels, tot : Nat]

LEMMA LevelsFacts == LevelsMax \in Nat /\ LevelNodes \in Nat /\ 0 \in Levels
BY LevelsAssumption DEF Levels

\* What the level and the count of the walk become when a node is kept.
Clocks == [level : Levels, tot : Nat]
Tick(c) ==
  IF c.tot + 1 >= LevelNodes /\ c.level < LevelsMax - 1
  THEN [level |-> c.level + 1, tot |-> 0]
  ELSE [level |-> c.level, tot |-> c.tot + 1]

LEMMA TickType == ASSUME NEW c \in Clocks PROVE Tick(c) \in Clocks /\ c.level <= Tick(c).level
BY LevelsFacts DEF Clocks, Tick, Levels

\* The walk keeps the nodes of its level or a higher one: a node kept moves its
\* clock one tick on, a node dropped leaves it as it is.
Keeps(w, n) == SuperLevel[n.block] >= w.level
Clock(w) == [level |-> w.level, tot |-> w.tot]

LEMMA VisitKeeps ==
  ASSUME NEW w \in Walks, NEW n \in Nodes, Keeps(w, n)
  PROVE  LET v == VisitNode(w, n)
         IN  /\ v \in Walks
             /\ v.kept = Append(w.kept, [block |-> n.block, level |-> w.level])
             /\ Clock(v) = Tick(Clock(w))
<1>1. VisitNode(w, n) = KeepNode(w, n)
  BY DEF VisitNode, Keeps
<1>2. [n EXCEPT !.level = w.level] = [block |-> n.block, level |-> w.level]
  BY DEF Nodes
<1> DEFINE v == KeepNode(w, n)
<1>3. v.kept = Append(w.kept, [block |-> n.block, level |-> w.level])
  BY <1>2 DEF KeepNode
<1>4. [block |-> n.block, level |-> w.level] \in Nodes /\ w.kept \in Seq(Nodes)
  BY DEF Nodes, Walks
<1>5. v.level = Tick(Clock(w)).level /\ v.tot = Tick(Clock(w)).tot
  BY DEF KeepNode, Tick, Clock
<1>6. Clock(w) \in Clocks
  BY DEF Clock, Clocks, Walks
<1>7. v = [kept |-> v.kept, level |-> v.level, tot |-> v.tot]
  BY DEF KeepNode
<1>8. Tick(Clock(w)) = [level |-> Tick(Clock(w)).level, tot |-> Tick(Clock(w)).tot]
  BY DEF Tick
<1> HIDE DEF v
<1>9. Tick(Clock(w)).level \in Levels /\ Tick(Clock(w)).tot \in Nat
  BY <1>6, TickType DEF Clocks
<1>10. v.kept \in Seq(Nodes)
  BY <1>3, <1>4
<1>11. v \in Walks
  BY <1>5, <1>7, <1>9, <1>10 DEF Walks
<1>12. Clock(v) = Tick(Clock(w))
  BY <1>5, <1>8 DEF Clock
<1> QED BY <1>1, <1>3, <1>11, <1>12 DEF v

LEMMA VisitDrops ==
  ASSUME NEW w, NEW n, ~ Keeps(w, n)
  PROVE  VisitNode(w, n) = w
BY DEF VisitNode, Keeps

LEMMA VisitType ==
  ASSUME NEW w \in Walks, NEW n \in Nodes
  PROVE  VisitNode(w, n) \in Walks
BY VisitKeeps, VisitDrops

LEMMA KeepTipType ==
  ASSUME NEW n \in Nodes
  PROVE  /\ KeepTip(n) \in Walks
         /\ KeepTip(n).kept = << [block |-> n.block, level |-> 0] >>
         /\ Clock(KeepTip(n)) = [level |-> 0, tot |-> 1]
<1>1. [n EXCEPT !.level = 0] = [block |-> n.block, level |-> 0]
  BY DEF Nodes
<1>2. [block |-> n.block, level |-> 0] \in Nodes
  BY LevelsFacts DEF Nodes
<1> QED BY <1>1, <1>2, LevelsFacts DEF KeepTip, Walks, Clock

\* The walk as a recursive function over the list.
Visits(ns) == [k \in 1 .. Len(ns) - 1 |-> [w \in Walks |-> VisitNode(w, ns[k + 1])]]
IsWalk(f, ns) == Recursive(f, Len(ns) - 1, Walks, KeepTip(ns[1]), Visits(ns))

LEMMA WalkIs ==
  ASSUME NEW ns \in Seq(Nodes), ns # <<>>
  PROVE  IsWalk(Walk(ns), ns)
<1> DEFINE N == Len(ns) - 1
           Body(f) == [i \in 0 .. N |->
                         IF i = 0 THEN KeepTip(ns[1]) ELSE VisitNode(f[i - 1], ns[i + 1])]
           g == CHOOSE f : f = Body(f)
<1>1. N \in Nat /\ ns[1] \in Nodes /\ \A k \in 1 .. N : ns[k + 1] \in Nodes
  OBVIOUS
<1>2. KeepTip(ns[1]) \in Walks
  BY <1>1, KeepTipType
<1>3. Visits(ns) \in [1 .. N -> [Walks -> Walks]]
  BY <1>1, VisitType DEF Visits
<1>4. \A k \in 1 .. N : \A w \in Walks : Visits(ns)[k][w] = VisitNode(w, ns[k + 1])
  BY DEF Visits
<1>5. Walk(ns) = g
  BY DEF Walk
<1> HIDE DEF N
<1>6. PICK f : Recursive(f, N, Walks, KeepTip(ns[1]), Visits(ns))
  BY <1>1, <1>2, <1>3, RecursionExists DEF Recursion
<1>7. f = Body(f)
  <2>1. f \in [0 .. N -> Walks]
    BY <1>6 DEF Recursive
  <2>2. ASSUME NEW i \in 0 .. N PROVE f[i] = Body(f)[i]
    <3>1. CASE i = 0
      BY <1>6, <3>1 DEF Recursive
    <3>2. CASE i # 0
      <4>1. i \in 1 .. N /\ i - 1 \in 0 .. N
        BY <1>1, <3>2
      <4>2. f[i] = Visits(ns)[i][f[i - 1]] /\ f[i - 1] \in Walks
        BY <1>6, <2>1, <4>1 DEF Recursive
      <4> QED BY <1>4, <3>2, <4>1, <4>2
    <3> QED BY <3>1, <3>2
  <2> QED BY <2>1, <2>2
<1>8. g = Body(g)
  BY <1>7
<1> HIDE DEF g
<1>9. g[0] = KeepTip(ns[1]) /\ \A k \in 1 .. N : g[k] = VisitNode(g[k - 1], ns[k + 1])
  BY <1>1, <1>8
<1>10. 0 .. N \subseteq {k \in 0 .. N : g[k] \in Walks}
  <2> DEFINE S == {k \in 0 .. N : g[k] \in Walks}
  <2>1. 0 \in S
    BY <1>1, <1>2, <1>9
  <2>2. \A k \in 1 .. N : k - 1 \in S => k \in S
    BY <1>1, <1>9, VisitType
  <2> HIDE DEF S
  <2>3. 0 .. N \subseteq S
    BY <1>1, <2>1, <2>2, BoundedInduction
  <2> QED BY <2>3 DEF S
<1>11. g \in [0 .. N -> Walks]
  BY <1>8, <1>10
<1>12. \A k \in 1 .. N : k - 1 \in 0 .. N
  BY <1>1
<1>13. \A k \in 1 .. N : g[k] = Visits(ns)[k][g[k - 1]]
  BY <1>4, <1>9, <1>11, <1>12
<1> QED BY <1>5, <1>9, <1>11, <1>13 DEF IsWalk, Recursive, N

\* The walk at the end of a list, and how it goes on when the list does.
EndOf(ns) == Walk(ns)[Len(ns) - 1]

LEMMA EndType ==
  ASSUME NEW ns \in Seq(Nodes), ns # <<>>
  PROVE  EndOf(ns) \in Walks
<1>1. Len(ns) - 1 \in 0 .. Len(ns) - 1
  OBVIOUS
<1> QED BY <1>1, WalkIs DEF EndOf, IsWalk, Recursive

LEMMA EndOfOne ==
  ASSUME NEW ns \in Seq(Nodes), Len(ns) = 1
  PROVE  EndOf(ns) = KeepTip(ns[1])
<1>1. ns # <<>> /\ Len(ns) - 1 = 0
  OBVIOUS
<1> QED BY <1>1, WalkIs DEF EndOf, IsWalk, Recursive

LEMMA EndOfAppend ==
  ASSUME NEW ns \in Seq(Nodes), ns # <<>>, NEW n \in Nodes
  PROVE  EndOf(Append(ns, n)) = VisitNode(EndOf(ns), n)
<1> DEFINE l == Append(ns, n)
           N == Len(l) - 1
           M == Len(ns) - 1
<1>1. /\ l \in Seq(Nodes) /\ l # <<>> /\ N \in Nat /\ M \in 0 .. N /\ N = M + 1
      /\ l[1] = ns[1] /\ l[N + 1] = n /\ N - 1 = M /\ N \in 1 .. N
  OBVIOUS
<1>2. \A k \in 1 .. M : l[k + 1] = ns[k + 1] /\ k \in 1 .. N
  OBVIOUS
<1> HIDE DEF l
<1>3. IsWalk(Walk(l), l) /\ IsWalk(Walk(ns), ns)
  BY <1>1, WalkIs
<1>4. \A k \in 1 .. M : Visits(l)[k] = Visits(ns)[k]
  BY <1>2 DEF Visits
<1>5. /\ Recursive(Walk(l), N, Walks, KeepTip(ns[1]), Visits(l))
      /\ Recursive(Walk(ns), M, Walks, KeepTip(ns[1]), Visits(ns))
  BY <1>1, <1>3 DEF IsWalk
<1> HIDE DEF N, M
<1>6. Walk(l)[M] = Walk(ns)[M]
  <2>1. M \in 0 .. M
    BY <1>1
  <2>2. \A k \in 0 .. M : Walk(l)[k] = Walk(ns)[k]
    BY <1>1, <1>4, <1>5, RecursionAgrees
  <2> QED BY <2>1, <2>2
<1>7. Walk(l)[N] = Visits(l)[N][Walk(l)[M]]
  BY <1>1, <1>5 DEF Recursive
<1>8. Walk(ns)[M] \in Walks
  BY EndType DEF EndOf, M
<1>9. Walk(l)[N] = VisitNode(Walk(ns)[M], n)
  <2>1. Visits(l)[N] = [w \in Walks |-> VisitNode(w, l[N + 1])]
    BY <1>1 DEF Visits, N
  <2> QED BY <1>1, <1>6, <1>7, <1>8, <2>1
<1> QED BY <1>9 DEF EndOf, l, N, M

\* A clock counts the nodes kept: its level and count once k + 1 nodes are.
IsClock(p, N) ==
  Recursive(p, N, Clocks, [level |-> 0, tot |-> 1],
            [k \in 1 .. N |-> [c \in Clocks |-> Tick(c)]])

HasClock(N) == \E p : IsClock(p, N)

LEMMA ClockExists == ASSUME NEW N \in Nat PROVE HasClock(N)
<1> DEFINE F == [k \in 1 .. N |-> [c \in Clocks |-> Tick(c)]]
<1>1. F \in [1 .. N -> [Clocks -> Clocks]]
  BY TickType
<1>2. [level |-> 0, tot |-> 1] \in Clocks
  BY LevelsFacts DEF Clocks
<1> HIDE DEF F
<1>3. PICK p : Recursive(p, N, Clocks, [level |-> 0, tot |-> 1], F)
  BY <1>1, <1>2, RecursionExists DEF Recursion
<1> QED BY <1>3 DEF HasClock, IsClock, F

LEMMA ClockSteps ==
  ASSUME NEW N \in Nat, NEW p, IsClock(p, N)
  PROVE  /\ p \in [0 .. N -> Clocks]
         /\ p[0] = [level |-> 0, tot |-> 1]
         /\ \A k \in 1 .. N : p[k] = Tick(p[k - 1])
<1>1. \A k \in 1 .. N : k - 1 \in 0 .. N
  OBVIOUS
<1>2. p \in [0 .. N -> Clocks]
  BY DEF IsClock, Recursive
<1>3. \A k \in 1 .. N : p[k] = Tick(p[k - 1])
  BY <1>1, <1>2 DEF IsClock, Recursive
<1> QED BY <1>2, <1>3 DEF IsClock, Recursive

\* A level once reached is not left for a lower one.
LEMMA ClockRises ==
  ASSUME NEW N \in Nat, NEW p, IsClock(p, N), NEW i \in 0 .. N, NEW j \in 0 .. N, i <= j
  PROVE  p[i].level <= p[j].level
<1> DEFINE S == {k \in 0 .. N : i <= k => p[i].level <= p[k].level}
<1>1. /\ p \in [0 .. N -> Clocks] /\ \A k \in 1 .. N : p[k] = Tick(p[k - 1])
      /\ \A k \in 0 .. N : p[k].level \in Int
  BY ClockSteps DEF Clocks, Levels
<1>2. 0 \in S
  BY <1>1
<1>3. ASSUME NEW k \in 1 .. N, k - 1 \in S PROVE k \in S
  <2>1. k - 1 \in 0 .. N /\ k \in 0 .. N
    OBVIOUS
  <2>2. p[k - 1].level <= p[k].level
    BY <1>1, <2>1, TickType
  <2>3. CASE i = k
    BY <1>1, <2>3
  <2>4. CASE i # k
    <3>1. i <= k => i <= k - 1
      BY <2>4
    <3> QED BY <1>1, <1>3, <2>1, <2>2, <3>1
  <2> QED BY <2>3, <2>4
<1>4. 0 .. N \subseteq S
  <2> HIDE DEF S
  <2> QED BY <1>2, <1>3, BoundedInduction
<1> QED BY <1>4

\* The walk is where the clock says, and so is every node it kept.
OnClock(w, p) ==
  /\ Clock(w) = p[Len(w.kept) - 1]
  /\ w.kept[1].level = 0
  /\ \A k \in 2 .. Len(w.kept) : w.kept[k].level = p[k - 2].level

LEMMA VisitOnClock ==
  ASSUME NEW N \in Nat, NEW p, IsClock(p, N), NEW w \in Walks, NEW n \in Nodes,
         Len(w.kept) \in 1 .. N, OnClock(w, p)
  PROVE  OnClock(VisitNode(w, n), p)
<1>1. CASE Keeps(w, n)
  <2> DEFINE v == VisitNode(w, n)
             e == [block |-> n.block, level |-> w.level]
  <2>1. v.kept = Append(w.kept, e) /\ Clock(v) = Tick(Clock(w)) /\ e.level = w.level
    BY <1>1, VisitKeeps
  <2>2. w.kept \in Seq(Nodes) /\ e \in Nodes
    BY DEF Walks, Nodes
  <2> HIDE DEF v, e
  <2>3. /\ Len(v.kept) = Len(w.kept) + 1
        /\ v.kept[1] = w.kept[1]
        /\ v.kept[Len(v.kept)] = e
        /\ \A k \in 2 .. Len(w.kept) : v.kept[k] = w.kept[k]
    BY <2>1, <2>2
  <2>4. Clock(v) = p[Len(v.kept) - 1]
    BY <2>1, <2>3, ClockSteps DEF OnClock
  <2>5. e.level = p[Len(v.kept) - 2].level
    <3>1. Clock(w).level = w.level
      BY DEF Clock
    <3>2. Len(v.kept) - 2 = Len(w.kept) - 1
      BY <2>3
    <3> QED BY <2>1, <3>1, <3>2 DEF OnClock
  <2>6. \A k \in 2 .. Len(v.kept) : v.kept[k].level = p[k - 2].level
    <3> SUFFICES ASSUME NEW k \in 2 .. Len(v.kept) PROVE v.kept[k].level = p[k - 2].level
      OBVIOUS
    <3>1. CASE k = Len(v.kept)
      BY <2>3, <2>5, <3>1
    <3>2. CASE k # Len(v.kept)
      <4>1. k \in 2 .. Len(w.kept)
        BY <2>3, <3>2
      <4> QED BY <2>3, <4>1 DEF OnClock
    <3> QED BY <3>1, <3>2
  <2>7. v.kept[1].level = 0
    BY <2>3 DEF OnClock
  <2> QED BY <2>4, <2>6, <2>7 DEF OnClock, v
<1>2. CASE ~ Keeps(w, n)
  BY <1>2, VisitDrops
<1> QED BY <1>1, <1>2

\* Induction on the length of a list of nodes that is not empty.
LEMMA ListInduction ==
  ASSUME NEW S,
         \A ns \in Seq(Nodes) : Len(ns) = 1 => ns \in S,
         \A ns \in Seq(Nodes) : \A n \in Nodes :
           ns # <<>> /\ ns \in S => Append(ns, n) \in S
  PROVE  \A ns \in Seq(Nodes) : ns # <<>> => ns \in S
<1> DEFINE T == {i \in Nat : \A ns \in Seq(Nodes) : Len(ns) = i + 1 => ns \in S}
<1>1. T \in SUBSET Nat /\ 0 \in T
  OBVIOUS
<1>2. ASSUME NEW i \in T PROVE i + 1 \in T
  <2> SUFFICES ASSUME NEW ns \in Seq(Nodes), Len(ns) = (i + 1) + 1 PROVE ns \in S
    OBVIOUS
  <2> DEFINE f == SubSeq(ns, 1, i + 1)
  <2>1. f \in Seq(Nodes) /\ Len(f) = i + 1 /\ ns[i + 2] \in Nodes
    OBVIOUS
  <2>2. f # <<>> /\ f \in S
    <3> HIDE DEF f
    <3>1. Len(<<>>) = 0 /\ i + 1 # 0
      OBVIOUS
    <3> QED BY <2>1, <3>1
  <2>3. ns = Append(f, ns[i + 2])
    OBVIOUS
  <2> HIDE DEF f
  <2> QED BY <2>1, <2>2, <2>3
<1>3. T = Nat
  <2> HIDE DEF T
  <2> QED BY <1>1, <1>2, SetInduction
<1> QED
  <2> SUFFICES ASSUME NEW ns \in Seq(Nodes), ns # <<>> PROVE ns \in S
    OBVIOUS
  <2>1. Len(ns) - 1 \in Nat /\ Len(ns) = (Len(ns) - 1) + 1
    OBVIOUS
  <2> QED BY <1>3, <2>1

\* A walk over a list of up to N + 1 nodes runs on a clock of N ticks.
EndIsOnClock(ns, p) ==
  /\ EndOf(ns) \in Walks
  /\ Len(EndOf(ns).kept) \in 1 .. Len(ns)
  /\ OnClock(EndOf(ns), p)

LEMMA OneNode ==
  ASSUME NEW l \in Seq(Nodes), Len(l) = 1
  PROVE  l[1] \in Nodes /\ l # <<>> /\ l = <<l[1]>>
<1>1. Len(<<>>) = 0
  OBVIOUS
<1>2. l # <<>>
  <2> SUFFICES ASSUME l = <<>> PROVE FALSE
    OBVIOUS
  <2>1. Len(l) = 0
    BY <1>1
  <2> QED BY <2>1
<1>3. l[1] \in Nodes /\ l = <<l[1]>>
  OBVIOUS
<1> QED BY <1>2, <1>3

LEMMA EndOnClock ==
  ASSUME NEW N \in Nat, NEW p, IsClock(p, N),
         NEW ns \in Seq(Nodes), ns # <<>>, Len(ns) <= N + 1
  PROVE  EndIsOnClock(ns, p)
<1> DEFINE S == {l \in Seq(Nodes) : l # <<>> /\ Len(l) <= N + 1 => EndIsOnClock(l, p)}
<1>1. ASSUME NEW l \in Seq(Nodes), Len(l) = 1 PROVE l \in S
  <2>1. l[1] \in Nodes /\ l # <<>>
    BY <1>1, OneNode
  <2>2. EndOf(l) = KeepTip(l[1])
    BY <1>1, EndOfOne
  <2>3. EndOf(l).kept = << [block |-> l[1].block, level |-> 0] >>
    BY <2>1, <2>2, KeepTipType
  <2>4. Len(EndOf(l).kept) = 1 /\ EndOf(l).kept[1].level = 0
    BY <2>3
  <2>5. Clock(EndOf(l)) = p[0]
    BY <2>1, <2>2, KeepTipType, ClockSteps
  <2>6. OnClock(EndOf(l), p)
    BY <2>4, <2>5 DEF OnClock
  <2> QED BY <1>1, <2>1, <2>4, <2>6, EndType DEF EndIsOnClock
<1>2. ASSUME NEW l \in Seq(Nodes), NEW n \in Nodes, l # <<>>, l \in S
      PROVE  Append(l, n) \in S
  <2> SUFFICES ASSUME Len(Append(l, n)) <= N + 1 PROVE EndIsOnClock(Append(l, n), p)
    OBVIOUS
  <2>1. /\ Append(l, n) \in Seq(Nodes) /\ Append(l, n) # <<>>
        /\ Len(Append(l, n)) = Len(l) + 1 /\ Len(l) <= N /\ Len(l) \in Nat
    OBVIOUS
  <2>2. EndIsOnClock(l, p)
    BY <1>2, <2>1
  <2> DEFINE w == EndOf(l)
  <2>3. w \in Walks /\ Len(w.kept) \in 1 .. Len(l) /\ OnClock(w, p)
    BY <2>2 DEF EndIsOnClock
  <2>4. EndOf(Append(l, n)) = VisitNode(w, n)
    BY <1>2, EndOfAppend
  <2> HIDE DEF w
  <2>5. Len(w.kept) \in 1 .. N
    BY <2>1, <2>3
  <2>6. OnClock(VisitNode(w, n), p)
    BY <2>3, <2>5, VisitOnClock
  <2>7. Len(VisitNode(w, n).kept) \in 1 .. Len(l) + 1
    <3>1. CASE Keeps(w, n)
      <4>1. VisitNode(w, n).kept = Append(w.kept, [block |-> n.block, level |-> w.level])
        BY <2>3, <3>1, VisitKeeps
      <4>2. w.kept \in Seq(Nodes) /\ [block |-> n.block, level |-> w.level] \in Nodes
        BY <2>3 DEF Walks, Nodes
      <4> QED BY <2>1, <2>3, <4>1, <4>2
    <3>2. CASE ~ Keeps(w, n)
      BY <2>1, <2>3, <3>2, VisitDrops
    <3> QED BY <3>1, <3>2
  <2>8. EndOf(Append(l, n)) \in Walks
    BY <2>1, EndType
  <2> QED BY <2>1, <2>4, <2>6, <2>7, <2>8 DEF EndIsOnClock
<1>3. \A l \in Seq(Nodes) : l # <<>> => l \in S
  <2> HIDE DEF S
  <2> QED BY <1>1, <1>2, ListInduction
<1> QED BY <1>3

\* A new tip n does not let the walk over a list keep less, and pruning the
\* list first changes nothing.
Ahead(n, ns) == Len(EndOf(<<n>> \o ns).kept) >= Len(EndOf(ns).kept)
PrunedEarly(n, ns) == EndOf(<<n>> \o EndOf(ns).kept) = EndOf(<<n>> \o ns)

\* The walk that kept more nodes is at no lower level.
LEMMA LevelsFollowLengths ==
  ASSUME NEW N \in Nat, NEW p, IsClock(p, N), NEW v \in Walks, NEW w \in Walks,
         OnClock(v, p), OnClock(w, p),
         Len(v.kept) \in 1 .. N + 1, Len(w.kept) \in 1 .. N + 1, Len(v.kept) <= Len(w.kept)
  PROVE  v.level <= w.level
<1> DEFINE i == Len(v.kept) - 1
           j == Len(w.kept) - 1
<1>1. i \in 0 .. N /\ j \in 0 .. N /\ i <= j
  OBVIOUS
<1>2. v.level = p[i].level /\ w.level = p[j].level
  <2>1. Clock(v).level = v.level /\ Clock(w).level = w.level
    BY DEF Clock
  <2> QED BY <2>1 DEF OnClock
<1> HIDE DEF i, j
<1> QED BY <1>1, <1>2, ClockRises

\* Blocks only matter by what they are: the level a node comes with is lost.
LEMMA VisitForgetsLevel ==
  ASSUME NEW w \in Walks, NEW n \in Nodes, NEW m \in Nodes, n.block = m.block
  PROVE  VisitNode(w, n) = VisitNode(w, m)
<1>1. [n EXCEPT !.level = w.level] = [m EXCEPT !.level = w.level]
  BY DEF Nodes
<1> QED BY <1>1 DEF VisitNode, KeepNode

\* One more node below the list: the walk with the new tip is at no lower level
\* (LevelsFollowLengths), so what the walk without it drops, it drops too.
LEMMA OneMoreBelow ==
  ASSUME NEW n \in Nodes, NEW ns \in Seq(Nodes), ns # <<>>, NEW e \in Nodes,
         Ahead(n, ns), PrunedEarly(n, ns)
  PROVE  Ahead(n, Append(ns, e)) /\ PrunedEarly(n, Append(ns, e))
<1> DEFINE l == <<n>> \o ns
           a == EndOf(ns)
           b == EndOf(l)
           N == Len(ns) + 1
<1>1. /\ l \in Seq(Nodes) /\ l # <<>> /\ Len(l) = Len(ns) + 1
      /\ <<n>> \o Append(ns, e) = Append(l, e) /\ N \in Nat /\ Len(ns) \in Nat
      /\ Len(l) <= N + 1 /\ Len(ns) <= N + 1
  OBVIOUS
<1>2. EndOf(Append(ns, e)) = VisitNode(a, e) /\ EndOf(<<n>> \o Append(ns, e)) = VisitNode(b, e)
  BY <1>1, EndOfAppend
<1>3. a \in Walks /\ b \in Walks
  BY <1>1, EndType
<1>4. Len(a.kept) \in 1 .. N + 1 /\ Len(b.kept) \in 1 .. N + 1
  <2>1. PICK p : IsClock(p, N)
    BY <1>1, ClockExists DEF HasClock
  <2>2. EndIsOnClock(ns, p) /\ EndIsOnClock(l, p)
    BY <1>1, <2>1, EndOnClock
  <2> QED BY <1>1, <2>2 DEF EndIsOnClock
<1>5. Len(a.kept) <= Len(b.kept) => a.level <= b.level
  <2>1. PICK p : IsClock(p, N)
    BY <1>1, ClockExists DEF HasClock
  <2>2. EndIsOnClock(ns, p) /\ EndIsOnClock(l, p)
    BY <1>1, <2>1, EndOnClock
  <2>3. OnClock(a, p) /\ OnClock(b, p)
    BY <2>2 DEF EndIsOnClock
  <2> HIDE DEF a, b, N
  <2> QED BY <1>1, <1>3, <1>4, <2>1, <2>3, LevelsFollowLengths
<1>6. Len(b.kept) <= Len(a.kept) => b.level <= a.level
  <2>1. PICK p : IsClock(p, N)
    BY <1>1, ClockExists DEF HasClock
  <2>2. EndIsOnClock(ns, p) /\ EndIsOnClock(l, p)
    BY <1>1, <2>1, EndOnClock
  <2>3. OnClock(a, p) /\ OnClock(b, p)
    BY <2>2 DEF EndIsOnClock
  <2> HIDE DEF a, b, N
  <2> QED BY <1>1, <1>3, <1>4, <2>1, <2>3, LevelsFollowLengths
<1>7. Len(a.kept) <= Len(b.kept) /\ EndOf(<<n>> \o a.kept) = b
  BY DEF Ahead, PrunedEarly
<1>8. /\ a.level \in Int /\ b.level \in Int /\ SuperLevel[e.block] \in Int
      /\ Len(a.kept) \in Nat /\ Len(b.kept) \in Nat
      /\ a.kept \in Seq(Nodes) /\ b.kept \in Seq(Nodes)
  <2> HIDE DEF a, b, N
  <2>1. a.level \in Int /\ b.level \in Int /\ a.kept \in Seq(Nodes) /\ b.kept \in Seq(Nodes)
    BY <1>3 DEF Walks, Levels
  <2>2. SuperLevel[e.block] \in Int
    BY SuperLevelAssumption DEF Nodes
  <2>3. Len(a.kept) \in Nat /\ Len(b.kept) \in Nat
    BY <2>1
  <2> QED BY <2>1, <2>2, <2>3
<1> HIDE DEF l, a, b, N
<1> DEFINE aa == VisitNode(a, e)
           bb == VisitNode(b, e)
           ea == [block |-> e.block, level |-> a.level]
           eb == [block |-> e.block, level |-> b.level]
<1>9. ea \in Nodes /\ eb \in Nodes /\ ea.block = e.block
  BY <1>3 DEF Walks, Nodes
<1>10. Keeps(a, e) => aa.kept = Append(a.kept, ea) /\ Len(aa.kept) = Len(a.kept) + 1
  <2> SUFFICES ASSUME Keeps(a, e) PROVE aa.kept = Append(a.kept, ea) /\ Len(aa.kept) = Len(a.kept) + 1
    OBVIOUS
  <2>1. aa.kept = Append(a.kept, ea)
    BY <1>3, VisitKeeps
  <2> HIDE DEF aa, ea
  <2> QED BY <1>8, <1>9, <2>1
<1>11. Keeps(b, e) => Len(bb.kept) = Len(b.kept) + 1
  <2> SUFFICES ASSUME Keeps(b, e) PROVE Len(bb.kept) = Len(b.kept) + 1
    OBVIOUS
  <2>1. bb.kept = Append(b.kept, eb)
    BY <1>3, VisitKeeps
  <2> HIDE DEF bb, eb
  <2> QED BY <1>8, <1>9, <2>1
<1>12. (~ Keeps(a, e) => aa = a) /\ (~ Keeps(b, e) => bb = b)
  BY VisitDrops
<1>13. Len(aa.kept) <= Len(bb.kept)
  <2>1. Keeps(a, e) /\ ~ Keeps(b, e) => Len(a.kept) < Len(b.kept)
    BY <1>6, <1>7, <1>8 DEF Keeps
  <2> HIDE DEF aa, bb, ea
  <2> QED BY <1>7, <1>8, <1>10, <1>11, <1>12, <2>1
<1>14. EndOf(<<n>> \o aa.kept) = bb
  <2>1. CASE Keeps(a, e)
    <3>1. EndOf(Append(<<n>> \o a.kept, ea)) = VisitNode(b, ea)
      <4>1. <<n>> \o a.kept \in Seq(Nodes) /\ <<n>> \o a.kept # <<>>
        BY <1>8
      <4> HIDE DEF ea
      <4> QED BY <1>7, <1>9, <4>1, EndOfAppend
    <3>2. <<n>> \o Append(a.kept, ea) = Append(<<n>> \o a.kept, ea)
      <4> HIDE DEF ea
      <4> QED BY <1>8, <1>9
    <3>3. VisitNode(b, ea) = bb
      <4> HIDE DEF ea
      <4> QED BY <1>3, <1>9, VisitForgetsLevel
    <3>4. aa.kept = Append(a.kept, ea)
      BY <1>10, <2>1
    <3> QED BY <3>1, <3>2, <3>3, <3>4
  <2>2. CASE ~ Keeps(a, e)
    <3>1. ~ Keeps(b, e)
      BY <1>5, <1>7, <1>8, <2>2 DEF Keeps
    <3>2. aa = a /\ bb = b
      BY <1>12, <2>2, <3>1
    <3> QED BY <1>7, <3>2
  <2> QED BY <2>1, <2>2
<1>15. EndOf(Append(ns, e)) = aa /\ EndOf(<<n>> \o Append(ns, e)) = bb
  BY <1>2
<1> HIDE DEF aa, bb
<1> QED BY <1>13, <1>14, <1>15, <1>8 DEF Ahead, PrunedEarly

\* The same for every list, by induction on its length.
LEMMA PruningEarly ==
  ASSUME NEW n \in Nodes, NEW ns \in Seq(Nodes), ns # <<>>
  PROVE  Ahead(n, ns) /\ PrunedEarly(n, ns)
<1> DEFINE S == {l \in Seq(Nodes) : l # <<>> => Ahead(n, l) /\ PrunedEarly(n, l)}
<1>1. ASSUME NEW l \in Seq(Nodes), Len(l) = 1 PROVE l \in S
  <2> DEFINE m == l[1]
             k == [block |-> m.block, level |-> 0]
             t == KeepTip(n)
  <2>1. m \in Nodes /\ l # <<>> /\ l = <<m>>
    BY <1>1, OneNode
  <2>2. k \in Nodes /\ k.block = m.block
    BY <2>1, LevelsFacts DEF Nodes
  <2>3. EndOf(l).kept = <<k>>
    BY <1>1, <2>1, EndOfOne, KeepTipType
  <2>4. t \in Walks /\ Len(t.kept) = 1 /\ t.level = 0
    <3>1. Clock(t) = [level |-> 0, tot |-> 1] /\ t.kept = << [block |-> n.block, level |-> 0] >>
      BY KeepTipType
    <3>2. Clock(t).level = t.level
      BY DEF Clock
    <3> QED BY <3>1, <3>2, KeepTipType
  <2> HIDE DEF m, k, t
  <2>5. EndOf(<<n>>) = t
    <3>1. <<n>> \in Seq(Nodes) /\ Len(<<n>>) = 1 /\ <<n>>[1] = n
      OBVIOUS
    <3> QED BY <3>1, EndOfOne DEF t
  <2>6. \A x \in Nodes : EndOf(<<n>> \o <<x>>) = VisitNode(t, x)
    <3> SUFFICES ASSUME NEW x \in Nodes PROVE EndOf(<<n>> \o <<x>>) = VisitNode(t, x)
      OBVIOUS
    <3>1. <<n>> \in Seq(Nodes) /\ <<n>> # <<>> /\ <<n>> \o <<x>> = Append(<<n>>, x)
      OBVIOUS
    <3> QED BY <2>5, <3>1, EndOfAppend
  <2>7. PrunedEarly(n, l)
    <3>1. VisitNode(t, k) = VisitNode(t, m)
      BY <2>1, <2>2, <2>4, VisitForgetsLevel
    <3> QED BY <2>1, <2>2, <2>3, <2>6, <3>1 DEF PrunedEarly
  <2>8. Ahead(n, l)
    <3>1. Keeps(t, m)
      BY <2>1, <2>4, SuperLevelAssumption DEF Keeps, Nodes
    <3>2. VisitNode(t, m).kept = Append(t.kept, [block |-> m.block, level |-> t.level])
      BY <2>1, <2>4, <3>1, VisitKeeps
    <3>3. Len(VisitNode(t, m).kept) = 2
      <4> DEFINE x == [block |-> m.block, level |-> t.level]
      <4>1. t.kept \in Seq(Nodes) /\ x \in Nodes
        BY <2>1, <2>4 DEF Walks, Nodes
      <4>2. VisitNode(t, m).kept = Append(t.kept, x)
        BY <3>2
      <4> HIDE DEF x
      <4>3. Len(Append(t.kept, x)) = Len(t.kept) + 1
        BY <4>1
      <4> QED BY <2>4, <4>2, <4>3
    <3>4. Len(EndOf(l).kept) = 1
      BY <2>3
    <3>5. EndOf(<<n>> \o l) = VisitNode(t, m)
      BY <2>1, <2>6
    <3>6. Len(EndOf(<<n>> \o l).kept) = 2
      BY <3>3, <3>5, Zenon
    <3>7. 2 >= 1
      OBVIOUS
    <3> QED BY <3>4, <3>6, <3>7, Zenon DEF Ahead
  <2> QED BY <2>7, <2>8
<1>2. ASSUME NEW l \in Seq(Nodes), NEW e \in Nodes, l # <<>>, l \in S
      PROVE  Append(l, e) \in S
  <2>1. Append(l, e) \in Seq(Nodes)
    OBVIOUS
  <2> QED BY <1>2, <2>1, OneMoreBelow
<1>3. \A l \in Seq(Nodes) : l # <<>> => l \in S
  <2> HIDE DEF S
  <2> QED BY <1>1, <1>2, ListInduction
<1> QED BY <1>3

-----------------------------------------------------------------------------
\* Every level has a weight, twice that of the level below it.
LEMMA LevelWeightType ==
  /\ LevelWeight \in [Levels -> Nat]
  /\ LevelWeight[0] = 1
  /\ \A k \in 1 .. LevelsMax - 1 : LevelWeight[k] = 2 * LevelWeight[k - 1]
<1> DEFINE N == LevelsMax - 1
           F == [k \in 1 .. N |-> [x \in Nat |-> 2 * x]]
           Body(f) == [l \in 0 .. N |-> IF l = 0 THEN 1 ELSE 2 * f[l - 1]]
           g == CHOOSE f : f = Body(f)
<1>1. N \in Nat /\ F \in [1 .. N -> [Nat -> Nat]] /\ 1 \in Nat
  BY LevelsAssumption
<1>2. LevelWeight = g
  BY DEF LevelWeight
<1> HIDE DEF N
<1>3. \A k \in 1 .. N : \A x \in Nat : F[k][x] = 2 * x
  OBVIOUS
<1>4. \A k \in 0 .. N : k # 0 => k \in 1 .. N /\ k - 1 \in 0 .. N
  BY <1>1
<1> HIDE DEF F
<1>5. PICK f : Recursive(f, N, Nat, 1, F)
  BY <1>1, RecursionExists DEF Recursion
<1>6. f = Body(f)
  <2>1. f \in [0 .. N -> Nat] /\ f[0] = 1
    BY <1>5 DEF Recursive
  <2>2. ASSUME NEW k \in 0 .. N, k # 0 PROVE f[k] = 2 * f[k - 1]
    <3>1. f[k] = F[k][f[k - 1]] /\ f[k - 1] \in Nat
      BY <1>4, <1>5, <2>1, <2>2 DEF Recursive
    <3> QED BY <1>3, <1>4, <2>2, <3>1
  <2> QED BY <2>1, <2>2
<1>7. g = Body(g)
  BY <1>6
<1> HIDE DEF g
<1>8. g[0] = 1 /\ \A k \in 1 .. N : g[k] = 2 * g[k - 1]
  <2>1. \A k \in 0 .. N : g[k] = IF k = 0 THEN 1 ELSE 2 * g[k - 1]
    BY <1>7
  <2>2. 0 \in 0 .. N /\ \A k \in 1 .. N : k \in 0 .. N /\ k # 0
    BY <1>1
  <2> QED BY <2>1, <2>2, Zenon
<1> DEFINE S == {k \in 0 .. N : g[k] \in Nat}
<1>9. 0 \in S
  BY <1>1, <1>8
<1>10. ASSUME NEW k \in 1 .. N, k - 1 \in S PROVE k \in S
  <2>1. g[k] = 2 * g[k - 1] /\ k \in 0 .. N /\ g[k - 1] \in Nat
    BY <1>1, <1>8, <1>10
  <2> QED BY <2>1
<1>11. 0 .. N \subseteq S
  <2> HIDE DEF S
  <2> QED BY <1>1, <1>9, <1>10, BoundedInduction
<1>12. g \in [0 .. N -> Nat]
  BY <1>7, <1>11
<1> QED BY <1>2, <1>8, <1>12 DEF Levels, N

LEMMA HigherIsHeavier ==
  ASSUME NEW i \in Levels, NEW j \in Levels, i <= j
  PROVE  LevelWeight[i] <= LevelWeight[j]
<1> DEFINE N == LevelsMax - 1
           S == {k \in 0 .. N : i <= k => LevelWeight[i] <= LevelWeight[k]}
<1>1. N \in Nat /\ i \in 0 .. N /\ j \in 0 .. N
  BY LevelsAssumption DEF Levels
<1>2. \A k \in 0 .. N : LevelWeight[k] \in Nat
  BY LevelWeightType DEF Levels
<1>3. \A k \in 1 .. N : LevelWeight[k] = 2 * LevelWeight[k - 1]
  BY LevelWeightType
<1> HIDE DEF N
<1>4. 0 \in S
  <2>1. 0 \in 0 .. N /\ (i <= 0 => i = 0)
    BY <1>1
  <2> QED BY <1>2, <2>1
<1>5. ASSUME NEW k \in 1 .. N, k - 1 \in S PROVE k \in S
  <2>1. k \in 0 .. N /\ k - 1 \in 0 .. N /\ (i <= k => i = k \/ i <= k - 1)
    BY <1>1
  <2>2. LevelWeight[k - 1] <= LevelWeight[k]
    BY <1>2, <1>3, <2>1
  <2> QED BY <1>1, <1>2, <1>5, <2>1, <2>2
<1>6. 0 .. N \subseteq S
  <2> HIDE DEF S
  <2> QED BY <1>1, <1>4, <1>5, BoundedInduction
<1> QED BY <1>1, <1>6

LEMMA ProductType ==
  ASSUME NEW a \in Nat, NEW b \in Nat
  PROVE  a * b \in Nat
OBVIOUS

LEMMA ProductGrows ==
  ASSUME NEW a \in Nat, NEW b \in Nat, NEW c \in Nat, NEW d \in Nat, a <= c, b <= d
  PROVE  a * b <= c * d
<1>1. (c - a) * b >= 0 /\ c * (d - b) >= 0
  <2>1. c - a \in Nat /\ d - b \in Nat
    OBVIOUS
  <2> QED BY <2>1, ProductType
<1>2. a * b <= c * b
  BY <1>1
<1>3. c * b <= c * d
  BY <1>1
<1>4. a * b \in Nat /\ c * b \in Nat /\ c * d \in Nat
  BY ProductType
<1> QED BY <1>2, <1>3, <1>4

LEMMA WeightOfNode ==
  ASSUME NEW n \in Nodes
  PROVE  /\ NodeWeight(n) \in Nat /\ NodeWeight(n) = DifficultyWeight[n.block] * LevelWeight[n.level]
         /\ DifficultyWeight[n.block] \in Nat /\ LevelWeight[n.level] \in Nat
<1>1. n.block \in Blocks /\ n.level \in Levels
  BY DEF Nodes
<1>2. DifficultyWeight[n.block] \in Nat /\ LevelWeight[n.level] \in Nat
  BY <1>1, DifficultyWeightAssumption, LevelWeightType
<1> QED BY <1>2, ProductType DEF NodeWeight

LEMMA HeavierNode ==
  ASSUME NEW n \in Nodes, NEW m \in Nodes, m.level <= n.level,
         DifficultyWeight[m.block] <= DifficultyWeight[n.block]
  PROVE  NodeWeight(m) <= NodeWeight(n)
<1>1. LevelWeight[m.level] <= LevelWeight[n.level]
  BY HigherIsHeavier DEF Nodes
<1> QED BY <1>1, WeightOfNode, ProductGrows

\* f[k] is the sum of the first k of the n terms u.
IsSum(f, u, n) ==
  /\ u \in [1 .. n -> Nat] /\ f \in [0 .. n -> Nat] /\ f[0] = 0
  /\ \A k \in 1 .. n : f[k] = f[k - 1] + u[k]

\* The weight of a list is a sum over its nodes.
WeightsOf(ns) == [k \in 1 .. Len(ns) |-> NodeWeight(ns[k])]
IsTotal(f, ns) == IsSum(f, WeightsOf(ns), Len(ns))
HasTotal(ns) == \E f : IsTotal(f, ns) /\ TotalWeight(ns) = f[Len(ns)]

LEMMA TotalIs == ASSUME NEW ns \in Seq(Nodes) PROVE HasTotal(ns)
<1> DEFINE N == Len(ns)
           W(k) == NodeWeight(ns[k])
           F == [k \in 1 .. N |-> [x \in Nat |-> x + W(k)]]
           Body(f) == [i \in 0 .. N |-> IF i = 0 THEN 0 ELSE f[i - 1] + W(i)]
           g == CHOOSE f : f = Body(f)
<1>1. N \in Nat /\ \A k \in 1 .. N : W(k) \in Nat
  <2>1. \A k \in 1 .. N : ns[k] \in Nodes
    OBVIOUS
  <2> QED BY <2>1, WeightOfNode
<1>2. TotalWeight(ns) = g[N]
  BY DEF TotalWeight
<1> HIDE DEF N, W
<1>3. \A k \in 1 .. N : \A x \in Nat : F[k][x] = x + W(k)
  OBVIOUS
<1>4. F \in [1 .. N -> [Nat -> Nat]]
  BY <1>1
<1> HIDE DEF F
<1>5. \A k \in 0 .. N : k # 0 => k \in 1 .. N /\ k - 1 \in 0 .. N
  BY <1>1
<1>6. PICK f : Recursive(f, N, Nat, 0, F)
  BY <1>1, <1>4, RecursionExists DEF Recursion
<1>7. f = Body(f)
  <2>1. f \in [0 .. N -> Nat] /\ f[0] = 0
    BY <1>6 DEF Recursive
  <2>2. ASSUME NEW k \in 0 .. N, k # 0 PROVE f[k] = f[k - 1] + W(k)
    <3>1. f[k] = F[k][f[k - 1]] /\ f[k - 1] \in Nat
      BY <1>5, <1>6, <2>1, <2>2 DEF Recursive
    <3> QED BY <1>3, <1>5, <2>2, <3>1
  <2> QED BY <2>1, <2>2
<1>8. g = Body(g)
  BY <1>7
<1> HIDE DEF g
<1>9. g[0] = 0 /\ \A k \in 1 .. N : g[k] = g[k - 1] + W(k)
  BY <1>1, <1>8
<1> DEFINE S == {k \in 0 .. N : g[k] \in Nat}
<1>10. 0 \in S
  BY <1>1, <1>9
<1>11. \A k \in 1 .. N : k - 1 \in S => k \in S
  BY <1>1, <1>9
<1>12. 0 .. N \subseteq S
  <2> HIDE DEF S
  <2> QED BY <1>1, <1>10, <1>11, BoundedInduction
<1>13. g \in [0 .. N -> Nat]
  BY <1>8, <1>12
<1>14. WeightsOf(ns) \in [1 .. N -> Nat] /\ \A k \in 1 .. N : WeightsOf(ns)[k] = W(k)
  BY <1>1 DEF WeightsOf, N, W
<1>15. IsSum(g, WeightsOf(ns), N)
  BY <1>9, <1>13, <1>14 DEF IsSum
<1> QED BY <1>2, <1>15 DEF HasTotal, IsTotal, N

LEMMA TotalType == ASSUME NEW ns \in Seq(Nodes) PROVE TotalWeight(ns) \in Nat
<1>1. PICK f : IsTotal(f, ns) /\ TotalWeight(ns) = f[Len(ns)]
  BY TotalIs DEF HasTotal
<1>2. Len(ns) \in 0 .. Len(ns)
  OBVIOUS
<1> QED BY <1>1, <1>2 DEF IsTotal, IsSum

LEMMA SumStep ==
  ASSUME NEW n \in Nat, NEW f, NEW u, IsSum(f, u, n), NEW k \in 1 .. n
  PROVE  f[k] = f[k - 1] + u[k] /\ f[k] \in Nat /\ f[k - 1] \in Nat /\ u[k] \in Nat
<1>1. k \in 0 .. n /\ k - 1 \in 0 .. n
  OBVIOUS
<1> QED BY <1>1 DEF IsSum

LEMMA TermAdded ==
  ASSUME NEW a \in Nat, NEW b \in Nat, NEW c \in Nat, NEW x \in Nat, NEW y \in Nat,
         a >= b + c, x >= y
  PROVE  a + x >= (b + y) + c
OBVIOUS

\* The terms w are c and then the terms u, the d-th left out, none of them less.
Shifted(w, u, d, c, n) ==
  /\ w[1] = c
  /\ \A k \in 2 .. n : w[k] >= IF k <= d THEN u[k - 1] ELSE u[k]

LEMMA SumsShifted ==
  ASSUME NEW M \in Nat, NEW d \in 1 .. M + 1, NEW N \in Nat, NEW c \in Nat,
         N = IF d <= M THEN M ELSE M + 1,
         NEW f, NEW u, IsSum(f, u, M), NEW g, NEW w, IsSum(g, w, N), Shifted(w, u, d, c, N)
  PROVE  g[N] + (IF d <= M THEN u[d] ELSE 0) >= f[M] + c
<1> DEFINE First(k) == k <= d => g[k] >= f[k - 1] + c
           Rest(k)  == k >= d /\ d <= M => g[k] + u[d] >= f[k] + c
           S == {k \in 0 .. N : k # 0 => First(k) /\ Rest(k)}
<1>1. N \in 1 .. N /\ 0 \in S /\ f[0] = 0 /\ g[0] = 0
  BY DEF IsSum
<1>2. ASSUME NEW k \in 1 .. N, First(k) PROVE k = d /\ d <= M => Rest(k)
  <2> SUFFICES ASSUME k = d, d <= M PROVE g[k] + u[k] >= f[k] + c
    OBVIOUS
  <2>1. k \in 1 .. M /\ g[k] >= f[k - 1] + c
    BY <1>2
  <2>2. f[k] = f[k - 1] + u[k] /\ f[k - 1] \in Nat /\ u[k] \in Nat
    BY <2>1, SumStep
  <2>3. g[k] \in Nat
    BY SumStep
  <2>4. g[k] + u[k] >= (f[k - 1] + u[k]) + c
    BY <2>1, <2>2, <2>3, TermAdded
  <2> QED BY <2>2, <2>4
<1>3. ASSUME NEW k \in 1 .. N, k - 1 \in S PROVE k \in S
  <2>1. k \in 0 .. N /\ g[k] = g[k - 1] + w[k] /\ g[k] \in Nat /\ g[k - 1] \in Nat /\ w[k] \in Nat
    BY SumStep
  <2>2. CASE k = 1
    <3>1. k - 1 = 0 /\ g[k] = c
      BY <1>1, <2>1, <2>2 DEF Shifted
    <3>2. First(k)
      BY <1>1, <3>1
    <3>3. k >= d /\ d <= M => k = d
      BY <2>2
    <3> QED BY <1>2, <2>1, <3>2, <3>3
  <2>3. CASE k # 1
    <3>1. k \in 2 .. N /\ k - 1 # 0 /\ k - 1 \in 1 .. M /\ First(k - 1) /\ Rest(k - 1)
      <4>1. k \in 2 .. N /\ k - 1 # 0 /\ k - 1 \in 1 .. M
        BY <2>3
      <4> QED BY <1>3, <4>1
    <3>2. First(k)
      <4> SUFFICES ASSUME k <= d PROVE g[k] >= f[k - 1] + c
        OBVIOUS
      <4>1. g[k - 1] >= f[(k - 1) - 1] + c /\ w[k] >= u[k - 1]
        BY <3>1 DEF Shifted
      <4>2. /\ f[k - 1] = f[(k - 1) - 1] + u[k - 1]
            /\ f[(k - 1) - 1] \in Nat /\ u[k - 1] \in Nat
        BY <3>1, SumStep
      <4>3. g[k - 1] + w[k] >= (f[(k - 1) - 1] + u[k - 1]) + c
        BY <2>1, <4>1, <4>2, TermAdded
      <4> QED BY <2>1, <4>2, <4>3
    <3>3. Rest(k)
      <4> SUFFICES ASSUME k >= d, d <= M, k # d PROVE g[k] + u[d] >= f[k] + c
        BY <1>2, <3>2
      <4>1. k \in 1 .. M /\ d \in 1 .. M /\ k - 1 >= d /\ ~ (k <= d)
        BY <3>1
      <4>2. g[k - 1] + u[d] >= f[k - 1] + c /\ w[k] >= u[k]
        BY <3>1, <4>1 DEF Shifted
      <4>3. f[k] = f[k - 1] + u[k] /\ f[k - 1] \in Nat /\ u[k] \in Nat /\ u[d] \in Nat
        BY <4>1, SumStep
      <4>4. (g[k - 1] + u[d]) + w[k] >= (f[k - 1] + u[k]) + c
        <5>1. g[k - 1] + u[d] \in Nat
          BY <2>1, <4>3
        <5> QED BY <2>1, <4>2, <4>3, <5>1, TermAdded
      <4>5. (g[k - 1] + u[d]) + w[k] = g[k] + u[d]
        BY <2>1, <4>3
      <4> QED BY <4>3, <4>4, <4>5
    <3> QED BY <2>1, <3>2, <3>3
  <2> QED BY <2>2, <2>3
<1>4. 0 .. N \subseteq S
  <2> HIDE DEF S
  <2> QED BY <1>1, <1>3, BoundedInduction
<1>5. N # 0 /\ First(N) /\ Rest(N)
  BY <1>1, <1>4
<1>6. CASE d <= M
  BY <1>5, <1>6
<1>7. CASE ~ (d <= M)
  <2>1. N <= d /\ N - 1 = M
    BY <1>7
  <2>2. g[N] >= f[M] + c
    BY <1>5, <2>1
  <2>3. g[N] \in Nat
    BY <1>1, SumStep
  <2> QED BY <1>7, <2>2, <2>3
<1> QED BY <1>6, <1>7

LEMMA SumsOrdered ==
  ASSUME NEW N \in Nat, NEW f, NEW u, IsSum(f, u, N), NEW g, NEW w, IsSum(g, w, N),
         \A k \in 1 .. N : w[k] >= u[k]
  PROVE  g[N] >= f[N]
<1> DEFINE S == {k \in 0 .. N : g[k] >= f[k]}
<1>1. 0 \in S
  BY DEF IsSum
<1>2. ASSUME NEW k \in 1 .. N, k - 1 \in S PROVE k \in S
  <2>1. f[k] = f[k - 1] + u[k] /\ f[k - 1] \in Nat /\ u[k] \in Nat
    BY SumStep
  <2>2. g[k] = g[k - 1] + w[k] /\ g[k - 1] \in Nat /\ w[k] \in Nat
    BY SumStep
  <2>3. w[k] >= u[k] /\ g[k - 1] >= f[k - 1] + 0
    BY <1>2, <2>1
  <2>4. g[k - 1] + w[k] >= (f[k - 1] + u[k]) + 0
    BY <2>1, <2>2, <2>3, TermAdded
  <2> QED BY <2>1, <2>2, <2>4
<1>3. 0 .. N \subseteq S
  <2> HIDE DEF S
  <2> QED BY <1>1, <1>2, BoundedInduction
<1> QED BY <1>3

\* A cascade whose d-th node was dropped for a new tip, with what stands at every
\* place before and after on one level and no place on a lower level than the one
\* above it.
OnOneClock(old, new) ==
  /\ new # <<>> /\ new[1].level = 0
  /\ \A k \in DOMAIN old : k \in DOMAIN new => old[k].level = new[k].level
  /\ \A i, j \in DOMAIN new : i <= j => new[i].level <= new[j].level

LEMMA OneNodeLost ==
  ASSUME NEW old \in Seq(Nodes), NEW new \in Seq(Nodes), OnOneClock(old, new),
         NEW d \in 1 .. Len(old) + 1, LostAt(d, old, new)
  PROVE  TotalWeight(new) + (IF d <= Len(old) THEN NodeWeight(old[d]) ELSE 0)
           >= TotalWeight(old) + DifficultyWeight[new[1].block]
<1> DEFINE M == Len(old)
           N == Len(new)
           u == WeightsOf(old)
           w == WeightsOf(new)
           c == DifficultyWeight[new[1].block]
<1>1. /\ M \in Nat /\ N \in Nat /\ N = (IF d <= M THEN M ELSE M + 1)
      /\ N >= 1 /\ 1 \in 1 .. N /\ DOMAIN old = 1 .. M /\ DOMAIN new = 1 .. N
      /\ \A k \in 1 .. M : old[k] \in Nodes
      /\ \A k \in 1 .. N : new[k] \in Nodes
  BY DEF LostAt
<1>2. /\ \A k \in 1 .. M : u[k] = NodeWeight(old[k])
      /\ \A k \in 1 .. N : w[k] = NodeWeight(new[k])
  BY DEF WeightsOf
<1>3. c \in Nat /\ w[1] = c
  <2>1. LevelWeight[new[1].level] = 1
    BY LevelWeightType DEF OnOneClock
  <2>2. c \in Nat /\ NodeWeight(new[1]) = c * LevelWeight[new[1].level]
    BY <1>1, WeightOfNode
  <2>3. c * 1 = c
    BY <2>2
  <2> HIDE DEF c, w
  <2> QED BY <1>1, <1>2, <2>1, <2>2, <2>3
<1>4. PICK f : IsTotal(f, old) /\ TotalWeight(old) = f[M]
  BY TotalIs DEF HasTotal
<1>5. PICK g : IsTotal(g, new) /\ TotalWeight(new) = g[N]
  BY TotalIs DEF HasTotal
<1>6. IsSum(f, u, M)
  BY <1>4 DEF IsTotal
<1>7. IsSum(g, w, N)
  BY <1>5 DEF IsTotal
<1>8. ASSUME NEW k \in 2 .. N, k <= d PROVE w[k] >= u[k - 1]
  <2>1. k \in 1 .. N /\ k - 1 \in 1 .. N /\ k - 1 \in 1 .. M /\ k - 1 <= k
    BY <1>1
  <2>2. new[k].block = old[k - 1].block
    BY <1>8 DEF LostAt
  <2>3. old[k - 1].level <= new[k].level
    BY <1>1, <2>1 DEF OnOneClock
  <2>4. old[k - 1] \in Nodes /\ new[k] \in Nodes
    BY <1>1, <2>1
  <2>5. DifficultyWeight[old[k - 1].block] <= DifficultyWeight[new[k].block]
    BY <2>2, <2>4, WeightOfNode
  <2>6. NodeWeight(old[k - 1]) <= NodeWeight(new[k])
    BY <2>3, <2>4, <2>5, HeavierNode
  <2>7. u[k - 1] = NodeWeight(old[k - 1]) /\ w[k] = NodeWeight(new[k])
    BY <1>2, <2>1
  <2>8. NodeWeight(old[k - 1]) \in Nat /\ NodeWeight(new[k]) \in Nat
    BY <2>4, WeightOfNode
  <2> HIDE DEF u, w
  <2> QED BY <2>6, <2>7, <2>8
<1>9. ASSUME NEW k \in 2 .. N, k > d PROVE w[k] >= u[k]
  <2>1. k \in 1 .. N /\ k \in 1 .. M
    BY <1>1, <1>9
  <2>2. new[k].block = old[k].block
    BY <1>9 DEF LostAt
  <2>3. old[k].level = new[k].level
    BY <1>1, <2>1 DEF OnOneClock
  <2>4. NodeWeight(old[k]) = NodeWeight(new[k])
    BY <2>2, <2>3 DEF NodeWeight
  <2>5. u[k] = NodeWeight(old[k]) /\ w[k] = NodeWeight(new[k]) /\ NodeWeight(old[k]) \in Nat
    BY <1>1, <1>2, <2>1, WeightOfNode
  <2> HIDE DEF u, w
  <2> QED BY <2>4, <2>5
<1>10. d <= M => u[d] = NodeWeight(old[d])
  BY <1>1, <1>2
<1> HIDE DEF M, N, u, w, c
<1>11. d \in 1 .. M + 1
  BY DEF M
<1>12. Shifted(w, u, d, c, N)
  BY <1>3, <1>8, <1>9 DEF Shifted
<1>13. g[N] + (IF d <= M THEN u[d] ELSE 0) >= f[M] + c
  BY <1>1, <1>3, <1>6, <1>7, <1>11, <1>12, SumsShifted
<1> QED BY <1>4, <1>5, <1>10, <1>13 DEF M, c

\* And if no node is easier than one below it, nothing is lost.
LEMMA NothingLost ==
  ASSUME NEW old \in Seq(Nodes), NEW new \in Seq(Nodes), OnOneClock(old, new),
         NEW d \in 1 .. Len(old) + 1, LostAt(d, old, new), NEW n \in Nodes,
         n.block = new[1].block, NoEasier(<<n>> \o old)
  PROVE  TotalWeight(new) >= TotalWeight(old)
<1> DEFINE M == Len(old)
           u == WeightsOf(old)
           w == WeightsOf(new)
<1>1. CASE d <= M
  <2>1. /\ M \in Nat /\ Len(new) = M /\ DOMAIN old = 1 .. M /\ DOMAIN new = 1 .. M
        /\ \A k \in 1 .. M : old[k] \in Nodes /\ new[k] \in Nodes
    BY <1>1 DEF LostAt
  <2>2. /\ \A k \in 1 .. M : u[k] = NodeWeight(old[k])
        /\ \A k \in 1 .. M : w[k] = NodeWeight(new[k])
    BY <2>1 DEF WeightsOf
  <2>3. ASSUME NEW k \in 1 .. M PROVE w[k] >= u[k]
    <3> DEFINE l == <<n>> \o old
    <3>1. DOMAIN l = 1 .. M + 1 /\ l[k + 1] = old[k] /\ l[1] = n /\ (k # 1 => l[k] = old[k - 1])
      BY <2>1
    <3>2. k \in 1 .. M + 1 /\ k + 1 \in 1 .. M + 1 /\ k <= k + 1 /\ (k # 1 => k \in 2 .. M /\ k - 1 \in 1 .. M)
      BY <2>1
    <3> HIDE DEF l
    <3>3. new[k].block = l[k].block \/ new[k].block = old[k].block
      <4>1. CASE k = 1
        BY <3>1, <4>1
      <4>2. CASE k # 1
        BY <2>1, <3>1, <3>2, <4>2 DEF LostAt
      <4> QED BY <4>1, <4>2
    <3>4. DifficultyWeight[l[k].block] >= DifficultyWeight[l[k + 1].block]
      BY <3>1, <3>2 DEF NoEasier, l
    <3>5. old[k] \in Nodes /\ new[k] \in Nodes /\ old[k].level = new[k].level
      BY <2>1 DEF OnOneClock
    <3>6. /\ DifficultyWeight[old[k].block] \in Nat /\ DifficultyWeight[new[k].block] \in Nat
          /\ new[k].level \in Int
      BY <3>5, WeightOfNode DEF Nodes, Levels
    <3>7. DifficultyWeight[old[k].block] <= DifficultyWeight[new[k].block] /\ old[k].level <= new[k].level
      BY <3>1, <3>3, <3>4, <3>5, <3>6
    <3>8. NodeWeight(old[k]) <= NodeWeight(new[k])
      BY <3>5, <3>7, HeavierNode
    <3>9. /\ u[k] = NodeWeight(old[k]) /\ w[k] = NodeWeight(new[k])
          /\ NodeWeight(old[k]) \in Nat /\ NodeWeight(new[k]) \in Nat
      BY <2>2, <3>5, WeightOfNode
    <3> HIDE DEF u, w
    <3> QED BY <3>8, <3>9
  <2>4. PICK f : IsTotal(f, old) /\ TotalWeight(old) = f[M]
    BY TotalIs DEF HasTotal
  <2>5. PICK g : IsTotal(g, new) /\ TotalWeight(new) = g[M]
    BY <2>1, TotalIs DEF HasTotal
  <2>6. IsSum(f, u, M)
    BY <2>4 DEF IsTotal
  <2>7. IsSum(g, w, M)
    BY <2>1, <2>5 DEF IsTotal
  <2> HIDE DEF M, u, w
  <2>8. g[M] >= f[M]
    BY <2>1, <2>3, <2>6, <2>7, SumsOrdered
  <2> QED BY <2>4, <2>5, <2>8
<1>2. CASE ~ (d <= M)
  <2>1. TotalWeight(new) + 0 >= TotalWeight(old) + DifficultyWeight[new[1].block]
    BY <1>2, OneNodeLost
  <2>2. DifficultyWeight[new[1].block] \in Nat
    BY WeightOfNode
  <2>3. TotalWeight(new) \in Nat /\ TotalWeight(old) \in Nat
    BY TotalType
  <2> QED BY <2>1, <2>2, <2>3
<1> QED BY <1>1, <1>2

-----------------------------------------------------------------------------
(* What a new tip makes a cascade lose.                                    *)

\* The tip stays first, and no node is kept above its super level.
Fits(w, n) ==
  /\ w.kept[1] = [block |-> n.block, level |-> 0]
  /\ \A k \in 1 .. Len(w.kept) : SuperLevel[w.kept[k].block] >= w.kept[k].level

LEMMA EndFits ==
  ASSUME NEW ns \in Seq(Nodes), ns # <<>>
  PROVE  Fits(EndOf(ns), ns[1]) /\ Len(EndOf(ns).kept) >= 1
<1> DEFINE S == {l \in Seq(Nodes) : Fits(EndOf(l), l[1]) /\ Len(EndOf(l).kept) >= 1}
<1>1. ASSUME NEW l \in Seq(Nodes), Len(l) = 1 PROVE l \in S
  <2> DEFINE t == [block |-> l[1].block, level |-> 0]
  <2>1. l[1] \in Nodes
    BY <1>1, OneNode
  <2>2. EndOf(l).kept = <<t>>
    BY <1>1, <2>1, EndOfOne, KeepTipType
  <2>3. SuperLevel[t.block] >= t.level
    BY <2>1, SuperLevelAssumption DEF Nodes
  <2> HIDE DEF t
  <2>4. Len(EndOf(l).kept) = 1 /\ EndOf(l).kept[1] = t
    BY <2>2
  <2>5. \A k \in 1 .. 1 : k = 1
    OBVIOUS
  <2> QED BY <2>3, <2>4, <2>5 DEF Fits, t
<1>2. ASSUME NEW l \in Seq(Nodes), NEW e \in Nodes, l # <<>>, l \in S
      PROVE  Append(l, e) \in S
  <2> DEFINE w == EndOf(l)
             v == VisitNode(w, e)
             x == [block |-> e.block, level |-> w.level]
  <2>1. /\ Append(l, e) \in Seq(Nodes) /\ Append(l, e)[1] = l[1]
        /\ EndOf(Append(l, e)) = v /\ w \in Walks /\ Fits(w, l[1]) /\ Len(w.kept) >= 1
    BY <1>2, EndOfAppend, EndType
  <2> HIDE DEF w
  <2>2. CASE Keeps(w, e)
    <3>1. v.kept = Append(w.kept, x) /\ x.block = e.block /\ x.level = w.level
      BY <2>1, <2>2, VisitKeeps
    <3>2. w.kept \in Seq(Nodes) /\ x \in Nodes
      BY <2>1 DEF Walks, Nodes
    <3>3. SuperLevel[x.block] >= x.level
      BY <2>2, <3>1 DEF Keeps
    <3> HIDE DEF x, v
    <3>4. /\ Len(v.kept) = Len(w.kept) + 1 /\ v.kept[Len(v.kept)] = x
          /\ \A k \in 1 .. Len(w.kept) : v.kept[k] = w.kept[k]
      BY <3>1, <3>2
    <3>5. Len(w.kept) \in Nat /\ 1 \in 1 .. Len(w.kept)
      BY <2>1, <3>2
    <3>6. /\ \A k \in 1 .. Len(v.kept) : k = Len(v.kept) \/ k \in 1 .. Len(w.kept)
          /\ Len(v.kept) >= 1
      BY <3>4, <3>5
    <3>7. Fits(v, l[1])
      BY <2>1, <3>3, <3>4, <3>5, <3>6 DEF Fits
    <3>8. v = EndOf(Append(l, e)) /\ Append(l, e) \in Seq(Nodes)
      BY <2>1
    <3> QED BY <2>1, <3>6, <3>7, <3>8, Zenon
  <2>3. CASE ~ Keeps(w, e)
    BY <2>1, <2>3, VisitDrops
  <2> QED BY <2>2, <2>3
<1>3. \A l \in Seq(Nodes) : l # <<>> => l \in S
  <2> HIDE DEF S
  <2> QED BY <1>1, <1>2, ListInduction
<1> QED BY <1>3

\* A list as a walk leaves it: on the levels of a clock.
Settled(ns, p) ==
  /\ ns[1].level = 0
  /\ \A k \in 2 .. Len(ns) : ns[k].level = p[k - 2].level
  /\ \A k \in 1 .. Len(ns) : SuperLevel[ns[k].block] >= ns[k].level

LEMMA EndIsSettled ==
  ASSUME NEW N \in Nat, NEW p, IsClock(p, N), NEW ns \in Seq(Nodes), ns # <<>>, Len(ns) <= N + 1
  PROVE  Settled(EndOf(ns).kept, p)
<1>1. OnClock(EndOf(ns), p)
  BY EndOnClock DEF EndIsOnClock
<1>2. Fits(EndOf(ns), ns[1])
  BY EndFits
<1> QED BY <1>1, <1>2 DEF Settled, OnClock, Fits

\* Below a new tip every node is one place down and may be too low there.  The
\* first that is dropped brings those below it back to the places they had.
LosesOne(n, ns) ==
  \E d \in 1 .. Len(ns) + 1 : LostAt(d, ns, EndOf(<<n>> \o ns).kept)

LEMMA LosesOneMoreBelow ==
  ASSUME NEW N \in Nat, NEW p, IsClock(p, N), NEW n \in Nodes, NEW ns \in Seq(Nodes),
         ns # <<>>, NEW e \in Nodes, Len(ns) + 1 <= N, Settled(Append(ns, e), p), LosesOne(n, ns)
  PROVE  LosesOne(n, Append(ns, e))
<1> DEFINE l == Append(ns, e)
           M == Len(ns)
           w == EndOf(<<n>> \o ns)
           v == VisitNode(w, e)
           x == [block |-> e.block, level |-> w.level]
<1>1. /\ M \in Nat /\ M >= 1 /\ l \in Seq(Nodes) /\ Len(l) = M + 1 /\ l[M + 1] = e
      /\ \A k \in 1 .. M : l[k] = ns[k]
      /\ <<n>> \o ns \in Seq(Nodes) /\ <<n>> \o ns # <<>> /\ Len(<<n>> \o ns) = M + 1
      /\ <<n>> \o l = Append(<<n>> \o ns, e)
  OBVIOUS
<1>2. EndOf(<<n>> \o l) = v
  BY <1>1, EndOfAppend
<1>3. w \in Walks /\ OnClock(w, p) /\ Len(w.kept) \in 1 .. M + 1 /\ w.kept \in Seq(Nodes)
  <2>1. EndIsOnClock(<<n>> \o ns, p)
    <3> DEFINE q == <<n>> \o ns
    <3>1. q \in Seq(Nodes) /\ q # <<>> /\ Len(q) <= N + 1
      BY <1>1
    <3> HIDE DEF q
    <3>2. EndIsOnClock(q, p)
      BY <3>1, EndOnClock
    <3> QED BY <3>2 DEF q
  <2> QED BY <1>1, <2>1 DEF EndIsOnClock, Walks
<1>4. e.level = p[M - 1].level /\ SuperLevel[e.block] >= e.level
  <2>1. M + 1 \in 2 .. Len(l) /\ M + 1 \in 1 .. Len(l) /\ (M + 1) - 2 = M - 1
    BY <1>1
  <2> HIDE DEF l, M
  <2> QED BY <1>1, <2>1 DEF Settled, l
<1>5. PICK d \in 1 .. M + 1 : LostAt(d, ns, w.kept)
  BY DEF LosesOne
<1> HIDE DEF l, M, w
<1>6. /\ Len(w.kept) = IF d <= M THEN M ELSE M + 1
      /\ \A k \in 2 .. Len(w.kept) :
           w.kept[k].block = IF k <= d THEN ns[k - 1].block ELSE ns[k].block
  BY <1>5 DEF LostAt, M
<1>7. ASSUME NEW k \in 2 .. Len(w.kept)
      PROVE  w.kept[k].block = IF k <= d THEN l[k - 1].block ELSE l[k].block
  <2>1. k <= d => k - 1 \in 1 .. M
    BY <1>1, <1>5
  <2>2. ~ (k <= d) => k \in 1 .. M
    BY <1>1, <1>5, <1>6
  <2> QED BY <1>1, <1>6, <2>1, <2>2
<1>8. CASE Keeps(w, e)
  <2>1. v.kept = Append(w.kept, x) /\ x.block = e.block
    BY <1>3, <1>8, VisitKeeps
  <2>2. x \in Nodes
    BY <1>3 DEF Walks, Nodes
  <2> HIDE DEF x, v
  <2>3. /\ Len(v.kept) = Len(w.kept) + 1 /\ v.kept[Len(w.kept) + 1].block = e.block
        /\ \A k \in 1 .. Len(w.kept) : v.kept[k] = w.kept[k]
    BY <1>3, <2>1, <2>2
  <2> DEFINE c == IF d <= M THEN d ELSE M + 2
  <2>4. c \in 1 .. Len(l) + 1 /\ Len(v.kept) = IF c <= Len(l) THEN Len(l) ELSE Len(l) + 1
    BY <1>1, <1>5, <1>6, <2>3
  <2>5. ASSUME NEW k \in 2 .. Len(v.kept)
        PROVE  v.kept[k].block = IF k <= c THEN l[k - 1].block ELSE l[k].block
    <3>1. CASE k = Len(w.kept) + 1
      <4>1. d <= M => k = M + 1 /\ ~ (k <= c)
        BY <1>1, <1>5, <1>6, <3>1
      <4>2. ~ (d <= M) => k - 1 = M + 1 /\ k <= c
        BY <1>1, <1>5, <1>6, <3>1
      <4> QED BY <1>1, <2>3, <3>1, <4>1, <4>2
    <3>2. CASE k # Len(w.kept) + 1
      <4>1. k \in 2 .. Len(w.kept) /\ k \in 1 .. Len(w.kept)
        BY <1>3, <2>3, <3>2
      <4>2. k <= c <=> k <= d
        BY <1>1, <1>5, <1>6, <4>1
      <4> QED BY <1>7, <2>3, <4>1, <4>2
    <3> QED BY <3>1, <3>2
  <2> HIDE DEF c
  <2>6. LostAt(c, l, v.kept)
    BY <2>4, <2>5 DEF LostAt
  <2> QED BY <1>2, <2>4, <2>6 DEF LosesOne, l, v
<1>9. CASE ~ Keeps(w, e)
  <2>1. v = w
    BY <1>9, VisitDrops
  <2>2. d = M + 1
    <3>1. SUFFICES ASSUME d <= M PROVE FALSE
      BY <1>1, <1>5
    <3>2. Len(w.kept) = M /\ Clock(w) = p[M - 1]
      BY <1>3, <1>6, <3>1 DEF OnClock
    <3>3. w.level = e.level
      BY <1>4, <3>2 DEF Clock
    <3> QED BY <1>4, <1>9, <3>3 DEF Keeps
  <2>3. /\ d \in 1 .. Len(l) + 1
        /\ Len(w.kept) = IF d <= Len(l) THEN Len(l) ELSE Len(l) + 1
    BY <1>1, <1>6, <2>2
  <2>4. LostAt(d, l, w.kept)
    BY <1>7, <2>3 DEF LostAt
  <2> QED BY <1>2, <2>1, <2>3, <2>4 DEF LosesOne, l
<1> QED BY <1>8, <1>9

LEMMA OneIsLost ==
  ASSUME NEW N \in Nat, NEW p, IsClock(p, N), NEW n \in Nodes,
         NEW ns \in Seq(Nodes), ns # <<>>, Len(ns) <= N, Settled(ns, p)
  PROVE  LosesOne(n, ns)
<1> DEFINE S == {l \in Seq(Nodes) : l # <<>> /\ Len(l) <= N /\ Settled(l, p) => LosesOne(n, l)}
<1>1. ASSUME NEW l \in Seq(Nodes), Len(l) = 1 PROVE l \in S
  <2> DEFINE m == l[1]
             t == KeepTip(n)
             x == [block |-> m.block, level |-> t.level]
  <2>1. m \in Nodes /\ l = <<m>>
    BY <1>1, OneNode
  <2>2. t \in Walks /\ t.kept \in Seq(Nodes) /\ Len(t.kept) = 1 /\ t.level = 0
    <3>1. Clock(t) = [level |-> 0, tot |-> 1] /\ t.kept = << [block |-> n.block, level |-> 0] >>
      BY KeepTipType
    <3>2. Clock(t).level = t.level /\ [block |-> n.block, level |-> 0] \in Nodes
      BY LevelsFacts DEF Clock, Nodes
    <3>3. t.kept \in Seq(Nodes) /\ Len(t.kept) = 1
      BY <3>1, <3>2
    <3> QED BY <3>1, <3>2, <3>3, KeepTipType
  <2> HIDE DEF t
  <2>3. EndOf(<<n>> \o l) = VisitNode(t, m)
    <3>1. <<n>> \in Seq(Nodes) /\ Len(<<n>>) = 1 /\ <<n>>[1] = n /\ <<n>> # <<>>
      OBVIOUS
    <3>2. EndOf(<<n>>) = t
      BY <3>1, EndOfOne DEF t
    <3> HIDE DEF m
    <3>3. <<n>> \o l = Append(<<n>>, m)
      BY <2>1
    <3> QED BY <2>1, <3>1, <3>2, <3>3, EndOfAppend
  <2>4. Keeps(t, m)
    BY <2>1, <2>2, SuperLevelAssumption DEF Keeps, Nodes
  <2>5. VisitNode(t, m).kept = Append(t.kept, x) /\ x.block = m.block /\ x \in Nodes
    <3>1. x \in Nodes
      BY <2>1, <2>2, LevelsFacts DEF Nodes
    <3> QED BY <2>1, <2>2, <2>4, <3>1, VisitKeeps
  <2> DEFINE v == VisitNode(t, m)
  <2> HIDE DEF x
  <2>6. Len(v.kept) = 2 /\ v.kept[2].block = m.block
    <3> HIDE DEF m, v
    <3>1. v.kept = Append(t.kept, x)
      BY <2>5 DEF v
    <3>2. x \in Nodes /\ t.kept \in Seq(Nodes)
      BY <2>2, <2>5
    <3>3. Len(v.kept) = Len(t.kept) + 1 /\ v.kept[Len(t.kept) + 1] = x
      BY <3>1, <3>2
    <3> QED BY <2>2, <2>5, <3>3
  <2> HIDE DEF v
  <2>7. LostAt(2, l, v.kept)
    <3>1. \A k \in 2 .. Len(v.kept) : k = 2
      BY <2>6
    <3> QED BY <1>1, <2>6, <3>1 DEF LostAt
  <2>8. 2 \in 1 .. Len(l) + 1
    BY <1>1
  <2> QED BY <2>3, <2>7, <2>8 DEF LosesOne, v
<1>2. ASSUME NEW l \in Seq(Nodes), NEW e \in Nodes, l # <<>>, l \in S
      PROVE  Append(l, e) \in S
  <2> SUFFICES ASSUME Len(Append(l, e)) <= N, Settled(Append(l, e), p)
               PROVE  LosesOne(n, Append(l, e))
    OBVIOUS
  <2>1. /\ Append(l, e) \in Seq(Nodes) /\ Len(Append(l, e)) = Len(l) + 1 /\ Len(l) \in Nat
        /\ Len(l) >= 1 /\ \A k \in 1 .. Len(l) : Append(l, e)[k] = l[k]
    BY <1>2
  <2>2. Settled(l, p)
    <3>1. 1 \in 1 .. Len(l) /\ \A k \in 2 .. Len(l) : k \in 1 .. Len(l) /\ k \in 2 .. Len(l) + 1
      BY <2>1
    <3>2. \A k \in 1 .. Len(l) : k \in 1 .. Len(l) + 1
      BY <2>1
    <3> QED BY <2>1, <3>1, <3>2 DEF Settled
  <2>3. LosesOne(n, l) /\ Len(l) + 1 <= N
    BY <1>2, <2>1, <2>2
  <2> QED BY <1>2, <2>3, LosesOneMoreBelow
<1>3. \A l \in Seq(Nodes) : l # <<>> => l \in S
  <2> HIDE DEF S
  <2> QED BY <1>1, <1>2, ListInduction
<1> QED BY <1>3

\* Two lists on one clock.
LEMMA SettledOnOneClock ==
  ASSUME NEW N \in Nat, NEW p, IsClock(p, N), NEW old \in Seq(Nodes), NEW new \in Seq(Nodes),
         new # <<>>, Len(new) <= N, Settled(new, p), old = <<>> \/ Settled(old, p)
  PROVE  OnOneClock(old, new)
<1>1. /\ DOMAIN new = 1 .. Len(new) /\ DOMAIN old = 1 .. Len(old) /\ Len(new) \in Nat
      /\ Len(old) \in Nat /\ (old = <<>> => Len(old) = 0)
  OBVIOUS
<1>2. ASSUME NEW k \in DOMAIN old, k \in DOMAIN new PROVE old[k].level = new[k].level
  <2>1. Settled(old, p)
    BY <1>1, <1>2
  <2>2. k = 1 \/ (k \in 2 .. Len(old) /\ k \in 2 .. Len(new))
    BY <1>1, <1>2
  <2> QED BY <2>1, <2>2 DEF Settled
<1>3. ASSUME NEW i \in DOMAIN new, NEW j \in DOMAIN new, i <= j
      PROVE  new[i].level <= new[j].level
  <2>1. \A k \in DOMAIN new : new[k].level \in Nat
    <3>1. \A k \in DOMAIN new : new[k] \in Nodes
      OBVIOUS
    <3> QED BY <3>1, LevelsFacts DEF Nodes, Levels
  <2>2. CASE i = 1
    BY <1>3, <2>1, <2>2 DEF Settled
  <2>3. CASE i # 1
    <3>1. /\ i \in 2 .. Len(new) /\ j \in 2 .. Len(new)
          /\ i - 2 \in 0 .. N /\ j - 2 \in 0 .. N /\ i - 2 <= j - 2
      BY <1>1, <1>3, <2>3
    <3>2. p[i - 2].level <= p[j - 2].level
      BY <3>1, ClockRises
    <3> QED BY <3>1, <3>2 DEF Settled
  <2> QED BY <2>2, <2>3
<1> QED BY <1>2, <1>3 DEF OnOneClock, Settled

-----------------------------------------------------------------------------
\* The list of nodes addToTip makes of the blocks of a chain.
TipsOf(bs) == [i \in DOMAIN bs |-> [block |-> bs[i], level |-> 0]]

LEMMA TipsOfType ==
  ASSUME NEW bs \in Seq(Blocks)
  PROVE  TipsOf(bs) \in Seq(Nodes) /\ Len(TipsOf(bs)) = Len(bs)
<1> DEFINE n(i) == [block |-> bs[i], level |-> 0]
<1>1. DOMAIN bs = 1 .. Len(bs) /\ Len(bs) \in Nat /\ \A i \in 1 .. Len(bs) : bs[i] \in Blocks
  OBVIOUS
<1>2. \A i \in 1 .. Len(bs) : n(i) \in Nodes
  BY <1>1, LevelsFacts DEF Nodes
<1>3. TipsOf(bs) = [i \in 1 .. Len(bs) |-> n(i)]
  BY <1>1 DEF TipsOf
<1> HIDE DEF n
<1> QED BY <1>1, <1>2, <1>3

LEMMA TipsOfMore ==
  ASSUME NEW bs \in Seq(Blocks), NEW b \in Blocks
  PROVE  /\ TipsOf(bs) \in Seq(Nodes) /\ Len(TipsOf(bs)) = Len(bs)
         /\ TipsOf(<<b>> \o bs) = AddToTip(TipsOf(bs), b)
<1> DEFINE n == [block |-> b, level |-> 0]
           s == TipsOf(bs)
           t == TipsOf(<<b>> \o bs)
<1>1. n \in Nodes
  BY LevelsFacts DEF Nodes
<1>2. s \in Seq(Nodes) /\ Len(s) = Len(bs)
  BY TipsOfType
<1>3. <<b>> \o bs \in Seq(Blocks) /\ Len(<<b>> \o bs) = Len(bs) + 1
  OBVIOUS
<1>4. t \in Seq(Nodes) /\ Len(t) = Len(bs) + 1
  BY <1>3, TipsOfType
<1>5. ASSUME NEW i \in 1 .. Len(bs) + 1 PROVE t[i] = (<<n>> \o s)[i]
  <2>1. t[i] = [block |-> (<<b>> \o bs)[i], level |-> 0]
    BY <1>3 DEF TipsOf
  <2>2. CASE i = 1
    BY <1>1, <1>2, <2>1, <2>2
  <2>3. CASE i # 1
    <3>1. i - 1 \in 1 .. Len(bs) /\ (<<b>> \o bs)[i] = bs[i - 1]
      BY <2>3
    <3>2. s[i - 1] = [block |-> bs[i - 1], level |-> 0]
      BY <3>1 DEF TipsOf
    <3>3. (<<n>> \o s)[i] = s[i - 1]
      <4> HIDE DEF n, s
      <4> QED BY <1>1, <1>2, <2>3
    <3> QED BY <2>1, <3>1, <3>2, <3>3
  <2> QED BY <2>2, <2>3
<1>6. <<n>> \o s \in Seq(Nodes) /\ Len(<<n>> \o s) = Len(bs) + 1
  <2> HIDE DEF n, s
  <2> QED BY <1>1, <1>2
<1>7. t = <<n>> \o s
  <2> HIDE DEF n, s, t
  <2> QED BY <1>4, <1>5, <1>6
<1> QED BY <1>2, <1>7 DEF AddToTip

LEMMA RebuildIs ==
  ASSUME NEW bs \in Seq(Blocks)
  PROVE  /\ bs = <<>> => RebuildCascade(bs) = <<>>
         /\ bs # <<>> => TipsOf(bs) # <<>> /\ RebuildCascade(bs) = EndOf(TipsOf(bs)).kept
<1>1. RebuildCascade(bs) = CascadeChain(TipsOf(bs))
  BY DEF RebuildCascade, TipsOf
<1>2. TipsOf(bs) \in Seq(Nodes) /\ Len(TipsOf(bs)) = Len(bs)
  BY TipsOfType
<1>3. bs = <<>> <=> TipsOf(bs) = <<>>
  <2>1. bs = <<>> <=> Len(bs) = 0
    OBVIOUS
  <2>2. TipsOf(bs) = <<>> <=> Len(TipsOf(bs)) = 0
    BY <1>2
  <2> QED BY <1>2, <2>1, <2>2
<1> QED BY <1>1, <1>3 DEF CascadeChain, EndOf

\* One more block on a cascade that a rebuild over the blocks bs would make: it is
\* what a rebuild over all of them makes, and loses one node at most.
BoundedLoss(b, old, new) ==
  /\ NoEasier(AddToTip(old, b)) => TotalWeight(new) >= TotalWeight(old)
  /\ \E d \in 1 .. Len(old) + 1 :
       /\ LostAt(d, old, new)
       /\ TotalWeight(new) + (IF d <= Len(old) THEN NodeWeight(old[d]) ELSE 0)
            >= TotalWeight(old) + DifficultyWeight[b]

LEMMA LossOf ==
  ASSUME NEW b \in Blocks, NEW old \in Seq(Nodes), NEW new \in Seq(Nodes), OnOneClock(old, new),
         new[1].block = b, NEW d \in 1 .. Len(old) + 1, LostAt(d, old, new)
  PROVE  BoundedLoss(b, old, new)
<1> DEFINE n == [block |-> b, level |-> 0]
<1>1. n \in Nodes /\ n.block = b /\ AddToTip(old, b) = <<n>> \o old
  BY LevelsFacts DEF Nodes, AddToTip
<1> HIDE DEF n
<1>2. NoEasier(AddToTip(old, b)) => TotalWeight(new) >= TotalWeight(old)
  BY <1>1, NothingLost
<1>3. TotalWeight(new) + (IF d <= Len(old) THEN NodeWeight(old[d]) ELSE 0)
        >= TotalWeight(old) + DifficultyWeight[b]
  BY OneNodeLost
<1> QED BY <1>2, <1>3 DEF BoundedLoss

LEMMA OneMoreBlock ==
  ASSUME NEW bs \in Seq(Blocks), NEW b \in Blocks
  PROVE  LET old == RebuildCascade(bs)
             new == CascadeChain(AddToTip(old, b))
         IN  new = RebuildCascade(<<b>> \o bs) /\ BoundedLoss(b, old, new)
<1> DEFINE old  == RebuildCascade(bs)
           new  == CascadeChain(AddToTip(old, b))
           more == <<b>> \o bs
           n    == [block |-> b, level |-> 0]
           ns   == TipsOf(bs)
<1>1. /\ n \in Nodes /\ ns \in Seq(Nodes) /\ Len(ns) = Len(bs)
      /\ TipsOf(more) = <<n>> \o ns /\ more \in Seq(Blocks) /\ more # <<>>
  <2>1. n \in Nodes
    BY LevelsFacts DEF Nodes
  <2>2. more \in Seq(Blocks) /\ more # <<>>
    OBVIOUS
  <2> QED BY <2>1, <2>2, TipsOfMore DEF AddToTip
<1>2. RebuildCascade(more) = EndOf(<<n>> \o ns).kept
  BY <1>1, RebuildIs
<1>3. new = CascadeChain(<<n>> \o old)
  BY DEF AddToTip
<1> HIDE DEF n, ns, more, new, old
<1>4. CASE bs = <<>>
  <2>1. old = <<>> /\ ns = <<>>
    <3>1. Len(ns) = 0
      BY <1>1, <1>4
    <3>2. ns = <<>>
      BY <1>1, <3>1
    <3> QED BY <1>4, <3>2, RebuildIs DEF old
  <2>2. <<n>> \o ns = <<n>> /\ <<n>> \o old = <<n>> /\ <<n>> # <<>> /\ <<n>> \in Seq(Nodes)
    BY <1>1, <2>1
  <2>3. new = EndOf(<<n>>).kept
    BY <1>3, <2>2 DEF CascadeChain, EndOf
  <2>4. new = RebuildCascade(more)
    BY <1>2, <2>2, <2>3
  <2>5. new \in Seq(Nodes)
    BY <2>2, <2>3, EndType DEF Walks
  <2>6. BoundedLoss(b, <<>>, new)
    <3>1. PICK p : IsClock(p, 1)
      BY ClockExists DEF HasClock
    <3>2. Len(<<n>>) = 1 /\ <<n>>[1] = n /\ Len(<<n>>) <= 1 + 1 /\ 1 \in Nat
      OBVIOUS
    <3>3. Settled(new, p)
      BY <2>2, <2>3, <3>1, <3>2, EndIsSettled
    <3>4. new = << [block |-> n.block, level |-> 0] >>
      BY <1>1, <2>2, <2>3, <3>2, EndOfOne, KeepTipType
    <3>5. Len(new) = 1 /\ new # <<>> /\ new[1].block = b
      BY <3>4 DEF n
    <3>6. <<>> \in Seq(Nodes) /\ Len(<<>>) = 0 /\ Len(new) <= 1 /\ 1 \in 1 .. 0 + 1 /\ ~ (1 <= 0)
      BY <3>5
    <3>7. OnOneClock(<<>>, new)
      BY <2>5, <3>1, <3>2, <3>3, <3>5, <3>6, SettledOnOneClock
    <3>8. LostAt(1, <<>>, new)
      <4>1. \A k \in 2 .. Len(new) : FALSE
        BY <3>5
      <4> QED BY <3>5, <3>6, <4>1 DEF LostAt
    <3> QED BY <2>5, <3>5, <3>6, <3>7, <3>8, LossOf
  <2> QED BY <2>1, <2>4, <2>6 DEF more, new, old
<1>5. CASE bs # <<>>
  <2>1. ns # <<>> /\ old = EndOf(ns).kept
    BY <1>1, <1>5, RebuildIs DEF ns, old
  <2>2. old \in Seq(Nodes)
    BY <1>1, <2>1, EndType DEF Walks
  <2>3. <<n>> \o old # <<>> /\ <<n>> \o ns \in Seq(Nodes) /\ <<n>> \o ns # <<>>
        /\ Len(<<n>> \o ns) = Len(ns) + 1
    BY <1>1, <2>2
  <2>4. Ahead(n, ns) /\ PrunedEarly(n, ns)
    BY <1>1, <2>1, PruningEarly
  <2>5. new = EndOf(<<n>> \o ns).kept
    BY <1>3, <2>1, <2>3, <2>4 DEF CascadeChain, EndOf, PrunedEarly
  <2>6. new = RebuildCascade(more)
    BY <1>2, <2>5
  <2>7. new \in Seq(Nodes) /\ Len(old) <= Len(new)
    <3>1. new \in Seq(Nodes)
      BY <2>3, <2>5, EndType DEF Walks
    <3> QED BY <2>1, <2>2, <2>4, <2>5, <3>1 DEF Ahead
  <2>8. OnOneClock(old, new) /\ LosesOne(n, old)
    <3> DEFINE N == Len(ns) + 1
    <3>1. /\ N \in Nat /\ Len(ns) <= N + 1 /\ Len(<<n>> \o ns) <= N + 1
          /\ Len(<<n>> \o ns) <= N /\ Len(ns) <= N
      BY <1>1, <2>3
    <3> HIDE DEF N
    <3>2. PICK p : IsClock(p, N)
      BY <3>1, ClockExists DEF HasClock
    <3>3. Settled(old, p) /\ Settled(new, p)
      BY <1>1, <2>1, <2>3, <2>5, <3>1, <3>2, EndIsSettled
    <3>4. /\ Len(old) \in 1 .. Len(ns) /\ Len(new) \in 1 .. Len(<<n>> \o ns)
      BY <1>1, <2>1, <2>3, <2>5, <3>1, <3>2, EndOnClock DEF EndIsOnClock
    <3>5. old # <<>> /\ new # <<>> /\ Len(old) <= N /\ Len(new) <= N
      BY <1>1, <2>2, <2>7, <3>1, <3>4
    <3> QED BY <1>1, <2>2, <2>7, <3>2, <3>1, <3>3, <3>5, SettledOnOneClock, OneIsLost
  <2>9. new[1].block = b
    <3>1. new[1] = [block |-> (<<n>> \o ns)[1].block, level |-> 0]
      BY <2>3, <2>5, EndFits DEF Fits
    <3>2. (<<n>> \o ns)[1] = n
      BY <1>1
    <3> QED BY <3>1, <3>2 DEF n
  <2>10. BoundedLoss(b, old, new)
    <3>1. new = EndOf(<<n>> \o old).kept
      BY <2>1, <2>4, <2>5 DEF PrunedEarly
    <3>2. PICK d \in 1 .. Len(old) + 1 : LostAt(d, old, new)
      BY <2>8, <3>1 DEF LosesOne
    <3> QED BY <2>2, <2>7, <2>8, <2>9, <3>2, LossOf
  <2> QED BY <2>6, <2>10 DEF more, new, old
<1> QED BY <1>4, <1>5 DEF more, new, old

\* The inductive invariant.
CascadeInv == chain \in Seq(Blocks) /\ cascade = RebuildCascade(chain)

LEMMA AddBlockStep ==
  ASSUME CascadeInv, NEW b \in Blocks, AddBlock(b)
  PROVE  CascadeInv' /\ chain' = <<b>> \o chain /\ BoundedLoss(b, cascade, cascade')
<1>1. chain \in Seq(Blocks) /\ chain' = <<b>> \o chain /\ cascade = RebuildCascade(chain)
  BY DEF CascadeInv, AddBlock
<1>2. cascade' = CascadeChain(AddToTip(cascade, b))
  BY DEF AddBlock
<1>3. chain' \in Seq(Blocks)
  BY <1>1
<1> QED BY <1>1, <1>2, <1>3, OneMoreBlock DEF CascadeInv

LEMMA InvInit == CascadeInit => CascadeInv
<1> SUFFICES ASSUME CascadeInit PROVE CascadeInv
  OBVIOUS
<1>1. cascade = <<>> /\ chain = <<>> /\ chain \in Seq(Blocks)
  BY DEF CascadeInit
<1> QED BY <1>1, RebuildIs DEF CascadeInv

\* A cascade that was pruned after every block is the one a rebuild over the
\* whole chain makes at once, for chains of any length.
THEOREM CascadeIsRebuilt == CascadeSpec => []PruningOrderIsIrrelevant
<1>1. CascadeInit => CascadeInv
  BY InvInit
<1>2. CascadeInv /\ [CascadeNext]_cascadeVars => CascadeInv'
  <2> SUFFICES ASSUME CascadeInv, [CascadeNext]_cascadeVars PROVE CascadeInv'
    OBVIOUS
  <2>1. CASE CascadeNext
    BY <2>1, AddBlockStep DEF CascadeNext
  <2>2. CASE UNCHANGED cascadeVars
    BY <2>2 DEF CascadeInv, cascadeVars
  <2> QED BY <2>1, <2>2
<1>3. CascadeInv => PruningOrderIsIrrelevant
  BY DEF CascadeInv, PruningOrderIsIrrelevant
<1> QED BY <1>1, <1>2, <1>3, PTL DEF CascadeSpec

AddsOne == \E b \in Blocks : chain' = <<b>> \o chain /\ BoundedLoss(b, cascade, cascade')

\* A block costs a chain of any length one node of the cascade at most, and no
\* weight at all while difficulty does not fall.
THEOREM OneNodeAtMost == CascadeSpec => WeightLostIsBounded
<1>1. CascadeInit => CascadeInv
  BY InvInit
<1>2. CascadeInv /\ [CascadeNext]_cascadeVars => CascadeInv' /\ [AddsOne]_cascadeVars
  <2> SUFFICES ASSUME CascadeInv, [CascadeNext]_cascadeVars
               PROVE  CascadeInv' /\ [AddsOne]_cascadeVars
    OBVIOUS
  <2>1. CASE CascadeNext
    BY <2>1, AddBlockStep DEF CascadeNext, AddsOne
  <2>2. CASE UNCHANGED cascadeVars
    BY <2>2 DEF CascadeInv, cascadeVars
  <2> QED BY <2>1, <2>2
<1>3. CascadeSpec => [][AddsOne]_cascadeVars
  BY <1>1, <1>2, PTL DEF CascadeSpec
<1>4. AddsOne <=> WeightStep
  BY Zenon DEF AddsOne, BoundedLoss, WeightStep
<1> QED BY <1>3, <1>4, PTL DEF WeightLostIsBounded

-----------------------------------------------------------------------------
(* The rows of the MMR. *)

\* The entries halve from row to row.
LEMMA AscentIs ==
  ASSUME NEW n \in Nat
  PROVE  /\ Ascent(n) \in [Nat -> Nat] /\ Ascent(n)[0] = n
         /\ \A r \in Nat : Ascent(n)[r + 1] = Ascent(n)[r] \div 2
<1> DEFINE Body(f) == [row \in Nat |-> IF row = 0 THEN n ELSE f[row - 1] \div 2]
           g == CHOOSE f : f = Body(f)
           Half == [k \in Nat \ {0} |-> [e \in Nat |-> e \div 2]]
<1>1. Ascent(n) = g
  BY DEF Ascent
<1>2. Half \in [Nat \ {0} -> [Nat -> Nat]]
  OBVIOUS
<1>3. PICK f \in [Nat -> Nat] : f[0] = n /\ \A k \in Nat : f[k + 1] = Half[k + 1][f[k]]
  <2> HIDE DEF Half
  <2>1. Endless(Nat, n, Half)
    BY <1>2, EndlessExists
  <2> QED BY <2>1 DEF Endless
<1>4. \A k \in Nat : f[k + 1] = f[k] \div 2
  <2>1. \A k \in Nat : k + 1 \in Nat \ {0} /\ f[k] \in Nat
    BY <1>3
  <2> QED BY <1>3, <2>1
<1>5. f = Body(f)
  <2>1. ASSUME NEW k \in Nat PROVE f[k] = Body(f)[k]
    <3>1. CASE k = 0
      BY <1>3, <3>1
    <3>2. CASE k # 0
      <4>1. k - 1 \in Nat /\ (k - 1) + 1 = k
        BY <3>2
      <4> QED BY <1>4, <3>2, <4>1
    <3> QED BY <3>1, <3>2
  <2> QED BY <1>3, <2>1
<1>6. g = Body(g)
  BY <1>5
<1> HIDE DEF g
<1>7. g[0] = n /\ DOMAIN g = Nat /\ \A k \in Nat : g[k + 1] = g[k] \div 2
  <2>1. \A k \in Nat : k + 1 # 0 /\ (k + 1) - 1 = k /\ k + 1 \in Nat
    OBVIOUS
  <2> QED BY <1>6, <2>1
<1> DEFINE S == {k \in Nat : g[k] \in Nat}
<1>8. S = Nat
  <2>1. 0 \in S /\ S \in SUBSET Nat
    BY <1>7
  <2>2. \A k \in S : k + 1 \in S
    BY <1>7
  <2> HIDE DEF S
  <2> QED BY <2>1, <2>2, SetInduction
<1>9. g \in [Nat -> Nat]
  <2>1. \A k \in Nat : g[k] \in Nat
    BY <1>8
  <2>2. g = [k \in Nat |-> g[k]]
    BY <1>6, <1>7
  <2> QED BY <2>1, <2>2
<1> QED BY <1>1, <1>7, <1>9

\* In the end there is nothing left of them.
LEMMA AscentEnds ==
  ASSUME NEW n \in Nat
  PROVE  \A r \in Nat : r >= n => Ascent(n)[r] = 0
<1> DEFINE a == Ascent(n)
           S == {r \in Nat : a[r] <= n - r \/ a[r] = 0}
<1>1. a \in [Nat -> Nat] /\ a[0] = n /\ \A r \in Nat : a[r + 1] = a[r] \div 2
  BY AscentIs
<1> HIDE DEF a
<1>2. 0 \in S
  BY <1>1
<1>3. ASSUME NEW r \in S PROVE r + 1 \in S
  <2>1. a[r] \in Nat /\ a[r + 1] = a[r] \div 2
    BY <1>1
  <2> QED BY <2>1
<1>4. S = Nat
  <2> HIDE DEF S
  <2>1. S \in SUBSET Nat
    BY DEF S
  <2> QED BY <1>2, <1>3, <2>1, SetInduction
<1>5. \A r \in Nat : a[r] \in Nat /\ (a[r] <= n - r \/ a[r] = 0)
  BY <1>1, <1>4
<1>6. \A r \in Nat : r >= n => a[r] = 0
  BY <1>5
<1> QED BY <1>6 DEF a

\* A new leaf adds a node to each row up to the first where it has no sibling.
LEMMA RowsGrow ==
  ASSUME NEW n \in Nat, NEW t \in Nat, Ascent(n)[t] % 2 = 0,
         \A r \in 0 .. t - 1 : Ascent(n)[r] % 2 = 1
  PROVE  \A r \in Nat : Ascent(n + 1)[r] = IF r <= t THEN Ascent(n)[r] + 1 ELSE Ascent(n)[r]
<1> DEFINE a == Ascent(n)
           b == Ascent(n + 1)
           S == {r \in Nat : b[r] = IF r <= t THEN a[r] + 1 ELSE a[r]}
<1>1. a \in [Nat -> Nat] /\ a[0] = n /\ \A r \in Nat : a[r + 1] = a[r] \div 2
  BY AscentIs
<1>2. b \in [Nat -> Nat] /\ b[0] = n + 1 /\ \A r \in Nat : b[r + 1] = b[r] \div 2
  <2>1. n + 1 \in Nat
    OBVIOUS
  <2> QED BY <2>1, AscentIs
<1>3. a[t] % 2 = 0 /\ \A r \in 0 .. t - 1 : a[r] % 2 = 1
  OBVIOUS
<1> HIDE DEF a, b
<1>4. 0 \in S
  BY <1>1, <1>2
<1>5. ASSUME NEW r \in S PROVE r + 1 \in S
  <2>1. r \in Nat /\ a[r] \in Nat /\ a[r + 1] = a[r] \div 2 /\ b[r + 1] = b[r] \div 2
    BY <1>1, <1>2
  <2>2. b[r] = IF r <= t THEN a[r] + 1 ELSE a[r]
    BY <1>5
  <2>3. CASE r < t
    <3>1. a[r] % 2 = 1
      BY <1>3, <2>1, <2>3
    <3> QED BY <2>1, <2>2, <2>3, <3>1
  <2>4. CASE r = t
    BY <1>3, <2>1, <2>2, <2>4
  <2>5. CASE r > t
    BY <2>1, <2>2, <2>5
  <2> QED BY <2>1, <2>3, <2>4, <2>5
<1>6. S = Nat
  <2>1. S \in SUBSET Nat
    OBVIOUS
  <2> HIDE DEF S
  <2> QED BY <1>4, <1>5, <2>1, SetInduction
<1> QED BY <1>6 DEF a, b

\* The sibling of the node above an entry, and how far the siblings go.
Beside(entry, row) == <<row, Sibling(Ascent(entry)[row])>>
Ends(nodes, entry, h) ==
  Beside(entry, h) \notin DOMAIN nodes /\ \A r \in 0 .. h - 1 : Beside(entry, r) \in DOMAIN nodes

LEMMA ClimbIs ==
  ASSUME NEW nodes, DOMAIN nodes \subseteq Nat \X Nat, NEW entry \in Nat,
         NEW q \in Nat, Beside(entry, q) \notin DOMAIN nodes
  PROVE  \E h \in Nat : /\ Ends(nodes, entry, h)
                        /\ Climb(nodes, entry) = [i \in 1 .. h |-> Beside(entry, i - 1)]
<1> DEFINE R == {0} \cup {n[1] + 1 : n \in DOMAIN nodes}
           S == {r \in Nat : Beside(entry, r) \notin DOMAIN nodes}
           h == CHOOSE row \in R : Ends(nodes, entry, row)
<1>1. \A n \in DOMAIN nodes : n[1] \in Nat
  OBVIOUS
<1>2. PICK m \in S : \A k \in 0 .. m - 1 : k \notin S
  <2>1. S \in SUBSET Nat /\ S # {}
    OBVIOUS
  <2> HIDE DEF S
  <2> QED BY <2>1, LeastOf
<1>3. m \in Nat /\ Ends(nodes, entry, m)
  BY <1>2 DEF Ends
<1>4. m \in R
  <2>1. CASE m = 0
    BY <2>1
  <2>2. CASE m # 0
    <3>1. m - 1 \in 0 .. m - 1
      BY <1>3, <2>2
    <3>2. Beside(entry, m - 1) \in DOMAIN nodes
      BY <1>3, <3>1 DEF Ends
    <3>3. Beside(entry, m - 1)[1] + 1 = m
      BY <1>3 DEF Beside
    <3> QED BY <3>2, <3>3
  <2> QED BY <2>1, <2>2
<1>5. R \subseteq Nat
  BY <1>1
<1> HIDE DEF R
<1>6. h \in R /\ Ends(nodes, entry, h)
  BY <1>3, <1>4
<1>7. Climb(nodes, entry) = [i \in 1 .. h |-> Beside(entry, i - 1)]
  BY Zenon DEF Climb, Beside, Ends, R
<1> HIDE DEF h
<1> QED BY <1>5, <1>6, <1>7

(* Byte strings. *)

Symbols == Coins \cup {-1, -2}
Strings == Seq(Symbols)

LEMMA HashType == ASSUME NEW s \in Strings PROVE Hash(s) \in Strings
BY DEF Hash, Strings, Symbols

LEMMA CombineType == ASSUME NEW s \in Strings, NEW t \in Strings PROVE Combine(s, t) \in Strings
<1>1. s \o t \in Strings
  BY DEF Strings
<1> QED BY <1>1, HashType DEF Combine

LEMMA LeafType == ASSUME NEW c \in Coins PROVE CoinToMMRData(c) \in Strings
<1>1. <<c>> \in Strings
  BY DEF Strings, Symbols
<1> QED BY <1>1, HashType DEF CoinToMMRData

\* What propagate computes, row by row.
Join(entry, row, own, other) ==
  IF Ascent(entry)[row] % 2 = 0 THEN Combine(own, other) ELSE Combine(other, own)

LEMMA JoinedIs ==
  ASSUME NEW entry \in Nat, NEW leaf \in Strings, NEW siblings \in Seq(Strings)
  PROVE  LET f == Joined(entry, leaf, siblings)
         IN  /\ f \in [0 .. Len(siblings) -> Strings] /\ f[0] = leaf
             /\ \A r \in 1 .. Len(siblings) : f[r] = Join(entry, r - 1, f[r - 1], siblings[r])
<1> DEFINE N == Len(siblings)
           Body(f) == [row \in 0 .. N |->
                         IF row = 0 THEN leaf ELSE Join(entry, row - 1, f[row - 1], siblings[row])]
           g == CHOOSE f : f = Body(f)
           Steps == [k \in 1 .. N |-> [d \in Strings |-> Join(entry, k - 1, d, siblings[k])]]
<1>1. N \in Nat /\ \A k \in 1 .. N : siblings[k] \in Strings
  OBVIOUS
<1>2. \A k \in 1 .. N, d \in Strings : Join(entry, k - 1, d, siblings[k]) \in Strings
  BY <1>1, CombineType DEF Join
<1>3. Steps \in [1 .. N -> [Strings -> Strings]]
  BY <1>2
<1>4. Joined(entry, leaf, siblings) = g
  BY Zenon DEF Joined, Join
<1> HIDE DEF N
<1>5. PICK f : Recursive(f, N, Strings, leaf, Steps)
  <2> HIDE DEF Steps
  <2> QED BY <1>1, <1>3, RecursionExists DEF Recursion
<1>6. f \in [0 .. N -> Strings] /\ f[0] = leaf /\ \A k \in 1 .. N : f[k] = Steps[k][f[k - 1]]
  BY <1>5 DEF Recursive
<1>7. \A k \in 1 .. N : k \in 0 .. N /\ k - 1 \in 0 .. N
  BY <1>1
<1>8. \A k \in 1 .. N : f[k] = Join(entry, k - 1, f[k - 1], siblings[k])
  BY <1>6, <1>7
<1>9. f = Body(f)
  <2>1. ASSUME NEW k \in 0 .. N PROVE f[k] = Body(f)[k]
    <3>1. k = 0 \/ k \in 1 .. N
      BY <1>1
    <3>2. \A j \in 1 .. N : j # 0
      BY <1>1
    <3> QED BY <1>6, <1>8, <3>1, <3>2
  <2> QED BY <1>6, <2>1
<1>10. g = Body(g)
  BY <1>9
<1> HIDE DEF g
<1>11. g[0] = leaf /\ \A k \in 1 .. N : g[k] = Join(entry, k - 1, g[k - 1], siblings[k])
  <2>1. 0 \in 0 .. N /\ \A j \in 1 .. N : j # 0
    BY <1>1
  <2> QED BY <1>7, <1>10, <2>1
<1> DEFINE S == {k \in 0 .. N : g[k] \in Strings}
<1>12. 0 .. N \subseteq S
  <2>1. 0 \in S
    BY <1>1, <1>11
  <2>2. \A k \in 1 .. N : k - 1 \in S => k \in S
    BY <1>2, <1>7, <1>11
  <2> HIDE DEF S
  <2> QED BY <1>1, <2>1, <2>2, BoundedInduction
<1>13. g \in [0 .. N -> Strings]
  BY <1>10, <1>12
<1> QED BY <1>4, <1>11, <1>13 DEF N

(* The nodes above a list of leaves. *)

NodeMaps == UNION {[D -> Strings] : D \in SUBSET (Nat \X Nat)}
Has(n) == {x \in Nat \X Nat : x[2] < Ascent(n)[x[1]]}

IsNodes(nodes, leaves) ==
  /\ nodes \in NodeMaps /\ DOMAIN nodes = Has(Len(leaves))
  /\ \A e \in 0 .. Len(leaves) - 1 : nodes[<<0, e>>] = CoinToMMRData(leaves[e + 1])
  /\ \A r, e \in Nat : <<r + 1, e>> \in DOMAIN nodes =>
       nodes[<<r + 1, e>>] = Combine(nodes[<<r, 2 * e>>], nodes[<<r, 2 * e + 1>>])

LEMMA MapType ==
  ASSUME NEW nodes \in NodeMaps
  PROVE  /\ DOMAIN nodes \subseteq Nat \X Nat /\ nodes \in [DOMAIN nodes -> Strings]
         /\ \A x \in DOMAIN nodes : nodes[x] \in Strings
<1>1. PICK D \in SUBSET (Nat \X Nat) : nodes \in [D -> Strings]
  BY DEF NodeMaps
<1> QED BY <1>1

\* What a climb of h rows finds, and joins with the leaf.
Line(entry, h) == {<<r, Ascent(entry)[r]>> : r \in 0 .. h}
IsPath(nodes, entry, h, siblings) ==
  /\ siblings \in Seq(Strings) /\ Len(siblings) = h
  /\ \A i \in 1 .. h : siblings[i] = nodes[Beside(entry, i - 1)]

LEMMA PathIs ==
  ASSUME NEW nodes \in NodeMaps, NEW entry \in Nat,
         NEW q \in Nat, Beside(entry, q) \notin DOMAIN nodes
  PROVE  \E h \in Nat : /\ Ends(nodes, entry, h) /\ Len(Climb(nodes, entry)) = h
                        /\ IsPath(nodes, entry, h, DataOf(nodes, Climb(nodes, entry)))
<1>1. DOMAIN nodes \subseteq Nat \X Nat /\ \A x \in DOMAIN nodes : nodes[x] \in Strings
  BY MapType
<1>2. PICK h \in Nat : /\ Ends(nodes, entry, h)
                       /\ Climb(nodes, entry) = [i \in 1 .. h |-> Beside(entry, i - 1)]
  BY <1>1, ClimbIs
<1>3. DataOf(nodes, Climb(nodes, entry)) = [i \in 1 .. h |-> nodes[Beside(entry, i - 1)]]
  BY <1>2 DEF DataOf
<1>4. \A i \in 1 .. h : nodes[Beside(entry, i - 1)] \in Strings
  <2> SUFFICES ASSUME NEW i \in 1 .. h PROVE nodes[Beside(entry, i - 1)] \in Strings
    OBVIOUS
  <2>1. i - 1 \in 0 .. h - 1
    OBVIOUS
  <2> QED BY <1>1, <1>2, <2>1 DEF Ends
<1>5. /\ [i \in 1 .. h |-> nodes[Beside(entry, i - 1)]] \in Seq(Strings)
      /\ Len([i \in 1 .. h |-> nodes[Beside(entry, i - 1)]]) = h
      /\ Len([i \in 1 .. h |-> Beside(entry, i - 1)]) = h
  BY <1>4
<1> HIDE DEF Beside
<1> QED BY <1>2, <1>3, <1>5 DEF IsPath

IsPut(after, nodes, entry, h, new) ==
  /\ after \in NodeMaps /\ DOMAIN after = DOMAIN nodes \cup Line(entry, h)
  /\ \A r \in 0 .. h : after[<<r, Ascent(entry)[r]>>] = new[r]
  /\ \A x \in DOMAIN nodes \ Line(entry, h) : after[x] = nodes[x]

LEMMA PutLeafIs ==
  ASSUME NEW nodes \in NodeMaps, NEW entry \in Nat, NEW leaf \in Strings, NEW h \in Nat,
         Len(Climb(nodes, entry)) = h,
         IsPath(nodes, entry, h, DataOf(nodes, Climb(nodes, entry)))
  PROVE  IsPut(PutLeaf(nodes, entry, leaf), nodes, entry, h,
               Joined(entry, leaf, DataOf(nodes, Climb(nodes, entry))))
<1> DEFINE siblings == DataOf(nodes, Climb(nodes, entry))
           line == Line(entry, h)
           new == Joined(entry, leaf, siblings)
           P == PutLeaf(nodes, entry, leaf)
           value(n) == IF n \in line THEN new[n[1]] ELSE nodes[n]
           D == DOMAIN nodes \cup line
<1>1. P = [n \in D |-> value(n)]
  BY DEF PutLeaf, Line
<1>2. DOMAIN nodes \subseteq Nat \X Nat /\ \A x \in DOMAIN nodes : nodes[x] \in Strings
  BY MapType
<1>3. Ascent(entry) \in [Nat -> Nat]
  BY AscentIs
<1>4. new \in [0 .. h -> Strings]
  BY JoinedIs DEF IsPath
<1>5. line \subseteq Nat \X Nat /\ \A n \in line : n[1] \in 0 .. h
  <2>1. \A r \in 0 .. h : r \in Nat /\ Ascent(entry)[r] \in Nat
    BY <1>3
  <2> QED BY <2>1 DEF Line
<1>6. \A r \in 0 .. h : <<r, Ascent(entry)[r]>> \in line
  BY DEF Line
<1> HIDE DEF new, line, P
<1>7. \A n \in D : value(n) \in Strings
  BY <1>2, <1>4, <1>5
<1>8. D \in SUBSET (Nat \X Nat)
  BY <1>2, <1>5
<1>9. P \in [D -> Strings]
  BY <1>1, <1>7
<1>10. P \in NodeMaps
  BY <1>8, <1>9 DEF NodeMaps
<1>11. \A r \in 0 .. h : P[<<r, Ascent(entry)[r]>>] = new[r]
  BY <1>1, <1>6
<1>12. \A x \in DOMAIN nodes \ line : P[x] = nodes[x]
  BY <1>1
<1> QED BY <1>1, <1>10, <1>11, <1>12 DEF P, new, line, IsPut

\* A leaf after the last one.
LEMMA OneMoreLeaf ==
  ASSUME NEW leaves \in Seq(Coins), NEW nodes, IsNodes(nodes, leaves), NEW c \in Coins
  PROVE  IsNodes(PutLeaf(nodes, Len(leaves), CoinToMMRData(c)), Append(leaves, c))
<1> DEFINE n == Len(leaves)
           a == Ascent(n)
           b == Ascent(n + 1)
           leaf == CoinToMMRData(c)
           P == PutLeaf(nodes, n, leaf)
           siblings == DataOf(nodes, Climb(nodes, n))
           new == Joined(n, leaf, siblings)
<1>1. n \in Nat /\ n + 1 \in Nat /\ nodes \in NodeMaps /\ DOMAIN nodes = Has(n)
  BY DEF IsNodes
<1>2. a \in [Nat -> Nat] /\ a[0] = n /\ \A r \in Nat : a[r + 1] = a[r] \div 2
  BY <1>1, AscentIs
<1>18. \A r \in Nat : a[r] \in Nat
  <2> HIDE DEF a
  <2> QED BY <1>2
<1>19. \A r \in Nat : a[r + 1] = a[r] \div 2
  BY <1>2
<1>3. leaf \in Strings
  BY LeafType
<1>4. \A r \in Nat : Beside(n, r) \in DOMAIN nodes <=> a[r] % 2 = 1
  <2> SUFFICES ASSUME NEW r \in Nat PROVE Beside(n, r) \in DOMAIN nodes <=> a[r] % 2 = 1
    OBVIOUS
  <2> DEFINE k == a[r]
  <2>1. k \in Nat
    BY <1>2
  <2>2. Beside(n, r) \in DOMAIN nodes <=> Sibling(k) \in Nat /\ Sibling(k) < k
    BY <1>1 DEF Beside, Has
  <2> HIDE DEF k
  <2>3. Sibling(k) \in Nat /\ Sibling(k) < k <=> k % 2 = 1
    BY <2>1 DEF Sibling
  <2> QED BY <2>2, <2>3 DEF k
<1>5. Beside(n, n) \notin DOMAIN nodes
  <2>1. a[n] = 0
    BY <1>1, AscentEnds
  <2> QED BY <1>1, <1>4, <2>1
<1>6. PICK h \in Nat : Ends(nodes, n, h) /\ Len(Climb(nodes, n)) = h /\ IsPath(nodes, n, h, siblings)
  BY <1>1, <1>5, PathIs
<1>7. a[h] % 2 = 0 /\ \A r \in 0 .. h - 1 : a[r] % 2 = 1
  <2>1. \A r \in Nat : a[r] \in Nat
    BY <1>2
  <2>2. \A r \in 0 .. h - 1 : r \in Nat
    OBVIOUS
  <2>3. ~ (a[h] % 2 = 1)
    BY <1>4, <1>6 DEF Ends
  <2>4. \A r \in 0 .. h - 1 : a[r] % 2 = 1
    BY <1>4, <1>6, <2>2 DEF Ends
  <2>5. a[h] \in Nat
    BY <2>1
  <2> QED BY <2>3, <2>4, <2>5
<1>8. \A r \in Nat : b[r] = IF r <= h THEN a[r] + 1 ELSE a[r]
  BY <1>1, <1>7, RowsGrow
<1>9. /\ P \in NodeMaps /\ DOMAIN P = Has(n) \cup Line(n, h)
      /\ \A r \in 0 .. h : P[<<r, a[r]>>] = new[r]
      /\ \A x \in Has(n) \ Line(n, h) : P[x] = nodes[x]
  <2> HIDE DEF n, leaf, siblings
  <2>1. DOMAIN nodes = Has(n) /\ nodes \in NodeMaps /\ n \in Nat
    BY <1>1
  <2>2. /\ P \in NodeMaps /\ DOMAIN P = DOMAIN nodes \cup Line(n, h)
        /\ \A r \in 0 .. h : P[<<r, Ascent(n)[r]>>] = Joined(n, leaf, siblings)[r]
        /\ \A x \in DOMAIN nodes \ Line(n, h) : P[x] = nodes[x]
    <3>1. IsPath(nodes, n, h, DataOf(nodes, Climb(nodes, n))) /\ Len(Climb(nodes, n)) = h
      BY <1>6 DEF siblings
    <3>2. IsPut(PutLeaf(nodes, n, leaf), nodes, n, h,
                Joined(n, leaf, DataOf(nodes, Climb(nodes, n))))
      BY <1>3, <2>1, <3>1, PutLeafIs
    <3> QED BY <3>2 DEF IsPut, siblings
  <2> QED BY <2>1, <2>2
<1>10. new[0] = leaf /\ \A r \in 1 .. h : new[r] = Join(n, r - 1, new[r - 1], siblings[r])
  BY <1>1, <1>3, <1>6, JoinedIs DEF IsPath
<1>11. Has(n + 1) = Has(n) \cup Line(n, h)
  <2>1. \A x \in Nat \X Nat : x \in Has(n + 1) <=> x \in Has(n) \/ x \in Line(n, h)
    <3> SUFFICES ASSUME NEW r \in Nat, NEW e \in Nat
                 PROVE  <<r, e>> \in Has(n + 1) <=> <<r, e>> \in Has(n) \/ <<r, e>> \in Line(n, h)
      OBVIOUS
    <3>1. <<r, e>> \in Has(n + 1) <=> e < b[r]
      BY DEF Has
    <3>2. <<r, e>> \in Has(n) <=> e < a[r]
      BY DEF Has
    <3>3. <<r, e>> \in Line(n, h) <=> r <= h /\ e = a[r]
      BY DEF Line
    <3>4. a[r] \in Nat
      BY <1>18
    <3> QED BY <1>8, <3>1, <3>2, <3>3, <3>4
  <2>2. Has(n + 1) \subseteq Nat \X Nat /\ Has(n) \subseteq Nat \X Nat /\ Line(n, h) \subseteq Nat \X Nat
    <3>1. \A r \in 0 .. h : r \in Nat /\ a[r] \in Nat
      BY <1>18
    <3> QED BY <3>1 DEF Has, Line
  <2> QED BY <2>1, <2>2
<1>12. \A x \in Has(n) : x \notin Line(n, h)
  <2>1. \A r \in 0 .. h : r \in Nat /\ a[r] \in Nat
    BY <1>18
  <2> QED BY <2>1 DEF Has, Line
<1>13. \A r, e \in Nat : e < a[r] => P[<<r, e>>] = nodes[<<r, e>>]
  <2>1. \A r, e \in Nat : e < a[r] => <<r, e>> \in Has(n)
    BY DEF Has
  <2> QED BY <1>9, <1>12, <2>1
<1> HIDE DEF P, a, b, new, siblings, leaf, n
<1>14. Append(leaves, c) \in Seq(Coins) /\ Len(Append(leaves, c)) = n + 1
  BY DEF n
<1>15. ASSUME NEW e \in 0 .. n PROVE P[<<0, e>>] = CoinToMMRData(Append(leaves, c)[e + 1])
  <2>1. CASE e = n
    <3>1. Append(leaves, c)[e + 1] = c
      BY <2>1 DEF n
    <3>2. P[<<0, a[0]>>] = new[0]
      BY <1>6, <1>9
    <3> QED BY <1>2, <1>10, <2>1, <3>1, <3>2 DEF leaf
  <2>2. CASE e # n
    <3>1. e \in 0 .. n - 1 /\ e \in Nat /\ 0 \in Nat /\ e < a[0]
      BY <1>1, <1>2, <2>2
    <3>2. Append(leaves, c)[e + 1] = leaves[e + 1]
      BY <3>1 DEF n
    <3>3. P[<<0, e>>] = nodes[<<0, e>>]
      BY <1>13, <3>1
    <3>4. nodes[<<0, e>>] = CoinToMMRData(leaves[e + 1])
      BY <3>1 DEF IsNodes, n
    <3> QED BY <3>2, <3>3, <3>4
  <2> QED BY <2>1, <2>2
<1>16. ASSUME NEW r \in Nat, NEW e \in Nat, <<r + 1, e>> \in Has(n + 1)
       PROVE  P[<<r + 1, e>>] = Combine(P[<<r, 2 * e>>], P[<<r, 2 * e + 1>>])
  <2>1. a[r] \in Nat /\ a[r + 1] = a[r] \div 2 /\ r + 1 \in Nat
    <3>1. r + 1 \in Nat
      OBVIOUS
    <3> QED BY <1>18, <1>19, <3>1, Zenon
  <2>2. e < b[r + 1]
    BY <1>16, <2>1 DEF Has, b
  <2>3. CASE e < a[r + 1]
    <3>1. 2 * e \in Nat /\ 2 * e + 1 \in Nat /\ 2 * e < a[r] /\ 2 * e + 1 < a[r]
      BY <2>1, <2>3
    <3>2. /\ P[<<r + 1, e>>] = nodes[<<r + 1, e>>]
          /\ P[<<r, 2 * e>>] = nodes[<<r, 2 * e>>] /\ P[<<r, 2 * e + 1>>] = nodes[<<r, 2 * e + 1>>]
      BY <1>13, <2>1, <2>3, <3>1
    <3>3. <<r + 1, e>> \in DOMAIN nodes
      BY <1>1, <2>1, <2>3 DEF Has, a
    <3> QED BY <3>2, <3>3 DEF IsNodes
  <2>4. CASE ~ (e < a[r + 1])
    <3>1. r + 1 <= h /\ e = a[r + 1]
      BY <1>8, <2>1, <2>2, <2>4
    <3>2. r \in 0 .. h /\ r + 1 \in 1 .. h /\ r + 1 \in 0 .. h /\ r \in 0 .. h - 1 /\ (r + 1) - 1 = r
      BY <1>6, <3>1
    <3>3. a[r] % 2 = 1
      BY <1>7, <3>2
    <3>4. 2 * e + 1 = a[r] /\ 2 * e = a[r] - 1 /\ 2 * e \in Nat /\ 2 * e < a[r]
      <4> DEFINE k == a[r]
      <4>1. k \in Nat /\ e = k \div 2 /\ k % 2 = 1
        BY <2>1, <3>1, <3>3
      <4> HIDE DEF k
      <4>2. 2 * e + 1 = k /\ 2 * e = k - 1 /\ 2 * e \in Nat /\ 2 * e < k
        BY <4>1
      <4> QED BY <4>2 DEF k
    <3>5. new[r + 1] = Combine(siblings[r + 1], new[r])
      BY <1>10, <3>2, <3>3 DEF Join, a
    <3>6. siblings[r + 1] = nodes[<<r, 2 * e>>]
      <4>1. siblings[r + 1] = nodes[Beside(n, r)]
        BY <1>6, <3>2 DEF IsPath
      <4>2. Beside(n, r) = <<r, a[r] - 1>>
        BY <3>3 DEF Beside, Sibling, a
      <4> QED BY <3>4, <4>1, <4>2
    <3>7. P[<<r + 1, e>>] = new[r + 1] /\ P[<<r, 2 * e + 1>>] = new[r]
      BY <1>9, <3>1, <3>2, <3>4
    <3>8. P[<<r, 2 * e>>] = nodes[<<r, 2 * e>>]
      BY <1>13, <3>4
    <3> QED BY <3>5, <3>6, <3>7, <3>8
  <2> QED BY <2>3, <2>4
<1>17. n + 1 - 1 = n
  BY <1>1
<1> QED BY <1>9, <1>11, <1>14, <1>15, <1>16, <1>17 DEF IsNodes, P, n, leaf

LEMMA NoLeaves == IsNodes(NoNodes, <<>>)
<1>1. NoNodes \in NodeMaps /\ DOMAIN NoNodes = {}
  <2>1. NoNodes \in [{} -> Strings]
    BY DEF NoNodes
  <2>2. {} \in SUBSET (Nat \X Nat)
    OBVIOUS
  <2>3. DOMAIN NoNodes = {}
    BY DEF NoNodes
  <2> QED BY <2>1, <2>2, <2>3 DEF NodeMaps
<1>2. Has(0) = {}
  <2>1. \A r \in Nat : Ascent(0)[r] = 0
    BY AscentEnds
  <2> QED BY <2>1 DEF Has
<1>3. Len(<<>>) = 0 /\ 0 .. 0 - 1 = {}
  OBVIOUS
<1> QED BY <1>1, <1>2, <1>3 DEF IsNodes

LEMMA LeafByLeaf ==
  ASSUME NEW leaves \in Seq(Coins), NEW f, f[0] = NoNodes,
         \A k \in 1 .. Len(leaves) : IsNodes(f[k - 1], SubSeq(leaves, 1, k - 1)) =>
           f[k] = PutLeaf(f[k - 1], k - 1, CoinToMMRData(leaves[k]))
  PROVE  \A k \in 0 .. Len(leaves) : IsNodes(f[k], SubSeq(leaves, 1, k))
<1> DEFINE N == Len(leaves)
           S == {k \in 0 .. N : IsNodes(f[k], SubSeq(leaves, 1, k))}
<1>1. 0 \in S
  <2>1. SubSeq(leaves, 1, 0) = <<>> /\ 0 \in 0 .. N
    OBVIOUS
  <2> QED BY <2>1, NoLeaves
<1>2. ASSUME NEW k \in 1 .. N, k - 1 \in S PROVE k \in S
  <2>1. /\ SubSeq(leaves, 1, k - 1) \in Seq(Coins) /\ Len(SubSeq(leaves, 1, k - 1)) = k - 1
        /\ leaves[k] \in Coins /\ k \in 0 .. N
        /\ SubSeq(leaves, 1, k) = Append(SubSeq(leaves, 1, k - 1), leaves[k])
    OBVIOUS
  <2>2. IsNodes(f[k - 1], SubSeq(leaves, 1, k - 1))
    BY <1>2
  <2>3. f[k] = PutLeaf(f[k - 1], k - 1, CoinToMMRData(leaves[k]))
    BY <2>2
  <2>4. IsNodes(PutLeaf(f[k - 1], k - 1, CoinToMMRData(leaves[k])),
                Append(SubSeq(leaves, 1, k - 1), leaves[k]))
    BY <2>1, <2>2, OneMoreLeaf
  <2> QED BY <2>1, <2>3, <2>4
<1>3. 0 .. N \subseteq S
  <2> HIDE DEF S
  <2>1. N \in Nat
    OBVIOUS
  <2> QED BY <1>1, <1>2, <2>1, BoundedInduction
<1> QED BY <1>3

\* The nodes of an MMR are those above its leaves.
LEMMA NodesOfIs == ASSUME NEW leaves \in Seq(Coins) PROVE IsNodes(NodesOf(leaves), leaves)
<1> DEFINE N == Len(leaves)
           Put(m, k) == PutLeaf(m, k - 1, CoinToMMRData(leaves[k]))
           Body(f) == [n \in 0 .. N |-> IF n = 0 THEN NoNodes ELSE Put(f[n - 1], n)]
           g == CHOOSE f : f = Body(f)
           Steps == [k \in 1 .. N |-> [m \in NodeMaps |-> IF Put(m, k) \in NodeMaps THEN Put(m, k) ELSE m]]
<1>1. NodesOf(leaves) = g[N]
  BY Zenon DEF NodesOf
<1>2. N \in Nat /\ N \in 0 .. N /\ SubSeq(leaves, 1, N) = leaves
  OBVIOUS
<1>3. \A k \in 1 .. N : k \in 0 .. N /\ k - 1 \in 0 .. N /\ k # 0
  OBVIOUS
<1>4. Steps \in [1 .. N -> [NodeMaps -> NodeMaps]]
  <2> HIDE DEF Put
  <2> QED OBVIOUS
<1>5. NoNodes \in NodeMaps
  BY NoLeaves DEF IsNodes
<1>6. PICK f : Recursive(f, N, NodeMaps, NoNodes, Steps)
  <2> HIDE DEF Steps, N
  <2> QED BY <1>2, <1>4, <1>5, RecursionExists DEF Recursion
<1>7. f \in [0 .. N -> NodeMaps] /\ f[0] = NoNodes /\ \A k \in 1 .. N : f[k] = Steps[k][f[k - 1]]
  BY <1>6 DEF Recursive
<1>8. ASSUME NEW k \in 1 .. N, IsNodes(f[k - 1], SubSeq(leaves, 1, k - 1))
      PROVE  f[k] = Put(f[k - 1], k)
  <2>1. /\ SubSeq(leaves, 1, k - 1) \in Seq(Coins) /\ Len(SubSeq(leaves, 1, k - 1)) = k - 1
        /\ leaves[k] \in Coins
    OBVIOUS
  <2>2. Put(f[k - 1], k) \in NodeMaps
    BY <1>8, <2>1, OneMoreLeaf DEF IsNodes
  <2>3. f[k - 1] \in NodeMaps
    BY <1>3, <1>7
  <2> HIDE DEF Put
  <2> QED BY <1>7, <2>2, <2>3
<1>9. \A k \in 0 .. N : IsNodes(f[k], SubSeq(leaves, 1, k))
  BY <1>7, <1>8, LeafByLeaf
<1> HIDE DEF N, Put
<1>10. f = Body(f)
  <2>1. ASSUME NEW k \in 0 .. N PROVE f[k] = Body(f)[k]
    <3>1. k = 0 \/ k \in 1 .. N
      BY <1>2
    <3>2. CASE k \in 1 .. N
      BY <1>3, <1>8, <1>9, <3>2
    <3> QED BY <1>7, <3>1, <3>2
  <2> QED BY <1>7, <2>1
<1>11. g = Body(g)
  BY <1>10
<1> HIDE DEF g
<1>12. g[0] = NoNodes /\ \A k \in 1 .. N : g[k] = Put(g[k - 1], k)
  BY <1>2, <1>3, <1>11
<1>13. \A k \in 0 .. N : IsNodes(g[k], SubSeq(leaves, 1, k))
  BY <1>12, LeafByLeaf DEF N, Put
<1> QED BY <1>1, <1>2, <1>13

(* The peaks. *)

PeakSet(nodes) == {n \in DOMAIN nodes : Parent(n) \notin DOMAIN nodes}

\* The last node of each row that has an odd number of nodes.
LEMMA PeaksAre ==
  ASSUME NEW nodes, NEW n \in Nat, DOMAIN nodes = Has(n)
  PROVE  /\ PeakSet(nodes) \subseteq Nat \X Nat
         /\ \A r, e \in Nat : <<r, e>> \in PeakSet(nodes) <=>
              Ascent(n)[r] % 2 = 1 /\ e = Ascent(n)[r] - 1
<1>1. PeakSet(nodes) \subseteq Nat \X Nat
  BY DEF PeakSet, Has
<1>2. ASSUME NEW r \in Nat, NEW e \in Nat
      PROVE  <<r, e>> \in PeakSet(nodes) <=> Ascent(n)[r] % 2 = 1 /\ e = Ascent(n)[r] - 1
  <2> DEFINE k == Ascent(n)[r]
  <2>1. k \in Nat /\ Ascent(n)[r + 1] = k \div 2
    BY AscentIs
  <2>2. r + 1 \in Nat /\ e \div 2 \in Nat
    OBVIOUS
  <2>3. <<r, e>> \in DOMAIN nodes <=> e < k
    BY DEF Has
  <2>4. Parent(<<r, e>>) \in DOMAIN nodes <=> e \div 2 < Ascent(n)[r + 1]
    BY <2>2 DEF Has, Parent
  <2> HIDE DEF k
  <2>5. e < k /\ ~ (e \div 2 < k \div 2) <=> k % 2 = 1 /\ e = k - 1
    BY <2>1
  <2> QED BY <2>1, <2>3, <2>4, <2>5 DEF PeakSet, k
<1> QED BY <1>1, <1>2

Falls(s) == \A i, j \in 1 .. Len(s) : i < j => s[i][1] > s[j][1]
ArePeaks(s, nodes) ==
  /\ s \in Seq(PeakSet(nodes)) /\ Falls(s)
  /\ \A x \in PeakSet(nodes) : \E i \in 1 .. Len(s) : s[i] = x

LEMMA PeaksExist ==
  ASSUME NEW nodes, NEW n \in Nat, DOMAIN nodes = Has(n)
  PROVE  \E s : ArePeaks(s, nodes)
<1> DEFINE P == PeakSet(nodes)
           a == Ascent(n)
           Until(s, r) == /\ s \in Seq(P) /\ Falls(s)
                          /\ \A x \in P : x[1] >= r <=> \E i \in 1 .. Len(s) : s[i] = x
           S == {k \in 0 .. n : \E s : Until(s, n - k)}
<1>1. P \subseteq Nat \X Nat /\ \A r, e \in Nat : <<r, e>> \in P <=> a[r] % 2 = 1 /\ e = a[r] - 1
  BY PeaksAre
<1>2. \A r \in Nat : a[r] \in Nat /\ (r >= n => a[r] = 0)
  BY AscentIs, AscentEnds
<1> HIDE DEF P, a
<1>3. 0 \in S
  <2>1. \A x \in P : ~ (x[1] >= n)
    BY <1>1, <1>2
  <2>2. <<>> \in Seq(P) /\ Len(<<>>) = 0 /\ 1 .. 0 = {} /\ n - 0 = n /\ 0 \in 0 .. n
    OBVIOUS
  <2>3. Until(<<>>, n)
    BY <2>1, <2>2 DEF Falls
  <2> HIDE DEF Until
  <2> QED BY <2>2, <2>3
<1>4. ASSUME NEW k \in 1 .. n, k - 1 \in S PROVE k \in S
  <2> DEFINE r == n - k
  <2>1. r \in Nat /\ n - (k - 1) = r + 1 /\ k \in 0 .. n
    OBVIOUS
  <2> HIDE DEF r
  <2>2. PICK s : Until(s, r + 1)
    <3> HIDE DEF Until
    <3> QED BY <1>4, <2>1
  <2>3. \A i \in 1 .. Len(s) : s[i] \in P /\ s[i][1] >= r + 1
    <3>1. \A i \in 1 .. Len(s) : s[i] \in P
      BY <2>2
    <3> QED BY <2>2, <3>1
  <2>4. \A x \in P : x[1] \in Nat /\ x[2] \in Nat /\ x = <<x[1], x[2]>>
    BY <1>1
  <2>5. CASE a[r] % 2 = 1
    <3> DEFINE p == <<r, a[r] - 1>>
               t == Append(s, p)
    <3>1. a[r] \in Nat /\ a[r] - 1 \in Nat
      BY <1>2, <2>1, <2>5
    <3>2. p \in P
      BY <1>1, <2>1, <2>5, <3>1
    <3>3. \A x \in P : x[1] = r => x = p
      BY <1>1, <2>4
    <3>4. /\ t \in Seq(P) /\ Len(t) = Len(s) + 1 /\ t[Len(t)] = p /\ Len(s) \in Nat
          /\ \A i \in 1 .. Len(s) : t[i] = s[i]
      BY <2>2, <3>2
    <3>5. Falls(t)
      <4> SUFFICES ASSUME NEW i \in 1 .. Len(t), NEW j \in 1 .. Len(t), i < j
                   PROVE  t[i][1] > t[j][1]
        BY DEF Falls
      <4>1. i \in 1 .. Len(s) /\ t[i] = s[i] /\ s[i] \in P
        BY <2>3, <3>4
      <4>2. CASE j = Len(t)
        <5>1. s[i][1] >= r + 1 /\ s[i][1] \in Nat /\ t[j][1] = r
          BY <2>3, <2>4, <3>4, <4>1, <4>2
        <5> QED BY <2>1, <4>1, <5>1
      <4>3. CASE j # Len(t)
        <5>1. j \in 1 .. Len(s) /\ t[j] = s[j]
          BY <3>4, <4>3
        <5> QED BY <2>2, <4>1, <5>1 DEF Falls
      <4> QED BY <4>2, <4>3
    <3>6. ASSUME NEW x \in P PROVE x[1] >= r <=> \E i \in 1 .. Len(t) : t[i] = x
      <4>1. x[1] >= r <=> x[1] >= r + 1 \/ x = p
        BY <2>1, <2>4, <3>3
      <4>2. x[1] >= r + 1 <=> \E i \in 1 .. Len(s) : s[i] = x
        BY <2>2
      <4>3. (\E i \in 1 .. Len(t) : t[i] = x) <=> (\E i \in 1 .. Len(s) : s[i] = x) \/ x = p
        <5> HIDE DEF t, p
        <5>1. \A i \in 1 .. Len(t) : i \in 1 .. Len(s) \/ i = Len(t)
          BY <3>4
        <5>2. Len(t) \in 1 .. Len(t) /\ \A i \in 1 .. Len(s) : i \in 1 .. Len(t)
          BY <3>4
        <5> QED BY <3>4, <5>1, <5>2
      <4> QED BY <4>1, <4>2, <4>3
    <3>7. Until(t, r)
      BY <3>4, <3>5, <3>6
    <3> HIDE DEF Until, t
    <3> QED BY <2>1, <3>7 DEF r
  <2>6. CASE ~ (a[r] % 2 = 1)
    <3>1. \A x \in P : x[1] # r
      BY <1>1, <2>4, <2>6
    <3>2. \A x \in P : x[1] >= r <=> x[1] >= r + 1
      BY <2>1, <2>4, <3>1
    <3>3. Until(s, r)
      BY <2>2, <3>2
    <3> HIDE DEF Until
    <3> QED BY <2>1, <3>3 DEF r
  <2> QED BY <2>5, <2>6
<1>5. n \in S
  <2> HIDE DEF S
  <2>1. 0 .. n \subseteq S /\ n \in 0 .. n
    BY <1>3, <1>4, BoundedInduction
  <2> QED BY <2>1
<1>6. PICK s : Until(s, 0)
  <2>1. n - n = 0
    OBVIOUS
  <2> HIDE DEF Until
  <2> QED BY <1>5, <2>1
<1>7. \A x \in P : x[1] >= 0
  BY <1>1
<1> QED BY <1>6, <1>7 DEF ArePeaks, P

LEMMA PeaksIs ==
  ASSUME NEW nodes, NEW n \in Nat, DOMAIN nodes = Has(n)
  PROVE  ArePeaks(Peaks(nodes), nodes)
<1> DEFINE P == PeakSet(nodes)
           B == Bijection(1 .. Cardinality(P), P)
           Sorted(s) == \A i, j \in DOMAIN s : i < j => Precedes(s[i], s[j])
           p == CHOOSE s \in B : Sorted(s)
<1>1. Peaks(nodes) = p
  BY Zenon DEF Peaks, PeakSet
<1>2. P \subseteq Nat \X Nat /\ \A x, y \in P : x[1] = y[1] => x = y
  <2>1. /\ P \subseteq Nat \X Nat
        /\ \A r, e \in Nat : <<r, e>> \in P <=> Ascent(n)[r] % 2 = 1 /\ e = Ascent(n)[r] - 1
    BY PeaksAre
  <2> HIDE DEF P
  <2> QED BY <2>1
<1> HIDE DEF P
<1>3. PICK s : ArePeaks(s, nodes)
  BY PeaksExist
<1>4. /\ s \in Seq(P) /\ Falls(s) /\ \A x \in P : \E i \in 1 .. Len(s) : s[i] = x
  BY <1>3 DEF ArePeaks, P
<1>5. s \in [1 .. Len(s) -> P] /\ Len(s) \in Nat
  BY <1>4
<1>6. \A i, j \in 1 .. Len(s) : s[i] = s[j] => i = j
  <2>1. \A i, j \in 1 .. Len(s) : i < j => s[i] # s[j]
    <3> SUFFICES ASSUME NEW i \in 1 .. Len(s), NEW j \in 1 .. Len(s), i < j, s[i] = s[j]
                 PROVE  FALSE
      OBVIOUS
    <3>1. s[i] \in P /\ s[i][1] > s[j][1]
      BY <1>4, <1>5 DEF Falls
    <3>2. s[i][1] \in Nat /\ s[i][1] > s[i][1]
      BY <1>2, <3>1
    <3> QED BY <3>2
  <2> QED BY <1>5, <2>1
<1>7. s \in Bijection(1 .. Len(s), P)
  BY <1>4, <1>5, <1>6 DEF Bijection, Injection, Surjection, IsInjective
<1>8. Cardinality(P) = Len(s)
  BY <1>5, <1>7, FS_CountingElements DEF ExistsBijection
<1>9. s \in B /\ Sorted(s)
  <2>1. Sorted(s)
    BY <1>4, <1>5 DEF Falls, Precedes
  <2> QED BY <1>7, <1>8, <2>1
<1>10. p \in B /\ Sorted(p)
  <2> HIDE DEF B, Sorted
  <2> QED BY <1>9
<1> HIDE DEF p
<1> DEFINE K == Cardinality(P)
<1>11. K \in Nat /\ p \in [1 .. K -> P] /\ \A x \in P : \E i \in 1 .. K : p[i] = x
  BY <1>5, <1>8, <1>10 DEF Bijection, Injection, Surjection
<1>12. \A i, j \in 1 .. K : p[i] = p[j] => i = j
  BY <1>10 DEF Bijection, Injection, IsInjective
<1> HIDE DEF K
<1>13. p \in Seq(P) /\ Len(p) = K
  BY <1>11
<1>14. Falls(p)
  <2> SUFFICES ASSUME NEW i \in 1 .. K, NEW j \in 1 .. K, i < j PROVE p[i][1] > p[j][1]
    BY <1>13 DEF Falls
  <2>1. p[i] \in P /\ p[j] \in P /\ p[i] # p[j]
    BY <1>11, <1>12
  <2>2. Precedes(p[i], p[j])
    BY <1>10, <1>11
  <2> QED BY <1>2, <2>1, <2>2 DEF Precedes
<1> QED BY <1>1, <1>11, <1>13, <1>14 DEF ArePeaks, P

(* A string without its brackets. *)

Strip(s) ==
  LET f[k \in 0 .. Len(s)] ==
        IF k = 0 THEN <<>> ELSE IF s[k] \in Coins THEN Append(f[k - 1], s[k]) ELSE f[k - 1]
  IN  f[Len(s)]

StripOne(w, x) == IF x \in Coins THEN Append(w, x) ELSE w
Strips(s) == [k \in 1 .. Len(s) |-> [w \in Seq(Coins) |-> StripOne(w, s[k])]]
IsStrip(f, s) == Recursive(f, Len(s), Seq(Coins), <<>>, Strips(s))

LEMMA StripIs ==
  ASSUME NEW s \in Strings
  PROVE  \E f : IsStrip(f, s) /\ Strip(s) = f[Len(s)]
<1> DEFINE N == Len(s)
           Body(f) == [k \in 0 .. N |->
                         IF k = 0 THEN <<>> ELSE IF s[k] \in Coins THEN Append(f[k - 1], s[k]) ELSE f[k - 1]]
           g == CHOOSE f : f = Body(f)
<1>1. Strip(s) = g[N]
  BY Zenon DEF Strip
<1>2. N \in Nat /\ <<>> \in Seq(Coins)
  BY DEF Strings
<1>3. \A w \in Seq(Coins) : \A x : StripOne(w, x) \in Seq(Coins)
  BY DEF StripOne
<1>4. Strips(s) \in [1 .. N -> [Seq(Coins) -> Seq(Coins)]]
  BY <1>3 DEF Strips
<1>5. \A k \in 1 .. N, w \in Seq(Coins) : Strips(s)[k][w] = StripOne(w, s[k])
  BY DEF Strips
<1> HIDE DEF N
<1>6. PICK f : Recursive(f, N, Seq(Coins), <<>>, Strips(s))
  BY <1>2, <1>4, RecursionExists DEF Recursion
<1>7. \A k \in 1 .. N : k \in 0 .. N /\ k - 1 \in 0 .. N /\ k # 0
  BY <1>2
<1>8. f \in [0 .. N -> Seq(Coins)] /\ f[0] = <<>> /\ \A k \in 1 .. N : f[k] = StripOne(f[k - 1], s[k])
  BY <1>5, <1>6, <1>7 DEF Recursive
<1>9. f = Body(f)
  <2>1. ASSUME NEW k \in 0 .. N PROVE f[k] = Body(f)[k]
    <3>1. k = 0 \/ k \in 1 .. N
      BY <1>2
    <3>2. CASE k \in 1 .. N
      BY <1>7, <1>8, <3>2 DEF StripOne
    <3> QED BY <1>8, <3>1, <3>2
  <2> QED BY <1>8, <2>1
<1>10. g = Body(g)
  BY <1>9
<1> HIDE DEF g
<1>11. DOMAIN g = 0 .. N /\ g[0] = <<>> /\ \A k \in 1 .. N : g[k] = StripOne(g[k - 1], s[k])
  <2>1. DOMAIN g = 0 .. N
    BY <1>10
  <2>2. \A k \in 0 .. N : g[k] = Body(g)[k]
    BY <1>10
  <2>3. g[0] = <<>>
    BY <1>2, <2>2
  <2>4. ASSUME NEW k \in 1 .. N PROVE g[k] = StripOne(g[k - 1], s[k])
    BY <1>7, <2>2, <2>4 DEF StripOne
  <2> QED BY <2>1, <2>3, <2>4
<1> DEFINE S == {k \in 0 .. N : g[k] \in Seq(Coins)}
<1>12. 0 .. N \subseteq S
  <2>1. 0 \in S
    <3>1. g[0] \in Seq(Coins) /\ 0 \in 0 .. N
      BY <1>2, <1>11
    <3> QED BY <3>1
  <2>2. \A k \in 1 .. N : k - 1 \in S => k \in S
    BY <1>3, <1>7, <1>11
  <2> HIDE DEF S
  <2> QED BY <1>2, <2>1, <2>2, BoundedInduction
<1>13. g \in [0 .. N -> Seq(Coins)]
  BY <1>10, <1>12
<1>14. IsStrip(g, s)
  BY <1>5, <1>7, <1>11, <1>13 DEF IsStrip, Recursive, N
<1> QED BY <1>1, <1>14 DEF N

LEMMA StripType == ASSUME NEW s \in Strings PROVE Strip(s) \in Seq(Coins)
<1>1. PICK f : IsStrip(f, s) /\ Strip(s) = f[Len(s)]
  BY StripIs
<1>2. Len(s) \in Nat /\ Len(s) \in 0 .. Len(s)
  BY DEF Strings
<1> QED BY <1>1, <1>2 DEF IsStrip, Recursive

LEMMA StripEmpty == Strip(<<>>) = <<>>
<1>1. <<>> \in Strings /\ Len(<<>>) = 0
  BY DEF Strings
<1>2. PICK f : IsStrip(f, <<>>) /\ Strip(<<>>) = f[0]
  BY <1>1, StripIs
<1> QED BY <1>2 DEF IsStrip, Recursive

LEMMA StripAppend ==
  ASSUME NEW s \in Strings, NEW x \in Symbols
  PROVE  Append(s, x) \in Strings /\ Strip(Append(s, x)) = StripOne(Strip(s), x)
<1> DEFINE t == Append(s, x)
           N == Len(s)
<1>1. /\ t \in Strings /\ N \in Nat /\ Len(t) = N + 1 /\ t[N + 1] = x
      /\ \A k \in 1 .. N : t[k] = s[k]
  BY DEF Strings
<1> HIDE DEF t
<1>2. PICK f : IsStrip(f, s) /\ Strip(s) = f[N]
  BY StripIs
<1>3. PICK g : IsStrip(g, t) /\ Strip(t) = g[N + 1]
  BY <1>1, StripIs
<1>4. Recursive(g, N + 1, Seq(Coins), <<>>, Strips(t)) /\ Recursive(f, N, Seq(Coins), <<>>, Strips(s))
  BY <1>1, <1>2, <1>3 DEF IsStrip
<1>5. \A k \in 1 .. N : Strips(t)[k] = Strips(s)[k]
  BY <1>1 DEF Strips
<1>6. N \in 0 .. N + 1 /\ N + 1 \in Nat /\ N \in 0 .. N /\ N + 1 \in 1 .. N + 1 /\ (N + 1) - 1 = N
  BY <1>1
<1> HIDE DEF N
<1>7. \A k \in 0 .. N : g[k] = f[k]
  <2> DEFINE F == Strips(t)
             G == Strips(s)
             M == N + 1
  <2>1. Recursive(g, M, Seq(Coins), <<>>, F) /\ Recursive(f, N, Seq(Coins), <<>>, G)
    BY <1>4
  <2>2. M \in Nat /\ N \in 0 .. M /\ \A k \in 1 .. N : F[k] = G[k]
    BY <1>5, <1>6
  <2> HIDE DEF F, G, M
  <2> QED BY <2>1, <2>2, RecursionAgrees
<1>8. g[N + 1] = Strips(t)[N + 1][g[N]] /\ g[N] \in Seq(Coins)
  BY <1>4, <1>6 DEF Recursive
<1>9. Strips(t)[N + 1][g[N]] = StripOne(g[N], x)
  BY <1>1, <1>6, <1>8 DEF Strips
<1> QED BY <1>1, <1>2, <1>3, <1>6, <1>7, <1>8, <1>9 DEF t

LEMMA StripConcat ==
  ASSUME NEW s \in Strings, NEW t \in Strings
  PROVE  Strip(s \o t) = Strip(s) \o Strip(t)
<1> DEFINE S == {k \in 0 .. Len(t) : Strip(s \o SubSeq(t, 1, k)) = Strip(s) \o Strip(SubSeq(t, 1, k))}
<1>1. s \in Seq(Symbols) /\ t \in Seq(Symbols) /\ Len(t) \in Nat
  BY DEF Strings
<1>2. 0 \in S
  <2>1. SubSeq(t, 1, 0) = <<>> /\ s \o <<>> = s /\ 0 \in 0 .. Len(t)
    BY <1>1
  <2>2. Strip(s) \o <<>> = Strip(s)
    BY StripType
  <2> QED BY <2>1, <2>2, StripEmpty
<1>3. ASSUME NEW k \in 1 .. Len(t), k - 1 \in S PROVE k \in S
  <2> DEFINE u == SubSeq(t, 1, k - 1)
             x == t[k]
  <2>1. u \in Strings /\ x \in Symbols /\ SubSeq(t, 1, k) = Append(u, x) /\ k \in 0 .. Len(t)
    BY <1>1 DEF Strings
  <2>2. Strip(s \o u) = Strip(s) \o Strip(u)
    BY <1>3
  <2> HIDE DEF u, x
  <2>3. s \o Append(u, x) = Append(s \o u, x) /\ s \o u \in Strings
    BY <1>1, <2>1 DEF Strings
  <2>4. Strip(Append(s \o u, x)) = StripOne(Strip(s \o u), x)
    BY <2>1, <2>3, StripAppend
  <2>5. Strip(Append(u, x)) = StripOne(Strip(u), x)
    BY <2>1, StripAppend
  <2>6. Strip(s) \in Seq(Coins) /\ Strip(u) \in Seq(Coins)
    BY <2>1, StripType
  <2>7. StripOne(Strip(s) \o Strip(u), x) = Strip(s) \o StripOne(Strip(u), x)
    BY <2>6 DEF StripOne
  <2> QED BY <2>1, <2>2, <2>3, <2>4, <2>5, <2>7
<1>4. Len(t) \in S
  <2>1. Len(t) \in 0 .. Len(t)
    BY <1>1
  <2> HIDE DEF S
  <2>2. 0 .. Len(t) \subseteq S
    BY <1>1, <1>2, <1>3, BoundedInduction
  <2> QED BY <2>1, <2>2
<1>5. SubSeq(t, 1, Len(t)) = t
  BY <1>1
<1> QED BY <1>4, <1>5

\* Hash can be read back: its brackets are not coins.
NoBrackets == -1 \notin Coins /\ -2 \notin Coins

LEMMA StripHash == ASSUME NoBrackets, NEW s \in Strings PROVE Strip(Hash(s)) = Strip(s)
<1>1. -1 \in Symbols /\ -2 \in Symbols /\ -1 \notin Coins /\ -2 \notin Coins
  BY DEF NoBrackets, Symbols
<1>2. <<-1>> = Append(<<>>, -1) /\ <<>> \in Strings /\ <<-1>> \in Strings
  BY <1>1 DEF Strings
<1>3. <<-1>> \o s \in Strings /\ Hash(s) = Append(<<-1>> \o s, -2)
  BY <1>2 DEF Hash, Strings
<1>4. Strip(<<-1>>) = <<>>
  BY <1>1, <1>2, StripAppend, StripEmpty DEF StripOne
<1>5. Strip(<<-1>> \o s) = <<>> \o Strip(s)
  BY <1>2, <1>4, StripConcat
<1>6. <<>> \o Strip(s) = Strip(s)
  BY StripType
<1>7. Strip(Append(<<-1>> \o s, -2)) = StripOne(Strip(<<-1>> \o s), -2)
  BY <1>1, <1>3, StripAppend
<1> QED BY <1>1, <1>3, <1>5, <1>6, <1>7 DEF StripOne

LEMMA StripCombine ==
  ASSUME NoBrackets, NEW s \in Strings, NEW t \in Strings
  PROVE  Strip(Combine(s, t)) = Strip(s) \o Strip(t)
<1>1. s \o t \in Strings
  BY DEF Strings
<1> QED BY <1>1, StripHash, StripConcat DEF Combine

LEMMA StripLeaf == ASSUME NoBrackets, NEW c \in Coins PROVE Strip(CoinToMMRData(c)) = <<c>>
<1>1. <<>> \in Strings /\ c \in Symbols /\ <<c>> = Append(<<>>, c) /\ <<c>> \in Strings
  BY DEF Strings, Symbols
<1>2. Strip(<<c>>) = <<c>>
  BY <1>1, StripAppend, StripEmpty DEF StripOne
<1> QED BY <1>1, <1>2, StripHash DEF CoinToMMRData

(* The root spells the list of leaves. *)

LEMMA SubSeqJoin ==
  ASSUME NEW s \in Seq(Coins), NEW i \in Nat, NEW j \in Nat, NEW k \in Nat,
         i <= j, j <= k, k <= Len(s)
  PROVE  SubSeq(s, i + 1, j) \o SubSeq(s, j + 1, k) = SubSeq(s, i + 1, k)
<1> DEFINE m == i + 1
<1>1. m \in 1 .. Len(s) + 1 /\ j \in m - 1 .. Len(s) /\ k \in j .. Len(s)
  OBVIOUS
<1> HIDE DEF m
<1>2. SubSeq(s, m, j) \o SubSeq(s, j + 1, k) = SubSeq(s, m, k)
  BY <1>1, ConcatAdjacentSubSeq
<1> QED BY <1>2 DEF m

\* How many leaves there are below a node of each row.
Doubles(p) == p \in [Nat -> Nat] /\ p[0] = 1 /\ \A r \in Nat : p[r + 1] = p[r] + p[r]

LEMMA DoublesExist == \E p : Doubles(p)
<1> DEFINE Twice == [k \in Nat \ {0} |-> [x \in Nat |-> x + x]]
<1>1. Twice \in [Nat \ {0} -> [Nat -> Nat]] /\ 1 \in Nat
  OBVIOUS
<1>2. \A k \in Nat, x \in Nat : Twice[k + 1][x] = x + x
  OBVIOUS
<1>3. Endless(Nat, 1, Twice)
  <2> HIDE DEF Twice
  <2> QED BY <1>1, EndlessExists
<1> HIDE DEF Twice
<1>4. PICK p \in [Nat -> Nat] : p[0] = 1 /\ \A k \in Nat : p[k + 1] = Twice[k + 1][p[k]]
  BY <1>3 DEF Endless
<1> QED BY <1>2, <1>4 DEF Doubles

LEMMA Products ==
  ASSUME NEW e \in Nat, NEW p \in Nat
  PROVE  /\ e * p \in Nat /\ e * (p + p) = (2 * e) * p /\ (2 * e) * p \in Nat
         /\ (2 * e + 1) * p = (2 * e) * p + p /\ 0 * p = 0 /\ (e + 1) * p = e * p + p
OBVIOUS

\* A node spells the leaves below it.
Spells(nodes, leaves, p, r, e) ==
  /\ e * p[r] + p[r] <= Len(leaves)
  /\ Strip(nodes[<<r, e>>]) = SubSeq(leaves, e * p[r] + 1, e * p[r] + p[r])

LEMMA NodeSpells ==
  ASSUME NoBrackets, NEW leaves \in Seq(Coins), NEW nodes, IsNodes(nodes, leaves), NEW p, Doubles(p)
  PROVE  \A r, e \in Nat : <<r, e>> \in DOMAIN nodes => Spells(nodes, leaves, p, r, e)
<1> DEFINE n == Len(leaves)
           a == Ascent(n)
           S == {r \in Nat : \A e \in Nat : <<r, e>> \in DOMAIN nodes => Spells(nodes, leaves, p, r, e)}
<1>1. n \in Nat /\ nodes \in NodeMaps /\ DOMAIN nodes = Has(n)
  BY DEF IsNodes
<1>2. \A r \in Nat : a[r] \in Nat /\ a[r + 1] = a[r] \div 2
  BY <1>1, AscentIs
<1>3. a[0] = n
  BY <1>1, AscentIs
<1>4. \A r, e \in Nat : <<r, e>> \in DOMAIN nodes <=> e < a[r]
  BY <1>1 DEF Has
<1>5. \A x \in DOMAIN nodes : nodes[x] \in Strings
  BY <1>1, MapType
<1> HIDE DEF n, a
<1>6. 0 \in S
  <2> SUFFICES ASSUME NEW e \in Nat, <<0, e>> \in DOMAIN nodes PROVE Spells(nodes, leaves, p, 0, e)
    OBVIOUS
  <2>1. e < n
    BY <1>3, <1>4
  <2>2. e \in 0 .. n - 1 /\ leaves[e + 1] \in Coins /\ SubSeq(leaves, e + 1, e + 1) = <<leaves[e + 1]>>
    <3>1. e + 1 \in 1 .. Len(leaves) /\ e \in 0 .. n - 1
      BY <1>1, <2>1 DEF n
    <3>2. leaves[e + 1] \in Coins
      BY <3>1
    <3> DEFINE k == e + 1
    <3>3. SubSeq(leaves, k, k) = <<leaves[k]>>
      <4> HIDE DEF k
      <4>1. k \in 1 .. Len(leaves) /\ k \in k .. Len(leaves) /\ k \in Int /\ k - 1 \in Int /\ k - 1 < k
        BY <3>1 DEF k
      <4>2. SubSeq(leaves, k, k) = SubSeq(leaves, k, k - 1) \o <<leaves[k]>>
        BY <4>1, SubSeqRecursiveSecond
      <4>3. SubSeq(leaves, k, k - 1) = <<>>
        BY <4>1, SubSeqEmpty
      <4>4. <<leaves[k]>> \in Seq(Coins) /\ <<>> \o <<leaves[k]>> = <<leaves[k]>>
        BY <3>2 DEF k
      <4> QED BY <4>2, <4>3, <4>4
    <3> QED BY <3>1, <3>2, <3>3
  <2>3. nodes[<<0, e>>] = CoinToMMRData(leaves[e + 1])
    BY <2>2 DEF IsNodes, n
  <2>4. Strip(nodes[<<0, e>>]) = SubSeq(leaves, e + 1, e + 1)
    BY <2>2, <2>3, StripLeaf
  <2>5. p[0] = 1
    BY DEF Doubles
  <2>6. e * 1 = e /\ (e + 1) * 1 = e + 1 /\ e + 1 <= n
    BY <1>1, <2>1
  <2> QED BY <2>4, <2>5, <2>6 DEF Spells, n
<1>7. ASSUME NEW r \in S PROVE r + 1 \in S
  <2> SUFFICES ASSUME NEW e \in Nat, <<r + 1, e>> \in DOMAIN nodes
               PROVE  Spells(nodes, leaves, p, r + 1, e)
    OBVIOUS
  <2> DEFINE q == p[r]
             m == (2 * e) * q
             A == nodes[<<r, 2 * e>>]
             B == nodes[<<r, 2 * e + 1>>]
  <2>1. r \in Nat /\ r + 1 \in Nat
    OBVIOUS
  <2>2. 2 * e \in Nat /\ 2 * e + 1 \in Nat /\ 2 * e < a[r] /\ 2 * e + 1 < a[r]
    <3>1. a[r] \in Nat /\ e < a[r] \div 2
      BY <1>2, <1>4, <2>1
    <3> QED BY <3>1
  <2>3. <<r, 2 * e>> \in DOMAIN nodes /\ <<r, 2 * e + 1>> \in DOMAIN nodes
    BY <1>4, <2>1, <2>2
  <2>4. Spells(nodes, leaves, p, r, 2 * e) /\ Spells(nodes, leaves, p, r, 2 * e + 1)
    BY <2>2, <2>3
  <2>5. q \in Nat /\ p[r + 1] = q + q
    BY <2>1 DEF Doubles
  <2> HIDE DEF q
  <2>6. m \in Nat /\ e * (q + q) = m /\ (2 * e + 1) * q = m + q
    BY <2>5, Products
  <2>7. Strip(A) = SubSeq(leaves, m + 1, m + q)
    BY <2>4 DEF Spells, q
  <2>8. (m + q) + q <= Len(leaves) /\ Strip(B) = SubSeq(leaves, (m + q) + 1, (m + q) + q)
    BY <2>4, <2>6 DEF Spells, q
  <2>9. nodes[<<r + 1, e>>] = Combine(A, B)
    BY <2>1 DEF IsNodes
  <2>10. Strip(Combine(A, B)) = Strip(A) \o Strip(B)
    BY <1>5, <2>3, StripCombine
  <2> HIDE DEF m, A, B
  <2>11. Strip(A) \o Strip(B) = SubSeq(leaves, m + 1, (m + q) + q)
    <3> DEFINE j == m + q
               k == j + q
    <3>1. m \in Nat /\ j \in Nat /\ k \in Nat /\ m <= j /\ j <= k
      BY <2>5, <2>6
    <3>2. k <= Len(leaves)
      BY <2>8
    <3>3. Strip(A) = SubSeq(leaves, m + 1, j) /\ Strip(B) = SubSeq(leaves, j + 1, k)
      BY <2>7, <2>8
    <3> HIDE DEF j, k
    <3>4. SubSeq(leaves, m + 1, j) \o SubSeq(leaves, j + 1, k) = SubSeq(leaves, m + 1, k)
      BY <3>1, <3>2, SubSeqJoin
    <3> QED BY <3>3, <3>4 DEF k, j
  <2>12. (m + q) + q = m + (q + q)
    BY <2>5, <2>6
  <2> QED BY <2>5, <2>6, <2>8, <2>9, <2>10, <2>11, <2>12 DEF Spells
<1>8. S = Nat
  <2>1. S \in SUBSET Nat
    OBVIOUS
  <2> HIDE DEF S
  <2> QED BY <1>6, <1>7, <2>1, SetInduction
<1> QED BY <1>8

\* Bagging, peak by peak.
IsBag(b, hashes) ==
  /\ b \in [1 .. Len(hashes) -> Strings] /\ b[1] = hashes[1]
  /\ \A i \in 2 .. Len(hashes) : b[i] = Combine(b[i - 1], hashes[i])

LEMMA BagIs ==
  ASSUME NEW hashes \in Seq(Strings), hashes # <<>>
  PROVE  \E b : IsBag(b, hashes) /\ Bag(hashes) = b[Len(hashes)]
<1> DEFINE N == Len(hashes)
           Body(f) == [i \in 1 .. N |-> IF i = 1 THEN hashes[1] ELSE Combine(f[i - 1], hashes[i])]
           g == CHOOSE f : f = Body(f)
           Steps == [k \in 1 .. N - 1 |-> [d \in Strings |-> Combine(d, hashes[k + 1])]]
<1>1. Bag(hashes) = g[N]
  BY Zenon DEF Bag
<1>2. N \in Nat /\ N >= 1 /\ N - 1 \in Nat /\ \A i \in 1 .. N : hashes[i] \in Strings
  OBVIOUS
<1>3. Steps \in [1 .. N - 1 -> [Strings -> Strings]]
  <2>1. \A k \in 1 .. N - 1, d \in Strings : Combine(d, hashes[k + 1]) \in Strings
    BY <1>2, CombineType
  <2> QED BY <2>1
<1>4. hashes[1] \in Strings
  BY <1>2
<1> HIDE DEF N
<1>5. PICK h : Recursive(h, N - 1, Strings, hashes[1], Steps)
  <2> HIDE DEF Steps
  <2> QED BY <1>2, <1>3, <1>4, RecursionExists DEF Recursion
<1>6. /\ h \in [0 .. N - 1 -> Strings] /\ h[0] = hashes[1]
      /\ \A k \in 1 .. N - 1 : h[k] = Combine(h[k - 1], hashes[k + 1])
  <2>1. \A k \in 1 .. N - 1 : k - 1 \in 0 .. N - 1
    BY <1>2
  <2>2. h \in [0 .. N - 1 -> Strings] /\ h[0] = hashes[1] /\ \A k \in 1 .. N - 1 : h[k] = Steps[k][h[k - 1]]
    BY <1>5 DEF Recursive
  <2> QED BY <2>1, <2>2
<1> DEFINE f == [i \in 1 .. N |-> h[i - 1]]
<1>7. f = Body(f)
  <2>1. ASSUME NEW i \in 1 .. N PROVE f[i] = Body(f)[i]
    <3>1. CASE i = 1
      BY <1>2, <1>6, <3>1
    <3>2. CASE i # 1
      <4>1. i - 1 \in 1 .. N - 1 /\ (i - 1) + 1 = i /\ i - 1 \in 1 .. N
        BY <1>2, <3>2
      <4>2. h[i - 1] = Combine(h[(i - 1) - 1], hashes[i])
        BY <1>6, <4>1
      <4> QED BY <3>2, <4>1, <4>2
    <3> QED BY <3>1, <3>2
  <2> QED BY <2>1
<1> HIDE DEF f
<1>8. g = Body(g)
  BY <1>7
<1> HIDE DEF g
<1>9. g[1] = hashes[1] /\ \A i \in 2 .. N : i \in 1 .. N /\ g[i] = Combine(g[i - 1], hashes[i])
  <2>1. 1 \in 1 .. N /\ \A i \in 2 .. N : i \in 1 .. N /\ i # 1
    BY <1>2
  <2> QED BY <1>8, <2>1
<1> DEFINE S == {k \in 0 .. N - 1 : g[k + 1] \in Strings}
<1>10. 0 .. N - 1 \subseteq S
  <2>1. 0 \in S
    BY <1>2, <1>4, <1>9
  <2>2. ASSUME NEW k \in 1 .. N - 1, k - 1 \in S PROVE k \in S
    <3>1. k + 1 \in 2 .. N /\ (k + 1) - 1 = k /\ (k - 1) + 1 = k /\ k \in 0 .. N - 1
      BY <1>2
    <3>2. g[k] \in Strings
      BY <2>2, <3>1
    <3>3. g[k + 1] = Combine(g[k], hashes[k + 1])
      BY <1>9, <3>1
    <3>4. hashes[k + 1] \in Strings
      BY <1>2, <3>1
    <3> QED BY <3>1, <3>2, <3>3, <3>4, CombineType
  <2> HIDE DEF S
  <2> QED BY <1>2, <2>1, <2>2, BoundedInduction
<1>11. \A i \in 1 .. N : g[i] \in Strings
  <2> SUFFICES ASSUME NEW i \in 1 .. N PROVE g[i] \in Strings
    OBVIOUS
  <2>1. i - 1 \in 0 .. N - 1 /\ (i - 1) + 1 = i
    BY <1>2
  <2> QED BY <1>10, <2>1
<1>12. g \in [1 .. N -> Strings]
  BY <1>8, <1>11
<1> QED BY <1>1, <1>9, <1>12 DEF IsBag, N

\* What bagging has spelled after the peaks of row r and above.
Spelled(b, i) == IF i = 0 THEN <<>> ELSE Strip(b[i])
BagSpells(b, s, leaves, r, c) ==
  \E i \in 0 .. Len(s) :
    /\ \A j \in 1 .. Len(s) : s[j][1] >= r <=> j <= i
    /\ c <= Len(leaves) /\ Spelled(b, i) = SubSeq(leaves, 1, c)

\* The next row: if it has a peak, this is the next of the list.
LEMMA NextRow ==
  ASSUME NoBrackets, NEW leaves \in Seq(Coins), leaves # <<>>, NEW nodes, IsNodes(nodes, leaves),
         NEW p, Doubles(p), NEW s, ArePeaks(s, nodes), NEW b, IsBag(b, DataOf(nodes, s)),
         NEW r \in Nat, NEW a, a = Ascent(Len(leaves)),
         BagSpells(b, s, leaves, r + 1, a[r + 1] * p[r + 1])
  PROVE  BagSpells(b, s, leaves, r, a[r] * p[r])
<1> DEFINE n == Len(leaves)
           P == PeakSet(nodes)
           N == Len(s)
<1>1. n \in Nat /\ DOMAIN nodes = Has(n) /\ nodes \in NodeMaps
  BY DEF IsNodes
<1>2. a[r] \in Nat /\ a[r + 1] = a[r] \div 2 /\ a[r + 1] \in Nat
  <2>1. a \in [Nat -> Nat] /\ a[r + 1] = a[r] \div 2
    BY <1>1, AscentIs
  <2>2. r + 1 \in Nat
    OBVIOUS
  <2> QED BY <2>1, <2>2
<1>3. P \subseteq Nat \X Nat /\ \A q, e \in Nat : <<q, e>> \in P <=> a[q] % 2 = 1 /\ e = a[q] - 1
  BY <1>1, PeaksAre
<1>4. p[r] \in Nat /\ p[r + 1] = p[r] + p[r]
  BY DEF Doubles
<1>5. /\ s \in Seq(P) /\ Falls(s) /\ N \in Nat
      /\ \A x \in P : \E i \in 1 .. N : s[i] = x
      /\ \A i \in 1 .. N : s[i] \in P
  BY DEF ArePeaks
<1>6. P \subseteq DOMAIN nodes
  BY DEF PeakSet
<1>7. \A x \in DOMAIN nodes : nodes[x] \in Strings
  BY <1>1, MapType
<1>8. DataOf(nodes, s) = [i \in 1 .. N |-> nodes[s[i]]] /\ Len(DataOf(nodes, s)) = N
  <2>1. DOMAIN s = 1 .. N
    BY <1>5
  <2>2. DataOf(nodes, s) = [i \in 1 .. N |-> nodes[s[i]]]
    BY <2>1 DEF DataOf
  <2> QED BY <1>5, <2>2
<1>9. /\ b \in [1 .. N -> Strings] /\ (N >= 1 => b[1] = nodes[s[1]])
      /\ \A i \in 2 .. N : b[i] = Combine(b[i - 1], nodes[s[i]])
  <2>1. \A i \in 2 .. N : i \in 1 .. N
    OBVIOUS
  <2>2. N >= 1 => 1 \in 1 .. N
    BY <1>5
  <2> QED BY <1>8, <2>1, <2>2 DEF IsBag
<1> HIDE DEF P, N
<1> DEFINE up == a[r + 1] * p[r + 1]
           here == a[r] * p[r]
<1>10. PICK i \in 0 .. N : /\ \A j \in 1 .. N : s[j][1] >= r + 1 <=> j <= i
                           /\ up <= n /\ Spelled(b, i) = SubSeq(leaves, 1, up)
  BY DEF BagSpells, N
<1>11. \A j \in 1 .. N : s[j][1] \in Nat /\ s[j] = <<s[j][1], s[j][2]>> /\ s[j][2] \in Nat
  BY <1>3, <1>5
<1>12. CASE a[r] % 2 = 0
  <2>1. up = here
    <3>1. 2 * a[r + 1] = a[r]
      BY <1>2, <1>12
    <3>2. a[r + 1] * (p[r] + p[r]) = (2 * a[r + 1]) * p[r]
      BY <1>2, <1>4, Products
    <3> QED BY <1>4, <3>1, <3>2
  <2>2. \A j \in 1 .. N : s[j][1] # r
    <3> SUFFICES ASSUME NEW j \in 1 .. N, s[j][1] = r PROVE FALSE
      OBVIOUS
    <3>1. a[r] % 2 = 1
      BY <1>3, <1>5, <1>11
    <3> QED BY <1>12, <3>1
  <2>3. \A j \in 1 .. N : s[j][1] >= r <=> j <= i
    BY <1>10, <1>11, <2>2
  <2> QED BY <1>10, <2>1, <2>3 DEF BagSpells, N
<1>13. CASE a[r] % 2 = 1
  <2> DEFINE e == a[r] - 1
             x == <<r, e>>
             q == p[r]
  <2>1. e \in Nat /\ 2 * a[r + 1] = e /\ e + 1 = a[r]
    <3> DEFINE z == a[r]
    <3>1. z \in Nat /\ z % 2 = 1 /\ a[r + 1] = z \div 2
      BY <1>2, <1>13
    <3> HIDE DEF z
    <3>2. z - 1 \in Nat /\ 2 * (z \div 2) = z - 1 /\ (z - 1) + 1 = z
      BY <3>1
    <3> QED BY <3>1, <3>2 DEF z
  <2>2. x \in P
    BY <1>3, <1>13, <2>1
  <2>3. \A j \in 1 .. N : s[j][1] = r => s[j] = x
    BY <1>3, <1>5, <1>11
  <2>4. PICK k \in 1 .. N : s[k] = x
    BY <1>5, <2>2
  <2>5. k = i + 1
    <3>1. s[k][1] = r /\ ~ (k <= i)
      BY <1>10, <2>4
    <3>2. CASE i + 1 < k
      <4>1. i + 1 \in 1 .. N
        BY <1>5, <2>4, <3>2
      <4>2. s[i + 1][1] > s[k][1] /\ s[i + 1][1] \in Nat
        BY <1>5, <1>11, <3>2, <4>1 DEF Falls, N
      <4>3. s[i + 1][1] >= r + 1
        BY <3>1, <4>2
      <4>4. i + 1 <= i
        BY <1>10, <4>1, <4>3
      <4> QED BY <4>4
    <3> QED BY <3>1, <3>2
  <2>6. \A j \in 1 .. N : s[j][1] >= r <=> j <= k
    <3> SUFFICES ASSUME NEW j \in 1 .. N PROVE s[j][1] >= r <=> j <= k
      OBVIOUS
    <3>1. j < k => s[j][1] >= r
      BY <1>10, <1>11, <2>5
    <3>2. j = k => s[j][1] >= r
      BY <2>4
    <3>3. j > k => ~ (s[j][1] >= r)
      <4>1. j > k => s[k][1] > s[j][1]
        BY <1>5 DEF Falls, N
      <4> QED BY <1>11, <2>4, <4>1
    <3> QED BY <3>1, <3>2, <3>3
  <2>7. up = e * q /\ here = up + q /\ up \in Nat
    <3>1. a[r + 1] * (q + q) = (2 * a[r + 1]) * q
      BY <1>2, <1>4, Products
    <3>2. e * q \in Nat /\ (e + 1) * q = e * q + q
      BY <1>4, <2>1, Products
    <3> QED BY <1>4, <2>1, <3>1, <3>2
  <2>8. Spells(nodes, leaves, p, r, e)
    BY <1>6, <2>1, <2>2, NodeSpells
  <2>9. here <= n /\ Strip(nodes[x]) = SubSeq(leaves, up + 1, here)
    BY <2>7, <2>8 DEF Spells
  <2>10. Spelled(b, k) = Spelled(b, i) \o Strip(nodes[x])
    <3>1. nodes[x] \in Strings
      BY <1>6, <1>7, <2>2
    <3>2. CASE i = 0
      <4>1. k = 1 /\ N >= 1
        BY <1>5, <2>4, <2>5, <3>2
      <4>3. b[1] = nodes[s[1]] /\ s[1] = x
        BY <1>9, <2>4, <4>1
      <4>2. <<>> \o Strip(nodes[x]) = Strip(nodes[x])
        BY <3>1, StripType
      <4> QED BY <3>2, <4>1, <4>2, <4>3 DEF Spelled
    <3>3. CASE i # 0
      <4>1. k \in 2 .. N /\ k - 1 = i /\ i \in 1 .. N /\ k # 0
        BY <1>5, <2>4, <2>5, <3>3
      <4>2. b[k] = Combine(b[i], nodes[x]) /\ b[i] \in Strings
        BY <1>9, <2>4, <4>1
      <4>3. Strip(Combine(b[i], nodes[x])) = Strip(b[i]) \o Strip(nodes[x])
        BY <3>1, <4>2, StripCombine
      <4> QED BY <3>3, <4>1, <4>2, <4>3 DEF Spelled
    <3> QED BY <3>2, <3>3
  <2>11. SubSeq(leaves, 1, up) \o SubSeq(leaves, up + 1, here) = SubSeq(leaves, 1, here)
    <3>1. up \in Nat /\ here \in Nat /\ up <= here /\ here <= Len(leaves) /\ 0 \in Nat /\ 0 <= up /\ 0 + 1 = 1
      BY <1>4, <2>7, <2>9
    <3> HIDE DEF up, here
    <3> QED BY <3>1, SubSeqJoin
  <2>12. k \in 0 .. N /\ Spelled(b, k) = SubSeq(leaves, 1, here)
    <3>1. k \in 0 .. N
      BY <2>4
    <3>2. Spelled(b, i) = SubSeq(leaves, 1, up)
      BY <1>10
    <3>3. Strip(nodes[x]) = SubSeq(leaves, up + 1, here)
      BY <2>9
    <3> HIDE DEF up, here, x
    <3> QED BY <2>10, <2>11, <3>1, <3>2, <3>3
  <2> QED BY <2>6, <2>9, <2>12 DEF BagSpells, N
<1> QED BY <1>2, <1>12, <1>13

\* So the root spells them all, and two lists with one root are one list.
LEMMA RootSpells ==
  ASSUME NoBrackets, NEW leaves \in Seq(Coins), leaves # <<>>, NEW nodes, IsNodes(nodes, leaves)
  PROVE  /\ GetRoot(nodes) = Bag(DataOf(nodes, Peaks(nodes)))
         /\ GetRoot(nodes) \in Strings /\ Strip(GetRoot(nodes)) = leaves
<1> DEFINE n == Len(leaves)
           a == Ascent(n)
           s == Peaks(nodes)
           data == DataOf(nodes, s)
<1>1. n \in Nat /\ n >= 1 /\ DOMAIN nodes = Has(n) /\ nodes \in NodeMaps
  BY DEF IsNodes
<1>2. ArePeaks(s, nodes)
  BY <1>1, PeaksIs
<1>3. PICK p : Doubles(p)
  BY DoublesExist
<1>4. \A r \in Nat : a[r] \in Nat /\ (r >= n => a[r] = 0)
  BY <1>1, AscentIs, AscentEnds
<1>5. a[0] = n
  BY <1>1, AscentIs
<1>6. DOMAIN nodes # {}
  <2>1. <<0, 0>> \in Has(n)
    BY <1>1, <1>5 DEF Has
  <2> QED BY <1>1, <2>1
<1>7. GetRoot(nodes) = Bag(data)
  BY <1>6 DEF GetRoot
<1>8. /\ PeakSet(nodes) \subseteq DOMAIN nodes /\ s \in Seq(PeakSet(nodes)) /\ Len(s) \in Nat
      /\ \A x \in PeakSet(nodes) : \E i \in 1 .. Len(s) : s[i] = x
  BY <1>2 DEF ArePeaks, PeakSet
<1>9. data \in Seq(Strings) /\ Len(data) = Len(s)
  <2>1. \A x \in DOMAIN nodes : nodes[x] \in Strings
    BY <1>1, MapType
  <2>2. DOMAIN s = 1 .. Len(s) /\ \A i \in 1 .. Len(s) : s[i] \in DOMAIN nodes
    BY <1>8
  <2>3. data = [i \in 1 .. Len(s) |-> nodes[s[i]]]
    BY <2>2 DEF DataOf
  <2> HIDE DEF data, s
  <2> QED BY <1>8, <2>1, <2>2, <2>3
<1>10. \A x \in PeakSet(nodes) : x[1] \in Nat /\ x[1] < n
  <2>1. /\ PeakSet(nodes) \subseteq Nat \X Nat
        /\ \A r, e \in Nat : <<r, e>> \in PeakSet(nodes) => a[r] % 2 = 1
    BY <1>1, PeaksAre
  <2> SUFFICES ASSUME NEW x \in PeakSet(nodes) PROVE x[1] \in Nat /\ x[1] < n
    OBVIOUS
  <2>2. x[1] \in Nat /\ x[2] \in Nat /\ x = <<x[1], x[2]>>
    BY <2>1
  <2>3. a[x[1]] % 2 = 1
    BY <2>1, <2>2
  <2> HIDE DEF a
  <2>4. a[x[1]] # 0
    BY <2>3
  <2> QED BY <1>1, <1>4, <2>2, <2>4
<1>11. PICK x0 : x0 \in PeakSet(nodes)
  <2> DEFINE S == {k \in 0 .. n : a[n - k] = 0}
  <2>1. n \notin S
    BY <1>1, <1>5
  <2>2. 0 \in S
    <3>1. n - 0 = n /\ 0 \in 0 .. n
      BY <1>1
    <3> QED BY <1>1, <1>4, <3>1
  <2>3. \E k \in 1 .. n : k - 1 \in S /\ k \notin S
    <3> HIDE DEF S
    <3> SUFFICES ASSUME \A k \in 1 .. n : k - 1 \in S => k \in S PROVE FALSE
      OBVIOUS
    <3>1. 0 .. n \subseteq S
      BY <1>1, <2>2, BoundedInduction
    <3>2. n \in 0 .. n
      BY <1>1
    <3> QED BY <2>1, <3>1, <3>2
  <2>4. PICK k \in 1 .. n : k - 1 \in S /\ k \notin S
    BY <2>3
  <2> DEFINE r == n - k
  <2>5. r \in Nat /\ r + 1 = n - (k - 1) /\ k \in 0 .. n
    BY <1>1
  <2>6. a[r + 1] = 0 /\ a[r] # 0 /\ a[r] \in Nat
    BY <1>4, <2>4, <2>5
  <2>7. a[r + 1] = a[r] \div 2
    BY <1>1, <2>5, AscentIs
  <2> HIDE DEF a, r
  <2>8. a[r] = 1 /\ a[r] % 2 = 1 /\ a[r] - 1 = 0 /\ 0 \in Nat
    BY <2>6, <2>7
  <2>9. <<r, 0>> \in PeakSet(nodes)
    BY <1>1, <2>5, <2>8, PeaksAre DEF a
  <2> QED BY <2>9
<1>12. Len(s) >= 1
  BY <1>8, <1>11
<1>13. data # <<>>
  BY <1>9, <1>12
<1>14. PICK b : IsBag(b, data) /\ Bag(data) = b[Len(s)]
  BY <1>9, <1>13, BagIs
<1> DEFINE Q == {k \in 0 .. n : BagSpells(b, s, leaves, n - k, a[n - k] * p[n - k])}
<1>15. 0 \in Q
  <2>1. a[n] * p[n] = 0
    <3>1. a[n] = 0 /\ p[n] \in Nat
      BY <1>1, <1>3, <1>4 DEF Doubles
    <3> QED BY <3>1
  <2>2. \A j \in 1 .. Len(s) : ~ (s[j][1] >= n)
    <3>1. \A j \in 1 .. Len(s) : s[j] \in PeakSet(nodes)
      BY <1>8
    <3> QED BY <1>1, <1>10, <3>1
  <2>3. SubSeq(leaves, 1, 0) = <<>> /\ 0 <= n /\ 0 \in 0 .. Len(s) /\ n - 0 = n /\ 0 \in 0 .. n
    BY <1>1, <1>8
  <2>4. \A j \in 1 .. Len(s) : ~ (j <= 0)
    OBVIOUS
  <2>5. BagSpells(b, s, leaves, n, 0)
    BY <2>2, <2>3, <2>4 DEF BagSpells, Spelled
  <2> QED BY <2>1, <2>3, <2>5
<1>16. ASSUME NEW k \in 1 .. n, k - 1 \in Q PROVE k \in Q
  <2> DEFINE r == n - k
  <2>1. r \in Nat /\ n - (k - 1) = r + 1 /\ k \in 0 .. n
    BY <1>1
  <2> HIDE DEF r
  <2>2. BagSpells(b, s, leaves, r + 1, a[r + 1] * p[r + 1])
    BY <1>16, <2>1
  <2>3. BagSpells(b, s, leaves, r, a[r] * p[r])
    BY <1>2, <1>3, <1>14, <2>1, <2>2, NextRow
  <2> QED BY <2>1, <2>3 DEF r
<1>17. BagSpells(b, s, leaves, 0, n)
  <2>1. n \in Q
    <3> HIDE DEF Q
    <3> HIDE DEF n
    <3>1. 0 .. n \subseteq Q
      BY <1>1, <1>15, <1>16, BoundedInduction
    <3>2. n \in 0 .. n
      BY <1>1
    <3> QED BY <3>1, <3>2
  <2>2. n - n = 0 /\ n * 1 = n
    BY <1>1
  <2>3. p[0] = 1
    BY <1>3 DEF Doubles
  <2> QED BY <1>5, <2>1, <2>2, <2>3
<1>18. Spelled(b, Len(s)) = SubSeq(leaves, 1, n)
  <2>1. PICK i \in 0 .. Len(s) : /\ \A j \in 1 .. Len(s) : s[j][1] >= 0 <=> j <= i
                                 /\ Spelled(b, i) = SubSeq(leaves, 1, n)
    BY <1>17 DEF BagSpells
  <2>2. Len(s) \in 1 .. Len(s) /\ s[Len(s)] \in PeakSet(nodes)
    BY <1>8, <1>12
  <2>3. s[Len(s)][1] >= 0
    BY <1>10, <2>2
  <2>4. i = Len(s)
    BY <1>8, <2>1, <2>2, <2>3
  <2> QED BY <2>1, <2>4
<1>19. SubSeq(leaves, 1, n) = leaves
  OBVIOUS
<1>20. Spelled(b, Len(s)) = Strip(b[Len(s)])
  BY <1>8, <1>12 DEF Spelled
<1>21. b[Len(s)] \in Strings
  <2>1. Len(s) \in 1 .. Len(s)
    BY <1>8, <1>12
  <2> QED BY <1>9, <1>14, <2>1 DEF IsBag
<1> QED BY <1>7, <1>14, <1>18, <1>19, <1>20, <1>21

LEMMA RootIsInjective ==
  ASSUME NoBrackets, NEW leaves \in Seq(Coins), NEW others \in Seq(Coins)
  PROVE  GetRoot(NodesOf(leaves)) = GetRoot(NodesOf(others)) <=> leaves = others
<1>1. ASSUME NEW l \in Seq(Coins) PROVE Strip(GetRoot(NodesOf(l))) = l
  <2>1. IsNodes(NodesOf(l), l)
    BY NodesOfIs
  <2>2. CASE l # <<>>
    BY <2>1, <2>2, RootSpells
  <2>3. CASE l = <<>>
    <3>1. Has(0) = {}
      BY NoLeaves DEF IsNodes, NoNodes
    <3>2. DOMAIN NodesOf(l) = {}
      BY <2>1, <2>3, <3>1 DEF IsNodes
    <3>3. GetRoot(NodesOf(l)) = <<>>
      BY <3>2 DEF GetRoot
    <3> QED BY <2>3, <3>3, StripEmpty
  <2> QED BY <2>2, <2>3
<1>2. Strip(GetRoot(NodesOf(leaves))) = leaves /\ Strip(GetRoot(NodesOf(others))) = others
  BY <1>1
<1> QED BY <1>2

(* The proof of a leaf. *)

\* Putting another coin in one place changes the line above this leaf only.
LEMMA OffTheLine ==
  ASSUME NEW leaves \in Seq(Coins), NEW nodes, IsNodes(nodes, leaves),
         NEW others \in Seq(Coins), NEW after, IsNodes(after, others),
         Len(others) = Len(leaves), NEW e \in Nat,
         \A k \in 1 .. Len(leaves) : k # e + 1 => others[k] = leaves[k]
  PROVE  \A r, k \in Nat : <<r, k>> \in Has(Len(leaves)) /\ k # Ascent(e)[r] =>
           after[<<r, k>>] = nodes[<<r, k>>]
<1> DEFINE n == Len(leaves)
           a == Ascent(n)
           at == Ascent(e)
           S == {r \in Nat : \A k \in Nat : k < a[r] /\ k # at[r] => after[<<r, k>>] = nodes[<<r, k>>]}
<1>1. n \in Nat /\ DOMAIN nodes = Has(n) /\ DOMAIN after = Has(n)
  BY DEF IsNodes
<1>2. \A r \in Nat : a[r] \in Nat /\ a[r + 1] = a[r] \div 2 /\ at[r] \in Nat /\ at[r + 1] = at[r] \div 2
  BY <1>1, AscentIs
<1>3. a[0] = n /\ at[0] = e
  BY <1>1, AscentIs
<1>4. \A r, k \in Nat : <<r, k>> \in Has(n) <=> k < a[r]
  BY DEF Has
<1> HIDE DEF a, at
<1>5. 0 \in S
  <2> SUFFICES ASSUME NEW k \in Nat, k < n, k # e PROVE after[<<0, k>>] = nodes[<<0, k>>]
    BY <1>3
  <2>1. k \in 0 .. n - 1 /\ k + 1 \in 1 .. n /\ k + 1 # e + 1
    BY <1>1
  <2>2. after[<<0, k>>] = CoinToMMRData(others[k + 1]) /\ nodes[<<0, k>>] = CoinToMMRData(leaves[k + 1])
    BY <2>1 DEF IsNodes
  <2> QED BY <2>1, <2>2
<1>6. ASSUME NEW r \in S PROVE r + 1 \in S
  <2> SUFFICES ASSUME NEW k \in Nat, k < a[r + 1], k # at[r + 1]
               PROVE  after[<<r + 1, k>>] = nodes[<<r + 1, k>>]
    OBVIOUS
  <2>1. r \in Nat /\ r + 1 \in Nat
    OBVIOUS
  <2>2. a[r] \in Nat /\ at[r] \in Nat /\ k < a[r] \div 2 /\ k # at[r] \div 2
    BY <1>2
  <2>3. /\ 2 * k \in Nat /\ 2 * k < a[r] /\ 2 * k # at[r]
        /\ 2 * k + 1 \in Nat /\ 2 * k + 1 < a[r] /\ 2 * k + 1 # at[r]
    <3> DEFINE u == a[r]
               v == at[r]
    <3>1. u \in Nat /\ v \in Nat /\ k < u \div 2 /\ k # v \div 2
      BY <2>2
    <3> HIDE DEF u, v
    <3>2. /\ 2 * k \in Nat /\ 2 * k < u /\ 2 * k + 1 \in Nat /\ 2 * k + 1 < u
      BY <3>1
    <3>3. 2 * k # v /\ 2 * k + 1 # v
      BY <3>1
    <3> QED BY <3>2, <3>3 DEF u, v
  <2>4. /\ after[<<r, 2 * k>>] = nodes[<<r, 2 * k>>]
        /\ after[<<r, 2 * k + 1>>] = nodes[<<r, 2 * k + 1>>]
    BY <2>3
  <2>5. <<r + 1, k>> \in DOMAIN nodes /\ <<r + 1, k>> \in DOMAIN after
    BY <1>1, <1>4, <2>1
  <2>6. after[<<r + 1, k>>] = Combine(after[<<r, 2 * k>>], after[<<r, 2 * k + 1>>])
    BY <2>1, <2>5 DEF IsNodes
  <2>7. nodes[<<r + 1, k>>] = Combine(nodes[<<r, 2 * k>>], nodes[<<r, 2 * k + 1>>])
    BY <2>1, <2>5 DEF IsNodes
  <2> QED BY <2>4, <2>6, <2>7
<1>7. S = Nat
  <2>1. S \in SUBSET Nat
    OBVIOUS
  <2> HIDE DEF S
  <2> QED BY <1>5, <1>6, <2>1, SetInduction
<1> QED BY <1>4, <1>7 DEF at

LineIs(after, n, e, h, data) ==
  \A r \in 0 .. h : <<r, Ascent(e)[r]>> \in Has(n) /\ after[<<r, Ascent(e)[r]>>] = data[r]

\* On the line stand the joins the proof computes, and the line ends at a peak.
LEMMA OnTheLine ==
  ASSUME NEW leaves \in Seq(Coins), NEW nodes, IsNodes(nodes, leaves),
         NEW e \in 0 .. Len(leaves) - 1, NEW c \in Coins,
         NEW after, IsNodes(after, [leaves EXCEPT ![e + 1] = c]),
         NEW h \in Nat, Ends(nodes, e, h), NEW siblings, IsPath(nodes, e, h, siblings)
  PROVE  LineIs(after, Len(leaves), e, h, Joined(e, CoinToMMRData(c), siblings))
<1> DEFINE n == Len(leaves)
           a == Ascent(n)
           at == Ascent(e)
           others == [leaves EXCEPT ![e + 1] = c]
           leaf == CoinToMMRData(c)
           new == Joined(e, leaf, siblings)
           S == {r \in 0 .. h : at[r] < a[r] /\ after[<<r, at[r]>>] = new[r]}
<1>1. n \in Nat /\ e \in Nat /\ DOMAIN nodes = Has(n)
  BY DEF IsNodes
<1>2. /\ others \in Seq(Coins) /\ Len(others) = n /\ others[e + 1] = c
      /\ \A k \in 1 .. n : k # e + 1 => others[k] = leaves[k]
  OBVIOUS
<1>3. DOMAIN after = Has(n)
  BY <1>2 DEF IsNodes
<1>4. \A r \in Nat : a[r] \in Nat /\ a[r + 1] = a[r] \div 2 /\ at[r] \in Nat /\ at[r + 1] = at[r] \div 2
  BY <1>1, AscentIs
<1>5. a[0] = n /\ at[0] = e
  BY <1>1, AscentIs
<1>6. \A r, k \in Nat : <<r, k>> \in Has(n) <=> k < a[r]
  BY DEF Has
<1>7. new[0] = leaf /\ \A r \in 1 .. h : new[r] = Join(e, r - 1, new[r - 1], siblings[r])
  BY <1>1, LeafType, JoinedIs DEF IsPath
<1>8. \A r, k \in Nat : <<r, k>> \in Has(n) /\ k # at[r] => after[<<r, k>>] = nodes[<<r, k>>]
  <2> HIDE DEF others
  <2>1. IsNodes(after, others)
    BY DEF others
  <2> QED BY <1>1, <1>2, <2>1, OffTheLine
<1>9. after[<<0, e>>] = leaf
  <2> HIDE DEF others
  <2>1. IsNodes(after, others)
    BY DEF others
  <2> QED BY <1>2, <2>1 DEF IsNodes
<1> HIDE DEF a, new, others, leaf
<1>10. 0 \in S
  <2>1. 0 \in 0 .. h /\ at[0] < a[0]
    BY <1>1, <1>5
  <2>2. after[<<0, at[0]>>] = new[0]
    BY <1>5, <1>7, <1>9
  <2> QED BY <2>1, <2>2
<1>11. ASSUME NEW r \in 1 .. h, r - 1 \in S PROVE r \in S
  <2> DEFINE q == r - 1
             x == at[q]
             y == Sibling(x)
             k == at[r]
  <2>1. q \in Nat /\ q + 1 = r /\ r \in 0 .. h /\ q \in 0 .. h - 1 /\ r \in Nat
    OBVIOUS
  <2>2. a[q] \in Nat /\ a[r] = a[q] \div 2 /\ x \in Nat /\ k = x \div 2
    BY <1>4, <2>1
  <2>3. x < a[q] /\ after[<<q, x>>] = new[q]
    BY <1>11
  <2>4. <<q, y>> \in Has(n)
    BY <1>1, <2>1 DEF Ends, Beside
  <2>5. siblings[r] = nodes[<<q, y>>]
    BY DEF IsPath, Beside
  <2> HIDE DEF x, k, q, at
  <2>6. y \in Nat /\ y # x
    BY <2>2, <2>4 DEF Has, Sibling
  <2>7. y < a[q]
    BY <1>6, <2>1, <2>4, <2>6
  <2>8. k < a[r] /\ k \in Nat
    BY <2>2, <2>3, <2>6, <2>7 DEF Sibling
  <2>9. after[<<q, y>>] = siblings[r]
    BY <1>8, <2>1, <2>4, <2>5, <2>6 DEF x
  <2>10. <<q + 1, k>> \in DOMAIN after
    BY <1>3, <1>6, <2>1, <2>8
  <2>11. after[<<q + 1, k>>] = Combine(after[<<q, 2 * k>>], after[<<q, 2 * k + 1>>])
    BY <2>1, <2>8, <2>10 DEF IsNodes
  <2>12. new[r] = Join(e, q, new[q], siblings[r])
    BY <1>7 DEF q
  <2>13. CASE x % 2 = 0
    <3>1. 2 * k = x /\ 2 * k + 1 = y
      BY <2>2, <2>13 DEF Sibling
    <3>2. new[r] = Combine(new[q], siblings[r])
      BY <2>12, <2>13 DEF Join, x, at
    <3>3. after[<<q + 1, k>>] = new[r]
      BY <2>3, <2>9, <2>11, <3>1, <3>2
    <3> QED BY <2>1, <2>8, <3>3 DEF k
  <2>14. CASE x % 2 # 0
    <3>1. 2 * k = y /\ 2 * k + 1 = x
      BY <2>2, <2>14 DEF Sibling
    <3>2. new[r] = Combine(siblings[r], new[q])
      BY <2>12, <2>14 DEF Join, x, at
    <3>3. after[<<q + 1, k>>] = new[r]
      BY <2>3, <2>9, <2>11, <3>1, <3>2
    <3> QED BY <2>1, <2>8, <3>3 DEF k
  <2> QED BY <2>13, <2>14
<1>12. 0 .. h \subseteq S
  <2> HIDE DEF S
  <2> QED BY <1>10, <1>11, BoundedInduction
<1> SUFFICES ASSUME NEW r \in 0 .. h
             PROVE  <<r, at[r]>> \in Has(n) /\ after[<<r, at[r]>>] = new[r]
  BY DEF LineIs, new, leaf
<1>13. r \in Nat /\ at[r] \in Nat /\ at[r] < a[r] /\ after[<<r, at[r]>>] = new[r]
  <2>1. r \in S /\ r \in Nat
    BY <1>12
  <2>2. at[r] \in Nat
    BY <1>4, <2>1
  <2> QED BY <2>1, <2>2
<1> QED BY <1>6, <1>13

LEMMA LineEnds ==
  ASSUME NEW nodes, NEW n \in Nat, DOMAIN nodes = Has(n), NEW e \in 0 .. n - 1,
         NEW h \in Nat, Ends(nodes, e, h),
         \A r \in 0 .. h : <<r, Ascent(e)[r]>> \in Has(n)
  PROVE  /\ <<h, Ascent(e)[h]>> \in PeakSet(nodes)
         /\ \A x \in PeakSet(nodes) : x[2] = Ascent(e)[x[1]] => x = <<h, Ascent(e)[h]>>
<1> DEFINE a == Ascent(n)
           at == Ascent(e)
           S == {k \in Nat : at[h + 1 + k] = a[h + 1 + k]}
<1>1. \A r \in Nat : a[r] \in Nat /\ a[r + 1] = a[r] \div 2 /\ at[r] \in Nat /\ at[r + 1] = at[r] \div 2
  <2>1. e \in Nat
    OBVIOUS
  <2> QED BY <2>1, AscentIs
<1>2. \A r, k \in Nat : <<r, k>> \in Has(n) <=> k < a[r]
  BY DEF Has
<1>3. /\ PeakSet(nodes) \subseteq Nat \X Nat
      /\ \A r, k \in Nat : <<r, k>> \in PeakSet(nodes) <=> a[r] % 2 = 1 /\ k = a[r] - 1
  BY PeaksAre
<1>4. \A r \in 0 .. h : r \in Nat /\ at[r] < a[r]
  <2>1. \A r \in 0 .. h : r \in Nat /\ at[r] \in Nat
    BY <1>1
  <2> QED BY <1>2, <2>1
<1>5. a[h] % 2 = 1 /\ at[h] = a[h] - 1
  <2> DEFINE x == at[h]
             y == Sibling(x)
             z == a[h]
  <2>1. x \in Nat /\ z \in Nat /\ x < z
    BY <1>1, <1>4
  <2>2. <<h, y>> \notin Has(n)
    BY DEF Ends, Beside
  <2> HIDE DEF x, z
  <2>3. y \in Nat
    BY <2>1 DEF Sibling
  <2>4. ~ (y < z)
    BY <1>2, <2>2, <2>3 DEF z
  <2>5. z % 2 = 1 /\ x = z - 1
    BY <2>1, <2>4 DEF Sibling
  <2> QED BY <2>5 DEF x, z
<1>6. <<h, at[h]>> \in PeakSet(nodes)
  BY <1>1, <1>3, <1>5
<1> HIDE DEF a, at
<1>7. S = Nat
  <2>1. 0 \in S
    <3> DEFINE x == at[h]
               z == a[h]
    <3>1. x \in Nat /\ z \in Nat /\ z % 2 = 1 /\ x = z - 1 /\ at[h + 1] = x \div 2 /\ a[h + 1] = z \div 2
      BY <1>1, <1>5
    <3> HIDE DEF x, z
    <3>2. x \div 2 = z \div 2 /\ h + 1 + 0 = h + 1
      BY <3>1
    <3> QED BY <3>1, <3>2
  <2>2. ASSUME NEW k \in S PROVE k + 1 \in S
    <3>1. h + 1 + k \in Nat /\ (h + 1 + k) + 1 = h + 1 + (k + 1) /\ k + 1 \in Nat
      OBVIOUS
    <3> QED BY <1>1, <3>1
  <2>3. S \in SUBSET Nat
    OBVIOUS
  <2> HIDE DEF S
  <2> QED BY <2>1, <2>2, <2>3, SetInduction
<1>8. ASSUME NEW x \in PeakSet(nodes), x[2] = at[x[1]] PROVE x = <<h, at[h]>>
  <2> DEFINE r == x[1]
             k == x[2]
  <2>1. r \in Nat /\ k \in Nat /\ x = <<r, k>> /\ k = at[r]
    BY <1>3, <1>8
  <2> HIDE DEF r, k
  <2>2. a[r] % 2 = 1 /\ k = a[r] - 1 /\ a[r] \in Nat
    BY <1>1, <1>3, <2>1
  <2>3. CASE r = h
    BY <2>1, <2>3
  <2>4. CASE r > h
    <3> DEFINE d == r - h - 1
    <3>1. d \in Nat /\ h + 1 + d = r
      BY <2>1, <2>4
    <3> HIDE DEF d
    <3>2. at[r] = a[r]
      <4>1. d \in S
        BY <1>7, <3>1
      <4> QED BY <3>1, <4>1
    <3> DEFINE z == a[r]
    <3>3. z \in Nat /\ k = z /\ k = z - 1
      BY <2>1, <2>2, <3>2
    <3> HIDE DEF z
    <3>4. FALSE
      BY <3>3
    <3> QED BY <3>4
  <2>5. CASE r < h
    <3>1. r + 1 \in 0 .. h
      BY <2>1, <2>5
    <3>2. at[r + 1] < a[r + 1]
      BY <1>4, <3>1
    <3>3. at[r + 1] = k \div 2 /\ a[r + 1] = a[r] \div 2
      BY <1>1, <2>1
    <3> DEFINE z == a[r]
    <3>4. z \in Nat /\ z % 2 = 1 /\ k = z - 1 /\ k \div 2 < z \div 2
      BY <2>2, <3>2, <3>3
    <3> HIDE DEF z
    <3>5. FALSE
      BY <3>4
    <3> QED BY <3>5
  <2> QED BY <2>1, <2>3, <2>4, <2>5
<1> QED BY <1>6, <1>8 DEF at

\* The root with another coin in the leaf.
LEMMA ProofOfLeaf ==
  ASSUME NoBrackets, NEW leaves \in Seq(Coins), NEW e \in 0 .. Len(leaves) - 1, NEW c \in Coins
  PROVE  CalculateProof(GetProof(NodesOf(leaves), e), CoinToMMRData(c))
           = GetRoot(NodesOf([leaves EXCEPT ![e + 1] = c]))
<1> DEFINE n == Len(leaves)
           nodes == NodesOf(leaves)
           others == [leaves EXCEPT ![e + 1] = c]
           after == NodesOf(others)
           leaf == CoinToMMRData(c)
           path == Climb(nodes, e)
           siblings == DataOf(nodes, path)
           new == Joined(e, leaf, siblings)
           peaks == Peaks(nodes)
           N == Len(peaks)
<1>1. n \in Nat /\ n >= 1 /\ e \in Nat
  OBVIOUS
<1>2. /\ others \in Seq(Coins) /\ Len(others) = n /\ others # <<>>
      /\ \A k \in 1 .. n : k # e + 1 => others[k] = leaves[k]
  OBVIOUS
<1>3. IsNodes(nodes, leaves) /\ IsNodes(after, others)
  BY <1>2, NodesOfIs
<1>4. DOMAIN nodes = Has(n) /\ DOMAIN after = Has(n) /\ nodes \in NodeMaps
  BY <1>2, <1>3 DEF IsNodes
<1> HIDE DEF nodes, after, others, leaf
<1>5. Beside(e, n) \notin DOMAIN nodes
  <2>1. Ascent(n)[n] = 0
    BY <1>1, AscentEnds
  <2>2. \A k \in Nat : ~ (k < 0)
    OBVIOUS
  <2> QED BY <1>4, <2>1, <2>2 DEF Beside, Has
<1>6. PICK h \in Nat : Ends(nodes, e, h) /\ Len(path) = h /\ IsPath(nodes, e, h, siblings)
  BY <1>1, <1>4, <1>5, PathIs
<1>7. \A r \in 0 .. h : <<r, Ascent(e)[r]>> \in Has(n) /\ after[<<r, Ascent(e)[r]>>] = new[r]
  <2>1. IsNodes(after, [leaves EXCEPT ![e + 1] = c])
    BY <1>3 DEF others
  <2> HIDE DEF siblings, path, new
  <2>2. LineIs(after, Len(leaves), e, h, Joined(e, CoinToMMRData(c), siblings))
    <3>1. IsNodes(nodes, leaves) /\ Ends(nodes, e, h) /\ IsPath(nodes, e, h, siblings)
      BY <1>3, <1>6
    <3>2. e \in 0 .. Len(leaves) - 1 /\ h \in Nat
      OBVIOUS
    <3> QED BY <2>1, <3>1, <3>2, OnTheLine
  <2>3. new = Joined(e, CoinToMMRData(c), siblings)
    BY DEF new, leaf
  <2> QED BY <2>2, <2>3 DEF LineIs
<1>8. \A r, k \in Nat : <<r, k>> \in Has(n) /\ k # Ascent(e)[r] => after[<<r, k>>] = nodes[<<r, k>>]
  BY <1>1, <1>2, <1>3, OffTheLine
<1> DEFINE top == <<h, Ascent(e)[h]>>
<1>9. top \in PeakSet(nodes) /\ \A x \in PeakSet(nodes) : x[2] = Ascent(e)[x[1]] => x = top
  BY <1>1, <1>4, <1>6, <1>7, LineEnds
<1>10. after[top] = new[h] /\ new \in [0 .. h -> Strings] /\ h \in 0 .. h
  <2>1. leaf \in Strings
    BY LeafType DEF leaf
  <2>2. h \in 0 .. h
    BY <1>6
  <2>3. new \in [0 .. h -> Strings]
    BY <1>1, <1>6, <2>1, JoinedIs DEF IsPath
  <2> QED BY <1>7, <2>2, <2>3
<1>11. ArePeaks(peaks, nodes)
  BY <1>1, <1>4, PeaksIs
<1>12. Peaks(after) = peaks /\ PeakSet(nodes) \subseteq Nat \X Nat /\ PeakSet(nodes) \subseteq Has(n)
  <2>1. DOMAIN after = DOMAIN nodes
    BY <1>4
  <2>2. Peaks(after) = Peaks(nodes)
    BY <2>1, Zenon DEF Peaks
  <2> QED BY <1>1, <1>4, <2>2, PeaksAre DEF PeakSet
<1>13. \A x \in PeakSet(nodes) : x # top => after[x] = nodes[x]
  <2> SUFFICES ASSUME NEW x \in PeakSet(nodes), x # top PROVE after[x] = nodes[x]
    OBVIOUS
  <2>1. x[1] \in Nat /\ x[2] \in Nat /\ x = <<x[1], x[2]>> /\ x \in Has(n)
    BY <1>12
  <2>2. x[2] # Ascent(e)[x[1]]
    BY <1>9
  <2> QED BY <1>8, <2>1, <2>2
<1> HIDE DEF top
<1>14. /\ peaks \in Seq(PeakSet(nodes)) /\ N \in Nat /\ Falls(peaks)
       /\ \A i \in 1 .. N : peaks[i] \in PeakSet(nodes)
       /\ \E i \in 1 .. N : peaks[i] = top
  BY <1>9, <1>11 DEF ArePeaks
<1> DEFINE w == CHOOSE i \in DOMAIN peaks : peaks[i] = top
<1>15. DOMAIN peaks = 1 .. N
  BY <1>14
<1>16. w \in 1 .. N /\ peaks[w] = top
  BY <1>14, <1>15
<1> DEFINE left == DataOf(nodes, SubSeq(peaks, 1, w - 1))
           right == DataOf(nodes, SubSeq(peaks, w + 1, N))
           p == GetProof(nodes, e)
<1>17. p = [entry |-> e, proof |-> siblings, left |-> left, right |-> right]
  <2>1. top = <<Len(path), Ascent(e)[Len(path)]>>
    BY <1>6 DEF top
  <2> QED BY <2>1 DEF GetProof
<1>18. CalculateProof(p, leaf) = Bag(left \o <<new[h]>> \o right)
  <2>1. Len(siblings) = h
    BY <1>6 DEF IsPath
  <2> HIDE DEF siblings, left, right, p
  <2>2. p.entry = e /\ p.proof = siblings /\ p.left = left /\ p.right = right
    BY <1>17
  <2>3. LocalPeak(p, leaf) = new[h]
    BY <2>1, <2>2 DEF LocalPeak
  <2> QED BY <2>2, <2>3 DEF CalculateProof
<1> HIDE DEF w, peaks, siblings, path, new
<1>19. \A x \in DOMAIN nodes : nodes[x] \in Strings
  BY <1>4, MapType
<1>20. /\ left \in Seq(Strings) /\ Len(left) = w - 1
       /\ \A i \in 1 .. w - 1 : left[i] = nodes[peaks[i]]
  <2> DEFINE u == SubSeq(peaks, 1, w - 1)
  <2>1. /\ DOMAIN u = 1 .. w - 1 /\ \A i \in 1 .. w - 1 : u[i] = peaks[i]
    BY <1>14, <1>16
  <2>2. \A i \in 1 .. w - 1 : peaks[i] \in DOMAIN nodes
    <3>1. \A i \in 1 .. w - 1 : i \in 1 .. N
      BY <1>14, <1>16
    <3> QED BY <1>4, <1>12, <1>14, <3>1
  <2> HIDE DEF u
  <2>3. DataOf(nodes, u) = [i \in 1 .. w - 1 |-> nodes[peaks[i]]]
    BY <2>1 DEF DataOf
  <2>4. w - 1 \in Nat /\ \A i \in 1 .. w - 1 : nodes[peaks[i]] \in Strings
    BY <1>14, <1>16, <1>19, <2>2
  <2> QED BY <2>3, <2>4 DEF u
<1>21. /\ right \in Seq(Strings) /\ Len(right) = N - w
       /\ \A i \in 1 .. N - w : right[i] = nodes[peaks[w + i]]
  <2> DEFINE u == SubSeq(peaks, w + 1, N)
  <2>1. /\ DOMAIN u = 1 .. N - w /\ \A i \in 1 .. N - w : u[i] = peaks[w + i]
    BY <1>14, <1>16
  <2>2. \A i \in 1 .. N - w : peaks[w + i] \in DOMAIN nodes
    <3>1. \A i \in 1 .. N - w : w + i \in 1 .. N
      BY <1>14, <1>16
    <3> QED BY <1>4, <1>12, <1>14, <3>1
  <2> HIDE DEF u
  <2>3. DataOf(nodes, u) = [i \in 1 .. N - w |-> nodes[peaks[w + i]]]
    BY <2>1 DEF DataOf
  <2>4. N - w \in Nat /\ \A i \in 1 .. N - w : nodes[peaks[w + i]] \in Strings
    BY <1>14, <1>16, <1>19, <2>2
  <2> QED BY <2>3, <2>4 DEF u
<1> HIDE DEF left, right
<1> DEFINE list == left \o <<new[h]>> \o right
           data == DataOf(after, peaks)
<1>22. data = [i \in 1 .. N |-> after[peaks[i]]]
  BY <1>15 DEF DataOf
<1>23. new[h] \in Strings
  BY <1>10
<1>24. /\ list \in Seq(Strings) /\ Len(list) = N
       /\ \A i \in 1 .. N : list[i] = IF i < w THEN left[i] ELSE IF i = w THEN new[h] ELSE right[i - w]
  <2> DEFINE mid == <<new[h]>>
  <2>1. mid \in Seq(Strings) /\ Len(mid) = 1 /\ mid[1] = new[h]
    BY <1>23
  <2> HIDE DEF mid
  <2>2. /\ left \o mid \in Seq(Strings) /\ Len(left \o mid) = w
        /\ \A i \in 1 .. w : (left \o mid)[i] = IF i < w THEN left[i] ELSE mid[1]
    <3>1. /\ left \o mid \in Seq(Strings) /\ Len(left \o mid) = Len(left) + Len(mid)
          /\ \A i \in 1 .. Len(left) + Len(mid) :
               (left \o mid)[i] = IF i <= Len(left) THEN left[i] ELSE mid[i - Len(left)]
      BY <1>20, <2>1, ConcatProperties
    <3>2. Len(left) + Len(mid) = w /\ w \in Nat
      BY <1>16, <1>20, <2>1
    <3> SUFFICES ASSUME NEW i \in 1 .. w PROVE (left \o mid)[i] = IF i < w THEN left[i] ELSE mid[1]
      BY <3>1, <3>2
    <3>3. (left \o mid)[i] = IF i <= w - 1 THEN left[i] ELSE mid[i - (w - 1)]
      BY <1>20, <3>1, <3>2
    <3>4. (i <= w - 1 <=> i < w) /\ (i = w => i - (w - 1) = 1) /\ (~ (i < w) => i = w)
      BY <3>2
    <3> QED BY <3>3, <3>4
  <2> DEFINE front == left \o mid
  <2> HIDE DEF front
  <2>3. /\ front \o right \in Seq(Strings) /\ Len(front \o right) = N
        /\ \A i \in 1 .. N : (front \o right)[i] = IF i <= w THEN front[i] ELSE right[i - w]
    <3>1. front \in Seq(Strings) /\ Len(front) = w
      BY <2>2 DEF front
    <3>2. /\ front \o right \in Seq(Strings) /\ Len(front \o right) = Len(front) + Len(right)
          /\ \A i \in 1 .. Len(front) + Len(right) :
               (front \o right)[i] = IF i <= Len(front) THEN front[i] ELSE right[i - Len(front)]
      BY <1>21, <3>1, ConcatProperties
    <3>3. Len(front) + Len(right) = N
      BY <1>14, <1>16, <1>21, <3>1
    <3> QED BY <3>1, <3>2, <3>3
  <2> QED BY <1>14, <1>16, <2>1, <2>2, <2>3 DEF front, mid
<1> HIDE DEF list
<1>25. ASSUME NEW i \in 1 .. N PROVE list[i] = after[peaks[i]]
  <2>1. CASE i < w
    <3>1. i \in 1 .. w - 1 /\ list[i] = nodes[peaks[i]]
      BY <1>16, <1>20, <1>24, <2>1
    <3>2. peaks[i] \in PeakSet(nodes) /\ peaks[i] # top
      <4>1. peaks[i][1] > peaks[w][1] /\ peaks[w][1] \in Nat
        BY <1>12, <1>14, <1>16, <2>1 DEF Falls
      <4> QED BY <1>14, <1>16, <4>1
    <3> QED BY <1>13, <3>1, <3>2
  <2>2. CASE i = w
    BY <1>10, <1>16, <1>24, <2>2
  <2>3. CASE i > w
    <3>1. i - w \in 1 .. N - w /\ w + (i - w) = i
      BY <1>14, <1>16, <2>3
    <3>2. list[i] = nodes[peaks[i]]
      <4>1. list[i] = right[i - w]
        BY <1>16, <1>24, <2>3
      <4>2. right[i - w] = nodes[peaks[w + (i - w)]]
        BY <1>21, <3>1
      <4> QED BY <3>1, <4>1, <4>2
    <3>3. peaks[i] \in PeakSet(nodes) /\ peaks[i] # top
      <4>1. peaks[w][1] > peaks[i][1] /\ peaks[w][1] \in Nat
        BY <1>12, <1>14, <1>16, <2>3 DEF Falls
      <4> QED BY <1>14, <1>16, <4>1
    <3> QED BY <1>13, <3>2, <3>3
  <2> QED BY <1>16, <2>1, <2>2, <2>3
<1>26. list = data
  <2>1. list = [i \in 1 .. N |-> list[i]]
    BY <1>24
  <2> QED BY <1>22, <1>25, <2>1
<1>27. GetRoot(after) = Bag(data)
  <2>1. GetRoot(after) = Bag(DataOf(after, Peaks(after)))
    BY <1>2, <1>3, RootSpells
  <2> QED BY <1>12, <2>1
<1> QED BY <1>18, <1>26, <1>27 DEF list, nodes, after, others, leaf

-----------------------------------------------------------------------------
(* The coin MMR.                                                           *)

USE NumbersAssumption, WindowAssumption, MaxLeavesAssumption

(* The last occurrence of a coin in a list.                                *)

LEMMA BoundedSetHasMax ==
  ASSUME NEW n \in Nat, NEW T \in SUBSET (1 .. n), T # {}
  PROVE  \E x \in T : \A y \in T : y <= x
<1> DEFINE S == {m \in Nat : \A U \in SUBSET (1 .. m) :
                               U # {} => \E x \in U : \A y \in U : y <= x}
<1>1. 0 \in S
  <2>1. 1 .. 0 = {}
    OBVIOUS
  <2> QED BY <2>1
<1>2. ASSUME NEW m \in S PROVE m + 1 \in S
  <2> SUFFICES ASSUME NEW U \in SUBSET (1 .. (m + 1)), U # {}
               PROVE  \E x \in U : \A y \in U : y <= x
    OBVIOUS
  <2>1. CASE m + 1 \in U
    BY <2>1
  <2>2. CASE m + 1 \notin U
    <3>1. U \in SUBSET (1 .. m)
      BY <2>2
    <3> QED BY <3>1
  <2> QED BY <2>1, <2>2
<1> HIDE DEF S
<1>3. S \in SUBSET Nat
  BY DEF S
<1>4. S = Nat
  BY <1>1, <1>2, <1>3, SetInduction
<1> QED BY <1>4 DEF S

LEMMA LastAtIsLast ==
  ASSUME NEW cs \in Seq(Coins), NEW c \in Coins, \E i \in DOMAIN cs : cs[i] = c
  PROVE  /\ LastAt(cs, c) \in DOMAIN cs
         /\ cs[LastAt(cs, c)] = c
         /\ \A j \in DOMAIN cs : cs[j] = c => j <= LastAt(cs, c)
<1> DEFINE T == {i \in DOMAIN cs : cs[i] = c}
<1>1. Len(cs) \in Nat /\ DOMAIN cs = 1 .. Len(cs)
  OBVIOUS
<1>2. T \in SUBSET (1 .. Len(cs)) /\ T # {}
  BY <1>1
<1>3. \E x \in T : \A y \in T : y <= x
  BY <1>1, <1>2, BoundedSetHasMax
<1>4. \E i \in DOMAIN cs : cs[i] = c /\ \A j \in DOMAIN cs : cs[j] = c => j <= i
  BY <1>3
<1> QED BY <1>4 DEF LastAt

-----------------------------------------------------------------------------
(* What the operations preserve.                                           *)

\* A record whose index names newest leaves, and no leaf is spent that does
\* not exist: a new leaf starts out unspent.
Good(m) ==
  /\ m \in MMRs
  /\ Indexed(m)
  /\ m.spent \subseteq 1 .. Len(m.leaves)

LEMMA EmptyIsGood == Good(EmptyMMR) /\ Unspent(EmptyMMR) = {}
  BY DEF Good, EmptyMMR, MMRs, Indexed, Unspent

LEMMA RecordIsMMR ==
  ASSUME NEW l \in Seq(Coins), NEW sp \in SUBSET Nat, NEW ix \in [Coins -> Nat]
  PROVE  [leaves |-> l, spent |-> sp, idx |-> ix] \in MMRs
  BY DEF MMRs

\* Two coins never share a leaf.
LEMMA IndexIsInjective ==
  ASSUME NEW m, Good(m), NEW c \in Coins, NEW d \in Coins,
         m.idx[c] # 0, m.idx[c] = m.idx[d]
  PROVE  c = d
  BY DEF Good, Indexed

\* Spending changes the state of the named coins and of no other.
LEMMA SpendCoinsIsRight ==
  ASSUME NEW m, Good(m), NEW cs \in SUBSET Coins
  PROVE  Good(SpendCoins(m, cs)) /\ Unspent(SpendCoins(m, cs)) = Unspent(m) \ cs
<1> DEFINE s == SpendCoins(m, cs)
<1> DEFINE sp == m.spent \cup {m.idx[c] : c \in Tracked(m, cs)}
<1>1. /\ s = [leaves |-> m.leaves, spent |-> sp, idx |-> m.idx]
      /\ s.leaves = m.leaves /\ s.idx = m.idx /\ s.spent = sp
  <2>1. s = [m EXCEPT !.spent = sp]
    BY DEF SpendCoins
  <2> HIDE DEF sp, s
  <2>2. m \in [leaves : Seq(Coins), spent : SUBSET Nat, idx : [Coins -> Nat]]
    BY DEF Good, MMRs
  <2> QED BY <2>1, <2>2
<1>2. \A c \in Tracked(m, cs) : m.idx[c] \in 1 .. Len(m.leaves)
  BY DEF Tracked, Good, MMRs, Indexed
<1>3. s.spent \subseteq 1 .. Len(m.leaves)
  BY <1>1, <1>2 DEF Good
<1>4. Good(s)
  <2>1. s \in MMRs
    BY <1>1, <1>3 DEF Good, MMRs
  <2>2. Indexed(s)
    BY <1>1 DEF Good, Indexed
  <2> QED BY <2>1, <2>2, <1>1, <1>3 DEF Good
<1>5. ASSUME NEW c \in Coins, m.idx[c] # 0
      PROVE  m.idx[c] \in s.spent <=> m.idx[c] \in m.spent \/ c \in cs
  <2>1. c \in cs => m.idx[c] \in s.spent
    BY <1>1, <1>5 DEF Tracked
  <2>2. ASSUME m.idx[c] \in s.spent, m.idx[c] \notin m.spent PROVE c \in cs
    <3>1. PICK d \in Tracked(m, cs) : m.idx[c] = m.idx[d]
      BY <1>1, <2>2
    <3>2. d \in Coins /\ d \in cs
      BY DEF Tracked
    <3>3. c = d
      BY <1>5, <3>1, <3>2, IndexIsInjective
    <3> QED BY <3>2, <3>3
  <2> QED BY <1>1, <2>1, <2>2
<1>6. Unspent(s) = Unspent(m) \ cs
  <2>1. \A c \in Coins : s.idx[c] = m.idx[c]
    BY <1>1
  <2> HIDE DEF s
  <2> QED BY <1>5, <2>1 DEF Unspent
<1> QED BY <1>4, <1>6

\* Adding gives each coin a new, unspent leaf.
LEMMA AddCoinsIsRight ==
  ASSUME NEW m, Good(m), NEW cs \in Seq(Coins)
  PROVE  /\ Good(AddCoins(m, cs))
         /\ Unspent(AddCoins(m, cs)) = Unspent(m) \cup Range(cs)
<1> DEFINE a == AddCoins(m, cs)
           n == Len(m.leaves)
           k == Len(cs)
<1>1. /\ m.leaves \in Seq(Coins) /\ n \in Nat /\ k \in Nat
      /\ DOMAIN m.leaves = 1 .. n /\ DOMAIN cs = 1 .. k
      /\ m.spent \subseteq 1 .. n /\ m.idx \in [Coins -> Nat]
  BY DEF Good, MMRs
<1>2. /\ a.leaves = m.leaves \o cs /\ a.spent = m.spent
      /\ a.leaves \in Seq(Coins) /\ Len(a.leaves) = n + k
      /\ DOMAIN a.leaves = 1 .. (n + k)
      /\ \A i \in 1 .. n : a.leaves[i] = m.leaves[i]
      /\ \A i \in 1 .. k : a.leaves[n + i] = cs[i]
  BY <1>1 DEF AddCoins
<1>3. ASSUME NEW c \in Coins, \E i \in DOMAIN cs : cs[i] = c
      PROVE  /\ a.idx[c] = n + LastAt(cs, c)
             /\ LastAt(cs, c) \in 1 .. k /\ cs[LastAt(cs, c)] = c
             /\ \A j \in 1 .. k : cs[j] = c => j <= LastAt(cs, c)
  <2>1. a.idx[c] = n + LastAt(cs, c)
    BY <1>3 DEF AddCoins
  <2> QED BY <2>1, <1>1, <1>3, LastAtIsLast
<1>4. ASSUME NEW c \in Coins, ~ \E i \in DOMAIN cs : cs[i] = c
      PROVE  a.idx[c] = m.idx[c]
  BY <1>4 DEF AddCoins
<1>5. a \in MMRs
  <2>1. \A c \in Coins : a.idx[c] \in Nat
    BY <1>1, <1>3, <1>4
  <2>2. a.idx \in [Coins -> Nat]
    <3>1. a.idx = [c \in Coins |-> a.idx[c]]
      BY DEF AddCoins
    <3> HIDE DEF a
    <3> QED BY <3>1, <2>1
  <2>3. a = [leaves |-> a.leaves, spent |-> a.spent, idx |-> a.idx]
    BY DEF AddCoins
  <2>4. a.leaves \in Seq(Coins) /\ a.spent \in SUBSET Nat
    BY <1>1, <1>2
  <2> HIDE DEF a
  <2>5. [leaves |-> a.leaves, spent |-> a.spent, idx |-> a.idx] \in MMRs
    BY <2>2, <2>4, RecordIsMMR
  <2> QED BY <2>3, <2>5
<1>6. m.spent \subseteq 1 .. n
  BY <1>1
<1> HIDE DEF a
<1>7. Indexed(a)
  <2> SUFFICES ASSUME NEW c \in Coins
               PROVE  IF a.idx[c] = 0 THEN \A i \in DOMAIN a.leaves : a.leaves[i] # c
                      ELSE /\ a.idx[c] \in DOMAIN a.leaves
                           /\ a.leaves[a.idx[c]] = c
                           /\ \A i \in DOMAIN a.leaves : a.leaves[i] = c => i <= a.idx[c]
    BY DEF Indexed
  <2>0. \A i \in 1 .. (n + k) : i \in 1 .. n \/ (i - n \in 1 .. k /\ i = n + (i - n))
    BY <1>1
  <2>1. CASE \E i \in DOMAIN cs : cs[i] = c
    <3> DEFINE l == LastAt(cs, c)
    <3>1. /\ a.idx[c] = n + l /\ l \in 1 .. k /\ cs[l] = c
          /\ \A j \in 1 .. k : cs[j] = c => j <= l
      BY <2>1, <1>3
    <3> HIDE DEF l
    <3>2. a.idx[c] \in 1 .. (n + k) /\ a.idx[c] # 0 /\ a.leaves[a.idx[c]] = c
      BY <3>1, <1>1, <1>2
    <3>3. ASSUME NEW i \in 1 .. (n + k), a.leaves[i] = c PROVE i <= a.idx[c]
      <4>1. CASE i \in 1 .. n
        BY <4>1, <3>1, <1>1
      <4>2. CASE i - n \in 1 .. k /\ i = n + (i - n)
        <5>1. cs[i - n] = c
          BY <4>2, <3>3, <1>2
        <5> QED BY <5>1, <4>2, <3>1, <1>1
      <4> QED BY <4>1, <4>2, <2>0
    <3> QED BY <3>2, <3>3, <1>2
  <2>2. CASE ~ \E i \in DOMAIN cs : cs[i] = c
    <3>1. a.idx[c] = m.idx[c]
      BY <2>2, <1>4
    <3>2. ASSUME NEW i \in 1 .. (n + k), a.leaves[i] = c
          PROVE  i \in 1 .. n /\ m.leaves[i] = c
      <4>1. CASE i \in 1 .. n
        BY <4>1, <3>2, <1>2
      <4>2. CASE i - n \in 1 .. k /\ i = n + (i - n)
        <5>1. cs[i - n] = c
          BY <4>2, <3>2, <1>2
        <5> QED BY <5>1, <4>2, <2>2, <1>1
      <4> QED BY <4>1, <4>2, <2>0
    <3>3. IF m.idx[c] = 0 THEN \A i \in 1 .. n : m.leaves[i] # c
          ELSE /\ m.idx[c] \in 1 .. n /\ m.leaves[m.idx[c]] = c
               /\ \A i \in 1 .. n : m.leaves[i] = c => i <= m.idx[c]
      BY <1>1 DEF Good, Indexed
    <3>4. CASE m.idx[c] = 0
      BY <3>1, <3>2, <3>3, <3>4, <1>2
    <3>5. CASE m.idx[c] # 0
      <4>1. a.idx[c] \in 1 .. (n + k) /\ a.leaves[a.idx[c]] = c
        BY <3>1, <3>3, <3>5, <1>1, <1>2
      <4> QED BY <4>1, <3>1, <3>2, <3>3, <3>5, <1>2
    <3> QED BY <3>4, <3>5
  <2> QED BY <2>1, <2>2
<1>8. Good(a)
  <2>1. a.spent \subseteq 1 .. Len(a.leaves)
    BY <1>1, <1>2
  <2> QED BY <2>1, <1>5, <1>7 DEF Good
<1>9. ASSUME NEW c \in Coins
      PROVE  c \in Unspent(a) <=> c \in Unspent(m) \/ c \in Range(cs)
  <2>1. CASE \E i \in DOMAIN cs : cs[i] = c
    <3>1. a.idx[c] # 0 /\ a.idx[c] \notin m.spent
      BY <2>1, <1>3, <1>1
    <3>2. c \in Range(cs)
      BY <2>1 DEF Range
    <3> QED BY <3>1, <3>2, <1>2 DEF Unspent
  <2>2. CASE ~ \E i \in DOMAIN cs : cs[i] = c
    <3>1. c \notin Range(cs)
      BY <2>2 DEF Range
    <3> QED BY <3>1, <2>2, <1>2, <1>4 DEF Unspent
  <2> QED BY <2>1, <2>2
<1>10. Range(cs) \subseteq Coins /\ Unspent(a) \subseteq Coins /\ Unspent(m) \subseteq Coins
  BY <1>1 DEF Range, Unspent
<1>11. Unspent(a) = Unspent(m) \cup Range(cs)
  BY <1>9, <1>10
<1> QED BY <1>8, <1>11 DEF a

\* The index holds what it held, and what was added.
LEMMA AddCoinsTracks ==
  ASSUME NEW m, Good(m), NEW cs \in Seq(Coins), NEW c \in Coins
  PROVE  AddCoins(m, cs).idx[c] # 0 <=> m.idx[c] # 0 \/ c \in Range(cs)
<1>1. Len(m.leaves) \in Nat /\ m.idx[c] \in Nat /\ DOMAIN cs = 1 .. Len(cs) /\ Len(cs) \in Nat
  BY DEF Good, MMRs
<1>2. AddCoins(m, cs).idx[c] =
        IF \E i \in DOMAIN cs : cs[i] = c THEN Len(m.leaves) + LastAt(cs, c) ELSE m.idx[c]
  BY DEF AddCoins
<1>3. (\E i \in DOMAIN cs : cs[i] = c) => LastAt(cs, c) \in DOMAIN cs
  BY LastAtIsLast
<1>4. c \in Range(cs) <=> \E i \in DOMAIN cs : cs[i] = c
  BY DEF Range
<1> QED BY <1>1, <1>2, <1>3, <1>4

\* A block takes what it spends and puts what it creates.
LEMMA ProcessBlockIsRight ==
  ASSUME NEW m, Good(m), NEW spends \in SUBSET Coins, NEW creates \in Seq(Coins)
  PROVE  /\ Good(ProcessBlock(m, spends, creates))
         /\ Unspent(ProcessBlock(m, spends, creates))
              = (Unspent(m) \ spends) \cup Range(creates)
<1> DEFINE s == SpendCoins(m, spends)
<1>1. Good(s) /\ Unspent(s) = Unspent(m) \ spends
  BY SpendCoinsIsRight
<1> HIDE DEF s
<1>2. Good(AddCoins(s, creates)) /\ Unspent(AddCoins(s, creates)) = Unspent(s) \cup Range(creates)
  BY <1>1, AddCoinsIsRight
<1> QED BY <1>1, <1>2 DEF ProcessBlock, s

\* The outputs Next chooses are lists of coins.
LEMMA CreatesAreLists ==
  ASSUME NEW creates \in UNION {[1 .. n -> Coins] : n \in 0 .. 2}
  PROVE  creates \in Seq(Coins) /\ Range(creates) \in SUBSET Coins
<1>1. PICK n \in 0 .. 2 : creates \in [1 .. n -> Coins]
  OBVIOUS
<1>2. n \in Nat
  OBVIOUS
<1>3. creates \in Seq(Coins)
  BY <1>1, <1>2
<1>4. Range(creates) \in SUBSET Coins
  BY <1>1 DEF Range
<1> QED BY <1>3, <1>4

-----------------------------------------------------------------------------
(* The invariant: the live record and every snapshot of it are good.       *)

Inv ==
  /\ Good(mmr)
  /\ \A n \in DOMAIN checkpoints : Good(checkpoints[n])

LEMMA NoCheckpoints == DOMAIN <<>> = {}
  OBVIOUS

LEMMA InitInv == Init => Inv
  BY EmptyIsGood, NoCheckpoints DEF Init, Inv

\* The packet carries the leaves, their spent flags and the index.
LEMMA SyncIsRight ==
  ASSUME NEW m, Good(m)
  PROVE  ApplySyncPacket(GetSyncPacket(m)) = m
<1> DEFINE p == GetSyncPacket(m)
           r == ApplySyncPacket(p)
<1>1. /\ m.leaves \in Seq(Coins) /\ m.spent \subseteq 1 .. Len(m.leaves)
      /\ m.spent \in SUBSET Nat /\ m.idx \in [Coins -> Nat]
      /\ DOMAIN m.leaves = 1 .. Len(m.leaves)
  BY DEF Good, MMRs
<1>2. /\ DOMAIN p.leaves = DOMAIN m.leaves
      /\ \A i \in DOMAIN m.leaves :
           p.leaves[i].hash = m.leaves[i] /\ (p.leaves[i].spent <=> i \in m.spent)
      /\ p.index = {<<c, m.idx[c]>> : c \in Tracked(m, Coins)}
  BY DEF GetSyncPacket
<1> HIDE DEF p
<1>3. [i \in DOMAIN p.leaves |-> p.leaves[i].hash] = m.leaves
  <2>1. m.leaves = [i \in DOMAIN m.leaves |-> m.leaves[i]]
    BY <1>1
  <2>2. [i \in DOMAIN p.leaves |-> p.leaves[i].hash] = [i \in DOMAIN m.leaves |-> m.leaves[i]]
    BY <1>2
  <2> QED BY <2>1, <2>2
<1>4. {i \in DOMAIN p.leaves : p.leaves[i].spent} = m.spent
  BY <1>1, <1>2
<1>5. ASSUME NEW c \in Coins
      PROVE  (IF \E e \in p.index : e[1] = c
              THEN (CHOOSE e \in p.index : e[1] = c)[2] ELSE 0) = m.idx[c]
  <2>1. CASE c \in Tracked(m, Coins)
    <3>1. <<c, m.idx[c]>> \in p.index
      BY <1>2, <2>1
    <3>2. \A e \in p.index : e[1] = c => e[2] = m.idx[c]
      BY <1>2
    <3> QED BY <3>1, <3>2
  <2>2. CASE c \notin Tracked(m, Coins)
    <3>1. m.idx[c] = 0
      BY <2>2, <1>1 DEF Tracked
    <3>2. ~ \E e \in p.index : e[1] = c
      BY <1>2, <2>2
    <3> QED BY <3>1, <3>2
  <2> QED BY <2>1, <2>2
<1>6. [c \in Coins |-> IF \E e \in p.index : e[1] = c
                       THEN (CHOOSE e \in p.index : e[1] = c)[2] ELSE 0] = m.idx
  <2> DEFINE f == [c \in Coins |-> IF \E e \in p.index : e[1] = c
                       THEN (CHOOSE e \in p.index : e[1] = c)[2] ELSE 0]
  <2>1. \A c \in Coins : f[c] = m.idx[c]
    BY <1>5
  <2>2. f = [c \in Coins |-> f[c]]
    OBVIOUS
  <2> HIDE DEF f
  <2>3. f = m.idx
    BY <2>1, <2>2, <1>1
  <2> QED BY <2>3 DEF f
<1>7. r = [leaves |-> m.leaves, spent |-> m.spent, idx |-> m.idx]
  BY <1>3, <1>4, <1>6 DEF ApplySyncPacket
<1>8. m = [leaves |-> m.leaves, spent |-> m.spent, idx |-> m.idx]
  BY DEF Good, MMRs
<1> QED BY <1>7, <1>8 DEF r, p

LEMMA StepInv == Inv /\ [Next]_vars => Inv'
<1> SUFFICES ASSUME Inv, [Next]_vars PROVE Inv'
  OBVIOUS
<1>1. ASSUME NEW spends \in SUBSET Coins,
             NEW creates \in UNION {[1 .. n -> Coins] : n \in 0 .. 2},
             Process(spends, creates)
      PROVE  Inv'
  <2>1. Good(mmr')
    BY <1>1, CreatesAreLists, ProcessBlockIsRight DEF Inv, Process
  <2> QED BY <1>1, <2>1 DEF Inv, Process
<1>2. ASSUME NEW n \in Numbers, Save(n) PROVE Inv'
  BY <1>2 DEF Inv, Save, Checkpoint
<1>3. ASSUME NEW n \in Numbers, Rollback(n) PROVE Inv'
  BY <1>3 DEF Inv, Rollback
<1>4. ASSUME NEW n \in Numbers, Prune(n) PROVE Inv'
  BY <1>4 DEF Inv, Prune, PruneCheckpoints
<1>5. CASE Reset
  BY <1>5, EmptyIsGood, NoCheckpoints DEF Inv, Reset
<1>6. CASE Sync
  BY <1>6, SyncIsRight, NoCheckpoints DEF Inv, Sync
<1>7. CASE UNCHANGED vars
  BY <1>7 DEF Inv, vars
<1> QED BY <1>1, <1>2, <1>3, <1>4, <1>5, <1>6, <1>7 DEF Next

\* m_idx names the newest leaf of every coin, in the live MMR and in every
\* checkpoint, after any series of blocks, snapshots, rollbacks, syncs and resets.
THEOREM IndexIsRight == Spec => []IndexIsNewest
<1>1. Inv => IndexIsNewest
  BY DEF Inv, Good, IndexIsNewest
<1> QED BY <1>1, InitInv, StepInv, PTL DEF Spec

-----------------------------------------------------------------------------
(* The refinement.                                                         *)

LEMMA InitRefines == Init => Ledger!Init
<1> SUFFICES ASSUME Init PROVE Ledger!Init
  OBVIOUS
<1>1. Unspent(mmr) = {}
  BY EmptyIsGood DEF Init
<1>2. [n \in DOMAIN checkpoints |-> Unspent(checkpoints[n])] = <<>>
  BY NoCheckpoints DEF Init
<1> QED BY <1>1, <1>2 DEF Init, Ledger!Init

LEMMA StepRefines == Inv /\ [Next]_vars => [Ledger!Next]_(Ledger!vars)
<1> SUFFICES ASSUME Inv, [Next]_vars PROVE [Ledger!Next]_(Ledger!vars)
  OBVIOUS
<1> USE DEF Ledger!Next, Ledger!vars
<1>1. ASSUME NEW spends \in SUBSET Coins,
             NEW creates \in UNION {[1 .. n -> Coins] : n \in 0 .. 2},
             Process(spends, creates)
      PROVE  Ledger!Next
  <2>1. Unspent(mmr') = (Unspent(mmr) \ spends) \cup Range(creates)
    BY <1>1, CreatesAreLists, ProcessBlockIsRight DEF Inv, Process
  <2>2. Ledger!Apply(spends, Range(creates))
    BY <1>1, <2>1 DEF Process, Ledger!Apply
  <2> QED BY <2>2, CreatesAreLists
<1>2. ASSUME NEW n \in Numbers, Save(n) PROVE Ledger!Next
  <2>1. Ledger!Save(n)
    BY <1>2 DEF Save, Checkpoint, Ledger!Save
  <2> QED BY <2>1
<1>3. ASSUME NEW n \in Numbers, Rollback(n) PROVE Ledger!Next
  <2>1. Ledger!Restore(n)
    BY <1>3 DEF Rollback, Ledger!Restore
  <2> QED BY <2>1
<1>4. ASSUME NEW n \in Numbers, Prune(n) PROVE Ledger!Next
  <2>1. Ledger!Forget(n)
    BY <1>4 DEF Prune, PruneCheckpoints, Ledger!Forget
  <2> QED BY <2>1
<1>5. ASSUME Reset PROVE Ledger!Next
  <2>1. Unspent(mmr') = {}
    BY <1>5, EmptyIsGood DEF Reset
  <2>2. [n \in DOMAIN checkpoints' |-> Unspent(checkpoints'[n])] = <<>>
    BY <1>5, NoCheckpoints DEF Reset
  <2>3. Ledger!Reset
    BY <1>5, <2>1, <2>2 DEF Reset, Ledger!Reset
  <2> QED BY <2>3
<1>6. ASSUME Sync PROVE Ledger!Next
  <2>1. Unspent(mmr') = Unspent(mmr)
    BY <1>6, SyncIsRight DEF Inv, Sync
  <2>2. [n \in DOMAIN checkpoints' |-> Unspent(checkpoints'[n])] = <<>>
    BY <1>6, NoCheckpoints DEF Sync
  <2>3. Ledger!HandOver
    BY <1>6, <2>1, <2>2 DEF Sync, Ledger!HandOver
  <2> QED BY <2>3
<1>7. ASSUME UNCHANGED vars PROVE UNCHANGED Ledger!vars
  BY <1>7 DEF vars, Unspent
<1> QED BY <1>1, <1>2, <1>3, <1>4, <1>5, <1>6, <1>7 DEF Next

\* The MMR with its index and its snapshots behaves as a set of unspent coins
\* with saved copies, for any coins, window and number of leaves.
THEOREM MMRIsLedger == Spec => ImplementsLedger
<1> QED BY InitInv, StepInv, InitRefines, StepRefines, PTL
        DEF Spec, ImplementsLedger, Ledger!Spec

-----------------------------------------------------------------------------
(* The proofs of coins. *)

\* A proof of a coin holds for what stands at its leaf, for any coins, any number
\* of leaves and any checkpoints.  By ProofOfLeaf it computes the root of the leaves
\* it was made of with the other coin in this place, and by RootIsInjective
\* that is the root of the MMR only if it has these leaves.
THEOREM ProofsShowTheLeaf == NoBrackets => (Spec => []CoinsAreProved)
<1> SUFFICES ASSUME NoBrackets PROVE Spec => []CoinsAreProved
  OBVIOUS
<1>1. ASSUME NEW m, Good(m), Good(mmr), NEW c \in DOMAIN GetCoinProof(m), NEW d \in Coins
      PROVE  VerifyCoinProof(GetRoot(NodesOf(mmr.leaves)), d, GetCoinProof(m)[c])
               <=> [m.leaves EXCEPT ![m.idx[c]] = d] = mmr.leaves
  <2> DEFINE e == m.idx[c] - 1
             others == [m.leaves EXCEPT ![m.idx[c]] = d]
  <2>1. c \in Coins /\ m.idx[c] # 0 /\ GetCoinProof(m)[c] = GetProof(NodesOf(m.leaves), e)
    <3>1. GetCoinProof(m) = [k \in Tracked(m, Coins) |-> GetProof(NodesOf(m.leaves), m.idx[k] - 1)]
      BY DEF GetCoinProof
    <3>2. c \in Tracked(m, Coins)
      BY <1>1, <3>1
    <3> QED BY <3>1, <3>2 DEF Tracked
  <2>2. /\ m.leaves \in Seq(Coins) /\ mmr.leaves \in Seq(Coins)
        /\ m.idx[c] \in 1 .. Len(m.leaves)
    BY <1>1, <2>1 DEF Good, MMRs, Indexed
  <2>3. e \in 0 .. Len(m.leaves) - 1 /\ e + 1 = m.idx[c]
    BY <2>2
  <2>4. others \in Seq(Coins)
    BY <2>2
  <2> HIDE DEF e
  <2>5. CalculateProof(GetCoinProof(m)[c], CoinToMMRData(d)) = GetRoot(NodesOf(others))
    BY <1>1, <2>1, <2>2, <2>3, ProofOfLeaf
  <2> HIDE DEF others
  <2>6. GetRoot(NodesOf(others)) = GetRoot(NodesOf(mmr.leaves)) <=> others = mmr.leaves
    BY <2>2, <2>4, RootIsInjective
  <2> QED BY <2>5, <2>6 DEF VerifyCoinProof, others
<1>2. Inv => CoinsAreProved
  <2> SUFFICES ASSUME Inv, NEW m \in {mmr} \cup Range(checkpoints),
                      NEW c \in DOMAIN GetCoinProof(m), NEW d \in Coins
               PROVE  VerifyCoinProof(GetRoot(NodesOf(mmr.leaves)), d, GetCoinProof(m)[c])
                        <=> [m.leaves EXCEPT ![m.idx[c]] = d] = mmr.leaves
    BY DEF CoinsAreProved
  <2>1. Good(mmr) /\ Good(m)
    BY DEF Inv, Range
  <2> QED BY <1>1, <2>1
<1> QED BY <1>2, InitInv, StepInv, PTL DEF Spec
=============================================================================
