------------------------------ MODULE Mempool ------------------------------
(***************************************************************************)
(* The pool of pending transactions of mempool/Mempool.hpp.                *)
(*                                                                         *)
(* Three containers describe the same set of transactions and must agree:  *)
(* m_byID, the coins reserved in m_spentInPool, and the deque m_order.     *)
(* They are the fields of one record, so that a caller can run several     *)
(* operations in one handler.                                              *)
(***************************************************************************)
EXTENDS Integers, Sequences, Functions

CONSTANTS
  Txns,        \* ids of transactions
  Coins,       \* coin ids
  Inputs,      \* Inputs[tx] = the coins that tx spends
  Capacity     \* m_capacity

ASSUME InputsAssumption == Inputs \in [Txns -> SUBSET Coins]
\* With a capacity of zero add would call front() on an empty deque.
ASSUME CapacityAssumption == Capacity \in Nat \ {0}

VARIABLE pool

Pools == [byID : SUBSET Txns, spentInPool : SUBSET Coins, order : Seq(Txns)]

EmptyPool == [byID |-> {}, spentInPool |-> {}, order |-> <<>>]

CoinsOf(txs) == UNION {Inputs[x] : x \in txs}
-----------------------------------------------------------------------------
(* The deque after some of its entries are erased: the surviving positions  *)
(* in increasing order.                                                     *)

Kept(s, gone) == {i \in DOMAIN s : s[i] \notin gone}

Enumerates(h, K) ==
  /\ \A i, j \in DOMAIN h : i < j => h[i] < h[j]
  /\ Range(h) = K

Positions(s, gone) ==
  CHOOSE h \in UNION {[1 .. n -> Kept(s, gone)] : n \in 0 .. Len(s)} :
    Enumerates(h, Kept(s, gone))

Without(s, gone) ==
  LET h == Positions(s, gone) IN [i \in DOMAIN h |-> s[h[i]]]
-----------------------------------------------------------------------------
(* Operations.                                                              *)

\* Mutant: the inputs stay reserved.
EvictKeepingCoins(p, gone) ==
  [p EXCEPT !.byID = @ \ gone, !.order = Without(@, gone)]

\* _evict for every id of gone, in any order; ids that are not pending are
\* left out by its early return.
Evict(p, gone) ==
  LET out == gone \cap p.byID IN
    [byID        |-> p.byID \ out,
     spentInPool |-> p.spentInPool \ CoinsOf(out),
     order       |-> Without(p.order, out)]

\* Mutant: add looks for a duplicate only.
RefusesDuplicates(p, tx) == tx \in p.byID

\* add returns false: a duplicate, or an input another pending one reserves.
Refuses(p, tx) == tx \in p.byID \/ Inputs[tx] \cap p.spentInPool # {}

\* The oldest entry makes room in a full pool.
MakeRoom(p) ==
  IF Len(p.order) >= Capacity THEN Evict(p, {Head(p.order)}) ELSE p

\* Mutant: the entry goes to the front of the deque.
InsertInFront(p, tx) ==
  [byID        |-> p.byID \cup {tx},
   spentInPool |-> p.spentInPool \cup Inputs[tx],
   order       |-> <<tx>> \o p.order]

Insert(p, tx) ==
  [byID        |-> p.byID \cup {tx},
   spentInPool |-> p.spentInPool \cup Inputs[tx],
   order       |-> Append(p.order, tx)]

AddTo(p, tx) == IF Refuses(p, tx) THEN p ELSE Insert(MakeRoom(p), tx)

\* The pending transactions that spend a coin the accepted block spends.
Conflicting(p, coins) == {x \in p.byID : Inputs[x] \cap coins # {}}

-----------------------------------------------------------------------------
PoolInit == pool = EmptyPool

Add(tx) == pool' = AddTo(pool, tx)

Remove(tx) == pool' = Evict(pool, {tx})

OnBlockAccepted(coins) == pool' = Evict(pool, Conflicting(pool, coins))

PoolNext ==
  \/ \E tx \in Txns : Add(tx) \/ Remove(tx)
  \/ \E coins \in SUBSET Coins : OnBlockAccepted(coins)

PoolSpec == PoolInit /\ [][PoolNext]_pool
-----------------------------------------------------------------------------
(* Properties.                                                              *)

\* The three containers have their types.
PoolTypeOK == pool \in Pools

\* No coin is spent by two pending transactions, whatever was evicted,
\* removed and added again in between (the double-spend check of add).
NoDoubleSpend ==
  \A x, y \in pool.byID : x # y => Inputs[x] \cap Inputs[y] = {}

\* The reserved coins are exactly the inputs of the pending transactions: a
\* coin left reserved would shut out its later spender for good, a coin freed
\* too early would let a double spend in.
SpentIsExact == pool.spentInPool = CoinsOf(pool.byID)

\* The deque lists every pending transaction exactly once; a stale or missing
\* entry would make the FIFO eviction free the wrong transaction or none.
OrderMatches == Range(pool.order) = pool.byID /\ IsInjective(pool.order)

\* The pool never holds more than its capacity.
WithinCapacity == Len(pool.order) <= Capacity

\* Transactions that stay pending keep their relative age and a new one is
\* the youngest, so eviction is first in, first out over any history of
\* removals.
Older(p, x, y) == \E i, j \in DOMAIN p.order :
                    i < j /\ p.order[i] = x /\ p.order[j] = y
AgesKept ==
  [][\A x \in pool.byID \cap pool'.byID, y \in pool'.byID :
       IF y \in pool.byID THEN Older(pool, x, y) <=> Older(pool', x, y)
                          ELSE Older(pool', x, y)]_pool
=============================================================================
