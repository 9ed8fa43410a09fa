------------------------------ MODULE MegaMMR ------------------------------
(***************************************************************************)
(* The global coin MMR of mmr/MegaMMR.hpp, and the leaf interface of       *)
(* mmr/MMRSet.cpp it is built on.                                          *)
(*                                                                         *)
(* An MMR is its row of leaves: leaves are only appended, and updateLeaf   *)
(* replaces the data of one, here only its spent flag.  The rows above are *)
(* a function of the leaves and carry no state of their own.  The same     *)
(* record serves the per-block MMRSet of database/MinimaDB.hpp, whose      *)
(* m_coinToMMREntry plays the part of m_idx.                               *)
(***************************************************************************)
EXTENDS Integers, Sequences, Functions

CONSTANTS
  Coins,       \* coin ids, and whatever else a caller puts into a leaf
  Numbers,     \* block numbers
  Window,      \* the keepDepth argument of pruneCheckpoints
  MaxLeaves    \* bound on the number of leaves a behaviour creates

ASSUME NumbersAssumption == Numbers \subseteq Int
ASSUME WindowAssumption == Window \in Nat
ASSUME MaxLeavesAssumption == MaxLeaves \in Nat

VARIABLES
  mmr,         \* m_mmr and m_idx
  checkpoints, \* m_checkpoints: a map from block numbers to such records
  input        \* history: the last call and its arguments

vars == <<mmr, checkpoints, input>>

MMRs == [leaves : Seq(Coins), spent : SUBSET Nat, idx : [Coins -> Nat]]

\* idx[c] = 0 stands for a coin m_idx does not hold; leaves count from 1.
EmptyMMR == [leaves |-> <<>>, spent |-> {}, idx |-> [c \in Coins |-> 0]]
-----------------------------------------------------------------------------
(* Operations.                                                             *)

AddLeaf(m, x) == [m EXCEPT !.leaves = Append(@, x)]

\* The last position of a coin in the list of a block's outputs.
LastAt(cs, c) ==
  CHOOSE i \in DOMAIN cs :
    cs[i] = c /\ \A j \in DOMAIN cs : cs[j] = c => j <= i

\* addCoin for each coin: one that is added again gets another leaf, and m_idx
\* forgets the earlier one.
AddCoins(m, cs) ==
  [leaves |-> m.leaves \o cs,
   spent  |-> m.spent,
   idx    |-> [c \in Coins |->
                 IF \E i \in DOMAIN cs : cs[i] = c
                 THEN Len(m.leaves) + LastAt(cs, c)
                 ELSE m.idx[c]]]

\* spendCoin returns false for a coin it does not track and changes nothing.
Tracked(m, cs) == {c \in cs : m.idx[c] # 0}

SpendCoins(m, cs) ==
  [m EXCEPT !.spent = @ \cup {m.idx[c] : c \in Tracked(m, cs)}]

\* Mutant: outputs first, then spends.
ProcessBlockSwapped(m, spends, creates) == SpendCoins(AddCoins(m, creates), spends)

\* Spends first, then outputs.
ProcessBlock(m, spends, creates) == AddCoins(SpendCoins(m, spends), creates)

Checkpoint(cps, m, n) ==
  [k \in DOMAIN cps \cup {n} |-> IF k = n THEN m ELSE cps[k]]

PruneCheckpoints(cps, n) ==
  [k \in {k \in DOMAIN cps : k >= n - Window} |-> cps[k]]

\* getSyncPacket writes the leaves with their spent flags and the index;
\* applySyncPacket adds the leaves again and takes the index as it is.
GetSyncPacket(m) ==
  [leaves |-> [i \in DOMAIN m.leaves |-> [hash |-> m.leaves[i], spent |-> i \in m.spent]],
   index  |-> {<<c, m.idx[c]>> : c \in Tracked(m, Coins)}]

ApplySyncPacket(p) ==
  [leaves |-> [i \in DOMAIN p.leaves |-> p.leaves[i].hash],
   spent  |-> {i \in DOMAIN p.leaves : p.leaves[i].spent},
   idx    |-> [c \in Coins |-> IF \E e \in p.index : e[1] = c
                               THEN (CHOOSE e \in p.index : e[1] = c)[2] ELSE 0]]

\* The coins the MMR shows as unspent: the current leaf of each is not spent.
Unspent(m) == {c \in Coins : m.idx[c] # 0 /\ m.idx[c] \notin m.spent}
-----------------------------------------------------------------------------
Init == mmr = EmptyMMR /\ checkpoints = <<>> /\ input = <<"reset">>

Process(spends, creates) ==
  /\ Len(mmr.leaves) + Len(creates) <= MaxLeaves
  /\ mmr' = ProcessBlock(mmr, spends, creates)
  /\ input' = <<"block", spends, Range(creates)>>
  /\ UNCHANGED checkpoints

Save(n) ==
  /\ input' = <<"save", n>>
  /\ checkpoints' = Checkpoint(checkpoints, mmr, n)
  /\ UNCHANGED mmr

\* rollback returns false, and does nothing, without a checkpoint at n.
Rollback(n) ==
  /\ input' = <<"restore", n>>
  /\ n \in DOMAIN checkpoints
  /\ mmr' = checkpoints[n]
  /\ UNCHANGED checkpoints

Prune(n) ==
  /\ input' = <<"forget", n>>
  /\ checkpoints' = PruneCheckpoints(checkpoints, n)
  /\ UNCHANGED mmr

\* A node starts from the packet of another: it has no checkpoints.
Sync ==
  /\ input' = <<"sync">>
  /\ mmr' = ApplySyncPacket(GetSyncPacket(mmr))
  /\ checkpoints' = <<>>

Reset == input' = <<"reset">> /\ mmr' = EmptyMMR /\ checkpoints' = <<>>

\* A block creates at most two coins.
Next ==
  \/ \E spends \in SUBSET Coins, creates \in UNION {[1 .. n -> Coins] : n \in 0 .. 2} :
       Process(spends, creates)
  \/ \E n \in Numbers : Save(n) \/ Rollback(n) \/ Prune(n)
  \/ Sync
  \/ Reset

Spec == Init /\ [][Next]_vars
-----------------------------------------------------------------------------
(* Properties.                                                             *)

Indexed(m) ==
  \A c \in Coins :
    IF m.idx[c] = 0 THEN \A i \in DOMAIN m.leaves : m.leaves[i] # c
    ELSE /\ m.idx[c] \in DOMAIN m.leaves
         /\ m.leaves[m.idx[c]] = c
         /\ \A i \in DOMAIN m.leaves : m.leaves[i] = c => i <= m.idx[c]

\* m_idx names the newest leaf of every coin, in the live state and in every
\* checkpoint, over any series of blocks, rollbacks and resets: a stale entry
\* would mark the leaf of another coin spent.
IndexIsNewest ==
  Indexed(mmr) /\ \A n \in DOMAIN checkpoints : Indexed(checkpoints[n])

\* The MMR with its index and snapshots implements a plain set of unspent
\* coins with saved copies: spends touch the right leaf and nothing else, a
\* coin created again is unspent again, rollback restores the saved set, and a
\* node that starts from the packet of another has its unspent coins.
Ledger == INSTANCE CoinLedger
  WITH unspent <- Unspent(mmr),
       saved   <- [n \in DOMAIN checkpoints |-> Unspent(checkpoints[n])]
ImplementsLedger == Ledger!Spec
=============================================================================
