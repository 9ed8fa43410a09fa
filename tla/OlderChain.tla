----------------------------- MODULE OlderChain -----------------------------
(***************************************************************************)
(* The chain processor of the older copy (minima-core-cpp: src/chain/      *)
(* ChainProcessor.hpp with BlockStore.hpp and UTxOSet.hpp, and src/        *)
(* mempool/Mempool.hpp).  It applies the coins of every block it accepts,  *)
(* whatever branch the block is on, and reorg() moves the coin set from    *)
(* the branch of the tip to another one.                                   *)
(***************************************************************************)
EXTENDS Integers, Sequences, SequencesExt, FiniteSets, FiniteSetsExt

CONSTANTS
  TxPoWs,      \* a block that reached its number, or a pending transaction
  ZeroID,      \* the 32 zero bytes a ChainState starts with
  SuperParent, \* SuperParent[b]: superParents[0]
  BlockNumber, \* the block number
  Inputs,      \* Inputs[b]: the ids its inputs name
  Outputs,     \* Outputs[b]: the ids derived from b and the place of an output
  Named,       \* the TxPoWs whose outputs carry these ids, and not none
  MaxDepth,    \* the argument of reorg, 100 by default
  PoolSize     \* m_capacity of the mempool

\* Ids are hashes: no two outputs share one, and the zero bytes are none's.
ASSUME OlderChainAssumption ==
  /\ ZeroID \notin TxPoWs
  /\ BlockNumber \in [TxPoWs -> Nat] /\ SuperParent \in [TxPoWs -> TxPoWs \cup {ZeroID}]
  /\ \A x, y \in TxPoWs : x # y => ToSet(Outputs[x]) \cap ToSet(Outputs[y]) = {}
  /\ MaxDepth \in Nat \ {0} /\ PoolSize \in Nat \ {0}

VARIABLES
  blocks,      \* m_byHash of the block store
  state,       \* ChainState: tip and height
  utxo,        \* the ids in the UTxOSet
  pending,     \* m_order of the mempool, the oldest first; m_byID is its range
  spentInPool, \* m_spentInPool
  left,        \* history: blocks a reorganisation has undone
  late         \* history: blocks stored while one below was unknown or undone

olderChainVars == <<blocks, state, utxo, pending, spentInPool, left, late>>

OlderChainInit ==
  /\ blocks = {} /\ state = [tip |-> ZeroID, height |-> 0] /\ utxo = {}
  /\ pending = <<>> /\ spentInPool = {} /\ left = {} /\ late = {}
-----------------------------------------------------------------------------
(* Mempool.                                                                *)

\* The sequence without the elements of a set, the others in their order.
Except(s, gone) ==
  LET rest[n \in 0 .. Len(s)] ==
        IF n = 0 THEN <<>>
        ELSE IF s[n] \in gone THEN rest[n - 1] ELSE Append(rest[n - 1], s[n])
  IN  rest[Len(s)]

Conflicts(ids) == {x \in ToSet(pending) : Inputs[x] \cap ids # {}}
Evict(gone) == [order |-> Except(pending, gone),
                spent |-> spentInPool \ UNION {Inputs[x] : x \in gone}]
SetPool(p) == pending' = p.order /\ spentInPool' = p.spent

\* A duplicate, or one that spends a reserved coin, is refused; a full pool
\* loses its oldest.
AddPending(x) ==
  /\ x \notin ToSet(pending) /\ Inputs[x] \cap spentInPool = {}
  /\ LET p == Evict(IF Len(pending) >= PoolSize THEN {Head(pending)} ELSE {})
     IN  SetPool([order |-> Append(p.order, x), spent |-> p.spent \cup Inputs[x]])
  /\ UNCHANGED <<blocks, state, utxo, left, late>>

RemovePending(x) ==
  /\ x \in ToSet(pending)
  /\ SetPool(Evict({x}))
  /\ UNCHANGED <<blocks, state, utxo, left, late>>

\* onBlockAccepted.
EvictConflicts(b) == SetPool(Evict(Conflicts(Inputs[b])))
-----------------------------------------------------------------------------
(* ChainProcessor.                                                         *)

ApplyCoins(coins, b) == (coins \ Inputs[b]) \cup ToSet(Outputs[b])

\* b and the blocks below it, down to number 0: the least set that holds b and,
\* with a block above number 0, its parent.
GoesDown(S) ==
  \A x \in S : BlockNumber[x] # 0 => SuperParent[x] \in S \cup {ZeroID}
Line ==
  [b \in TxPoWs |->
     {x \in TxPoWs : \A S \in SUBSET TxPoWs : b \in S /\ GoesDown(S) => x \in S}]

Store(b) ==
  /\ b \notin blocks
  /\ blocks' = blocks \cup {b}
  /\ utxo' = ApplyCoins(utxo, b)
  /\ state' = IF BlockNumber[b] >= state.height THEN [tip |-> b, height |-> BlockNumber[b]] ELSE state
  /\ late' = IF Line[b] \ {b} \subseteq blocks \ left THEN late ELSE late \cup {b}
  /\ UNCHANGED left

\* process: a block is refused by the validator unless it finds every input.
\* The parent need not be known.
ProcessTxPoW(b) ==
  /\ Inputs[b] \subseteq utxo
  /\ Store(b)
  /\ EvictConflicts(b)

\* processBlock: neither the validator nor the mempool.
ProcessUnchecked(b) ==
  /\ Store(b)
  /\ UNCHANGED <<pending, spentInPool>>

\* getAncestors: up to count blocks, the newest first, to number 0 or to one
\* that is not stored; then it returns false.
Ancestry(b, count) ==
  LET from[n \in 0 .. count - 1] ==
        IF n = 0 THEN <<b>>
        ELSE LET s == from[n - 1]
             IN  IF Last(s) \notin blocks \/ BlockNumber[Last(s)] = 0 THEN s
                 ELSE Append(s, SuperParent[Last(s)])
  IN  from[count - 1]
AllStored(b, count) == ToSet(Ancestry(b, count)) \subseteq blocks
GetAncestors(b, count) ==
  LET s == Ancestry(b, count) IN IF Last(s) \in blocks THEN s ELSE Front(s)

\* Undoing a block takes its outputs by the ids they carry, and puts back the
\* inputs.  Mutant: the inputs are not put back.
UndoOutputs(coins, b) == coins \ (IF b \in Named THEN ToSet(Outputs[b]) ELSE {})
Undo(coins, b) == (coins \ (IF b \in Named THEN ToSet(Outputs[b]) ELSE {})) \cup Inputs[b]

ApplyAll(coins, s) ==
  LET after[n \in 0 .. Len(s)] == IF n = 0 THEN coins ELSE ApplyCoins(after[n - 1], s[n])
  IN  after[Len(s)]
UndoAll(coins, s) ==
  LET after[n \in 0 .. Len(s)] == IF n = 0 THEN coins ELSE Undo(after[n - 1], s[n])
  IN  after[Len(s)]

\* The main chain is undone down to the first block the fork has too, the fork
\* is applied from there up; without such a block, all of both.
Above(s, x) == SubSeq(s, 1, (CHOOSE i \in DOMAIN s : s[i] = x) - 1)
Reorg(b) ==
  LET fork   == GetAncestors(b, MaxDepth)
      main   == GetAncestors(state.tip, MaxDepth)
      common == {i \in DOMAIN main : main[i] \in ToSet(fork)}
      undone == IF common = {} THEN main ELSE Above(main, main[Min(common)])
      onto   == IF common = {} THEN fork ELSE Above(fork, main[Min(common)])
  IN  /\ AllStored(b, MaxDepth)
      /\ utxo' = ApplyAll(UndoAll(utxo, undone), Reverse(onto))
      /\ state' = [tip |-> b, height |-> BlockNumber[b]]
      /\ left' = (left \cup ToSet(undone)) \ ToSet(onto)
      /\ UNCHANGED <<blocks, pending, spentInPool, late>>

OlderChainNext ==
  \E b \in TxPoWs :
    \/ AddPending(b) \/ RemovePending(b)
    \/ ProcessTxPoW(b) \/ ProcessUnchecked(b) \/ Reorg(b)

OlderChainSpec == OlderChainInit /\ [][OlderChainNext]_olderChainVars
-----------------------------------------------------------------------------
(* Properties.                                                             *)

\* What a node on this chain holds: the outputs of its blocks that none of
\* them spends.
CoinsOf(b) ==
  (UNION {ToSet(Outputs[x]) : x \in Line[b]}) \ UNION {Inputs[x] : x \in Line[b]}

\* A block that fits the chain it is on: it is above its parent, and spends
\* outputs of the blocks below it that none of those spends.
Fits(b) ==
  /\ BlockNumber[b] # 0 /\ SuperParent[b] # ZeroID =>
       BlockNumber[SuperParent[b]] < BlockNumber[b]
  /\ Inputs[b] \subseteq UNION {ToSet(Outputs[x]) : x \in Line[b] \ {b}}
  /\ \A x \in Line[b] \ {b} : Inputs[b] \cap Inputs[x] = {}

\* getAncestors(b, MaxDepth) comes down to number 0.
Within(b) ==
  LET s == Ancestry(b, MaxDepth) IN AllStored(b, MaxDepth) /\ BlockNumber[Last(s)] = 0

\* What a call leaves behind is in step: a block that was processed has no
\* competitor for its coins left in the pool, whose reserved coins are those
\* of the pending transactions; and a reorganisation within its depth, between
\* the only two branches there are, leaves exactly the coins of the branch it
\* moves to.  That is for blocks that fit their chain and whose outputs carry
\* their ids, each stored when all blocks below it were stored and applied.
Settled(b) ==
  /\ late = {} /\ Within(b) /\ Within(state.tip)
  /\ blocks \subseteq Line[state.tip] \cup Line[b]
  /\ \A x \in blocks : x \in Named /\ Fits(x)
CallsSettle ==
  [][/\ spentInPool' = UNION {Inputs[x] : x \in ToSet(pending')}
     /\ \A b \in TxPoWs : ProcessTxPoW(b) =>
          \A x \in ToSet(pending') : Inputs[x] \cap Inputs[b] = {}
     /\ \A b \in TxPoWs : Reorg(b) /\ Settled(b) => utxo' = CoinsOf(b)]_olderChainVars
=============================================================================
