------------------------------ MODULE MinimaDB ------------------------------
(***************************************************************************)
(* The in-memory database of database/MinimaDB.hpp: the block tree, the    *)
(* block store, the tip of ChainState, the two coin MMRs, the cascade and  *)
(* the mempool, as one record.  addBlock and the operations that callers   *)
(* run after it in the same handler are operators on that record.          *)
(***************************************************************************)
EXTENDS Integers, Sequences, FiniteSets

CONSTANTS
  TxPoWs,           \* every TxPoW that may reach the node, named by its id
  NoBlock,          \* the all-zero id, and nullptr
  Parent,           \* superParents[0] of the header
  Number,           \* blockNumber of the header
  SuperLevel,       \* getSuperLevel()
  DifficultyWeight, \* difficultyToWeight of the header's blockDifficulty
  Coins,            \* coin ids
  Inputs,           \* coins spent by body.txn: a set for each TxPoW
  Outputs,          \* coins created by body.txn: a sequence for each TxPoW
  Capacity,         \* of the mempool
  CheckpointDepth,  \* MEGAMMR_CHECKPOINT_DEPTH
  LevelsMax,        \* CASCADE_LEVELS_MAX
  LevelNodes        \* CASCADE_LEVEL_NODES

ASSUME HeaderAssumption ==
  /\ NoBlock \notin TxPoWs
  /\ Parent \in [TxPoWs -> TxPoWs \cup {NoBlock}]
  /\ Number \in [TxPoWs -> Int]
  /\ SuperLevel \in [TxPoWs -> Nat]
  /\ DifficultyWeight \in [TxPoWs -> Nat \ {0}]
ASSUME BodyAssumption ==
  /\ Coins \cap TxPoWs = {}
  /\ Inputs \in [TxPoWs -> SUBSET Coins]
  /\ \A x \in TxPoWs : Outputs[x] \in Seq(Coins)
\* An id is the hash of a header that contains the parent's id.
ASSUME HashAssumption ==
  \A S \in SUBSET TxPoWs : S # {} => \E b \in S : Parent[b] \notin S
ASSUME BoundsAssumption ==
  /\ CheckpointDepth \in Nat
  /\ {Capacity, LevelsMax, LevelNodes} \subseteq Nat \ {0}

VARIABLE db

\* The components: trees, coin MMRs (a leaf of the per-block MMR may also be a
\* block id), the cascade and the pool.  Their own bounds play no part here.
Tree == INSTANCE TxPowTree
  WITH Blocks <- TxPoWs, KeepDepths <- {}, tree <- db.txPowTree,
       trimmed <- db.blockStore \ db.txPowTree.nodes
Mega == INSTANCE MegaMMR
  WITH Coins <- Coins \cup TxPoWs, Numbers <- Int, Window <- CheckpointDepth,
       MaxLeaves <- 0, mmr <- db.megaMMR, checkpoints <- db.checkpoints,
       input <- <<>>
Casc == INSTANCE Cascade
  WITH Blocks <- TxPoWs, MaxLength <- 0, cascade <- db.cascade, chain <- <<>>
Pool == INSTANCE Mempool
  WITH Txns <- TxPoWs, pool <- db.mempool

\* ChainState starts at height 0 with a tip of 32 zero bytes.
EmptyDB ==
  [txPowTree   |-> Tree!EmptyTree,
   blockStore  |-> {},
   chainState  |-> [tip |-> NoBlock, height |-> 0],
   mmrSet      |-> Mega!EmptyMMR,
   megaMMR     |-> Mega!EmptyMMR,
   checkpoints |-> <<>>,
   cascade     |-> <<>>,
   mempool     |-> Pool!EmptyPool]
-----------------------------------------------------------------------------
\* applyBlockToMMR: outputs first, so that a coin created and spent in one
\* transaction ends up spent (MegaMMR::processBlock has the other order).
ApplyBlockToMMR(m, b) == Mega!SpendCoins(Mega!AddCoins(m, Outputs[b]), Inputs[b])

\* rebuildMMR: the canonical chain, as far as the tree still holds it.
RebuildMMR(d) ==
  LET chain == Tree!CanonicalChain(d.txPowTree)
      upTo[i \in 0 .. Len(chain)] ==
        IF i = 0 THEN Mega!EmptyMMR ELSE ApplyBlockToMMR(upTo[i - 1], chain[i])
  IN  [d EXCEPT !.mmrSet = upTo[Len(chain)]]

\* chainState.setTip with the tip of the tree.
SetTip(d, t) == [d EXCEPT !.chainState = [tip |-> t.tip, height |-> Number[t.tip]]]

\* Every block the tree takes, on the canonical chain or not, is stored and
\* goes through both MMRs, the checkpoints and the cascade.
Apply(d, b) ==
  LET t    == Tree!AddTxPoW(d.txPowTree, b)
      mega == Mega!ProcessBlock(d.megaMMR, Inputs[b], Outputs[b])
      cps  == Mega!Checkpoint(d.checkpoints, mega, Number[b])
  IN  [SetTip(d, t) EXCEPT
         !.txPowTree   = t,
         !.blockStore  = @ \cup {b},
         !.mmrSet      = ApplyBlockToMMR(@, b),
         !.megaMMR     = mega,
         !.checkpoints = Mega!PruneCheckpoints(cps, Number[b]),
         !.cascade     = Casc!CascadeChain(Casc!AddToTip(@, b))]

AddBlockReturns(d, b) == Tree!AddReturns(d.txPowTree, b)

AddBlock(d, b) == IF AddBlockReturns(d, b) THEN Apply(d, b) ELSE d
=============================================================================
