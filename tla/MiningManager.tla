--------------------------- MODULE MiningManager ---------------------------
(***************************************************************************)
(* The mining thread of mining/MiningManager.hpp, and the calls by which   *)
(* other threads hand it a template or tell it of a new tip.               *)
(***************************************************************************)
EXTENDS LegacyChain

CONSTANT MaxMined    \* bound on the number of blocks found

ASSUME MinedAssumption == MaxMined \in Nat

VARIABLES
  miner,       \* the thread: pc, the template it works on, where that is from
  nextBlock,   \* m_nextBlock, NoBlock when m_hasNextBlock is false
  tipChanged,  \* tipChanged_
  stopFlag,    \* stopFlag_
  mined,       \* blocksFound_
  unseen       \* history: blocks notified that the last template built from the
               \* chain was built without

minerVars == <<miner, nextBlock, tipChanged, stopFlag, mined, unseen>>

MinerAt(pc) == [pc |-> pc, tmpl |-> NoBlock, fromChain |-> FALSE]

MinerInit ==
  /\ miner = MinerAt("off")
  /\ nextBlock = NoBlock /\ tipChanged = FALSE /\ stopFlag = FALSE
  /\ mined = 0 /\ unseen = {}

\* Outside mine there is no template.
MinerGoto(pc) == miner' = MinerAt(pc)
-----------------------------------------------------------------------------
(* Called by other threads; operators, as each is part of a longer step.   *)

\* notifyNewTip after the block b.
NotifyNewTip(b) ==
  /\ tipChanged' = TRUE
  /\ unseen' = unseen \cup {b}
  /\ UNCHANGED <<miner, nextBlock, stopFlag, mined>>

\* Mutant: the template is left to be found.
SetNextBlockQuietly(b) ==
  /\ nextBlock' = b
  /\ UNCHANGED <<miner, tipChanged, stopFlag, mined, unseen>>

\* setNextBlock.
SetNextBlock(b) ==
  /\ nextBlock' = b
  /\ tipChanged' = TRUE
  /\ UNCHANGED <<miner, stopFlag, mined, unseen>>

StartMiner ==
  /\ miner.pc = "off"
  /\ stopFlag' = FALSE
  /\ MinerGoto("loop")
  /\ UNCHANGED <<nextBlock, tipChanged, mined, unseen>>

StopMiner ==
  /\ stopFlag' = TRUE
  /\ UNCHANGED <<miner, nextBlock, tipChanged, mined, unseen>>
-----------------------------------------------------------------------------
(* The thread: mineLoop, buildTemplate and mine.                           *)

LoopTest ==
  /\ miner.pc = "loop"
  /\ MinerGoto(IF stopFlag THEN "off" ELSE "slot")
  /\ UNCHANGED <<nextBlock, tipChanged, stopFlag, mined, unseen, chainVars>>

\* Under nextBlockMu_.
TakeTemplate ==
  /\ miner.pc = "slot"
  /\ IF nextBlock = NoBlock THEN MinerGoto("height") /\ UNCHANGED nextBlock
     ELSE /\ miner' = [pc |-> "mine", tmpl |-> nextBlock, fromChain |-> FALSE]
          /\ nextBlock' = NoBlock
  /\ UNCHANGED <<tipChanged, stopFlag, mined, unseen, chainVars>>

\* getHeight, then getTip: the peer thread may write in between.
ReadHeight ==
  /\ miner.pc = "height"
  /\ miner' = [pc |-> "tip", tmpl |-> Block(legacy.height + 1, NoBlock, mined + 1),
               fromChain |-> TRUE]
  /\ unseen' = unseen \ legacy.store
  /\ UNCHANGED <<nextBlock, tipChanged, stopFlag, mined, chainVars>>

\* Mutant: the flag is cleared when the template is ready.
ReadTipAndClear ==
  /\ miner.pc = "tip"
  /\ miner' = [miner EXCEPT !.pc = "mine", !.tmpl.parent = legacy.tip]
  /\ tipChanged' = FALSE
  /\ UNCHANGED <<nextBlock, stopFlag, mined, unseen, chainVars>>

ReadTip ==
  /\ miner.pc = "tip"
  /\ miner' = [miner EXCEPT !.pc = "mine", !.tmpl.parent = legacy.tip]
  /\ UNCHANGED <<nextBlock, tipChanged, stopFlag, mined, unseen, chainVars>>

\* Every checkStopEvery nonces the flag is exchanged for false.
SeeNewTip ==
  /\ miner.pc = "mine" /\ tipChanged
  /\ tipChanged' = FALSE
  /\ MinerGoto("loop")
  /\ UNCHANGED <<nextBlock, stopFlag, mined, unseen, chainVars>>

SeeStop ==
  /\ miner.pc = "mine" /\ stopFlag
  /\ MinerGoto("loop")
  /\ UNCHANGED <<nextBlock, tipChanged, stopFlag, mined, unseen, chainVars>>

\* A nonce makes the template a block.  Its hash is then new: timestamp, prng
\* or nonce tell it from any block before.
FindBlock ==
  /\ miner.pc = "mine" /\ mined < MaxMined
  /\ mined' = mined + 1
  /\ LET b == [miner.tmpl EXCEPT !.by = mined + 1] IN
       /\ miner' = [miner EXCEPT !.pc = "adding", !.tmpl = b]
       /\ CallProcessBlock("miner", b)
  /\ UNCHANGED <<legacy, nextBlock, tipChanged, stopFlag, unseen>>

\* onMined_, once processBlock has returned; the caller says what it does.
ReportMined ==
  /\ miner.pc = "adding" /\ Returned("miner")
  /\ MinerGoto("loop")
  /\ UNCHANGED <<nextBlock, tipChanged, stopFlag, mined, unseen, chainVars>>
=============================================================================
