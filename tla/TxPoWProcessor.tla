--------------------------- MODULE TxPoWProcessor ---------------------------
(***************************************************************************)
(* The handlers of system/TxPoWProcessor.hpp.  They run one after another  *)
(* on the thread of the message queue (module MessageProcessor), so that a *)
(* TxPoW is processed in one step; a step ends where doProcessTxPoW        *)
(* returns or throws, and the result callback is told the result.          *)
(***************************************************************************)
EXTENDS MinimaDB

CONSTANTS
  TxnList,     \* the ids in body.txnList
  Ahead,       \* TxPoWs whose time may lie over an hour ahead of the clock
  KeepDepth,   \* TREE_KEEP_DEPTH
  Batches,     \* what is submitted: sequences of TxPoWs, one for submitTxPoW
  MaxQueue     \* bound on the number of queued messages

ASSUME ProcessorAssumption ==
  /\ TxnList \in [TxPoWs -> SUBSET TxPoWs]
  /\ Ahead \subseteq TxPoWs
  /\ KeepDepth \in Nat
  /\ \A s \in Batches : s \in Seq(TxPoWs) /\ s # <<>>
  /\ MaxQueue \in Nat

VARIABLES
  queue,       \* the messages not yet finished, each the TxPoWs it has left
  lastTip,     \* m_lastTipID
  answer       \* what the last result callback was told

NoAnswer == [id |-> NoBlock, result |-> "DUPLICATE"]
-----------------------------------------------------------------------------
(* submitTxPoW and submitIBD.                                              *)

Submit(batch) ==
  /\ Len(queue) < MaxQueue
  /\ queue' = Append(queue, batch)
  /\ UNCHANGED <<db, lastTip, answer>>

\* The TxPoW being processed.
Current == Head(Head(queue))

\* The queue after it: the handler of a batch goes on with the next one.
Finished ==
  IF Len(Head(queue)) = 1 THEN Tail(queue)
  ELSE <<Tail(Head(queue))>> \o Tail(queue)

Answer(x, r) ==
  /\ answer' = [id |-> x, result |-> r]
  /\ queue' = Finished
-----------------------------------------------------------------------------
(* doProcessTxPoW.                                                         *)

\* Mutant: only the mempool is searched.
DuplicateTxn(x) == x \in db.mempool.byID

Duplicate(x) == x \in db.blockStore \/ x \in db.mempool.byID

\* A TxPoW without a number counts as a block only if it has no parent.
IsBlock(x) == Number[x] > 0 \/ (Number[x] = 0 /\ Parent[x] = NoBlock)

\* basicPoWCheck; whether a TxPoW of Ahead passes depends on the clock.
Malformed(x) == Number[x] < 0

ProcessDuplicate(x) ==
  /\ Duplicate(x)
  /\ Answer(x, "DUPLICATE")
  /\ UNCHANGED <<db, lastTip>>

ProcessInvalid(x) ==
  /\ ~ Duplicate(x)
  /\ Malformed(x) \/ x \in Ahead
  /\ Answer(x, "INVALID_POW")
  /\ UNCHANGED <<db, lastTip>>

\* processTxn ignores the result of Mempool::add.
ProcessTxn(x) ==
  /\ ~ Duplicate(x) /\ ~ Malformed(x) /\ ~ IsBlock(x)
  /\ db' = [db EXCEPT !.mempool = Pool!AddTo(@, x)]
  /\ Answer(x, "ACCEPTED")
  /\ UNCHANGED lastTip

ProcessOrphan(x) ==
  /\ ~ Duplicate(x) /\ ~ Malformed(x) /\ IsBlock(x)
  /\ ~ AddBlockReturns(db, x)
  /\ Answer(x, "ORPHAN")
  /\ UNCHANGED <<db, lastTip>>

\* Mutant: every new tip counts as an extension of the last one.
ExtendsAlways(b) == lastTip # NoBlock

\* isLinearExtension of updateMMRIfTip.
Extends(b) == lastTip # NoBlock /\ Parent[b] = lastTip

\* updateMMRIfTip: a tip that extends the last one adds a leaf with its id,
\* any other new tip has the MMR rebuilt.
UpdateMMRIfTip(d, b) ==
  IF d.txPowTree.tip # b THEN d
  ELSE IF Extends(b) THEN [d EXCEPT !.mmrSet = Mega!AddLeaf(@, b)]
  ELSE RebuildMMR(d)

RemoveMined(d, b) == [d EXCEPT !.mempool = Pool!Evict(@, TxnList[b])]

TrimTree(d) == [d EXCEPT !.txPowTree = Tree!TrimTree(@, KeepDepth)]

CanAdd(x) ==
  ~ Duplicate(x) /\ ~ Malformed(x) /\ IsBlock(x) /\ AddBlockReturns(db, x)

\* processBlock, when the callback m_onBlock returns.
ProcessBlock(x) ==
  /\ CanAdd(x)
  /\ LET added == AddBlock(db, x) IN
       /\ db' = TrimTree(RemoveMined(UpdateMMRIfTip(added, x), x))
       /\ lastTip' = IF added.txPowTree.tip = x THEN x ELSE lastTip
  /\ Answer(x, "ACCEPTED")

\* processBlock, when m_onBlock throws: what follows it is skipped, nobody is
\* told a result, and the rest of the batch goes with the message, because
\* the worker swallows the exception outside the handler.
ProcessBlockThrows(x) ==
  /\ CanAdd(x)
  /\ db' = AddBlock(db, x)
  /\ queue' = Tail(queue)
  /\ UNCHANGED <<lastTip, answer>>
=============================================================================
