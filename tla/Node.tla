-------------------------------- MODULE Node --------------------------------
(***************************************************************************)
(* The node of main.cpp around its processor: blocks are written to SQLite *)
(* when they are accepted, and read back after a restart.  The process may *)
(* end at any moment; the database file is all that is left then.          *)
(***************************************************************************)
EXTENDS TxPoWProcessor

CONSTANTS
  Genesis,     \* makeGenesisTxPoW()
  DiskFails    \* whether a write to SQLite can fail

ASSUME GenesisAssumption ==
  Genesis \in TxPoWs /\ Number[Genesis] = 0 /\ Parent[Genesis] = NoBlock
ASSUME DiskAssumption == DiskFails \in BOOLEAN

VARIABLES
  phase,       \* "down", "replaying" in bootstrapGenesis, or "running"
  sql,         \* the rows of the table blocks
  bound,       \* the block stmtInsert_ is left bound to by a failed write
  toReplay,    \* rows getRange has returned and bootstrapGenesis has not added
  failed       \* history: blocks for which put has thrown

disk == <<sql, bound, failed>>
vars == <<db, queue, lastTip, answer, phase, toReplay, disk>>

Init ==
  /\ db = EmptyDB /\ queue = <<>> /\ lastTip = NoBlock /\ answer = NoAnswer
  /\ phase = "down" /\ toReplay = {}
  /\ sql = {} /\ bound = NoBlock /\ failed = {}
-----------------------------------------------------------------------------
(* BlockStore::put of persistence/BlockStore.hpp.                          *)

\* stepOnce throws before it resets the statement.  Until then SQLite refuses
\* new values, an error put does not look at, and the next step, which resets
\* the statement by itself, writes the values of the failed call again.
RowOf(x) == IF bound = NoBlock THEN x ELSE bound

Put(x) ==
  /\ sql' = sql \cup {RowOf(x)}
  /\ bound' = NoBlock
  /\ UNCHANGED failed

PutThrows(x) ==
  /\ DiskFails
  /\ bound' = RowOf(x)
  /\ failed' = failed \cup {x}
  /\ UNCHANGED sql
-----------------------------------------------------------------------------
(* bootstrapGenesis.                                                       *)

\* With an empty table the node creates the genesis block.
CreateGenesis ==
  /\ phase = "down" /\ sql = {}
  /\ db' = AddBlock(db, Genesis)
  /\ Put(Genesis)
  /\ phase' = "running"
  /\ UNCHANGED <<queue, lastTip, answer, toReplay>>

\* getRange(0, count()): block numbers up to the number of rows.
LoadRows ==
  /\ phase = "down" /\ sql # {}
  /\ toReplay' = {b \in sql : 0 <= Number[b] /\ Number[b] <= Cardinality(sql)}
  /\ phase' = "replaying"
  /\ UNCHANGED <<db, queue, lastTip, answer, disk>>

\* Mutant: the query has no ORDER BY.
ReplayAnyRow(b) ==
  /\ phase = "replaying" /\ b \in toReplay
  /\ db' = AddBlock(db, b)
  /\ toReplay' = toReplay \ {b}
  /\ UNCHANGED <<queue, lastTip, answer, phase, disk>>

\* Rows come in the order of their numbers, equal numbers in any order.
ReplayRow(b) ==
  /\ phase = "replaying" /\ b \in toReplay
  /\ \A c \in toReplay : Number[b] <= Number[c]
  /\ db' = AddBlock(db, b)
  /\ toReplay' = toReplay \ {b}
  /\ UNCHANGED <<queue, lastTip, answer, phase, disk>>

ReplayDone ==
  /\ phase = "replaying" /\ toReplay = {}
  /\ phase' = "running"
  /\ UNCHANGED <<db, queue, lastTip, answer, toReplay, disk>>
-----------------------------------------------------------------------------
(* Running.  The threads of the miner and of the peer submit; the callback *)
(* onBlockAccepted writes the block.                                       *)

Receive(batch) ==
  /\ phase = "running"
  /\ Submit(batch)
  /\ UNCHANGED <<phase, toReplay, disk>>

Process ==
  /\ phase = "running" /\ queue # <<>>
  /\ \/ /\ \/ ProcessDuplicate(Current)
           \/ ProcessInvalid(Current)
           \/ ProcessTxn(Current)
           \/ ProcessOrphan(Current)
        /\ UNCHANGED disk
     \/ ProcessBlock(Current) /\ Put(Current)
     \/ ProcessBlockThrows(Current) /\ PutThrows(Current)
  /\ UNCHANGED <<phase, toReplay>>

\* The process ends, orderly or not: memory and queue are gone.
Crash ==
  /\ phase # "down"
  /\ db' = EmptyDB /\ queue' = <<>> /\ lastTip' = NoBlock /\ answer' = NoAnswer
  /\ phase' = "down" /\ toReplay' = {} /\ bound' = NoBlock
  /\ UNCHANGED <<sql, failed>>
-----------------------------------------------------------------------------
Boot == CreateGenesis \/ LoadRows \/ (\E b \in TxPoWs : ReplayRow(b)) \/ ReplayDone

Next == Boot \/ (\E batch \in Batches : Receive(batch)) \/ Process \/ Crash

Spec == Init /\ [][Next]_vars
-----------------------------------------------------------------------------
(* Properties.                                                             *)

\* The outputs that the blocks of S create, each by its block and its place.
OutputsOf(S) == UNION {{b} \X DOMAIN Outputs[b] : b \in S}

\* Every block is applied once: the global MMR has one leaf for each coin that
\* a stored block creates, whatever was sent twice, trimmed, lost or replayed.
AppliedOnce == Len(db.megaMMR.leaves) = Cardinality(OutputsOf(db.blockStore))

\* While the node runs, memory and disk hold the same blocks, and each write
\* that failed keeps at most one accepted block off the disk.
SameBlocks == failed = {} => sql = db.blockStore
LossesCounted == Cardinality(db.blockStore \ sql) <= Cardinality(failed)
DiskMatchesMemory == phase = "running" => SameBlocks /\ LossesCounted

\* What MiningManager and TxPoWGenerator write into a header, and what the node
\* takes from a peer on trust: a block's number is one more than its parent's.
NumbersFollow ==
  \A b \in TxPoWs :
    IsBlock(b) /\ Parent[b] # NoBlock => Number[b] = Number[Parent[b]] + 1

Generation[b \in TxPoWs] ==
  IF Parent[b] = NoBlock THEN 1 ELSE Generation[Parent[b]] + 1

\* The node never falls back to a shorter chain: unless a write failed, the tip
\* is on a chain as long as any chain on disk, across restarts and trims.
LongestChainSurvives ==
  phase = "running" /\ failed = {}
    => \A b \in sql : Generation[b] <= Generation[db.txPowTree.tip]

\* A leaf with a block id, the incremental update, is added only when the
\* block extends the tip the tree had before, even though m_lastTipID misses
\* tips whose processing threw or that were replayed.
LinearMeansExtension ==
  [][\A b \in TxPoWs :
       LET old == db.mmrSet.leaves
           new == db'.mmrSet.leaves
       IN  Len(new) > Len(old) /\ new[Len(new)] = b => Parent[b] = db.txPowTree.tip]_vars

=============================================================================
