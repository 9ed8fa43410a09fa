# Verification of the Minima core

TLA+ models of the C++ core in `src/src/` (`main.cpp` and its libraries) and of
what differs in its older copy, `src/minima-core-cpp/`, checked with TLC and
partly proved with TLAPS. Paths below are relative to `src/src/` unless they say
otherwise; "older" means `src/minima-core-cpp/src/`.

## 1. Inventory

| Component | State | Operations | Interacts with | What makes it correct |
|---|---|---|---|---|
| `chain/TxPowTree.hpp`, `TxPoWTreeNode.hpp` | map id → node, root, tip; in a node: parent, children, weight | `addTxPoW`, `canonicalChain`, `trimTree`, `clear` | MinimaDB, TxPoWProcessor | no pointer to a deleted node; tip heaviest and stable under ties; trimming keeps exactly its window and is final |
| `mempool/Mempool.hpp` | map of pending transactions, reserved coins, FIFO deque | `add`, `remove`, `getPending`, `onBlockAccepted` | TxPoWProcessor, TxPoWGenerator | the three containers agree; no double spend; FIFO; bounded |
| `mmr/` | leaves, nodes, coin index, checkpoints by number | `addCoin`, `spendCoin`, `processBlock`, `checkpoint`, `rollback`, `getCoinProof`, sync packets | MinimaDB | a set of unspent coins with saved copies; a proof holds as long as its leaf does |
| `chain/cascade/` | headers with levels, weight | `addToTip`, `cascadeChain` | MinimaDB | incremental pruning equals a rebuild; a new block costs it one node at most |
| `chain/DifficultyAdjust.hpp` | none | `nextDifficulty` | tests | the retarget is the one the windows and clamps define |
| `database/MinimaDB.hpp`, `BlockStore.hpp`, `ChainState.hpp` | all of the above, block store, tip and height, SQLite stores | `addBlock`, rebuilds, `rollbackMegaMMR`, `reset`, `openPersistence`, `addBlockWithPersist`, `bootstrapFromDB` | TxPoWProcessor, main | all views describe the same chain; blocks and coins are saved together |
| `persistence/` | prepared statements, tables, a transaction | `put`, `markSpent`, `getRange`, `count`, ... | MinimaDB, main | what was put is there, or nothing of it |
| `system/MessageProcessor.hpp` | flag, queue, mutex, condition variable, thread | `start`, `stop`, `post`, `run` | base of TxPoWProcessor | no lost message or wakeup, FIFO, quiet after stop |
| `system/TxPoWProcessor.hpp` | last tip, counters | `submitTxPoW`, `submitIBD`, the handlers | miner and peer post; callbacks to main | each block applied once; MMR follows the tip |
| `main.cpp` | the SQLite file, the threads | boot, replay, callbacks, shutdown | everything | memory equals disk while running; restart loses nothing; shutdown ends |
| `mining/`, `system/TxPoWGenerator.hpp` | template slot, flags, mining thread | `setNextBlock`, `notifyNewTip`, mine loop | peer thread, processor | no new tip is missed, a template is taken |
| `network/P2PSync.hpp`, `NIOClient.hpp` | connection, retries, local tip | handshake, download, event loop, reconnect | processor, miner | the requests tile the gap; bounded retries |
| `chain/ChainProcessor.hpp`, `UTxOSet.hpp` | older chain and coin set, no lock | `processBlock`, `applyCascade` | miner and peer threads | readers cope with torn reads |
| `kissvm/`, `types/MiniNumber.cpp` | a call of a contract: environment, counter | tokenizer, parser, interpreter, functions, decimals | validator | a script means what its text says; every step is paid for |
| `validation/`, `wallet/`, `crypto/` | keys, counters | `validate`, `sign`, `verify`, phrases | tests | the verdict is due; a key signs once; phrases restore |
| `objects/`, `serialization/`, `network/NIOMessage.hpp` | records | `serialise`, `deserialise` | network, persistence | what is read is what was written |
| older `network/`, `node/` | connections, threads, the map of them | accept, `onData`, `stop` | older chain | a stopped server is empty; pieces do not matter |
| older `chain/`, `mempool/`, `crypto/` | chain, pool, coins; saved keys | `processTxPoW`, `reorg`; `sign`, `serialise` | older node | pool and coins stay in step; an index is never used twice |

Outside both: TypeScript developer tools (`minima-test`, `kiss-vm-lint`,
`minima-contracts`, `create-minidapp`, copied in `monorepo/`), vendored SQLite
and doctest.

**Threads.** The worker of the processor runs every handler. The mining thread
and the peer thread post to it. The main thread boots before either exists
(`main.cpp:178`), then polls. So the database is written by one thread, one
handler at a time; what interleaves is the queue (`MessageProcessor`), the
moments at which messages arrive, writes fail and the process ends (`Node`), and
the threads outside the worker, which share the legacy chain without a lock
(`Producers`). The older node has an accept thread and a detached thread for
every connection (`PeerServer`).

**Hard behaviours.** Lost wakeups; forks, ties, reorganisations and trims in any
order; duplicates; eviction at capacity; a handler that throws half way; state
rebuilt from scratch in one path and kept incrementally in another; crash and
replay; torn reads; reconnects half way through a download; scripts in scripts;
decimals in bytes. `PROJECT.json` lists each hazard with the property that
watches it, or the reason none does.

## 2. Modules

| Module | Models | State and actions |
|---|---|---|
| `TxPowTree` | the block tree | one record; `AddBlock`, `Trim`, `Clear`; `trimmed` is a history |
| `Mempool` | the pool | one record; `Add`, `Remove`, `OnBlockAccepted` |
| `CoinLedger` | *abstract*: unspent coins with saved copies | |
| `MegaMMR` | leaves, index, checkpoints | `Process`, `Save`, `Rollback`, `Prune`, `Reset`, `Sync`; refines `CoinLedger` |
| `MMRProof`, `CoinProofs` | rows above the leaves, proofs, and the proofs of coins | operators on the record of `MegaMMR` and its checkpoints |
| `Cascade`, `DifficultyAdjust` | the cascade, the retarget | one block at a time |
| `OlderChain` | older ChainProcessor with pool and coin set | `ProcessTxPoW`, `ProcessUnchecked`, `Reorg`, pool operations |
| `Mailbox` | *abstract*: what a poster may expect | |
| `MessageProcessor` | queue and worker thread, one step between two points of interference | `Start`, `StopClear`, `StopNotify`, `StopJoin`, `Push`, `Notify`, the steps of `run()`; refines `Mailbox` |
| `MinimaDB` | the database record and the rebuilds | operators over the components above |
| `TxPoWProcessor` | the handlers | one action per way through `doProcessTxPoW`, and the one in which the callback throws |
| `Node` | boot, replay, SQLite, crash | composes `MinimaDB` and `TxPoWProcessor` |
| `PersistentDB` | MinimaDB with its own stores | `addBlockWithPersist` statement by statement, failures, crash, power loss, reopening |
| `LegacyChain` | the unlocked chain | one step per member read or written |
| `MiningManager`, `P2PSync` | mining thread, peer thread over an unreliable connection | one action per step between two shared accesses |
| `Producers` | their composition with main's callbacks and shutdown | |
| `PeerServer` | one connection of the older node; its server with threads and peers | |
| `MiniNumber` | two's complement byte strings, decimals on them | operators |
| `KissParser`, `KissFunctions`, `KissVM` | parser, functions, the interpreter as a stack of frames | `KissVM`: one action per statement |
| `Wire` | every writer and reader, as tables of fields | operators |
| `TxPoWValidator`, `OneTimeKeys`, `SeedPhrase` | validator, keys, phrases | operators; own small machines for the last two |
| `Spend` | wallet → signature → mining → wire → validator; genesis | composes the above |
| `*Proofs` | theorems about the module of that name; `ComponentProofs`: `DifficultyAdjust`, `MessageProcessor`, `Mempool`; `IndexProofs`: `MegaMMR`, `CoinProofs`, `Cascade` | |
| `NatSetInduction` | induction over a set of numbers, and what a recursive function needs to exist | |
| `MC*` | instances for TLC | |

Component state is a record and every operation an operator from record to
record, because one handler runs several: `processBlock` is
`TrimTree(RemoveMined(UpdateMMRIfTip(AddBlock(db, x), x), x))`, in the order of
the code and as one step. The stand-alone modules wrap the same operators in
actions, so what is proved about `TrimTree` is about the operator `Node` uses.
Where threads share memory without a lock, a step ends before every shared access.

Abstractions, and why they lose nothing the properties see:

* A TxPoW is a model value in the modules about chains. `Parent`, `Number`,
  `Inputs`, `Outputs`, ... give the fields the handlers read. Ids are hashes of
  contents that hold the parent's id, hence the assumption that `Parent` is well
  founded. In `Wire` and `Spend` it is a record with every field.
* `MegaMMR` keeps the row of leaves; `MMRProof` computes the rows above them.
* A hash is an injective function and its output opaque, except `Leading`, an
  arbitrary function to a number of bits, where the code reads bits. A hash
  chain is the count of its steps.
* Chain weight is the node count from the root, as in `addTxPoW:51`. The weight
  of a cascade node is that of its difficulty, any positive number for each block
  (`DifficultyWeight`; `difficultyToWeight` gives powers of two), times two for every
  level. The sums are integers where the code adds doubles.
* Whether a block's time is more than an hour ahead depends on the clock: for
  the blocks in `Ahead` both outcomes of `basicPoWCheck` are possible.
* SQLite (external) is a set of rows. A step may fail. As `Database::stepOnce`
  throws before it resets the statement, and SQLite then refuses new bindings
  until the statement is stepped again, a failed `put` leaves `bound` behind.
* A process that ends loses everything but the rows. In `Node` the store is
  written in autocommit and a torn write is excluded by the journal; a crash
  between `addBlock` and the `put` leaves the same rows as one before the
  handler, so the handler stays one step. In `PersistentDB` a transaction is
  open across statements, a crash in it rolls back, and because the
  write-ahead log is not synchronised at each commit a power loss may also roll
  back the latest committed transactions, as a whole.
* Tokens of a script are lexemes, not characters; spacing matters where it
  decides the lexeme (a minus that touches a digit), and there it is modelled.
* Bytes are integers below `Radix`; Winternitz digits, difficulty strings and
  phrase bits have the structure of the code at a smaller width.

## 3. Runs

| Run | Instance and bounds | Shows |
|---|---|---|
| `components` | three structures that share nothing, so a behaviour uses one: 9 blocks on 3 branches plus one with a zero parent, keepDepth 1 and 2 (the code's 32 plays no part but its size); 7 transactions on 4 coins, capacity 3, so that eviction, conflict and independence all occur; a processor with 3 posters and 2 starts | the tree properties under every order of additions, trims and clears; no double spend, reservations exact, age order; quiet after stop, refinement of `Mailbox`, every post handled |
| `indexes` | four structures that share nothing, so a behaviour uses one: 2 coins, 3 leaves, 2 numbers, window 0; all sequences of up to 6 blocks of three super levels and two difficulties over three cascade levels; chains of up to 9 with look-back 2 and median 3; older branches of 2 and 1 above a block of their own that spend one coin, reorganised to depth 4, pool of 2 | ledger refinement, coin proofs, cascade = rebuild, a block costs it at most one node's weight, retarget is due, older pool and coins settle |
| `node` | genesis, two branches of two that create the same coin, two transactions that spend it, one block with a zero parent; keepDepth and checkpoint depth 1, pool 2; one queued message, a batch of two; writes may fail; any number of crashes | blocks applied once, disk = memory up to failed writes, replay keeps the longest chain, a linear MMR update only for an extension |
| `persistence` | the same fork; 5 additions, 2 failed writes, any crashes, power losses, rollbacks, rebuilds, resets | the views agree, blocks and coins are saved together, queries on disk answer like memory |
| `producers` | two kinds of peer (empty and growing; pruned with two blocks and unreadable answers), chain of 2, batches of one, 2 retries, one block mined | no tip missed, requests tile the gap, templates taken, shutdown ends |
| `peers` | 2 connections dialled or accepted, 2 messages of 8 kinds, a frame of length zero among them, in any pieces, three blocks with a fork sent the wrong way round | a stopped server is empty, pieces are irrelevant, what is advertised is held, closed peers leave |
| `script` | bytes of 2 bits, 3 digits, 2 places; every operator on every type, one operator of every level in every other, nested blocks, loops and EXEC, 60 instructions | parsing inverts writing, the verdict is the meaning, laws of the functions, every step is paid |
| `spend` | 3 cascade levels, keys of 4 hash bits, W = 8, trees of 2 leaves, 2 keys, 2 signatures; phrases of 2 and 3 bytes | what is read is what was written, a signature binds key and message, the verdict is due, phrases restore |

Why the bounds are enough:

* A queue of one suffices in `node`: the handlers do not look at the queue,
  which `MessageProcessor` covers, so a longer queue only delays submissions.
* In `script`, as in the code, `MaxLoop` is half of `MaxInstructions`. A round
  of a loop costs at least two ticks, so the loop limit cannot be reached before
  the instruction limit, in the model or in the code. Bytes of two bits make every carry,
  sign and borrow case of the byte arithmetic occur with two or three bytes.
  `ParseInvertsWriting` is about programs whose statement after an expression
  begins with a keyword or a literal: the grammar has no separator, so others
  have two readings. The laws of functions are checked on the scripts listed in
  `MCKissVM`, each with reference definitions on decimals, byte sequences and
  coin sets; they include proofs in ranges of one to seven leaves.
* In `spend` the wallet's spend, the older key and the phrase share nothing, so a
  behaviour uses one; messages without signatures are exchanged before any key
  is made. A frame is sent and received in one step. The phrase sizes mirror the
  code's two cases: 2 bytes leave part of the checksum byte unused, as 16 bytes
  and 12 words do, 3 bytes use it whole, as 32 bytes and 24 words do.
* In `peers` the number of connection ids is bounded, and an accept thread that
  has run out of them waits; the liveness property is about connections already
  made. A payload that does not deserialise is `Garbled`. Closing and
  `_removePeer` are one step, as the map is locked around both. A frame of length
  zero takes five bytes before `decode` throws for it, the fifth being the first
  of what follows.
* In `indexes` the cascade loses its first nodes after two or three blocks of a
  level, so six blocks see a node move up two levels, a drop in the middle and one
  at the end, each with the heavier difficulty above or below.

`CHECK_DEADLOCK FALSE` is set where the system may stop: `indexes` and `retarget`
(bounded lengths), `components` and `message_processor_stop` (a stopped processor whose posters are done),
`producers` and `peers` (a program that has shut down).

**Fairness.** `MessageProcessor`, in `components` too: a thread that can run does (worker, a poster
past its push, a `stop()` that began); nobody has to post, start or stop and no
spurious wakeup is counted on. `Producers`: the mining thread, the peer thread
and the main thread's starting and joining run when they can, and a receive
returns, if by its timeout; no block has to be found, the peer owes nothing and
no signal has to come. `PeerServer`: each connection's own thread runs. All this
is what a scheduler gives; weak fairness is enough, because a lock is only held
for steps that end.

`ShutdownEnds` is stated for a peer thread that has begun: see the next section.
That a script ends is checked as safety, `EveryStepIsPaid`: every statement costs
a tick of a bounded counter, or shortens what is left to do.

### Disagreements between source text and code

Four have a run that TLC ends with a violation of its one property:

* `message_processor_stop` (`StopReturns`): `stop()` clears `m_running` and
  notifies without `m_mutex`; a worker between predicate and sleep misses it,
  and `join` hangs.
* `script_division` (`DivisionTruncates`): a quotient is a magnitude, but is read
  back as a signed number, so a first byte of 128 or more makes it negative; the
  header promises truncation towards zero.
* `retarget` (`SlowIsNotHarder`): `mulRational` (`chain/DifficultyAdjust.hpp:78-94`)
  drops what exceeds a byte and carries the remainder of a byte to the more
  significant one. The header promises average times ratio, at most all ones, and
  says that higher is easier; but where blocks come slower than their target the
  next can be harder. Compiled, gaps of 60 s instead of 50 s take 0xFF...FF to
  0x3232...32. So `RetargetIsDue` claims the product only where every byte divides
  and none overflows, and the mean only of as many blocks as a byte has values:
  up to 260 blocks are summed in 33 bytes, which hold 256 of the easiest.
* `balance` (`NativeBalances`): the validator's header says sum(inputs) >=
  sum(outputs) (`validation/TxPoWValidator.cpp:8`) and a coin's reader that token
  0x00 is native (`objects/Coin.cpp:80`; so do `chain/UTxOSet.hpp:41` and
  `docs/ARCHITECTURE.md:256`). `checkBalance` sums coins *without* a token id
  (`:218`, `:226`), and the reader gives every coin one (`objects/Coin.cpp:81`). So
  of a TxPoW that came over the wire nothing is compared, and 5.01 native coins for
  5 are valid, which the same TxPoW is not where it was built. The test 'Balance
  failure short-circuits full validation' uses coins that were never read.
  `VerdictIsDue` therefore claims the balance of coins without a token id only.

The others are in the models as the code has them, and the passing properties
hold of the code with them:

* The weight of the cascade can fall when a block is added: a node that is dropped
  takes its difficulty with it (`chain/cascade/CascadeNode.hpp:85`). With a root of
  super level 0 and weight 16 and two blocks of weight 8 above it, a cascade that
  keeps two goes from 24 to 16. The test 'totalWeight increases as chain grows'
  (`src/tests/cascade/test_cascade.cpp:149`) has one difficulty, and so has the first part of
  `WeightLostIsBounded`; the rest of it says what a block can cost in general.
* `checkPoW` compares the first byte of the id with the first byte of the
  difficulty (`validation/TxPoWValidator.cpp:64`), where the header says that the hash
  meets the difficulty; `VerdictIsDue` claims the first byte.
* A refused double spend is answered ACCEPTED (`system/TxPoWProcessor.hpp:39`,
  `181`), and there is no pool of orphans: a block before its parent is dropped
  (`:41`, `124`, `152`).
* After a failed write the next accepted block is silently not saved: its `put`
  writes the failed block again (`persistence/Database.hpp:80`). So
  `DiskMatchesMemory` counts failed writes and does not say which block each costs.
* The global MMR is neither rolled back nor rebuilt on a reorganisation, and its
  checkpoints are by number, so two branches share them
  (`database/MinimaDB.hpp:226`, `292`).
* `addBlock` of a block the tree knows applies it again (`database/MinimaDB.hpp:159`
  against `chain/TxPowTree.hpp:28`). The processor checks first; a caller that
  does not applies its coins twice.
* The download goes past a batch that was not answered (`network/P2PSync.hpp:113`,
  `139`), and a Ctrl+C before `run()` begins is undone by `running_ = true` (`:166`).
* `buildTxPoWID` and `buildTxPoWReq` write an id without its length
  (`network/NIOMessage.hpp:128`, `134`), while `onTxPoWID` reads one with a length
  (`network/P2PSync.hpp:225`) and `sendTxPoWIDRequest` writes one; `buildPulse`
  writes a number where `Pulse` reads a list. Only tests call these builders;
  `Wire` has the forms the program sends and reads.
* `NEQ` evaluates an empty node first (`kissvm/Interpreter.cpp:158`), whose children
  do not exist: undefined behaviour, a crash in practice; `a % 0` is `a`; SUMINPUTS and SUMOUTPUTS throw on a coin without a token,
  against the comment at `kissvm/functions/Functions.cpp:644`; the stack depth of
  64 in `kissvm/Contract.hpp` bounds nothing, EXEC included.
* Older node: an IBD_REQ is never answered (`network/NetworkProtocol.hpp:10-14`);
  "remove inputs" (`chain/ChainProcessor.hpp:10`) finds nothing for blocks that
  come from a peer, whose outputs carry no id, and `reorg` then leaves the
  outputs of the abandoned branch. The coins of a block are applied as it is
  stored, whatever lies below it (`:63`, `:85`): one stored while a block below is
  unknown, or undone by an earlier `reorg`, is never joined by the coins of that
  block, since a later `reorg` applies only what is above the fork. `CallsSettle`
  says so in its conditions: at most two branches, within `MaxDepth`, outputs that
  have ids, blocks that spend and number along their chain (`Fits`), and none
  stored `late`, over a gap. It first looked for the gap in the parent only, which the
  proof refuted: with five blocks a grandparent is undone and the parent is not.

## 4. Proofs

| Module | Theorems | Argument |
|---|---|---|
| `TxPowTreeProofs` | `TypeCorrect`, `AlwaysConnected`, `TipAlwaysHeaviest`, `TipMonotone`, `TrimmedStaysOut`, `WindowIsKept` | invariant: `IsTree`, and for `TrimmedForGood` that a trimmed block's family (the nodes of the tree and the trimmed blocks) is connected and its parent is gone for good (`TrimInv`); the subtree kept by a trim is the least set closed under children, so it holds with a node its parent, unless the node is the new root, and it holds the path from the new root to the tip |
| `ComponentProofs` | pool: `PoolTypeCorrect`, `PoolNeverDoubleSpends`, `ReservationsExact`, `OrderAlwaysMatches`, `PoolBounded`, `FirstInFirstOut` | the four parts of consistency are inductive only together (`PoolInv`): freeing a coin on eviction is right because no other pending transaction holds it. Evicting and removing keep the deque's order, step by step through the fold that `onBlockAccepted` is |
| | queue: `TypeCorrect`, `NeverSleepsOnMail`, `QuietOnceStopped`, `IsMailbox` | the mutex is held from the predicate to the sleep, so the queue is empty whenever the worker is about to block (`BlockingIsEmpty`); the refinement maps `Start`, `StopClear`, `Push`, `Take`, `Handle` to steps and the rest to stutters |
| | retarget: `ChainIsDue`, `RetargetIsAlwaysDue` | below |
| `IndexProofs` | MMR: `IndexIsRight`, `MMRIsLedger` | the live record and every checkpoint are `Good`: the index names the newest leaf of each coin and no leaf is spent that does not exist, so a new leaf is unspent; two coins share no leaf (`IndexIsInjective`), hence a spend changes one coin only; a packet read back is a good record again (`SyncIsRight`) |
| | proofs of coins: `ProofsShowTheLeaf` | below |
| | cascade: `CascadeIsRebuilt`, `OneNodeAtMost` | the level a walk asks for depends only on how many nodes it has kept, so a walk that starts with one tip more is never at a lower level: what an earlier walk dropped it drops too. The level of a place in the list depends on the place only. Below a new tip every node is one place down and may be too low there; the first that is dropped brings those below it back to the places they had (`LosesOneMoreBelow`), so no other is. The two weights are then sums over one list of levels, shifted by one place up to the node that is lost (`OneNodeLost`, `NothingLost`) |
| `ProducersProofs` | `DownloadTiles`, `NoTipIsMissed` | where the next range starts is in `sync.from`, which moves only when the last answer is worked off, so the invariant says at each point of the thread how it lies to the last range (`SyncInv`); a miner whose template lacks a stored block it was told of has its flag up, and one it was not told of is in the hand of a thread that has still to call (`MinerInv`) |
| `OlderNodeProofs` | server: `ServerInvariant`, `StopEmpties`, `AdvertisesWhatItHolds`, `PiecesDoNotMatter` | for each connection a number of its peer's messages has been dispatched as if one by one, and the buffer with the wire is the rest (`ConnInv`); an open socket is in the map, and an id not given out has no thread (`FreshInv`, `StopInv`) |
| | chain: `OlderChainInvariant`, `CallsAlwaysSettle` | the reserved coins are those of the pending transactions, no two of which share one (`PendingInv`). While no block is late and all fit, the stored blocks are closed downwards, and on the trunk, the blocks every stored block is above or below of, a block is applied if it is at or below the tip and a coin is there if its block is applied and its spenders are not (`Steady`). With two branches all else is above the fork, where `reorg` undoes one side and applies the other, coin by coin (`ReorgCoin`) |
| `NodeProofs` | `NodeInvariant`, `BlocksAreAppliedOnce`, `LinearUpdatesExtend`, `LossesAreCounted`; if block numbers follow parents, `DiskAndMemoryAgree`, `LongestChainIsKept` | below |
| `PersistentDBProofs` | `DiskInvariant`, `CleanInvariant`, `ViewsAlwaysAgree`, `AlwaysSavedTogether`, `StoresAgree` | below |

**The node.** `NodeInv` says what belongs together: the tree's nodes are stored
and its shape is `IsTree` (`StoreInv`), the last tip is a stored block
(`TipInv`; lighter than the tip if the tree has moved on), memory holds nothing
but rows until the node runs (`DiskInv`, `PhaseInv`), the MMR has one leaf for
each coin of a stored block
(`AppliedInv`) and each block that is stored and not on disk has a failed write
of its own (`LossInv`, through the row left bound). None of these is
inductive alone: that a block is applied once rests on the store, the store on
the replay, the replay on the rows. `ChainInv` adds, while no write failed, that
the rows are a tree grown from the genesis, which is why a replay in the order of numbers meets every parent first,
that memory and rows are the same blocks as far as they were read back, and that
the weight of a node is its number plus one. The facts about `TxPowTree` and
`MegaMMR` are the lemmas of their own proofs, instantiated with the fields of the database.

**The proofs of coins.** For n leaves the nodes of the MMR are those whose entry
is below the halves of n, row by row, and each holds the join of its two children
(`IsNodes`, kept by `OneMoreLeaf`, since the parents `propagate` computes are
those whose last child is on the way up from the new leaf). The peaks are the
last nodes of the rows of odd length (`PeaksAre`), so bagging them from the highest
row down goes through the leaves in order: the root, without the brackets of its
hashes, is the list of leaves (`RootSpells`), and two lists with one root are
one list (`RootIsInjective`). Putting another coin in one place changes the
nodes on its line only (`OffTheLine`), and there stands what the proof computes from
the siblings (`OnTheLine`), up to a peak (`LineEnds`): so a proof computes the root
of its leaves with that coin in this place (`ProofOfLeaf`).

**The retarget.** The chain is one whose numbers count and whose difficulties are
rows of bytes (`IsChain`); that a returned difficulty is a row again
(`CalculateType`) needs the sums, quotients and carries to stay natural numbers.
Writing the number of a row gives the row back, and reading a written number
that fits gives the number (`WriteBack`, `ReadBack`), so the average is the mean as long
as the sum fits one byte more, which `Base` rows do (`SumIsBelow`). Ordering
a window by (time, index) ranks its blocks one to one, so every rank exists
(`RankExists`), the middle one with a block on either side of it:
whatever one clock says, the median time lies between two others
(`ClocksAreOutvoted`). Where each byte of a product is exact so is the number
(`ExactValue`), and on target the median of a window is its middle, the
ratio is one and the mean of equal rows is that row (`OnTargetKeeps`).

**The database with its stores.** `DiskInv` follows a transaction statement by
statement: after each, the rows are those of the statements that ran, and the
rest of the list is what is missing for the block, its coins and its spends to be
there together. A bound row that was not reset can put a row of another block into a
transaction; from then on (`mixed`) nothing is claimed. `CleanInv` adds for a
history without failures that every saved block descends from the genesis, that
every coin they spend is marked, and that a replay gives back these blocks.
`ViewsInv` says of each MMR and checkpoint which list of blocks it `Shows`: the
blocks of its history in order, for a checkpoint the history up to the block that
saved it, for a rebuild the canonical chain. Then the coins it holds unspent
are computed from the list. The cascade is the rebuild of the same list, by
`OneMoreBlock` of `IndexProofs`.

That proof did not go through for `ViewsAgree` as first stated. The clause on
spent coins held in the run only because one write could fail: after two, the
tree can begin at a block that spends a coin of a block never saved, which the
searcher calls spent and the MMR has no leaf for. The clause is now about the
coins the chain creates, the hypothesis it needs has a name (`CoinsAreNew`), and
the run allows two failed writes.

**Assumptions.** The named `ASSUME`s on constants in each module, which TLC
evaluates in the runs. `NoBrackets`, a hypothesis of `ProofsShowTheLeaf`, is what
makes `Hash` injective: the numbers that stand for its brackets are not coins. Three facts about blocks are hypotheses of the theorems
that need them, because no code checks them for a peer's block: `NumbersFollow`
(a number is the parent's plus one: what the generator writes), `CoinsFlowDown`
(a block spends coins created on its own chain) and `CoinsAreNew` (no block
creates a coin that it or a block below it spends: ids are hashes). TLC
evaluates them for the instances of `node` and `persistence` (`InstanceNumbers`, `InstanceIsDue`), so
they are satisfied there with forks and conflicting spends.
`NatSetInduction` proves, from the well-ordering in the library, induction over a set
of numbers, bounded or not, that it has a least one, and that a function defined by
recursion over numbers or over ancestors exists: the library's own induction takes an operator, which the
provers here cannot instantiate.

Lemmas that the two instances of a component are one (`SameTrees`, `SameMega`)
are in both `NodeProofs` and `PersistentDBProofs`, because each instantiates it
over its own database.

Proved and not checked by a run: that the pool's deque matches its map
(`OrderAlwaysMatches`) and is bounded, that the index names the newest leaf
(`IndexIsRight`), that the worker never sleeps on mail, the type invariants, and the inductive invariants named above.

Only model-checked: liveness (`PostedIsHandled`, `TemplateTaken`, `ShutdownEnds`,
`ClosedPeersLeave`) and `ENABLED`, which the prover does not do;
`EveryStepIsPaid`; the written form of `MMRProof`, `MiniNumber`, `Wire`, the keys,
the phrases, the parser and the interpreter, which compute recursively over data,
and `Spend`, which is built from them.

## 5. Not modelled

* Hash, RSA and Schnorr primitives: pure functions of bytes, taken for injective
  functions. SQRT, `setSignificantDigits` and the text of traces.
* The nonce search beyond "may find a block", hash counters, `TxPoWMiner` (tests
  only), filling of a block's header and transaction list by the generator.
* `NIOServer` of `src/src`, which `main.cpp` does not start; broadcast and
  `NodePair` of the older node, which no program of it uses.
* `Token`, which no coin is written with; `MMRSet::serialise`, without a caller;
  the text forms of `MiniString` and hexadecimal numbers.
* `pruneBelow`, without a caller, whose own comment says parent pointers break;
  statistics; main's status loop and options; wallet balance queries.
* The TypeScript packages.

`TxPoWValidator`, `Wallet`, `TreeKey`, `BIP39` and `DifficultyAdjust` are modelled
though only tests call them. `PROJECT.json` gives the reason for each part left out.

## 6. Plan

Done: TxPowTree, Mempool, MegaMMR over CoinLedger, Cascade, MinimaDB with
TxPoWProcessor and Node, MessageProcessor over Mailbox; then proofs of coins,
PersistentDB, Producers over LegacyChain, the older server and chain, the KISS
VM, and Spend over the wire format.

Left, to prove: `EveryStepIsPaid`, from a bound on the frames of the interpreter;
the laws of `MiniNumber` and `Wire`, which first need their recursive operators
written as recursive functions, as was done for `MMRProof` and `DifficultyAdjust`.

Left, to model: the generator's choice of transactions against the pool while the
worker changes it; `Token`; the server of `src/src` once a program starts it.
