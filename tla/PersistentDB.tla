---------------------------- MODULE PersistentDB ----------------------------
(***************************************************************************)
(* MinimaDB with its own persistence (openPersistence, persistBlock,       *)
(* addBlockWithPersist, bootstrapFromDB), over the two SQLite stores of    *)
(* persistence/: every block is written with the coins it creates and      *)
(* spends in one transaction, and an object that is opened again replays   *)
(* the block table and rebuilds everything else from the canonical chain.  *)
(***************************************************************************)
EXTENDS MinimaDB, SequencesExt

CONSTANTS
  Genesis,     \* makeGenesisTxPoW()
  BlockTime,   \* timeMilli of the header
  MaxAdds,     \* bound on the blocks given to addBlock
  MaxFailures  \* bound on the writes that fail

ASSUME PersistAssumption ==
  /\ Genesis \in TxPoWs /\ Parent[Genesis] = NoBlock /\ Number[Genesis] = 0
  /\ BlockTime \in [TxPoWs -> Nat]
  /\ \A b \in TxPoWs : IsFiniteSet(Inputs[b])
  /\ MaxAdds \in Nat /\ MaxFailures \in Nat

VARIABLES
  phase,       \* "closed", "open" (m_persistEnabled) or "memory" (opening failed)
  wal,         \* the states of the tables a power loss may bring back, newest last
  bound,       \* the row each statement is left bound to by a failed step
  failures,    \* history: how many writes have failed
  applied,     \* history: the blocks the MegaMMR stands for, in order
  appliedAt,   \* history: the same for each of its checkpoints
  counted,     \* history: the blocks in the per-block MMR, in order
  adds,        \* history: how often addBlock was called
  mixed        \* history: a transaction has written the row of an earlier one

history == <<failures, mixed, applied, appliedAt, counted, adds>>
vars == <<db, phase, wal, bound, history>>

NoRow == [kind |-> "none", id |-> NoBlock, number |-> -1]
Unbound == [kind \in {"block", "coin", "spend"} |-> NoRow]
EmptyTables == [blocks |-> {}, coins |-> <<>>]
tables == wal[Len(wal)]
-----------------------------------------------------------------------------
(* The statements of BlockStore and UTxOStore.                             *)

\* Mutant: the insert replaces a coin that is there.
WriteReplacing(t, row) ==
  IF row.kind = "coin"
  THEN [t EXCEPT !.coins = [c \in DOMAIN @ \cup {row.id} |->
          IF c = row.id THEN [created |-> row.number, spent |-> -1] ELSE @[c]]]
  ELSE IF row.kind = "block" THEN [t EXCEPT !.blocks = @ \cup {row.id}]
  ELSE [t EXCEPT !.coins = [c \in DOMAIN @ |->
          IF c = row.id THEN [@[c] EXCEPT !.spent = row.number] ELSE @[c]]]

\* INSERT OR REPLACE of a block, INSERT OR IGNORE of a coin, UPDATE of a coin.
Write(t, row) ==
  CASE row.kind = "block" -> [t EXCEPT !.blocks = @ \cup {row.id}]
    [] row.kind = "coin"  ->
         [t EXCEPT !.coins = [c \in DOMAIN @ \cup {row.id} |->
            IF c \in DOMAIN @ THEN @[c] ELSE [created |-> row.number, spent |-> -1]]]
    [] row.kind = "spend" ->
         [t EXCEPT !.coins = [c \in DOMAIN @ |->
            IF c = row.id THEN [@[c] EXCEPT !.spent = row.number] ELSE @[c]]]

\* A statement whose last step failed was not reset: it refuses its new values
\* and runs once more with the old ones.
BoundRow(bs, row) == IF bs[row.kind] = NoRow THEN row ELSE bs[row.kind]

Step(run, row) ==
  [tables |-> Write(run.tables, BoundRow(run.bound, row)),
   bound  |-> [run.bound EXCEPT ![row.kind] = NoRow]]

\* What persistBlock runs between BEGIN and COMMIT.
Rows(b) ==
  LET numbered(kind, ids) ==
        [i \in DOMAIN ids |-> [kind |-> kind, id |-> ids[i], number |-> Number[b]]]
  IN  numbered("block", <<b>>) \o numbered("coin", Outputs[b])
        \o numbered("spend", SetToSeq(Inputs[b]))

\* The tables and the bound rows after the first n of them.
After(n, b) ==
  LET run[i \in 0 .. Len(Rows(b))] ==
        IF i = 0 THEN [tables |-> tables, bound |-> bound]
        ELSE Step(run[i - 1], Rows(b)[i])
  IN  run[n]

\* A transaction that changes nothing leaves no new state.
Commit(t) == wal' = IF t = tables THEN wal ELSE Append(wal, t)

\* Mutant: no transaction, what ran before the failure stays.
PersistThrowsHalfway(b) ==
  /\ failures < MaxFailures
  /\ \E n \in 0 .. Len(Rows(b)) :
       /\ bound' = After(n, b).bound
       /\ Commit(After(n, b).tables)
  /\ failures' = failures + 1
  /\ UNCHANGED mixed

PersistCommits(b) ==
  LET done == After(Len(Rows(b)), b)
  IN  /\ Commit(done.tables)
      /\ bound' = done.bound
      /\ mixed' = (mixed \/ \E row \in Range(Rows(b)) : BoundRow(bound, row) # row)
      /\ UNCHANGED failures

\* BEGIN or COMMIT fails, or statement n does and stays bound; the transaction
\* is rolled back and the exception leaves addBlockWithPersist.
PersistThrows(b) ==
  /\ failures < MaxFailures
  /\ \/ UNCHANGED bound
     \/ bound' = After(Len(Rows(b)), b).bound
     \/ \E n \in DOMAIN Rows(b) :
          LET before == After(n - 1, b).bound
              row    == Rows(b)[n]
          IN  bound' = [before EXCEPT ![row.kind] = BoundRow(before, row)]
  /\ failures' = failures + 1
  /\ UNCHANGED <<wal, mixed>>

PersistBlock(b) ==
  IF phase = "open" THEN PersistCommits(b) \/ PersistThrows(b)
  ELSE UNCHANGED <<wal, bound, failures, mixed>>
-----------------------------------------------------------------------------
(* Rebuilding from the canonical chain.                                    *)

\* processBlock and checkpoint for a block of the chain.
Onto(m, b) ==
  LET mega == Mega!ProcessBlock(m.mega, Inputs[b], Outputs[b])
  IN  [mega |-> mega, cps |-> Mega!Checkpoint(m.cps, mega, Number[b])]

RebuildMegaMMR(d) ==
  LET chain == Tree!CanonicalChain(d.txPowTree)
      upTo[i \in 0 .. Len(chain)] ==
        IF i = 0 THEN [mega |-> Mega!EmptyMMR, cps |-> <<>>]
        ELSE Onto(upTo[i - 1], chain[i])
      all == upTo[Len(chain)]
  IN  [d EXCEPT !.megaMMR = all.mega,
                !.checkpoints = Mega!PruneCheckpoints(all.cps, d.chainState.height)]

RebuildCascade(d) ==
  [d EXCEPT !.cascade = Casc!RebuildCascade(Reverse(Tree!CanonicalChain(d.txPowTree)))]

ReplayBlock(d, b) ==
  LET t == Tree!AddTxPoW(d.txPowTree, b)
  IN  IF Tree!AddReturns(d.txPowTree, b)
      THEN [SetTip(d, t) EXCEPT !.txPowTree = t, !.blockStore = @ \cup {b}]
      ELSE d

\* Mutant: the MegaMMR is left as it is.
RebuildButMega(d) == RebuildCascade(RebuildMMR(d))

Rebuild(d) == RebuildCascade(RebuildMegaMMR(RebuildMMR(d)))

\* getRange: by number, rows of one number in any order.
Ordered(rows) ==
  {s \in SetToSeqs(rows) : \A i \in 2 .. Len(s) : Number[s[i - 1]] <= Number[s[i]]}

Bootstrap(d, rows) ==
  LET replayed[i \in 0 .. Len(rows)] ==
        IF i = 0 THEN d ELSE ReplayBlock(replayed[i - 1], rows[i])
  IN  IF rows = <<>> THEN d ELSE Rebuild(replayed[Len(rows)])

\* reset() keeps the block store and the mempool.
ResetDB(d) == [EmptyDB EXCEPT !.blockStore = d.blockStore, !.mempool = d.mempool]
-----------------------------------------------------------------------------
(* TxPoWSearcher and the queries of the two stores.                        *)

Chain == Tree!CanonicalChain(db.txPowTree)
IsInChain(b) == b \in Range(Chain)
GetLastBlocks(n) == SubSeq(Chain, Max({1, Len(Chain) - n + 1}), Len(Chain))
GetBlockAtHeight(n) ==
  LET at == {i \in DOMAIN Chain : Number[Chain[i]] = n}
  IN  IF at = {} THEN NoBlock ELSE Chain[Min(at)]

OutputsOf(bs) == UNION {Range(Outputs[b]) : b \in bs}
InputsOf(bs) == UNION {Inputs[b] : b \in bs}
IsCoinSpent(c) == c \in InputsOf(Range(Chain))
IsCoinUnspent(c) == c \in OutputsOf(Range(Chain)) \ InputsOf(Range(Chain))

\* SELECT ... LIMIT 1 answers with one of these.
GetTip ==
  {b \in tables.blocks : \A c \in tables.blocks : Number[c] <= Number[b]}
GetByNumber(n) ==
  LET at == {b \in tables.blocks : Number[b] = n}
  IN  {b \in at : \A c \in at : BlockTime[c] <= BlockTime[b]}
GetUnspent == {c \in DOMAIN tables.coins : tables.coins[c].spent = -1}
-----------------------------------------------------------------------------
Init ==
  /\ db = EmptyDB /\ phase = "closed" /\ wal = <<EmptyTables>> /\ bound = Unbound
  /\ failures = 0 /\ applied = <<>> /\ appliedAt = <<>> /\ counted = <<>>
  /\ adds = 0 /\ mixed = FALSE

\* What a rebuild leaves in the MegaMMR: the chain, and in each checkpoint the
\* chain up to the last block of its number.
UpTo(chain, n) == SubSeq(chain, 1, Max({i \in DOMAIN chain : Number[chain[i]] = n}))

ChainApplied ==
  LET chain == Tree!CanonicalChain(db'.txPowTree)
  IN  /\ applied' = chain /\ counted' = chain
      /\ appliedAt' = [n \in DOMAIN db'.checkpoints |-> UpTo(chain, n)]

Open ==
  /\ phase = "closed"
  /\ \/ /\ phase' = "open"
        /\ \E rows \in Ordered(tables.blocks) : db' = Bootstrap(db, rows)
     \/ /\ phase' = "memory" /\ UNCHANGED db
  /\ ChainApplied
  /\ UNCHANGED <<wal, bound, failures, mixed, adds>>

\* addBlock ends in applyBlockToMMR, processBlock and a checkpoint.
BlockApplied(b) ==
  /\ adds < MaxAdds /\ adds' = adds + 1
  /\ applied' = Append(applied, b) /\ counted' = Append(counted, b)
  /\ appliedAt' = [n \in DOMAIN db'.checkpoints |->
                     IF n = Number[b] THEN applied' ELSE appliedAt[n]]

InitGenesis ==
  /\ phase # "closed" /\ db.txPowTree.nodes = {}
  /\ db' = AddBlock(db, Genesis)
  /\ BlockApplied(Genesis)
  /\ PersistBlock(Genesis)
  /\ UNCHANGED phase

\* A block the tree knows is added again: addTxPoW returns true for it.
AddBlockWithPersist(b) ==
  /\ phase # "closed" /\ db.txPowTree.nodes # {}
  /\ AddBlockReturns(db, b)
  /\ db' = AddBlock(db, b)
  /\ BlockApplied(b)
  /\ PersistBlock(b)
  /\ UNCHANGED phase

RollbackMegaMMR(n) ==
  /\ phase # "closed" /\ n \in DOMAIN db.checkpoints
  /\ db' = [db EXCEPT !.megaMMR = db.checkpoints[n]]
  /\ applied' = appliedAt[n]
  /\ UNCHANGED <<phase, wal, bound, failures, mixed, appliedAt, counted, adds>>

\* The rebuilding calls, as after a reorganisation.
RebuildAll ==
  /\ phase # "closed"
  /\ db' = Rebuild(db)
  /\ ChainApplied
  /\ UNCHANGED <<phase, wal, bound, failures, mixed, adds>>

Reset ==
  /\ phase # "closed"
  /\ db' = ResetDB(db)
  /\ applied' = <<>> /\ appliedAt' = <<>> /\ counted' = <<>>
  /\ UNCHANGED <<phase, wal, bound, failures, mixed, adds>>

Gone ==
  /\ phase # "closed" /\ phase' = "closed"
  /\ db' = EmptyDB /\ bound' = Unbound
  /\ applied' = <<>> /\ appliedAt' = <<>> /\ counted' = <<>>
  /\ UNCHANGED <<failures, mixed, adds>>

\* Closing the last connection moves the log into the database file; a crash of
\* the process leaves it to be read again; after a power loss, with
\* synchronous=NORMAL, the last transactions may be missing.
Close == Gone /\ wal' = <<tables>>
Crash == Gone /\ UNCHANGED wal
PowerLoss == Gone /\ \E n \in DOMAIN wal : wal' = <<wal[n]>>

Next ==
  \/ Open \/ InitGenesis \/ RebuildAll \/ Reset \/ Close \/ Crash \/ PowerLoss
  \/ \E b \in TxPoWs : AddBlockWithPersist(b)
  \/ \E n \in DOMAIN db.checkpoints : RollbackMegaMMR(n)

Spec == Init /\ [][Next]_vars
-----------------------------------------------------------------------------
(* Properties.                                                             *)

\* A block and those below it: the least set that holds, with a block, its parent.
ParentsIn(S) == \A b \in S : Parent[b] # NoBlock => Parent[b] \in S
Lineage ==
  [b \in TxPoWs |-> {a \in TxPoWs :
     \A S \in SUBSET TxPoWs : b \in S /\ ParentsIn(S) => a \in S}]
Linear(s) == \A j \in DOMAIN s : \A i \in 1 .. j - 1 : s[i] \in Lineage[s[j]] \ {s[j]}
CoinsLeft(s) == OutputsOf(Range(s)) \ InputsOf(Range(s))

\* What the generator and the wallet write, and what addBlock takes from its
\* callers on trust: numbers count the blocks from the genesis, a block spends
\* what a block below it creates, and creates no coin that was spent below it or
\* that it spends itself.
NumbersFollow ==
  \A b \in TxPoWs : Parent[b] # NoBlock => Number[b] = Number[Parent[b]] + 1
CoinsFlowDown == \A b \in TxPoWs : Inputs[b] \subseteq OutputsOf(Lineage[b])
CoinsAreNew ==
  \A b \in TxPoWs : Range(Outputs[b]) \cap InputsOf(Lineage[b]) = {}

\* However it came about (block by block, by replay, by a rebuild, by rolling
\* back to a checkpoint), an MMR that went through the blocks of one branch
\* shows the coins TxPoWSearcher finds unspent on it.  On a chain without side
\* branches they agree on every coin (on those spent, if the chain has them: a
\* root that is not the genesis block may spend a coin of a block that was never
\* saved), the cascade is the one a rebuild would make, and every block of the
\* last CheckpointDepth can be rolled back to.
ViewsAgree ==
  /\ Linear(applied) => Mega!Unspent(db.megaMMR) = CoinsLeft(applied)
  /\ \A n \in DOMAIN appliedAt :
       Linear(appliedAt[n]) => Mega!Unspent(db.checkpoints[n]) = CoinsLeft(appliedAt[n])
  /\ Linear(counted) => Mega!Unspent(db.mmrSet) = CoinsLeft(counted)
  /\ counted = Chain =>
       /\ \A c \in Coins : IsCoinUnspent(c) <=> c \in Mega!Unspent(db.mmrSet)
       /\ \A c \in OutputsOf(Range(Chain)) :
            IsCoinSpent(c) <=> db.mmrSet.idx[c] \in db.mmrSet.spent
       /\ \A b \in Range(GetLastBlocks(CheckpointDepth + 1)) :
            Number[b] \in DOMAIN db.checkpoints
       /\ db.cascade = RebuildCascade(db).cascade

\* Blocks and coins are saved together: the coin table has the coins the saved
\* blocks create, and marks none they do not spend, through failed writes,
\* crashes and power losses, until a statement that was not reset slips an old
\* row into a transaction.  If no write has failed it marks all they spend (a
\* block saved by a retry, after the block that spends its coin, would not).
Spent(coins) == {c \in DOMAIN coins : coins[c].spent # -1}
SavedTogether ==
  ~ mixed => \A n \in DOMAIN wal :
    LET t == wal[n]
        due == OutputsOf(t.blocks) \cap InputsOf(t.blocks)
    IN  /\ DOMAIN t.coins = OutputsOf(t.blocks)
        /\ Spent(t.coins) \subseteq due
        /\ failures = 0 => Spent(t.coins) = due

\* While no write has failed, the stores answer as memory does: they hold the
\* same blocks, the highest row is as high as the tip unless the tree was
\* reset, and on a history without side branches the block at a number and the
\* unspent coins are those of the canonical chain.
DiskAnswersLikeMemory ==
  phase = "open" /\ failures = 0 =>
    /\ tables.blocks = db.blockStore
    /\ tables.blocks = db.txPowTree.nodes =>
         \A b \in GetTip : Number[b] = db.chainState.height
    /\ (\A b \in tables.blocks : IsInChain(b)) =>
         /\ \A b \in tables.blocks :
              GetByNumber(Number[b]) = {GetBlockAtHeight(Number[b])}
         /\ GetUnspent = {c \in Coins : IsCoinUnspent(c)}
=============================================================================
