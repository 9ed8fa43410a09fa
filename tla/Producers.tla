----------------------------- MODULE Producers -----------------------------
(***************************************************************************)
(* The threads of main.cpp that produce blocks: the miner and the peer     *)
(* thread, with the callbacks that join them to each other and to the      *)
(* processor, and the main thread that starts and stops them.  Of the      *)
(* processor (module Node) only the tip the generator reads is kept.       *)
(***************************************************************************)
EXTENDS MiningManager, P2PSync

CONSTANT MinedUntil   \* bound: no block is found beside a longer peer chain

ASSUME ProducersAssumption == MinedUntil \in Nat
ASSUME ThreadsAssumption == {"miner", "peer"} \subseteq Threads

VARIABLES
  submitted,   \* the blocks handed to submitTxPoW
  main         \* the main thread

vars == <<chainVars, minerVars, syncVars, submitted, main>>

Init ==
  /\ ChainInit /\ MinerInit /\ SyncInit
  /\ submitted = {}
  /\ main = "boot"
-----------------------------------------------------------------------------
(* The processor.                                                          *)

Submit(b) == submitted' = submitted \cup {b}

\* The worker may be anywhere in its queue: the tip of the tree is the genesis
\* or a submitted block whose ancestors were submitted.
InTree[b \in submitted \cup {Genesis}] ==
  b = Genesis \/ (b.parent \in submitted \cup {Genesis} /\ InTree[b.parent])

PossibleTips == {b \in submitted \cup {Genesis} : InTree[b]}

\* generateTxPoW for a tip, on the peer thread.
Generated(tip) == Block(tip.number + 1, tip, 0)
-----------------------------------------------------------------------------
(* The threads, with the callbacks of main.                                *)

MinerAlone == LoopTest \/ TakeTemplate \/ ReadHeight \/ ReadTip \/ SeeNewTip \/ SeeStop

MinerStep ==
  \/ MinerAlone /\ UNCHANGED <<syncVars, submitted, main>>
  \/ ChainStep("miner") /\ UNCHANGED <<minerVars, syncVars, submitted, main>>
  \/ ReportMined /\ Submit(miner.tmpl) /\ UNCHANGED <<syncVars, main>>

Find == peer.limit <= MinedUntil /\ FindBlock /\ UNCHANGED <<syncVars, submitted, main>>

PeerThreadStep ==
  \/ SyncAlone /\ main # "boot" /\ UNCHANGED <<minerVars, submitted, main>>
  \/ ChainStep("peer") /\ UNCHANGED <<minerVars, syncVars, submitted, main>>
  \/ \E b \in {PeerBlock[i] : i \in 1..PeerLength} :
       /\ BatchBlock(b) \/ EventBlock(b)
       /\ Submit(b) /\ NotifyNewTip(b)
       /\ UNCHANGED main
  \/ SyncDone /\ (\E t \in PossibleTips : SetNextBlock(Generated(t)))
     /\ UNCHANGED <<submitted, main>>

Environment == PeerStep /\ UNCHANGED <<minerVars, submitted, main>>
-----------------------------------------------------------------------------
(* The main thread.                                                        *)

\* At boot the miner is started, and the peer thread after it.
StartMining ==
  /\ main = "boot" /\ main' = "run"
  /\ StartMiner
  /\ UNCHANGED <<chainVars, syncVars, submitted>>

\* A signal: processor.stop, then p2p.stop.
Stop ==
  /\ main = "run"
  /\ main' = "joinPeer"
  /\ StopSync
  /\ UNCHANGED <<chainVars, minerVars, submitted>>

JoinPeer ==
  /\ main = "joinPeer" /\ sync.pc = "ended"
  /\ main' = "joinMiner"
  /\ StopMiner
  /\ UNCHANGED <<chainVars, syncVars, submitted>>

JoinMiner ==
  /\ main = "joinMiner" /\ miner.pc = "off"
  /\ main' = "returned"
  /\ UNCHANGED <<chainVars, minerVars, syncVars, submitted>>

MainStep == StartMining \/ Stop \/ JoinPeer \/ JoinMiner

Next ==
  MinerStep \/ Find \/ PeerThreadStep \/ Environment \/ MainStep

Spec == Init /\ [][Next]_vars

\* Threads that can run do: a receive returns, with a message or by its
\* timeout.  No block has to be found, the peer owes nothing, no signal comes.
FairSpec ==
  /\ Spec
  /\ WF_vars(MinerStep) /\ WF_vars(PeerThreadStep)
  /\ WF_vars(StartMining \/ JoinPeer \/ JoinMiner)
-----------------------------------------------------------------------------
(* Properties.                                                             *)

\* A template built from the chain without a block the miner has since been
\* told of is never mined on for good: as long as it is in work the flag is up,
\* so that the next look at it has the template rebuilt, whatever order the two
\* threads read and write the chain, the flag and the slot in.
NoTipMissed ==
  miner.pc = "mine" /\ miner.fromChain /\ ~ tipChanged => unseen = {}

\* A template handed over after a sync is taken off the slot by the miner,
\* though it may be at work on another one and find no block.
TemplateTaken == nextBlock # NoBlock ~> nextBlock = NoBlock \/ miner.pc = "off"

\* The batches of one download follow each other without gap or overlap from
\* the block after our tip to the peer's tip, none longer than a batch.
RequestsTile ==
  requested # <<>> =>
    /\ requested[1][1] = sync.ourTip + 1
    /\ \A i \in 1..Len(requested) :
         /\ requested[i][2] - requested[i][1] \in 0..(BatchSize - 1)
         /\ i > 1 => requested[i][1] = requested[i - 1][2] + 1
    /\ sync.pc = "done" => requested[Len(requested)][2] = sync.peerTip

\* A peer thread told to stop ends, and main returns, if the peer falls silent:
\* from any point of handshake, download, retry or event loop.
ShutdownEnds ==
  main = "joinPeer" /\ sync.pc # "new" /\ ~ sync.running ~> main = "returned"
=============================================================================
