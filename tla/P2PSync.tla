------------------------------ MODULE P2PSync ------------------------------
(***************************************************************************)
(* The peer thread of network/P2PSync.hpp over the connection of           *)
(* network/NIOClient.hpp: handshake, download of missing blocks (IBD),     *)
(* event loop, reconnect.  The peer itself is the environment: it answers  *)
(* requests late, unreadably or not at all, announces blocks, closes.      *)
(***************************************************************************)
EXTENDS LegacyChain, Sequences

CONSTANTS
  PeerLength,  \* bound on the number of blocks of the peer's chain
  PeerStarts,  \* what the peer may be like: its tip, the block it has pruned
               \* its chain up to, bounds on its later tip and its pulses, and
               \* whether an answer of it may be unreadable
  BatchSize,   \* cfg_.ibdBatchSize
  MaxRetries,  \* cfg_.maxRetries
  MaxWire      \* bound on the messages in flight before the peer adds one

ASSUME SyncAssumption ==
  /\ PeerLength \in Nat
  /\ PeerStarts \subseteq [tip : 0..PeerLength, root : 0..PeerLength,
                           limit : 0..PeerLength, pulses : Nat, garbled : BOOLEAN]
  /\ BatchSize \in Nat \ {0} /\ MaxRetries \in Nat \ {0}
  /\ MaxWire \in Nat \ {0}

VARIABLES
  sync,        \* the thread: pc and the members and locals below
  conn,        \* fd_ and connected_, and what is in flight each way
  peer,        \* the peer, as in PeerStarts
  requested    \* history: the ranges requested in this IBD, in order

syncVars == <<sync, conn, peer, requested>>

PeerBlock[i \in 0..PeerLength] ==
  Block(i, IF i = 0 THEN NoBlock ELSE PeerBlock[i - 1], 0)
Genesis == PeerBlock[0]
CascadeTip == [PeerBlock[peer.root] EXCEPT !.by = -1]

NoConn == [fd |-> FALSE, connected |-> FALSE, open |-> FALSE,
           asked |-> <<>>, wire |-> <<>>]

SyncInit ==
  /\ sync = [pc |-> "new", running |-> FALSE, retries |-> 0, localTip |-> 0,
             peerTip |-> -1, seen |-> {}, from |-> 0, ourTip |-> 0,
             processed |-> 0, work |-> <<>>, block |-> NoBlock]
  /\ conn = NoConn
  /\ peer \in PeerStarts
  /\ requested = <<>>

SyncGoto(pc) == sync' = [sync EXCEPT !.pc = pc]

\* The locals of doIBD and its callees are gone when it is left.
Idle == [sync EXCEPT !.from = 0, !.ourTip = 0, !.processed = 0,
                     !.work = <<>>, !.block = NoBlock]
-----------------------------------------------------------------------------
(* The peer.                                                               *)

Send(m) == conn' = [conn EXCEPT !.wire = Append(@, m)]

Blocks(from, to) ==
  LET first == IF from > peer.root THEN from ELSE peer.root + 1 IN
  [i \in 1..(IF to < first THEN 0 ELSE to - first + 1) |-> PeerBlock[first + i - 1]]

\* Its answer to a request; blocks it has pruned come as a cascade.
AnswerTo(m) ==
  CASE m.type = "GREETING" -> [type |-> "GREETING", top |-> peer.tip]
    [] m.type = "IBD_REQ"  -> [type |-> "IBD", cascade |-> m.from <= peer.root,
                               blocks |-> Blocks(m.from, m.to)]
    [] m.type = "TXPOWREQ" -> [type |-> "TXPOW", block |-> m.block]

PeerAnswers ==
  /\ conn.open /\ conn.asked # <<>>
  /\ \/ conn' = [conn EXCEPT !.asked = Tail(@),
                             !.wire = Append(@, AnswerTo(Head(conn.asked)))]
     \/ /\ peer.garbled /\ Head(conn.asked).type = "IBD_REQ"
        /\ conn' = [conn EXCEPT !.asked = Tail(@),
                                !.wire = Append(@, [type |-> "IBD", cascade |-> FALSE,
                                                    blocks |-> <<>>])]
  /\ UNCHANGED <<sync, peer, requested, chainVars>>

\* A new block, announced by its id or in full when there is a connection.
PeerAdvances ==
  /\ peer.tip < peer.limit
  /\ peer' = [peer EXCEPT !.tip = @ + 1]
  /\ IF conn.open /\ Len(conn.wire) < MaxWire
       THEN \E type \in {"TXPOWID", "TXBLOCK"} :
              Send([type |-> type, block |-> PeerBlock[peer.tip + 1]])
       ELSE UNCHANGED conn
  /\ UNCHANGED <<sync, requested, chainVars>>

\* A PULSE, which stands for all that changes nothing here (a transaction goes
\* to the processor, other types nowhere), a PING, or its tip's id once more.
PeerPulses ==
  /\ conn.open /\ Len(conn.wire) < MaxWire /\ peer.pulses > 0
  /\ peer' = [peer EXCEPT !.pulses = @ - 1]
  /\ \/ \E type \in {"PULSE", "PING"} : Send([type |-> type])
     \/ Send([type |-> "TXPOWID", block |-> PeerBlock[peer.tip]])
  /\ UNCHANGED <<sync, requested, chainVars>>

PeerCloses ==
  /\ conn.open
  /\ conn' = [conn EXCEPT !.open = FALSE, !.asked = <<>>]
  /\ UNCHANGED <<sync, peer, requested, chainVars>>

PeerStep == PeerAnswers \/ PeerAdvances \/ PeerPulses \/ PeerCloses
-----------------------------------------------------------------------------
(* send and receive of NIOClient.                                          *)

\* A send to a closed peer fails, or is buffered and lost.
Sent(m) ==
  IF conn.open THEN conn' = [conn EXCEPT !.asked = Append(@, m)]
  ELSE UNCHANGED conn

\* receive returns the next message, finds the connection closed, or times out;
\* after a timeout the connection counts as connected.
Received == conn.wire # <<>> /\ conn' = [conn EXCEPT !.wire = Tail(@)]
Message == Head(conn.wire)

ReceiveFails ==
  /\ conn.wire = <<>>
  /\ conn' = IF conn.open THEN conn ELSE [conn EXCEPT !.connected = FALSE]
-----------------------------------------------------------------------------
(* run.                                                                    *)

Begin ==
  /\ sync.pc = "new"
  /\ sync' = [sync EXCEPT !.pc = "test", !.running = TRUE]
  /\ UNCHANGED <<conn, peer, requested, chainVars>>

\* Mutant: a connection that still stands is kept.
RunTestConnected ==
  /\ sync.pc = "test"
  /\ SyncGoto(IF sync.running \/ conn.connected THEN "connect" ELSE "ended")
  /\ UNCHANGED <<conn, peer, requested, chainVars>>

RunTest ==
  /\ sync.pc = "test"
  /\ SyncGoto(IF sync.running THEN "connect" ELSE "ended")
  /\ UNCHANGED <<conn, peer, requested, chainVars>>

\* The catch block of run: disconnect, count, give up or sleep and go round.
GiveUp == sync.retries + 1 >= MaxRetries

Caught ==
  /\ sync' = [Idle EXCEPT !.pc = IF GiveUp THEN "ended" ELSE "test",
                          !.retries = @ + 1,
                          !.running = @ /\ ~ GiveUp]
  /\ conn' = NoConn /\ requested' = <<>>
  /\ UNCHANGED <<peer, chainVars>>

\* With a socket from before, connect returns at once, dead or not.
Connect ==
  /\ sync.pc = "connect"
  /\ \/ /\ IF conn.fd THEN UNCHANGED conn
           ELSE conn' = [NoConn EXCEPT !.fd = TRUE, !.connected = TRUE, !.open = TRUE]
        /\ SyncGoto("hello")
        /\ UNCHANGED <<peer, requested, chainVars>>
     \/ ~ conn.fd /\ Caught
-----------------------------------------------------------------------------
(* doHandshake and doIBD.                                                  *)

SendGreeting ==
  /\ sync.pc = "hello"
  /\ \/ /\ Sent([type |-> "GREETING"])
        /\ SyncGoto("greeting")
        /\ UNCHANGED <<peer, requested, chainVars>>
     \/ ~ conn.open /\ Caught

\* Anything but a greeting ends the attempt.
ReceiveGreeting ==
  /\ sync.pc = "greeting"
  /\ \/ /\ Received /\ Message.type = "GREETING"
        /\ sync' = [sync EXCEPT !.pc = "ibd", !.peerTip = Message.top]
        /\ UNCHANGED <<peer, requested, chainVars>>
     \/ conn.wire # <<>> /\ Message.type # "GREETING" /\ Caught
     \/ conn.wire = <<>> /\ Caught

UpToDate == sync.peerTip <= sync.localTip

\* doIBD reads both tips; when up to date it only calls onSyncDone_.
StartIBD ==
  /\ sync.pc = "ibd"
  /\ requested' = <<>>
  /\ sync' = [sync EXCEPT !.pc = IF UpToDate THEN "done" ELSE "request",
                          !.ourTip = sync.localTip, !.from = sync.localTip + 1,
                          !.processed = 0]
  /\ UNCHANGED <<conn, peer, chainVars>>

\* Mutant: the end of a batch is its start plus its size.
BatchEndPast == IF sync.from + BatchSize < sync.peerTip THEN sync.from + BatchSize
                ELSE sync.peerTip

BatchEnd == IF sync.from + BatchSize - 1 < sync.peerTip
            THEN sync.from + BatchSize - 1 ELSE sync.peerTip

RequestBatch ==
  /\ sync.pc = "request"
  /\ \/ /\ Sent([type |-> "IBD_REQ", from |-> sync.from, to |-> BatchEnd])
        /\ requested' = Append(requested, <<sync.from, BatchEnd>>)
        /\ SyncGoto("reply")
        /\ UNCHANGED <<peer, chainVars>>
     \/ ~ conn.open /\ Caught

\* from = to + 1, whatever the answer was; after the last batch localTip_ moves
\* by the number of blocks that came.
NextBatch(s) ==
  IF BatchEnd + 1 <= s.peerTip
    THEN [s EXCEPT !.pc = "request", !.from = BatchEnd + 1]
    ELSE [s EXCEPT !.pc = "done", !.from = BatchEnd + 1,
                   !.localTip = s.ourTip + s.processed]

ReceiveBatch ==
  /\ sync.pc = "reply"
  /\ \/ /\ Received /\ Message.type = "IBD"
        /\ sync' = [sync EXCEPT !.pc = "batch", !.work = Message.blocks]
        /\ IF Message.cascade THEN CallApplyCascade("peer", CascadeTip, 0) /\ UNCHANGED legacy
           ELSE UNCHANGED chainVars
     \/ /\ Received /\ Message.type # "IBD"
        /\ sync' = NextBatch(sync)
        /\ UNCHANGED chainVars
  /\ UNCHANGED <<peer, requested>>

ReceiveBatchFails == sync.pc = "reply" /\ conn.wire = <<>> /\ Caught

\* processIBDPayload goes through the blocks one by one.
NextOfBatch ==
  /\ sync.pc = "batch" /\ Returned("peer")
  /\ IF sync.work = <<>> THEN sync' = NextBatch(sync) /\ UNCHANGED chainVars
     ELSE /\ SyncGoto("batchBlock")
          /\ CallProcessBlock("peer", Head(sync.work))
          /\ UNCHANGED legacy
  /\ UNCHANGED <<conn, peer, requested>>

\* onBlock_ after processBlock; what the callback does is the caller's.
BatchBlock(b) ==
  /\ sync.pc = "batchBlock" /\ Returned("peer") /\ b = Head(sync.work)
  /\ sync' = [sync EXCEPT !.pc = "batch", !.work = Tail(@), !.processed = @ + 1]
  /\ UNCHANGED <<conn, peer, requested, chainVars>>

\* onSyncDone_, which also sets localTip_ to the value it has.
SyncDone ==
  /\ sync.pc = "done"
  /\ sync' = [Idle EXCEPT !.pc = "events"]
  /\ requested' = <<>>
  /\ UNCHANGED <<conn, peer, chainVars>>
-----------------------------------------------------------------------------
(* eventLoop and handleMsg.  An exception only ends the loop: run goes      *)
(* round without disconnecting.                                            *)

EventsOver ==
  /\ sync.pc = "events"
  /\ \/ ~ conn.connected /\ UNCHANGED conn
     \/ conn.connected /\ ReceiveFails
  /\ SyncGoto("test")
  /\ UNCHANGED <<peer, requested, chainVars>>

Event(types) ==
  /\ sync.pc = "events" /\ conn.connected
  /\ conn.wire # <<>> /\ Message.type \in types

\* An id is asked for once in the life of the thread; a failure to send is
\* swallowed where it happens.
OnTxPoWID ==
  /\ Event({"TXPOWID"})
  /\ LET rest == [conn EXCEPT !.wire = Tail(@)] IN
     IF Message.block \in sync.seen THEN conn' = rest /\ UNCHANGED sync
     ELSE /\ sync' = [sync EXCEPT !.seen = @ \cup {Message.block}]
          /\ IF conn.open
               THEN conn' = [rest EXCEPT !.asked =
                               Append(@, [type |-> "TXPOWREQ", block |-> Message.block])]
               ELSE conn' = rest \/ conn' = [rest EXCEPT !.connected = FALSE]
  /\ UNCHANGED <<peer, requested, chainVars>>

\* onTxPoW with a block, and onTxBlock.
OnBlockMessage ==
  /\ Event({"TXPOW", "TXBLOCK"})
  /\ Received
  /\ sync' = [sync EXCEPT !.pc = "eventBlock", !.block = Message.block]
  /\ CallProcessBlock("peer", Message.block)
  /\ UNCHANGED <<legacy, peer, requested>>

\* localTip_ becomes the number of the block, then onBlock_ is called.
EventBlock(b) ==
  /\ sync.pc = "eventBlock" /\ Returned("peer") /\ b = sync.block
  /\ sync' = [sync EXCEPT !.pc = "events", !.localTip = b.number, !.block = NoBlock]
  /\ UNCHANGED <<conn, peer, requested, chainVars>>

\* A PING is answered with a PING; a failing send ends the loop.
OnOther ==
  /\ Event({"PULSE", "PING", "GREETING", "IBD"})
  /\ \/ Received /\ UNCHANGED sync
     \/ /\ Message.type = "PING" /\ ~ conn.open
        /\ conn' = [conn EXCEPT !.wire = Tail(@), !.connected = FALSE]
        /\ SyncGoto("test")
  /\ UNCHANGED <<peer, requested, chainVars>>

\* stop(), called by another thread.
StopSync ==
  /\ sync' = [sync EXCEPT !.running = FALSE]
  /\ UNCHANGED <<conn, peer, requested>>

\* The steps of the thread that call nothing outside.
SyncAlone ==
  \/ Begin \/ RunTest \/ Connect \/ SendGreeting \/ ReceiveGreeting
  \/ StartIBD \/ RequestBatch \/ ReceiveBatch \/ ReceiveBatchFails \/ NextOfBatch
  \/ EventsOver \/ OnTxPoWID \/ OnBlockMessage \/ OnOther
=============================================================================
