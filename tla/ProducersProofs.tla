-------------------------- MODULE ProducersProofs --------------------------
(***************************************************************************)
(* Proofs about the miner and the peer thread, for a peer chain of any     *)
(* length, any batch size, and any number of blocks, threads and retries.  *)
(***************************************************************************)
EXTENDS Producers, NatSetInduction, TLAPS

\* The equation PeerBlock is defined by has a solution, so that the peer's
\* block at a height has that number.
LEMMA PeerBlockNumber == \A i \in 0 .. PeerLength : PeerBlock[i].number = i
<1> DEFINE Rec(f, n) == f = [i \in 0 .. n |-> Block(i, IF i = 0 THEN NoBlock ELSE f[i - 1], 0)]
           S == {n \in Nat : \E f : Rec(f, n)}
<1>1. 0 \in S
  <2> DEFINE f == [i \in 0 .. 0 |-> Block(i, NoBlock, 0)]
  <2>1. Rec(f, 0)
    OBVIOUS
  <2> QED BY <2>1
<1>2. ASSUME NEW n \in S PROVE n + 1 \in S
  <2>1. PICK f : Rec(f, n)
    OBVIOUS
  <2> DEFINE b(i) == Block(i, IF i = 0 THEN NoBlock ELSE f[i - 1], 0)
             g == [i \in 0 .. n + 1 |-> b(i)]
  <2>2. \A i \in 0 .. n : f[i] = b(i)
    BY <2>1
  <2>3. \A i \in 0 .. n + 1 : i # 0 => i - 1 \in 0 .. n + 1 /\ i - 1 \in 0 .. n
    OBVIOUS
  <2> HIDE DEF b
  <2>4. \A i \in 0 .. n + 1 : i # 0 => g[i - 1] = f[i - 1]
    BY <2>2, <2>3
  <2>5. \A i \in 0 .. n + 1 : b(i) = Block(i, IF i = 0 THEN NoBlock ELSE g[i - 1], 0)
    BY <2>4 DEF b
  <2> HIDE DEF g
  <2>6. g = [i \in 0 .. n + 1 |-> b(i)]
    BY DEF g
  <2>7. Rec(g, n + 1)
    BY <2>5, <2>6
  <2> QED BY <2>7
<1>3. S = Nat
  <2> HIDE DEF S
  <2>1. S \in SUBSET Nat
    BY DEF S
  <2> QED BY <1>1, <1>2, <2>1, SetInduction
<1>4. \E f : Rec(f, PeerLength)
  BY <1>3, SyncAssumption
<1>5. Rec(PeerBlock, PeerLength)
  BY <1>4, Zenon DEF PeerBlock
<1> QED BY <1>5 DEF Block
-----------------------------------------------------------------------------
(* Types of the peer thread, its connection, and the messages on it.       *)

PeerBlocks == {PeerBlock[i] : i \in 0 .. PeerLength}

Peers == [tip : 0 .. PeerLength, root : 0 .. PeerLength,
          limit : 0 .. PeerLength, pulses : Nat, garbled : BOOLEAN]

\* An IBD request never asks past the bound on the peer's chain.
Requests ==
  [type : {"GREETING"}]
    \cup [type : {"IBD_REQ"}, from : Int, to : {i \in Int : i <= PeerLength}]
    \cup [type : {"TXPOWREQ"}, block : PeerBlocks]

\* What the peer sends, asked or not; its blocks come from its own chain.
Answers ==
  [type : {"GREETING"}, top : 0 .. PeerLength]
    \cup [type : {"IBD"}, cascade : BOOLEAN, blocks : Seq(PeerBlocks)]
    \cup [type : {"TXPOWID", "TXPOW", "TXBLOCK"}, block : PeerBlocks]
    \cup [type : {"PULSE", "PING"}]

Connections == [fd : BOOLEAN, connected : BOOLEAN, open : BOOLEAN,
                asked : Seq(Requests), wire : Seq(Answers)]

\* Where doIBD is under way, up to the call of onSyncDone_.
Downloading == {"request", "reply", "batch", "batchBlock", "done"}
PCs == {"new", "test", "ended", "connect", "hello", "greeting", "ibd",
        "events", "eventBlock"} \cup Downloading
Syncs == [pc : PCs,
          running : BOOLEAN, retries : Nat, localTip : Int,
          peerTip : -1 .. PeerLength, seen : SUBSET PeerBlocks, from : Int,
          ourTip : Int, processed : Nat, work : Seq(PeerBlocks),
          block : PeerBlocks \cup {NoBlock}]

\* The types of the variables of module P2PSync.
SyncTyped ==
  /\ peer \in Peers /\ conn \in Connections /\ sync \in Syncs
  /\ requested \in Seq(Int \X Int)

\* The record stays typed when one member is assigned a value of its type.
LEMMA SyncFields ==
  \A s \in Syncs :
    /\ \A v \in Int : /\ [s EXCEPT !.from = v] \in Syncs
                      /\ [s EXCEPT !.ourTip = v] \in Syncs
                      /\ [s EXCEPT !.localTip = v] \in Syncs
    /\ \A v \in Nat : /\ [s EXCEPT !.processed = v] \in Syncs
                      /\ [s EXCEPT !.retries = v] \in Syncs
    /\ \A v \in BOOLEAN : [s EXCEPT !.running = v] \in Syncs
    /\ \A v \in Seq(PeerBlocks) : [s EXCEPT !.work = v] \in Syncs
    /\ \A v \in PeerBlocks \cup {NoBlock} : [s EXCEPT !.block = v] \in Syncs
    /\ \A v \in -1 .. PeerLength : [s EXCEPT !.peerTip = v] \in Syncs
    /\ \A v \in SUBSET PeerBlocks : [s EXCEPT !.seen = v] \in Syncs
    /\ \A v \in PCs : [s EXCEPT !.pc = v] \in Syncs
<1> HIDE DEF PCs, PeerBlocks
<1> SUFFICES ASSUME NEW s \in Syncs
             PROVE  /\ \A v \in Int : /\ [s EXCEPT !.from = v] \in Syncs
                                      /\ [s EXCEPT !.ourTip = v] \in Syncs
                                      /\ [s EXCEPT !.localTip = v] \in Syncs
                    /\ \A v \in Nat : /\ [s EXCEPT !.processed = v] \in Syncs
                                      /\ [s EXCEPT !.retries = v] \in Syncs
                    /\ \A v \in BOOLEAN : [s EXCEPT !.running = v] \in Syncs
                    /\ \A v \in Seq(PeerBlocks) : [s EXCEPT !.work = v] \in Syncs
                    /\ \A v \in PeerBlocks \cup {NoBlock} : [s EXCEPT !.block = v] \in Syncs
                    /\ \A v \in -1 .. PeerLength : [s EXCEPT !.peerTip = v] \in Syncs
                    /\ \A v \in SUBSET PeerBlocks : [s EXCEPT !.seen = v] \in Syncs
                    /\ \A v \in PCs : [s EXCEPT !.pc = v] \in Syncs
  OBVIOUS
<1>1. \A v \in Int : /\ [s EXCEPT !.from = v] \in Syncs
                     /\ [s EXCEPT !.ourTip = v] \in Syncs
                     /\ [s EXCEPT !.localTip = v] \in Syncs
  BY DEF Syncs
<1>2. \A v \in Nat : /\ [s EXCEPT !.processed = v] \in Syncs
                     /\ [s EXCEPT !.retries = v] \in Syncs
  BY DEF Syncs
<1>3. /\ \A v \in BOOLEAN : [s EXCEPT !.running = v] \in Syncs
      /\ \A v \in Seq(PeerBlocks) : [s EXCEPT !.work = v] \in Syncs
      /\ \A v \in PeerBlocks \cup {NoBlock} : [s EXCEPT !.block = v] \in Syncs
  BY DEF Syncs
<1>4. /\ \A v \in -1 .. PeerLength : [s EXCEPT !.peerTip = v] \in Syncs
      /\ \A v \in SUBSET PeerBlocks : [s EXCEPT !.seen = v] \in Syncs
      /\ \A v \in PCs : [s EXCEPT !.pc = v] \in Syncs
  BY DEF Syncs
<1> QED BY <1>1, <1>2, <1>3, <1>4

\* Blocks of the peer are numbered within its chain.
LEMMA PeerBlocksAre ==
  /\ \A i \in 0 .. PeerLength : PeerBlock[i] \in PeerBlocks
  /\ \A b \in PeerBlocks : b.number \in 0 .. PeerLength
BY PeerBlockNumber DEF PeerBlocks

\* The peer answers with blocks of its chain, whatever range it is asked for.
LEMMA AnswerTyped ==
  ASSUME peer \in Peers, NEW m \in Requests
  PROVE  AnswerTo(m) \in Answers
<1>1. CASE m.type = "GREETING"
  BY <1>1 DEF AnswerTo, Peers, Answers, Requests
<1>2. CASE m.type = "IBD_REQ"
  <2>1. m.from \in Int /\ m.to \in Int /\ m.to <= PeerLength
    BY <1>2 DEF Requests
  <2> DEFINE first == IF m.from > peer.root THEN m.from ELSE peer.root + 1
             len == IF m.to < first THEN 0 ELSE m.to - first + 1
  <2>2. first \in Nat /\ len \in Nat
    BY <2>1 DEF Peers
  <2>3. \A i \in 1 .. len : first + i - 1 \in 0 .. PeerLength
    BY <2>1, <2>2, SyncAssumption
  <2> HIDE DEF first, len
  <2>4. \A i \in 1 .. len : PeerBlock[first + i - 1] \in PeerBlocks
    BY <2>3, PeerBlocksAre
  <2>5. [i \in 1 .. len |-> PeerBlock[first + i - 1]] \in Seq(PeerBlocks)
    BY <2>2, <2>4
  <2>6. Blocks(m.from, m.to) \in Seq(PeerBlocks)
    BY <2>5 DEF Blocks, first, len
  <2> QED BY <1>2, <2>6 DEF AnswerTo, Answers
<1>3. CASE m.type = "TXPOWREQ"
  BY <1>3 DEF AnswerTo, Answers, Requests
<1> QED BY <1>1, <1>2, <1>3 DEF Requests

\* The initial state is typed.
LEMMA SyncInitTyped == SyncInit => SyncTyped
BY SyncAssumption DEF SyncInit, SyncTyped, Peers, Connections, Syncs, PCs, NoConn, Downloading

\* A message put on either side of the connection keeps its type.
LEMMA ConnFields ==
  ASSUME conn \in Connections
  PROVE  /\ \A m \in Answers : [conn EXCEPT !.wire = Append(@, m)] \in Connections
         /\ \A m \in Requests : [conn EXCEPT !.asked = Append(@, m)] \in Connections
         /\ \A a \in Seq(Requests), m \in Answers :
              [conn EXCEPT !.asked = a, !.wire = Append(@, m)] \in Connections
         /\ [conn EXCEPT !.open = FALSE, !.asked = <<>>] \in Connections
<1> USE DEF Connections
<1> HIDE DEF Answers, Requests
<1>1. conn.wire \in Seq(Answers) /\ conn.asked \in Seq(Requests)
  OBVIOUS
<1>2. \A m \in Answers : Append(conn.wire, m) \in Seq(Answers)
  BY <1>1
<1>3. \A m \in Requests : Append(conn.asked, m) \in Seq(Requests)
  BY <1>1
<1>4. \A m \in Answers : [conn EXCEPT !.wire = Append(@, m)] \in Connections
  BY <1>2
<1>5. \A m \in Requests : [conn EXCEPT !.asked = Append(@, m)] \in Connections
  BY <1>3
<1>6. [conn EXCEPT !.open = FALSE, !.asked = <<>>] \in Connections
  <2>1. <<>> \in Seq(Requests)
    OBVIOUS
  <2> QED BY <2>1
<1>7. \A a \in Seq(Requests), m \in Answers :
        [conn EXCEPT !.asked = a, !.wire = Append(@, m)] \in Connections
  BY <1>2
<1> QED BY <1>4, <1>5, <1>6, <1>7

\* The peer's steps keep the types and touch nothing of this node.
LEMMA PeerStepTyped == SyncTyped /\ PeerStep => SyncTyped' /\ UNCHANGED <<sync, requested, chainVars>>
<1> SUFFICES ASSUME SyncTyped, PeerStep PROVE SyncTyped' /\ UNCHANGED <<sync, requested, chainVars>>
  OBVIOUS
<1> USE DEF SyncTyped
<1>1. CASE PeerAnswers
  <2>1. Head(conn.asked) \in Requests /\ Tail(conn.asked) \in Seq(Requests)
    BY <1>1 DEF PeerAnswers, Connections
  <2>2. AnswerTo(Head(conn.asked)) \in Answers
    BY <2>1, AnswerTyped
  <2>3. [type |-> "IBD", cascade |-> FALSE, blocks |-> <<>>] \in Answers
    BY DEF Answers
  <2> HIDE DEF AnswerTo, Answers, Requests
  <2>4. conn' \in Connections
    BY <1>1, <2>1, <2>2, <2>3, ConnFields DEF PeerAnswers
  <2> QED BY <1>1, <2>4 DEF PeerAnswers, chainVars
<1>2. CASE PeerAdvances
  <2>0. peer.tip \in Int /\ peer.limit \in Int /\ 0 <= peer.tip /\ peer.limit <= PeerLength
    BY SyncAssumption DEF Peers
  <2>1. peer.tip + 1 \in 0 .. PeerLength
    BY <1>2, <2>0, SyncAssumption DEF PeerAdvances
  <2>5. peer' \in Peers
    BY <1>2, <2>1 DEF PeerAdvances, Peers
  <2>2. \A type \in {"TXPOWID", "TXBLOCK"} :
          [type |-> type, block |-> PeerBlock[peer.tip + 1]] \in Answers
    BY <2>1, PeerBlocksAre DEF Answers
  <2>3. conn' \in Connections
    BY <1>2, <2>2, ConnFields DEF PeerAdvances, Send
  <2> QED BY <1>2, <2>5, <2>3 DEF PeerAdvances, chainVars
<1>3. CASE PeerPulses
  <2>4. peer.pulses - 1 \in Nat
    BY <1>3 DEF PeerPulses, Peers
  <2>1. peer' \in Peers /\ peer.tip \in 0 .. PeerLength
    BY <1>3, <2>4 DEF PeerPulses, Peers
  <2>2. /\ \A type \in {"PULSE", "PING"} : [type |-> type] \in Answers
        /\ [type |-> "TXPOWID", block |-> PeerBlock[peer.tip]] \in Answers
    BY <2>1, PeerBlocksAre DEF Answers
  <2>3. conn' \in Connections
    BY <1>3, <2>2, ConnFields DEF PeerPulses, Send
  <2> QED BY <1>3, <2>1, <2>3 DEF PeerPulses, chainVars
<1>4. CASE PeerCloses
  BY <1>4, ConnFields DEF PeerCloses, chainVars
<1> QED BY <1>1, <1>2, <1>3, <1>4 DEF PeerStep, PeerAnswers, PeerAdvances, PeerPulses, PeerCloses
-----------------------------------------------------------------------------
(* The download.  RequestsTile is not inductive: where the next range      *)
(* starts is in sync.from, which moves only when the answer to the last    *)
(* range has been worked off, so the invariant says at each point of the   *)
(* thread how sync.from lies to the last range.                            *)

LastEnd == requested[Len(requested)][2]

\* The ranges tile, and sync.from is where the thread says it is.
Tiling ==
  /\ requested # <<>> => requested[1][1] = sync.ourTip + 1
  /\ \A i \in 1 .. Len(requested) :
       /\ requested[i][2] - requested[i][1] \in 0 .. (BatchSize - 1)
       /\ i > 1 => requested[i][1] = requested[i - 1][2] + 1
  /\ sync.pc \notin Downloading => requested = <<>>
  /\ sync.pc \in Downloading \ {"done"} => sync.from <= sync.peerTip
  /\ sync.pc = "request" =>
       sync.from = (IF requested = <<>> THEN sync.ourTip ELSE LastEnd) + 1
  /\ sync.pc \in {"reply", "batch", "batchBlock"} =>
       requested # <<>> /\ requested[Len(requested)] = <<sync.from, BatchEnd>>
  /\ sync.pc = "batchBlock" => sync.work # <<>>
  /\ sync.pc = "done" /\ requested # <<>> => LastEnd = sync.peerTip

\* The inductive invariant of the download.
SyncInv == SyncTyped /\ Tiling

\* Initially nothing is requested.
LEMMA SyncInitInv == SyncInit => SyncInv
BY SyncInitTyped DEF SyncInit, SyncInv, Tiling, Downloading

\* Outside a download, with nothing requested, there is nothing to tile.
LEMMA NoDownload ==
  ASSUME requested' = <<>>, sync'.pc \notin Downloading \/ sync'.pc = "done"
  PROVE  Tiling'
BY DEF Tiling, Downloading

\* receive, send and disconnect keep the connection typed.
LEMMA ReceiveTyped ==
  ASSUME SyncTyped
  PROVE  /\ Received => conn' \in Connections /\ Message \in Answers
         /\ \A m \in Requests : Sent(m) => conn' \in Connections
         /\ ReceiveFails => conn' \in Connections
         /\ NoConn \in Connections
         /\ conn.wire # <<>> =>
              Message \in Answers /\ [conn EXCEPT !.wire = Tail(@)] \in Connections
<1> USE DEF SyncTyped
<1> HIDE DEF Answers, Requests
<1>1. conn.wire # <<>> => Head(conn.wire) \in Answers /\ Tail(conn.wire) \in Seq(Answers)
  BY DEF Connections
<1>2. Received => conn' \in Connections /\ Message \in Answers
  BY <1>1 DEF Received, Message, Connections
<1>3. \A m \in Requests : Sent(m) => conn' \in Connections
  BY ConnFields DEF Sent
<1>4. ReceiveFails => conn' \in Connections
  BY DEF ReceiveFails, Connections
<1>5. NoConn \in Connections
  BY DEF NoConn, Connections
<1>6. conn.wire # <<>> => [conn EXCEPT !.wire = Tail(@)] \in Connections
  BY <1>1 DEF Connections
<1> QED BY <1>1, <1>2, <1>3, <1>4, <1>5, <1>6 DEF Message

\* Forgetting the locals of doIBD keeps the record typed.
LEMMA IdleTyped == sync \in Syncs => Idle \in Syncs
<1>1. <<>> \in Seq(PeerBlocks) /\ 0 \in Int /\ 0 \in Nat
  OBVIOUS
<1> QED BY <1>1, SyncFields DEF Idle

\* The catch block of run leaves no range behind.
LEMMA CaughtInv == SyncTyped /\ Caught => SyncInv'
<1> SUFFICES ASSUME SyncTyped, Caught PROVE SyncInv'
  OBVIOUS
<1>1. sync' \in Syncs
  <2>1. Idle \in Syncs /\ Idle.retries = sync.retries /\ Idle.running = sync.running
    BY IdleTyped DEF SyncTyped, Idle, Syncs
  <2>2. /\ sync.retries + 1 \in Nat /\ (sync.running /\ ~ GiveUp) \in BOOLEAN
        /\ (IF GiveUp THEN "ended" ELSE "test") \in PCs
    BY DEF SyncTyped, Syncs, PCs
  <2>3. /\ [Idle EXCEPT !.pc = IF GiveUp THEN "ended" ELSE "test"].retries = sync.retries
        /\ [[Idle EXCEPT !.pc = IF GiveUp THEN "ended" ELSE "test"] EXCEPT !.retries = @ + 1].running = sync.running
    BY <2>1 DEF Syncs
  <2> HIDE DEF Idle
  <2> QED BY <2>1, <2>2, <2>3, SyncFields DEF Caught
<1>2. sync'.pc \notin Downloading /\ requested' = <<>>
  <2>1. sync'.pc = IF GiveUp THEN "ended" ELSE "test"
    BY DEF SyncTyped, Caught, Idle, Syncs
  <2> QED BY <2>1 DEF Caught, Downloading
<1>3. requested' \in Seq(Int \X Int) /\ peer' \in Peers /\ conn' \in Connections
  BY <1>2, ReceiveTyped DEF Caught, SyncTyped
<1> QED BY <1>1, <1>2, <1>3, NoDownload DEF SyncInv, SyncTyped

\* A step that changes neither the requests nor what the tiling looks at.
LEMMA SameDownload ==
  ASSUME SyncInv, sync' \in Syncs, conn' \in Connections, UNCHANGED <<peer, requested>>,
         sync'.ourTip = sync.ourTip,
         sync'.pc \notin Downloading /\ sync.pc \notin Downloading
  PROVE  SyncInv'
BY NoDownload DEF SyncInv, SyncTyped, Tiling

\* A step within the batch in work changes neither the ranges nor the bounds.
LEMMA BatchKept ==
  ASSUME SyncInv, sync' \in Syncs, conn' \in Connections, UNCHANGED <<peer, requested>>,
         UNCHANGED <<sync.ourTip, sync.from, sync.peerTip>>,
         sync'.pc \in {"reply", "batch", "batchBlock"},
         sync'.pc = "batchBlock" => sync'.work # <<>>,
         sync.pc \in {"reply", "batch", "batchBlock"}
  PROVE  SyncInv'
BY DEF SyncInv, SyncTyped, Tiling, BatchEnd, LastEnd, Downloading

\* The next batch starts where the one worked off ended, and the download is
\* over when that was the peer's tip.
LEMMA NextBatchInv ==
  ASSUME SyncInv, sync' = NextBatch(sync), conn' \in Connections, UNCHANGED <<peer, requested>>,
         sync.pc \in {"reply", "batch", "batchBlock"}
  PROVE  SyncInv'
<1> USE DEF SyncInv, SyncTyped
<1>1. /\ BatchSize \in Nat \ {0} /\ sync.from \in Int /\ sync.peerTip \in Int
      /\ sync.processed \in Int /\ sync.ourTip \in Int /\ sync.from <= sync.peerTip
  <2>1. sync \in Syncs /\ Tiling
    OBVIOUS
  <2>2. /\ sync.from \in Int /\ sync.peerTip \in Int
        /\ sync.processed \in Int /\ sync.ourTip \in Int
    BY <2>1 DEF Syncs
  <2>3. sync.from <= sync.peerTip
    BY <2>1 DEF Tiling, Downloading
  <2> QED BY <2>2, <2>3, SyncAssumption
<1>2. BatchEnd \in Int /\ BatchEnd <= sync.peerTip
  BY <1>1 DEF BatchEnd
<1>3. sync' \in Syncs
  <2>3. /\ BatchEnd + 1 \in Int /\ sync.ourTip + sync.processed \in Int
        /\ "request" \in PCs /\ "done" \in PCs
    BY <1>1, <1>2 DEF PCs, Downloading
  <2> HIDE DEF SyncInv, SyncTyped
  <2>4. sync \in Syncs
    BY DEF SyncInv, SyncTyped
  <2>1. CASE BatchEnd + 1 <= sync.peerTip
    BY <2>1, <2>3, <2>4, SyncFields DEF NextBatch
  <2>2. CASE ~ (BatchEnd + 1 <= sync.peerTip)
    BY <2>2, <2>3, <2>4, SyncFields DEF NextBatch
  <2> QED BY <2>1, <2>2
<1>4. /\ sync'.ourTip = sync.ourTip /\ sync'.peerTip = sync.peerTip /\ sync'.from = BatchEnd + 1
      /\ sync'.pc = IF BatchEnd + 1 <= sync.peerTip THEN "request" ELSE "done"
  BY <1>1, <1>2 DEF NextBatch, Syncs
<1>5. requested # <<>> /\ requested[Len(requested)] = <<sync.from, BatchEnd>>
  BY DEF Tiling
<1>6. LastEnd' = BatchEnd
  BY <1>5 DEF LastEnd
<1>7. Tiling'
  BY <1>1, <1>2, <1>4, <1>5, <1>6 DEF Tiling, Downloading
<1> QED BY <1>3, <1>7

\* A batch is requested where the last one ended.
LEMMA RequestBatchInv == SyncInv /\ RequestBatch => SyncInv'
<1> SUFFICES ASSUME SyncInv, RequestBatch PROVE SyncInv'
  OBVIOUS
<1> USE DEF SyncInv
<1>1. CASE ~ conn.open /\ Caught
  BY <1>1, CaughtInv
<1>2. CASE /\ Sent([type |-> "IBD_REQ", from |-> sync.from, to |-> BatchEnd])
           /\ requested' = Append(requested, <<sync.from, BatchEnd>>)
           /\ SyncGoto("reply")
           /\ UNCHANGED <<peer, chainVars>>
  <2>1. /\ BatchSize \in Nat \ {0} /\ PeerLength \in Nat /\ sync.from \in Int
        /\ sync.peerTip \in Int /\ sync.peerTip <= PeerLength /\ sync.pc = "request"
    BY SyncAssumption DEF SyncTyped, Syncs, RequestBatch
  <2>2. /\ sync.from <= sync.peerTip
        /\ sync.from = (IF requested = <<>> THEN sync.ourTip ELSE LastEnd) + 1
    BY <2>1 DEF Tiling, Downloading
  <2>3. BatchEnd \in Int /\ BatchEnd <= PeerLength /\ BatchEnd - sync.from \in 0 .. (BatchSize - 1)
    BY <2>1, <2>2 DEF BatchEnd
  <2>4. conn' \in Connections
    <3>1. [type |-> "IBD_REQ", from |-> sync.from, to |-> BatchEnd] \in Requests
      BY <2>1, <2>3 DEF Requests
    <3> QED BY <1>2, <3>1, ReceiveTyped
  <2>5. sync' \in Syncs /\ sync'.pc = "reply"
        /\ UNCHANGED <<sync.from, sync.peerTip, sync.ourTip>>
    BY <1>2 DEF SyncTyped, Syncs, PCs, SyncGoto, Downloading
  <2>6. BatchEnd' = BatchEnd
    BY <2>5 DEF BatchEnd
  <2>7. requested \in Seq(Int \X Int) /\ <<sync.from, BatchEnd>> \in Int \X Int
    BY <2>1, <2>3 DEF SyncTyped
  <2> DEFINE n == Len(requested)
  <2>8. /\ requested' \in Seq(Int \X Int) /\ n \in Nat /\ Len(requested') = n + 1
        /\ requested'[n + 1] = <<sync.from, BatchEnd>>
        /\ \A i \in 1 .. n : requested'[i] = requested[i]
    BY <1>2, <2>7
  <2>9. /\ requested = <<>> <=> n = 0
        /\ LastEnd = requested[n][2]
    BY <2>7 DEF LastEnd
  <2> HIDE DEF n
  <2>10. ASSUME NEW i \in 1 .. n + 1
         PROVE  /\ requested'[i][2] - requested'[i][1] \in 0 .. (BatchSize - 1)
                /\ i > 1 => requested'[i][1] = requested'[i - 1][2] + 1
    <3>1. CASE i = n + 1
      <4>1. i > 1 => n \in 1 .. n /\ i - 1 = n
        BY <3>1, <2>8
      <4> QED BY <3>1, <4>1, <2>2, <2>3, <2>8, <2>9
    <3>2. CASE i \in 1 .. n
      <4>0. i > 1 => i - 1 \in 1 .. n
        BY <3>2, <2>8
      <4>1. /\ requested[i][2] - requested[i][1] \in 0 .. (BatchSize - 1)
            /\ i > 1 => requested[i][1] = requested[i - 1][2] + 1
        BY <3>2 DEF Tiling, n
      <4>2. requested'[i] = requested[i] /\ (i > 1 => requested'[i - 1] = requested[i - 1])
        BY <3>2, <4>0, <2>8
      <4> QED BY <4>1, <4>2
    <3> QED BY <3>1, <3>2, <2>8
  <2>11. requested'[1][1] = sync.ourTip + 1
    <3>1. CASE n = 0
      BY <3>1, <2>2, <2>8, <2>9
    <3>2. CASE n # 0
      <4>1. requested # <<>> /\ 1 \in 1 .. n
        BY <3>2, <2>8, <2>9
      <4> QED BY <4>1, <2>8 DEF Tiling
    <3> QED BY <3>1, <3>2
  <2>12. Tiling'
    BY <2>2, <2>5, <2>6, <2>8, <2>10, <2>11 DEF Tiling, Downloading
  <2> QED BY <1>2, <2>4, <2>5, <2>8, <2>12 DEF SyncTyped
<1> QED BY <1>1, <1>2 DEF RequestBatch

\* Before a download: run, connect and the handshake.
LEMMA HandshakeInv ==
  SyncInv /\ (Begin \/ RunTest \/ Connect \/ SendGreeting \/ ReceiveGreeting) => SyncInv'
<1> SUFFICES ASSUME SyncInv PROVE (Begin \/ RunTest \/ Connect \/ SendGreeting \/ ReceiveGreeting) => SyncInv'
  OBVIOUS
<1>0. sync \in Syncs /\ conn \in Connections /\ SyncTyped
  BY DEF SyncInv, SyncTyped
<1>1. CASE Begin
  <2>1. sync' \in Syncs /\ sync'.ourTip = sync.ourTip /\ sync.pc \notin Downloading /\ sync'.pc \notin Downloading
    BY <1>0, <1>1 DEF Begin, Syncs, PCs, Downloading
  <2> QED BY <1>0, <1>1, <2>1, SameDownload DEF Begin
<1>2. CASE RunTest
  <2>1. sync' \in Syncs /\ sync'.ourTip = sync.ourTip /\ sync.pc \notin Downloading /\ sync'.pc \notin Downloading
    BY <1>0, <1>2 DEF RunTest, SyncGoto, Syncs, PCs, Downloading
  <2> QED BY <1>0, <1>2, <2>1, SameDownload DEF RunTest
<1>3. CASE Connect
  <2>1. CASE Caught
    BY <1>0, <2>1, CaughtInv
  <2>2. CASE /\ IF conn.fd THEN UNCHANGED conn
                ELSE conn' = [NoConn EXCEPT !.fd = TRUE, !.connected = TRUE, !.open = TRUE]
             /\ SyncGoto("hello") /\ UNCHANGED <<peer, requested>>
    <3>1. sync' \in Syncs /\ sync'.ourTip = sync.ourTip /\ sync.pc \notin Downloading /\ sync'.pc \notin Downloading
      BY <1>0, <1>3, <2>2 DEF Connect, SyncGoto, Syncs, PCs, Downloading
    <3>2. conn' \in Connections
      <4>1. [NoConn EXCEPT !.fd = TRUE, !.connected = TRUE, !.open = TRUE] \in Connections
        BY ReceiveTyped, <1>0 DEF Connections
      <4> QED BY <1>0, <2>2, <4>1
    <3> QED BY <2>2, <3>1, <3>2, SameDownload
  <2> QED BY <1>3, <2>1, <2>2 DEF Connect
<1>4. CASE SendGreeting
  <2>1. CASE Caught
    BY <1>0, <2>1, CaughtInv
  <2>2. CASE Sent([type |-> "GREETING"]) /\ SyncGoto("greeting") /\ UNCHANGED <<peer, requested>>
    <3>1. sync' \in Syncs /\ sync'.ourTip = sync.ourTip /\ sync.pc \notin Downloading /\ sync'.pc \notin Downloading
      BY <1>0, <1>4, <2>2 DEF SendGreeting, SyncGoto, Syncs, PCs, Downloading
    <3>2. [type |-> "GREETING"] \in Requests
      BY DEF Requests
    <3>3. conn' \in Connections
      BY <1>0, <2>2, <3>2, ReceiveTyped
    <3> QED BY <2>2, <3>1, <3>3, SameDownload
  <2> QED BY <1>4, <2>1, <2>2 DEF SendGreeting
<1>5. CASE ReceiveGreeting
  <2>1. CASE Caught
    BY <1>0, <2>1, CaughtInv
  <2>2. CASE /\ Received /\ Message.type = "GREETING"
             /\ sync' = [sync EXCEPT !.pc = "ibd", !.peerTip = Message.top]
             /\ UNCHANGED <<peer, requested, chainVars>>
    <3>1. Message \in Answers /\ conn' \in Connections
      BY <1>0, <2>2, ReceiveTyped
    <3>2. Message.top \in -1 .. PeerLength
      BY <2>2, <3>1, SyncAssumption DEF Answers
    <3>3. sync' \in Syncs
      BY <1>0, <2>2, <3>2, SyncFields DEF PCs
    <3>4. sync'.ourTip = sync.ourTip /\ sync.pc \notin Downloading /\ sync'.pc \notin Downloading
      BY <1>0, <1>5, <2>2 DEF ReceiveGreeting, Syncs, Downloading
    <3> QED BY <2>2, <3>1, <3>3, <3>4, SameDownload
  <2> QED BY <1>5, <2>1, <2>2 DEF ReceiveGreeting
<1> QED BY <1>1, <1>2, <1>3, <1>4, <1>5

\* The steps of doIBD other than the request itself.
LEMMA DownloadInv ==
  SyncInv /\ (StartIBD \/ ReceiveBatch \/ ReceiveBatchFails \/ NextOfBatch \/ SyncDone
              \/ \E b \in {PeerBlock[i] : i \in 1 .. PeerLength} : BatchBlock(b))
    => SyncInv'
<1> SUFFICES ASSUME SyncInv
             PROVE (StartIBD \/ ReceiveBatch \/ ReceiveBatchFails \/ NextOfBatch \/ SyncDone
                     \/ \E b \in {PeerBlock[i] : i \in 1 .. PeerLength} : BatchBlock(b)) => SyncInv'
  OBVIOUS
<1>0. sync \in Syncs /\ conn \in Connections /\ SyncTyped
  BY DEF SyncInv, SyncTyped
<1>1. CASE StartIBD
  <2>1. sync.localTip \in Int /\ sync.localTip + 1 \in Int /\ 0 \in Nat /\ sync.peerTip \in Int
    BY <1>0, SyncAssumption DEF Syncs
  <2>2. (IF UpToDate THEN "done" ELSE "request") \in PCs
    BY DEF PCs, Downloading
  <2>3. sync' \in Syncs
    BY <1>0, <1>1, <2>1, <2>2, SyncFields DEF StartIBD
  <2>4. /\ sync'.pc = IF UpToDate THEN "done" ELSE "request"
        /\ sync'.ourTip = sync.localTip /\ sync'.from = sync.localTip + 1
        /\ sync'.peerTip = sync.peerTip /\ requested' = <<>>
    BY <1>0, <1>1 DEF StartIBD, Syncs
  <2>5. Tiling'
    <3>1. CASE UpToDate
      BY <2>4, <3>1, NoDownload
    <3>2. CASE ~ UpToDate
      BY <2>1, <2>4, <3>2 DEF Tiling, UpToDate
    <3> QED BY <3>1, <3>2
  <2> QED BY <1>0, <1>1, <2>3, <2>4, <2>5 DEF SyncInv, SyncTyped, StartIBD
<1>2. CASE ReceiveBatch
  <2>0. sync.pc = "reply" /\ UNCHANGED <<peer, requested>> /\ conn' \in Connections /\ Message \in Answers
    BY <1>0, <1>2, ReceiveTyped DEF ReceiveBatch
  <2>1. CASE Message.type = "IBD" /\ sync' = [sync EXCEPT !.pc = "batch", !.work = Message.blocks]
    <3>1. Message.blocks \in Seq(PeerBlocks) /\ "batch" \in PCs
      BY <2>0, <2>1 DEF Answers, PCs, Downloading
    <3>2. sync' \in Syncs
      BY <1>0, <2>1, <3>1, SyncFields
    <3>3. sync'.pc = "batch" /\ UNCHANGED <<sync.ourTip, sync.from, sync.peerTip>>
      BY <1>0, <2>1 DEF Syncs
    <3> QED BY <2>0, <3>2, <3>3, BatchKept
  <2>2. CASE sync' = NextBatch(sync)
    BY <2>0, <2>2, NextBatchInv
  <2> QED BY <1>2, <2>1, <2>2 DEF ReceiveBatch
<1>3. CASE ReceiveBatchFails
  BY <1>0, <1>3, CaughtInv DEF ReceiveBatchFails
<1>4. CASE NextOfBatch
  <2>0. sync.pc = "batch" /\ UNCHANGED <<conn, peer, requested>> /\ conn' \in Connections
    BY <1>0, <1>4 DEF NextOfBatch
  <2>1. CASE sync' = NextBatch(sync)
    BY <2>0, <2>1, NextBatchInv
  <2>2. CASE sync.work # <<>> /\ SyncGoto("batchBlock")
    <3>1. /\ sync' \in Syncs /\ sync'.pc = "batchBlock"
          /\ UNCHANGED <<sync.ourTip, sync.from, sync.peerTip, sync.work>>
      BY <1>0, <2>2 DEF SyncGoto, Syncs, PCs, Downloading
    <3> QED BY <2>0, <2>2, <3>1, BatchKept
  <2> QED BY <1>4, <2>1, <2>2 DEF NextOfBatch
<1>5. CASE SyncDone
  <2>1. Idle \in Syncs /\ "events" \in PCs
    BY <1>0, IdleTyped DEF PCs
  <2>2. sync' \in Syncs
    BY <1>5, <2>1, SyncFields DEF SyncDone
  <2>3. sync'.pc = "events"
    BY <1>5, <2>1 DEF SyncDone, Syncs
  <2> QED BY <1>0, <1>5, <2>2, <2>3, NoDownload DEF SyncDone, SyncInv, SyncTyped, Downloading
<1>6. ASSUME NEW b \in {PeerBlock[i] : i \in 1 .. PeerLength}, BatchBlock(b)
      PROVE  SyncInv'
  <2>1. sync.pc = "batchBlock" /\ UNCHANGED <<conn, peer, requested>> /\ conn' \in Connections
    BY <1>0, <1>6 DEF BatchBlock
  <2>2. Tail(sync.work) \in Seq(PeerBlocks)
    <3>1. sync.work \in Seq(PeerBlocks) /\ sync.work # <<>>
      BY <1>0, <2>1 DEF Syncs, SyncInv, Tiling
    <3> QED BY <3>1
  <2>3. sync.processed + 1 \in Nat /\ "batch" \in PCs
    BY <1>0 DEF Syncs, PCs, Downloading
  <2>4. [sync EXCEPT !.pc = "batch"].work = sync.work
        /\ [sync EXCEPT !.pc = "batch", !.work = Tail(@)].processed = sync.processed
    BY <1>0 DEF Syncs
  <2>5. sync' \in Syncs
    BY <1>0, <1>6, <2>2, <2>3, <2>4, SyncFields DEF BatchBlock
  <2>6. sync'.pc = "batch" /\ UNCHANGED <<sync.ourTip, sync.from, sync.peerTip>>
    BY <1>0, <1>6 DEF BatchBlock, Syncs
  <2> QED BY <2>1, <2>5, <2>6, BatchKept
<1> QED BY <1>1, <1>2, <1>3, <1>4, <1>5, <1>6

\* The event loop requests no range.
LEMMA EventsInv ==
  SyncInv /\ (EventsOver \/ OnTxPoWID \/ OnBlockMessage \/ OnOther
              \/ \E b \in {PeerBlock[i] : i \in 1 .. PeerLength} : EventBlock(b))
    => SyncInv'
<1> SUFFICES ASSUME SyncInv
             PROVE (EventsOver \/ OnTxPoWID \/ OnBlockMessage \/ OnOther
                     \/ \E b \in {PeerBlock[i] : i \in 1 .. PeerLength} : EventBlock(b)) => SyncInv'
  OBVIOUS
<1>0. sync \in Syncs /\ conn \in Connections /\ SyncTyped
  BY DEF SyncInv, SyncTyped
<1>1. CASE EventsOver
  <2>1. sync' \in Syncs /\ sync'.ourTip = sync.ourTip /\ sync.pc \notin Downloading /\ sync'.pc \notin Downloading
    BY <1>0, <1>1 DEF EventsOver, SyncGoto, Syncs, PCs, Downloading
  <2>2. conn' \in Connections
    BY <1>0, <1>1, ReceiveTyped DEF EventsOver
  <2> QED BY <1>1, <2>1, <2>2, SameDownload DEF EventsOver
<1>2. CASE OnTxPoWID
  <2>1. Message \in Answers /\ Message.type = "TXPOWID"
    BY <1>0, <1>2, ReceiveTyped DEF OnTxPoWID, Event
  <2>2. Message.block \in PeerBlocks
    BY <2>1 DEF Answers
  <2>3. [type |-> "TXPOWREQ", block |-> Message.block] \in Requests
    BY <2>2 DEF Requests
  <2> DEFINE rest == [conn EXCEPT !.wire = Tail(@)]
  <2>4. rest \in Connections
    BY <1>0, <1>2, ReceiveTyped DEF OnTxPoWID, Event
  <2>5. /\ \A m \in Requests : [rest EXCEPT !.asked = Append(@, m)] \in Connections
        /\ [rest EXCEPT !.connected = FALSE] \in Connections
    <3> HIDE DEF rest, Requests, Answers
    <3>1. \A m \in Requests : Append(rest.asked, m) \in Seq(Requests)
      BY <2>4 DEF Connections
    <3> QED BY <2>4, <3>1 DEF Connections
  <2> HIDE DEF rest
  <2>6. conn' \in Connections
    BY <1>2, <2>3, <2>4, <2>5 DEF OnTxPoWID, rest
  <2>7. sync' \in Syncs
    <3>1. sync.seen \cup {Message.block} \in SUBSET PeerBlocks
      BY <1>0, <2>2 DEF Syncs
    <3> QED BY <1>0, <1>2, <3>1, SyncFields DEF OnTxPoWID
  <2>8. sync.pc = "events" /\ sync'.pc = sync.pc /\ sync'.ourTip = sync.ourTip
    BY <1>0, <1>2 DEF OnTxPoWID, Event, Syncs
  <2> QED BY <1>2, <2>6, <2>7, <2>8, SameDownload DEF OnTxPoWID, Downloading
<1>3. CASE OnBlockMessage
  <2>1. conn' \in Connections /\ Message \in Answers /\ Message.type \in {"TXPOW", "TXBLOCK"}
    BY <1>0, <1>3, ReceiveTyped DEF OnBlockMessage, Event
  <2>2. Message.block \in PeerBlocks \cup {NoBlock} /\ "eventBlock" \in PCs
    BY <2>1 DEF Answers, PCs
  <2>3. sync' \in Syncs
    BY <1>0, <1>3, <2>2, SyncFields DEF OnBlockMessage
  <2>4. sync.pc = "events" /\ sync'.pc = "eventBlock" /\ sync'.ourTip = sync.ourTip
    BY <1>0, <1>3 DEF OnBlockMessage, Event, Syncs
  <2> QED BY <1>3, <2>1, <2>3, <2>4, SameDownload DEF OnBlockMessage, Downloading
<1>4. CASE OnOther
  <2>1. sync' \in Syncs /\ sync'.pc \in {"events", "test"} /\ sync'.ourTip = sync.ourTip /\ sync.pc = "events"
    BY <1>0, <1>4 DEF OnOther, Event, SyncGoto, Syncs, PCs
  <2>2. conn' \in Connections
    <3>1. [conn EXCEPT !.wire = Tail(@)] \in Connections
      BY <1>0, <1>4, ReceiveTyped DEF OnOther, Event
    <3>2. [conn EXCEPT !.wire = Tail(@), !.connected = FALSE] \in Connections
      <4> DEFINE rest == [conn EXCEPT !.wire = Tail(@)]
      <4>1. rest \in Connections
        BY <3>1
      <4> HIDE DEF rest
      <4>2. [rest EXCEPT !.connected = FALSE] \in Connections
        BY <4>1 DEF Connections
      <4> QED BY <4>2 DEF rest
    <3> QED BY <1>4, <3>1, <3>2 DEF OnOther, Received
  <2> QED BY <1>4, <2>1, <2>2, SameDownload DEF OnOther, Downloading
<1>5. ASSUME NEW b \in {PeerBlock[i] : i \in 1 .. PeerLength}, EventBlock(b)
      PROVE  SyncInv'
  <2>1. b \in PeerBlocks /\ b.number \in Int
    BY PeerBlocksAre, SyncAssumption DEF PeerBlocks
  <2>2. sync' \in Syncs
    BY <1>0, <1>5, <2>1, SyncFields DEF EventBlock, PCs
  <2>3. sync.pc = "eventBlock" /\ sync'.pc = "events" /\ sync'.ourTip = sync.ourTip
    BY <1>0, <1>5 DEF EventBlock, Syncs
  <2> QED BY <1>0, <1>5, <2>2, <2>3, SameDownload DEF EventBlock, Downloading
<1> QED BY <1>1, <1>2, <1>3, <1>4, <1>5

\* No step of the miner, the peer or the main thread disturbs the download.
LEMMA SyncNextInv == SyncInv /\ [Next]_vars => SyncInv'
<1> SUFFICES ASSUME SyncInv, [Next]_vars PROVE SyncInv'
  OBVIOUS
<1>0. SyncTyped /\ sync \in Syncs /\ conn \in Connections
  BY DEF SyncInv, SyncTyped
<1>1. ASSUME UNCHANGED syncVars PROVE SyncInv'
  BY <1>1 DEF syncVars, SyncInv, SyncTyped, Tiling, LastEnd, BatchEnd
<1>2. CASE PeerStep
  BY <1>2, <1>0, PeerStepTyped DEF SyncInv, Tiling, LastEnd, BatchEnd
<1>3. CASE StopSync
  <2>1. sync' \in Syncs
    BY <1>3, <1>0, SyncFields DEF StopSync
  <2>2. UNCHANGED <<sync.pc, sync.ourTip, sync.from, sync.peerTip, sync.work>>
    BY <1>3, <1>0 DEF StopSync, Syncs
  <2> QED BY <1>0, <1>3, <2>1, <2>2 DEF StopSync, SyncInv, SyncTyped, Tiling, LastEnd, BatchEnd
<1>4. CASE PeerThreadStep
  BY <1>1, <1>4, HandshakeInv, DownloadInv, EventsInv, RequestBatchInv DEF PeerThreadStep, SyncAlone
<1>5. CASE MinerStep \/ Find \/ StartMining \/ JoinPeer \/ JoinMiner \/ UNCHANGED vars
  <2>1. UNCHANGED syncVars
    BY <1>5 DEF MinerStep, Find, StartMining, JoinPeer, JoinMiner, vars
  <2> QED BY <2>1, <1>1
<1> QED BY <1>2, <1>3, <1>4, <1>5 DEF Next, Environment, MainStep, Stop

\* The invariant is stronger than the property.
LEMMA TilingShows == SyncInv => RequestsTile
BY DEF SyncInv, SyncTyped, Tiling, RequestsTile, LastEnd, Downloading

\* doIBD asks for every block after the node's tip once: its batches follow
\* each other without gap or overlap, whatever the peer answers, whatever fails
\* and whenever the peer's chain grows, and reach the peer's tip.
THEOREM DownloadTiles == Spec => []RequestsTile
<1>1. Init => SyncInv
  BY SyncInitInv DEF Init
<1> QED BY <1>1, SyncNextInv, TilingShows, PTL DEF Spec
-----------------------------------------------------------------------------
(* The miner and the chain.  What makes NoTipMissed hold is that a block   *)
(* the miner is told of has been stored before, so that a template built   *)
(* from the chain after that has seen it; hence the invariant follows the  *)
(* block in the peer thread's hand from the call to the callback.          *)

\* The records have the members the steps assign.
ChainShape ==
  /\ {"store", "height", "tip", "utxo", "cascadeRoot"} \subseteq DOMAIN legacy
  /\ DOMAIN call = Threads
  /\ \A t \in Threads : {"step", "block", "root"} \subseteq DOMAIN call[t]
  /\ {"pc", "tmpl", "fromChain"} \subseteq DOMAIN miner

\* The peer thread's call has stored b, or is about to.
Reaches(b) ==
  b \in legacy.store \/ (call["peer"].step = "add" /\ call["peer"].block = b)

\* The block whose processBlock the peer thread waits for.
InHand == IF sync.pc = "batchBlock" THEN Head(sync.work) ELSE sync.block

\* The flag is up as long as a template of the chain lacks a block told of.
MinerInv ==
  /\ ChainShape
  /\ unseen \subseteq legacy.store
  /\ sync.pc \in {"batchBlock", "eventBlock"} => Reaches(InHand)
  /\ miner.pc \in {"tip", "mine"} /\ miner.fromChain /\ unseen # {} => tipChanged

\* A step of a call stores its block when it is the first, and never forgets one.
LEMMA ChainStepShape ==
  ASSUME ChainShape, UNCHANGED miner, NEW t \in Threads, ChainStep(t)
  PROVE  /\ ChainShape'
         /\ legacy.store \subseteq legacy'.store
         /\ \A u \in Threads \ {t} : call'[u] = call[u]
         /\ call[t].step = "add" => call[t].block \in legacy'.store
<1> USE DEF ChainShape, Goto, NoCall
<1>1. CASE AddToStore(t)
  BY <1>1 DEF AddToStore
<1>2. CASE CompareHeight(t)
  BY <1>2 DEF CompareHeight
<1>3. CASE AddCascadeTip(t)
  BY <1>3 DEF AddCascadeTip
<1>4. CASE SetTip(t)
  BY <1>4 DEF SetTip
<1>5. CASE SetHeight(t)
  BY <1>5 DEF SetHeight
<1>6. CASE SetCascadeRoot(t)
  BY <1>6 DEF SetCascadeRoot
<1>7. CASE ApplyCoins(t)
  BY <1>7 DEF ApplyCoins
<1> QED BY <1>1, <1>2, <1>3, <1>4, <1>5, <1>6, <1>7 DEF ChainStep

\* Entering a call leaves the calls of other threads alone.
LEMMA CallShape ==
  ASSUME ChainShape, UNCHANGED legacy, {"pc", "tmpl", "fromChain"} \subseteq DOMAIN miner',
         NEW t \in Threads, NEW b, NEW root,
         CallProcessBlock(t, b) \/ CallApplyCascade(t, b, root)
  PROVE  /\ ChainShape'
         /\ \A u \in Threads \ {t} : call'[u] = call[u]
         /\ CallProcessBlock(t, b) => call'[t].step = "add" /\ call'[t].block = b
BY DEF ChainShape, CallProcessBlock, CallApplyCascade

\* Initially no thread has a block.
LEMMA MinerInitInv == Init => MinerInv
BY DEF Init, ChainInit, MinerInit, SyncInit, NoCall, MinerAt, MinerInv, ChainShape

\* A stored block stays stored, and one about to be stored stays so until it is.
LEMMA StillReaches ==
  ASSUME ChainShape, legacy.store \subseteq legacy'.store,
         call'["peer"] = call["peer"]
           \/ call["peer"].step # "add" \/ call["peer"].block \in legacy'.store
  PROVE  \A b : Reaches(b) => Reaches(b)'
BY DEF Reaches

\* Only ReadHeight begins a template from the chain, and what it has read since
\* is all the miner was told of.
LEMMA MinerStepInv == MinerInv /\ (MinerStep \/ Find) => MinerInv'
<1> SUFFICES ASSUME MinerInv, MinerStep \/ Find PROVE MinerInv'
  OBVIOUS
<1> USE DEF MinerInv
<1>0. ChainShape /\ "miner" \in Threads /\ "peer" \in Threads \ {"miner"}
  BY ThreadsAssumption
<1>1. UNCHANGED syncVars /\ InHand' = InHand
  BY DEF MinerStep, Find, syncVars, InHand
<1>2. CASE LoopTest \/ TakeTemplate \/ SeeNewTip \/ SeeStop \/ ReportMined
  <2>1. UNCHANGED <<legacy, call, unseen>> /\ (tipChanged' = tipChanged \/ SeeNewTip)
    BY <1>2 DEF LoopTest, TakeTemplate, SeeNewTip, SeeStop, ReportMined, chainVars
  <2>2. /\ {"pc", "tmpl", "fromChain"} \subseteq DOMAIN miner'
        /\ ~ miner'.fromChain
    BY <1>2 DEF LoopTest, TakeTemplate, SeeNewTip, SeeStop, ReportMined, MinerGoto, MinerAt
  <2> QED BY <1>1, <2>1, <2>2 DEF ChainShape, Reaches, syncVars
<1>3. CASE ReadHeight
  <2>1. UNCHANGED <<legacy, call>> /\ unseen' = {}
    BY <1>3 DEF ReadHeight, chainVars
  <2>2. {"pc", "tmpl", "fromChain"} \subseteq DOMAIN miner'
    BY <1>3 DEF ReadHeight
  <2> QED BY <1>1, <2>1, <2>2 DEF ChainShape, Reaches, syncVars
<1>4. CASE ReadTip
  <2>1. UNCHANGED <<legacy, call, unseen, tipChanged>>
    BY <1>4 DEF ReadTip, chainVars
  <2>2. {"pc", "tmpl", "fromChain"} \subseteq DOMAIN miner' /\ miner.pc = "tip" /\ miner'.fromChain = miner.fromChain
    BY <1>0, <1>4 DEF ReadTip, ChainShape
  <2> QED BY <1>1, <2>1, <2>2 DEF ChainShape, Reaches, syncVars
<1>5. CASE ChainStep("miner") /\ UNCHANGED <<minerVars, syncVars, submitted, main>>
  <2>1. ChainShape' /\ legacy.store \subseteq legacy'.store /\ call'["peer"] = call["peer"]
    BY <1>0, <1>5, ChainStepShape DEF minerVars
  <2>2. Reaches(InHand) => Reaches(InHand)'
    BY <1>0, <1>1, <2>1, StillReaches DEF Reaches
  <2> QED BY <1>1, <1>5, <2>1, <2>2 DEF minerVars, syncVars
<1>6. CASE FindBlock
  <2> DEFINE b == [miner.tmpl EXCEPT !.by = mined + 1]
  <2>1. {"pc", "tmpl", "fromChain"} \subseteq DOMAIN miner' /\ miner'.pc = "adding"
        /\ CallProcessBlock("miner", b) /\ UNCHANGED <<legacy, unseen, tipChanged>>
    BY <1>0, <1>6 DEF FindBlock, ChainShape
  <2> HIDE DEF b
  <2>2. ChainShape' /\ call'["peer"] = call["peer"]
    BY <1>0, <2>1, CallShape
  <2> QED BY <1>1, <2>1, <2>2 DEF Reaches, syncVars
<1> QED BY <1>2, <1>3, <1>4, <1>5, <1>6 DEF MinerStep, MinerAlone, Find

\* A step of the peer thread that leaves the chain and the miner alone, after
\* which no block is in its hand.
LEMMA EmptyHanded ==
  ASSUME MinerInv, UNCHANGED <<legacy, minerVars>>,
         \/ UNCHANGED call
         \/ CallApplyCascade("peer", CascadeTip, 0),
         sync'.pc \notin {"batchBlock", "eventBlock"}
  PROVE  MinerInv'
<1> USE DEF MinerInv
<1>1. "peer" \in Threads
  BY ThreadsAssumption
<1>2. ChainShape'
  <2>1. CASE UNCHANGED call
    BY <2>1 DEF ChainShape, minerVars
  <2>2. CASE CallApplyCascade("peer", CascadeTip, 0)
    <3>1. {"pc", "tmpl", "fromChain"} \subseteq DOMAIN miner'
      BY DEF ChainShape, minerVars
    <3> QED BY <1>1, <2>2, <3>1, CallShape
  <2> QED BY <2>1, <2>2
<1> QED BY <1>2 DEF minerVars

\* A block the peer thread takes in its hand is about to be stored.
LEMMA HandFull ==
  ASSUME MinerInv, UNCHANGED <<legacy, minerVars>>, NEW b, CallProcessBlock("peer", b),
         sync'.pc \in {"batchBlock", "eventBlock"} => InHand' = b
  PROVE  MinerInv'
<1> USE DEF MinerInv
<1>1. "peer" \in Threads /\ {"pc", "tmpl", "fromChain"} \subseteq DOMAIN miner'
  BY ThreadsAssumption DEF ChainShape, minerVars
<1>2. ChainShape' /\ call'["peer"].step = "add" /\ call'["peer"].block = b
  BY <1>1, CallShape
<1>3. Reaches(b)'
  BY <1>2 DEF Reaches
<1> QED BY <1>2, <1>3 DEF minerVars

\* After the catch block the thread has no block.
LEMMA CaughtEmpty == SyncTyped /\ Caught => sync'.pc \in {"test", "ended"} /\ UNCHANGED chainVars
BY DEF SyncTyped, Caught, Idle, Syncs

\* The steps of the peer thread that call no callback.
LEMMA PeerAloneInv == SyncInv /\ MinerInv /\ SyncAlone /\ UNCHANGED minerVars => MinerInv'
<1> SUFFICES ASSUME SyncInv, MinerInv, SyncAlone, UNCHANGED minerVars PROVE MinerInv'
  OBVIOUS
<1>0. SyncTyped /\ sync \in Syncs
  BY DEF SyncInv, SyncTyped
<1> DEFINE Hands == {"batchBlock", "eventBlock"}
<1>1. ASSUME Caught PROVE MinerInv'
  BY <1>0, <1>1, CaughtEmpty, EmptyHanded DEF chainVars
<1>2. \A pc : SyncGoto(pc) => sync'.pc = pc
  BY <1>0 DEF SyncGoto, Syncs
<1>3. \A s : s = NextBatch(sync) => s.pc \in {"request", "done"}
  BY <1>0 DEF NextBatch, Syncs
<1>4. CASE Begin \/ RunTest \/ Connect \/ SendGreeting
  BY <1>0, <1>1, <1>2, <1>4, EmptyHanded
     DEF Begin, RunTest, Connect, SendGreeting, chainVars, Syncs
<1>5. CASE ReceiveGreeting \/ StartIBD \/ RequestBatch \/ ReceiveBatchFails
  BY <1>0, <1>1, <1>2, <1>5, EmptyHanded
     DEF ReceiveGreeting, StartIBD, RequestBatch, ReceiveBatchFails, chainVars, Syncs
<1>6. CASE ReceiveBatch
  <2>1. sync'.pc \in {"batch", "request", "done"}
    BY <1>0, <1>3, <1>6 DEF ReceiveBatch, Syncs
  <2>2. UNCHANGED legacy /\ (UNCHANGED call \/ CallApplyCascade("peer", CascadeTip, 0))
    BY <1>6 DEF ReceiveBatch, chainVars
  <2> QED BY <2>1, <2>2, EmptyHanded
<1>7. CASE NextOfBatch
  <2>1. CASE sync' = NextBatch(sync) /\ UNCHANGED chainVars
    BY <1>3, <2>1, EmptyHanded DEF chainVars
  <2>2. CASE /\ SyncGoto("batchBlock") /\ CallProcessBlock("peer", Head(sync.work))
             /\ UNCHANGED legacy
    <3>1. sync'.pc = "batchBlock" /\ sync'.work = sync.work
      BY <1>0, <2>2 DEF SyncGoto, Syncs
    <3> QED BY <2>2, <3>1, HandFull DEF InHand
  <2> QED BY <1>7, <2>1, <2>2 DEF NextOfBatch
<1>8. CASE EventsOver \/ OnOther
  BY <1>0, <1>2, <1>8, EmptyHanded DEF EventsOver, OnOther, Event, chainVars
<1>9. CASE OnTxPoWID
  BY <1>0, <1>9, EmptyHanded DEF OnTxPoWID, Event, chainVars, Syncs
<1>10. CASE OnBlockMessage
  <2>1. sync'.pc = "eventBlock" /\ sync'.block = Message.block
    BY <1>0, <1>10 DEF OnBlockMessage, Syncs
  <2> QED BY <1>10, <2>1, HandFull DEF OnBlockMessage, InHand
<1> QED BY <1>4, <1>5, <1>6, <1>7, <1>8, <1>9, <1>10 DEF SyncAlone

\* The block in hand has been stored when its call has returned, and the miner
\* is told of it in the step that drops it.
LEMMA PeerThreadInv == SyncInv /\ MinerInv /\ PeerThreadStep => MinerInv'
<1> SUFFICES ASSUME SyncInv, MinerInv, PeerThreadStep PROVE MinerInv'
  OBVIOUS
<1>0. sync \in Syncs /\ "peer" \in Threads
  BY ThreadsAssumption DEF SyncInv, SyncTyped
<1>1. CASE SyncAlone /\ UNCHANGED minerVars
  BY <1>1, PeerAloneInv
<1>2. CASE ChainStep("peer") /\ UNCHANGED <<minerVars, syncVars>>
  <2>1. ChainShape' /\ legacy.store \subseteq legacy'.store
        /\ (call["peer"].step = "add" => call["peer"].block \in legacy'.store)
    BY <1>0, <1>2, ChainStepShape DEF MinerInv, minerVars
  <2>2. InHand' = InHand /\ (Reaches(InHand) => Reaches(InHand)')
    <3>1. InHand' = InHand
      BY <1>2 DEF InHand, syncVars
    <3> QED BY <2>1, <3>1, StillReaches DEF MinerInv, Reaches
  <2> QED BY <1>2, <2>1, <2>2 DEF MinerInv, minerVars, syncVars
<1>3. ASSUME NEW b, BatchBlock(b) \/ EventBlock(b), NotifyNewTip(b)
      PROVE  MinerInv'
  <2>1. sync.pc \in {"batchBlock", "eventBlock"} /\ b = InHand
        /\ call["peer"].step = "none" /\ UNCHANGED <<legacy, call>>
    BY <1>3 DEF BatchBlock, EventBlock, InHand, Returned, chainVars
  <2>2. b \in legacy.store
    BY <2>1 DEF MinerInv, Reaches
  <2>3. sync'.pc \in {"batch", "events"}
    BY <1>0, <1>3 DEF BatchBlock, EventBlock, Syncs
  <2>4. UNCHANGED miner /\ tipChanged' = TRUE /\ unseen' = unseen \cup {b}
    BY <1>3 DEF NotifyNewTip
  <2> QED BY <2>1, <2>2, <2>3, <2>4 DEF MinerInv, ChainShape
<1>4. ASSUME NEW t, SyncDone, SetNextBlock(t)
      PROVE  MinerInv'
  <2>1. sync'.pc = "events"
    BY <1>0, <1>4 DEF SyncDone, Idle, Syncs
  <2>2. UNCHANGED <<legacy, call, miner, unseen>> /\ tipChanged' = TRUE
    BY <1>4 DEF SyncDone, SetNextBlock, chainVars
  <2> QED BY <2>1, <2>2 DEF MinerInv, ChainShape
<1> QED BY <1>1, <1>2, <1>3, <1>4 DEF PeerThreadStep

\* Every step keeps the invariant.
LEMMA MinerNextInv == SyncInv /\ MinerInv /\ [Next]_vars => MinerInv'
<1> SUFFICES ASSUME SyncInv, MinerInv, [Next]_vars PROVE MinerInv'
  OBVIOUS
<1>0. SyncTyped /\ sync \in Syncs
  BY DEF SyncInv, SyncTyped
<1>1. ASSUME UNCHANGED <<legacy, call, unseen, sync>>, UNCHANGED tipChanged,
             {"pc", "tmpl", "fromChain"} \subseteq DOMAIN miner',
             ~ miner'.fromChain \/ UNCHANGED miner
      PROVE  MinerInv'
  BY <1>1 DEF MinerInv, ChainShape, InHand, Reaches
<1>2. CASE Environment
  <2>1. UNCHANGED <<sync, chainVars, minerVars>>
    BY <1>0, <1>2, PeerStepTyped DEF Environment
  <2> QED BY <1>1, <2>1 DEF chainVars, minerVars, MinerInv, ChainShape
<1>3. CASE StartMining
  <2>1. miner' = MinerAt("loop") /\ UNCHANGED <<legacy, call, unseen, sync, tipChanged>>
    BY <1>3 DEF StartMining, StartMiner, MinerGoto, chainVars, syncVars
  <2> QED BY <1>1, <2>1 DEF MinerAt
<1>4. CASE Stop
  <2>1. sync'.pc = sync.pc /\ InHand' = InHand
    BY <1>0, <1>4 DEF Stop, StopSync, InHand, Syncs
  <2> QED BY <1>4, <2>1 DEF Stop, chainVars, minerVars, MinerInv, ChainShape, Reaches
<1>5. CASE JoinPeer \/ JoinMiner \/ UNCHANGED vars
  <2>1. UNCHANGED <<legacy, call, unseen, sync, tipChanged, miner>>
    BY <1>5 DEF JoinPeer, JoinMiner, StopMiner, vars, chainVars, minerVars, syncVars
  <2> QED BY <1>1, <2>1 DEF MinerInv, ChainShape
<1> QED BY <1>2, <1>3, <1>4, <1>5, MinerStepInv, PeerThreadInv DEF Next, MainStep

\* A template the miner built from the chain without a block it was told of
\* since is never worked on with tipChanged_ down, in any order in which the
\* two threads write and read the chain, the flag and the slot.
THEOREM NoTipIsMissed == Spec => []NoTipMissed
<1> DEFINE I == SyncInv /\ MinerInv
<1>1. Init => I
  BY SyncInitInv, MinerInitInv DEF Init
<1>2. I /\ [Next]_vars => I'
  BY SyncNextInv, MinerNextInv
<1>3. I => NoTipMissed
  BY DEF MinerInv, NoTipMissed
<1> QED BY <1>1, <1>2, <1>3, PTL DEF Spec
=============================================================================
