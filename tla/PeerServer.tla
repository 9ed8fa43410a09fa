----------------------------- MODULE PeerServer -----------------------------
(***************************************************************************)
(* The older node: network/NetworkProtocol.hpp, one side of a connection;  *)
(* network/NIOServer.hpp with its accept thread and one detached thread    *)
(* per connection; node/main.cpp and Node.hpp, and what its ChainProcessor *)
(* keeps of the blocks of an IBD.                                          *)
(*                                                                         *)
(* The peers are whatever may be at the other end of a socket: they send   *)
(* any messages, which arrive in pieces, and close when they like.         *)
(***************************************************************************)
EXTENDS Integers, Sequences, SequencesExt, FiniteSets

CONSTANTS
  Garbled,     \* what a payload holds that does not deserialise
  Conns,       \* bound: the ids 0, 1, ... m_nextId gives out
  Messages,    \* the messages peers send
  MaxMessages, \* bound on the messages all of them send
  NoBlock,     \* the 32 zero bytes a ChainState starts with
  Blocks,
  Number       \* Number[b]: the block number of the header of b

-----------------------------------------------------------------------------
(* One side of one connection.  It makes no system call; the server feeds  *)
(* it bytes and sends what it leaves in outBuffer.                         *)

\* A payload is what it deserialises to: the top block of a greeting, the
\* blocks of an IBD, the number of a pulse.
Msg(type, payload) == [type |-> type, payload |-> payload]

\* On the wire a message is its length and then the rest, and a read may end
\* between the two.  The type "empty" is a frame of length 0: four bytes and
\* whatever byte comes after them, at which decode looks at it.
Encode(m) == <<[part |-> "length", of |-> m], [part |-> "rest", of |-> m]>>

\* m_peerTip, m_state, m_recvBuf, outBuffer as messages, and the events emitted.
NewConnection(localTip) ==
  [localTip |-> localTip, peerTip |-> -1, state |-> "greeting", buffer |-> <<>>,
   out |-> <<Msg("greeting", localTip)>>, events |-> <<>>]

Emit(c, kind, data) == [c EXCEPT !.events = Append(@, <<kind, data>>)]
Enqueue(c, m) == [c EXCEPT !.out = Append(@, m)]
Goto(c, state) == [c EXCEPT !.state = state]

\* A node that is behind asks for the chain.
Greeted(c, top) ==
  LET seen == Emit([c EXCEPT !.peerTip = top], "greeted", top)
  IN  IF top > c.localTip
        THEN Goto(Enqueue(seen, Msg("ibd_req", c.localTip)), "ibd")
        ELSE Emit(Goto(seen, "ready"), "connected", "no ibd")

HandleHandshakeGreeting(c, m) ==
  IF m.type = "greeting" /\ m.payload # Garbled THEN Greeted(c, m.payload)
  ELSE Goto(Emit(c, "error", m.type), "closed")

\* IBD_REQ has no case of its own, so that no request is ever answered.
HandleReady(c, m) ==
  CASE m.type = "ping" -> Emit(Enqueue(c, Msg("pong", 0)), "ping", 0)
    [] m.type = "pong" -> c
    [] m.type = "pulse" ->
         IF m.payload = Garbled THEN c
         ELSE Emit([c EXCEPT !.peerTip = m.payload], "pulse", m.payload)
    [] m.type = "txpowid" -> Emit(c, "txpowid", m.payload)
    [] m.type = "txpow" ->
         Emit(c, IF m.payload = Garbled THEN "error" ELSE "txpow", m.type)
    [] OTHER -> Emit(c, "unknown", m.type)

\* Whatever the IBD holds, the handshake is over.
HandleHandshakeIBD(c, m) ==
  IF m.type \notin {"ibd", "ibd_resp"} THEN HandleReady(c, m)
  ELSE LET read == IF m.payload = Garbled THEN Emit(c, "error", m.type)
                   ELSE Emit(c, "ibd", m.payload)
       IN  Emit(Goto(read, "ready"), "connected", "ibd")

\* Nothing more is read: the protocol is closed, or decode has thrown and the
\* thread of the connection leaves its loop.
Over(c) == c.state \in {"closed", "broken"}

\* A message is decoded and handled; decode throws for an empty frame.
Dispatch(c, m) ==
  CASE Over(c) -> c
    [] ~ Over(c) /\ m.type = "empty" -> Goto(c, "broken")
    [] c.state = "greeting" /\ m.type # "empty" -> HandleHandshakeGreeting(c, m)
    [] c.state = "ibd" /\ m.type # "empty"      -> HandleHandshakeIBD(c, m)
    [] c.state = "ready" /\ m.type # "empty"    -> HandleReady(c, m)

\* Mutant: one message is taken per call.
ProcessOneOfRecvBuf(c) ==
  IF Len(c.buffer) < 2 THEN c
  ELSE Dispatch([c EXCEPT !.buffer = SubSeq(@, 3, Len(@))], c.buffer[1].of)

\* Every complete message of the buffer, up to one that ends the connection.
ProcessRecvBuf(c) ==
  LET take[n \in 0 .. Len(c.buffer) \div 2] ==
        IF n = 0 THEN c
        ELSE LET d == take[n - 1]
                 m == d.buffer[1].of
             IN  IF n > 1 /\ Over(d) THEN d
                 ELSE Dispatch([d EXCEPT !.buffer = SubSeq(@, 3, Len(@))], m)
  IN  take[Len(c.buffer) \div 2]

Receive(c, bytes) == ProcessRecvBuf([c EXCEPT !.buffer = @ \o bytes])
-----------------------------------------------------------------------------
(* The node and its server.                                                *)

ASSUME ConnsAssumption == Conns \subseteq Nat
ASSUME ChainAssumption == Number \in [Blocks -> Int]
\* An IBD that deserialises holds blocks.
ASSUME MessagesAssumption ==
  \A m \in Messages :
    /\ m = Msg(m.type, m.payload)
    /\ m.type \in {"ibd", "ibd_resp"} => m.payload = Garbled \/ m.payload \in Seq(Blocks)

VARIABLES
  main,        \* the main thread, in start() and stop()
  accepting,   \* the accept thread
  running,     \* m_running
  backlog,     \* connections the listening socket holds
  nextId,      \* m_nextId
  peers,       \* m_peers: the ids it holds
  conn,        \* per id the PeerConn: proto, whether fd is open, running
  thread,      \* per id the thread of the connection
  wire,        \* per id what has been sent to us and was not read yet
  gone,        \* ids whose peer has closed its end
  sent,        \* history: per id the messages of the peer
  chain,       \* m_processor
  tip,         \* m_tip of the node
  myTip        \* m_myTip of the server

serverVars == <<main, accepting, running, backlog, nextId, peers>>
peerVars == <<wire, gone, sent>>
nodeVars == <<chain, tip, myTip>>
allVars == <<serverVars, peerVars, nodeVars, conn, thread>>

NoConn == [proto |-> NewConnection(-1), open |-> FALSE, running |-> FALSE]

Init ==
  /\ main = "new" /\ accepting = "none" /\ running = FALSE /\ backlog = 0
  /\ nextId = 0 /\ peers = {}
  /\ conn = [i \in Conns |-> NoConn] /\ thread = [i \in Conns |-> "none"]
  /\ wire = [i \in Conns |-> <<>>] /\ gone = {} /\ sent = [i \in Conns |-> <<>>]
  /\ chain = [store |-> {}, height |-> 0, tip |-> NoBlock]
  /\ tip = -1 /\ myTip = -1
-----------------------------------------------------------------------------
(* The chain.  An IBD is applied under the lock of the node.               *)

\* applyCoins spends nothing here: the id that names an input is not part of
\* a serialised coin, so a block that came from a peer spends empty ids.
ProcessBlock(c, b) ==
  [store  |-> c.store \cup {b},
   height |-> IF Number[b] >= c.height THEN Number[b] ELSE c.height,
   tip    |-> IF Number[b] >= c.height THEN b ELSE c.tip]

\* processBlock returns false for a block it knows; for a new one the tip of
\* the node becomes that block, also when it is a lower one.
AddBlock(n, b) ==
  IF b \in n.chain.store THEN n
  ELSE [chain |-> ProcessBlock(n.chain, b), tip |-> Number[b], my |-> Number[b]]

\* Mutant: the tip is the number of blocks received.
ApplyIBDCounting(n, bs) ==
  [chain |-> [n.chain EXCEPT !.store = @ \cup ToSet(bs)], tip |-> Len(bs), my |-> Len(bs)]

ApplyIBD(n, bs) ==
  LET after[k \in 0 .. Len(bs)] == IF k = 0 THEN n ELSE AddBlock(after[k - 1], bs[k])
  IN  after[Len(bs)]

\* _onEvent logs every event that is not an IBD.
OnEvent(n, e) == IF e[1] = "ibd" THEN ApplyIBD(n, e[2]) ELSE n

OnEvents(events) ==
  LET after[k \in 0 .. Len(events)] ==
        IF k = 0 THEN [chain |-> chain, tip |-> tip, my |-> myTip]
        ELSE OnEvent(after[k - 1], events[k])
      n == after[Len(events)]
  IN  chain' = n.chain /\ tip' = n.tip /\ myTip' = n.my
-----------------------------------------------------------------------------
(* The server.                                                             *)

\* _addPeer: the greeting names the tip of this moment, for good.
AddPeer ==
  /\ nextId \in Conns
  /\ nextId' = nextId + 1
  /\ peers' = peers \cup {nextId}
  /\ conn' = [conn EXCEPT ![nextId] =
                [proto |-> NewConnection(myTip), open |-> TRUE, running |-> TRUE]]
  /\ thread' = [thread EXCEPT ![nextId] = "greet"]

\* NIOServer::start returns false if the port cannot be bound.
Listen == running' = TRUE /\ accepting' = "select"
\* Node::start returns false then, and main returns.
Start ==
  /\ main = "new"
  /\ \/ main' = "failed" /\ UNCHANGED <<running, accepting>>
     \/ main' = "dial" /\ Listen
  /\ UNCHANGED <<backlog, nextId, peers, conn, thread, peerVars, nodeVars>>

\* The peer of the command line, which may not be there, or not answer.
Dial ==
  /\ main = "dial" /\ main' = "up"
  /\ AddPeer \/ UNCHANGED <<nextId, peers, conn, thread>>
  /\ UNCHANGED <<accepting, running, backlog, peerVars, nodeVars>>

\* A signal, seen by the loop of main: stop() tells the threads and closes
\* the listening socket, and whatever the socket holds is dropped.
StopListening ==
  /\ main = "up" /\ main' = "join"
  /\ running' = FALSE /\ backlog' = 0
  /\ UNCHANGED <<accepting, nextId, peers, conn, thread, peerVars, nodeVars>>

\* Mutant: the map is cleared without waiting for the accept thread.
JoinAcceptAtOnce ==
  /\ main = "join" /\ main' = "clear"
  /\ UNCHANGED <<accepting, running, backlog, nextId, peers, conn, thread, peerVars, nodeVars>>

JoinAccept ==
  /\ main = "join" /\ accepting = "done" /\ main' = "clear"
  /\ UNCHANGED <<accepting, running, backlog, nextId, peers, conn, thread, peerVars, nodeVars>>

\* The threads are not waited for.
ClearPeers ==
  /\ main = "clear" /\ main' = "stopped"
  /\ conn' = [i \in Conns |-> IF i \in peers
                              THEN [conn[i] EXCEPT !.open = FALSE, !.running = FALSE]
                              ELSE conn[i]]
  /\ peers' = {}
  /\ UNCHANGED <<accepting, running, backlog, nextId, thread, peerVars, nodeVars>>

\* The loop looks at m_running before it selects and not after it.
Accept ==
  /\ accepting = "select"
  /\ \/ running /\ backlog > 0 /\ backlog' = backlog - 1 /\ accepting' = "add"
     \/ ~running /\ accepting' = "done" /\ UNCHANGED backlog
  /\ UNCHANGED <<main, running, nextId, peers, conn, thread, peerVars, nodeVars>>

\* An accept that fails ends the loop, with the server still running.
AcceptFails ==
  /\ accepting = "select" /\ running /\ accepting' = "done"
  /\ UNCHANGED <<main, running, backlog, nextId, peers, conn, thread, peerVars, nodeVars>>

AddInbound ==
  /\ accepting = "add" /\ accepting' = "select"
  /\ AddPeer
  /\ UNCHANGED <<main, running, backlog, peerVars, nodeVars>>
-----------------------------------------------------------------------------
(* The thread of a connection.                                             *)

Step(i, from, to) == thread[i] = from /\ thread' = [thread EXCEPT ![i] = to]

SendGreeting(i) ==
  /\ Step(i, "greet", "loop")
  /\ conn' = [conn EXCEPT ![i].proto.out = <<>>]
  /\ UNCHANGED <<serverVars, peerVars, nodeVars>>

MayRun(i) == conn[i].running /\ running /\ conn[i].open

LeaveLoop(i) ==
  /\ Step(i, "loop", "close")
  /\ \/ ~MayRun(i)
     \/ i \in gone /\ wire[i] = <<>>
  /\ UNCHANGED <<serverVars, peerVars, nodeVars, conn>>

\* A read of any piece of what has arrived; an exception ends the loop, and
\* what waits to be sent is not.
ReceiveSome(i) ==
  /\ MayRun(i)
  /\ \E n \in 1 .. Len(wire[i]) :
       LET was == conn[i].proto
           now == Receive(was, SubSeq(wire[i], 1, n))
       IN  /\ Step(i, "loop", IF now.state = "broken" THEN "close" ELSE "send")
           /\ wire' = [wire EXCEPT ![i] = SubSeq(@, n + 1, Len(@))]
           /\ conn' = [conn EXCEPT ![i].proto = now]
           /\ OnEvents(SubSeq(now.events, Len(was.events) + 1, Len(now.events)))
  /\ UNCHANGED <<serverVars, gone, sent>>

\* Mutant: the loop goes on after the connection was closed.
SendRestUnchecked(i) ==
  /\ Step(i, "send", "loop")
  /\ conn' = [conn EXCEPT ![i].proto.out = <<>>]
  /\ UNCHANGED <<serverVars, peerVars, nodeVars>>

\* A send may fail once the peer or stop() has closed the socket.
SendRest(i) ==
  /\ Step(i, "send", IF conn[i].proto.state = "closed" THEN "close" ELSE "loop")
  /\ \E fails \in BOOLEAN :
       /\ fails => conn[i].proto.out # <<>> /\ (i \in gone \/ ~conn[i].open)
       /\ ~fails => conn[i].proto.out = <<>> \/ conn[i].open
       /\ conn' = [conn EXCEPT ![i].proto.out = <<>>,
                               ![i].running = @ /\ ~fails]
  /\ UNCHANGED <<serverVars, peerVars, nodeVars>>

\* The socket is closed and _removePeer takes the lock of the map.
LeaveMap(i) ==
  /\ Step(i, "close", "done")
  /\ conn' = [conn EXCEPT ![i].open = FALSE, ![i].running = FALSE]
  /\ peers' = peers \ {i}
  /\ UNCHANGED <<main, accepting, running, backlog, nextId, peerVars, nodeVars>>
-----------------------------------------------------------------------------
(* The peers.                                                              *)

Knock ==
  /\ running /\ nextId + backlog + 1 \in Conns
  /\ backlog' = backlog + 1
  /\ UNCHANGED <<main, accepting, running, nextId, peers, conn, thread, peerVars, nodeVars>>

MessagesSent == FoldFunction(LAMBDA s, n : Len(s) + n, 0, sent)

PeerSends(i, m) ==
  /\ thread[i] # "none" /\ conn[i].open /\ i \notin gone
  /\ MessagesSent < MaxMessages
  /\ wire' = [wire EXCEPT ![i] = @ \o Encode(m)]
  /\ sent' = [sent EXCEPT ![i] = Append(@, m)]
  /\ UNCHANGED <<serverVars, nodeVars, gone, conn, thread>>

PeerCloses(i) ==
  /\ thread[i] # "none" /\ i \notin gone
  /\ gone' = gone \cup {i}
  /\ UNCHANGED <<serverVars, nodeVars, wire, sent, conn, thread>>

ConnStep(i) ==
  \/ SendGreeting(i) \/ LeaveLoop(i) \/ ReceiveSome(i) \/ SendRest(i)
  \/ LeaveMap(i)

Next ==
  \/ Start \/ Dial \/ StopListening \/ JoinAccept \/ ClearPeers
  \/ Accept \/ AcceptFails \/ AddInbound \/ Knock
  \/ \E i \in Conns :
       \/ ConnStep(i) \/ PeerCloses(i)
       \/ \E m \in Messages : PeerSends(i, m)

\* A thread of a connection that can go on does.
Spec == Init /\ [][Next]_allVars /\ \A i \in Conns : WF_allVars(ConnStep(i))
-----------------------------------------------------------------------------
(* Properties.                                                             *)

\* However a stop races with connections that come in, what stop() leaves is
\* an empty map with no socket open, and nothing is added to it later.
StoppedServerIsEmpty ==
  main = "stopped" =>
    /\ peers = {} /\ accepting = "done"
    /\ \A i \in Conns : ~conn[i].open

\* The messages of a peer that have been read to their end.
ReadOf(i) ==
  SubSeq(sent[i], 1, (2 * Len(sent[i]) - Len(wire[i])) \div 2)

DispatchAll(c, ms) ==
  LET after[k \in 0 .. Len(ms)] == IF k = 0 THEN c ELSE Dispatch(after[k - 1], ms[k])
  IN  after[Len(ms)]

\* In whatever pieces the bytes of a peer come, the connection has come to
\* the same state, and has emitted the same events, as if the messages had
\* been dispatched one by one.
PiecesAreIrrelevant ==
  \A i \in Conns :
    LET c == DispatchAll(NewConnection(conn[i].proto.localTip), ReadOf(i))
        p == conn[i].proto
    IN  <<p.state, p.peerTip, p.events>> = <<c.state, c.peerTip, c.events>>

\* The top block a connection was greeted with is one the node holds, also
\* when it was made while the chain of another peer was being applied.
AdvertisedIsHeld ==
  \A i \in peers :
    LET top == conn[i].proto.localTip
    IN  top = -1 \/ \E b \in chain.store : Number[b] = top

\* A connection that the protocol closed or that broke its framing, or that
\* its peer or stop() ended, does not stay in the map or hold its socket.
ClosedPeersLeave ==
  \A i \in Conns :
    (thread[i] # "none" /\ (Over(conn[i].proto) \/ i \in gone \/ ~running))
      ~> (i \notin peers /\ ~conn[i].open)
=============================================================================
