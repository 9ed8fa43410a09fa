--------------------------- MODULE OlderNodeProofs ---------------------------
(***************************************************************************)
(* Proofs about the older node, for any number of peers, messages, blocks  *)
(* and transactions: its server, and then its chain processor.             *)
(*                                                                         *)
(* For every connection there is a number of messages of its peer that     *)
(* have been read to their end: it is as if these had been dispatched one  *)
(* by one, what was not read yet is the rest of the messages, and the      *)
(* buffer of an open connection holds what was begun of the next one.  A   *)
(* read of any piece keeps this, by induction over the messages that are   *)
(* complete by then.                                                       *)
(*                                                                         *)
(* Of the chain processor, what can be said of its coins concerns the      *)
(* trunk: the blocks that every stored block is above or below of.  There, *)
(* a coin is unspent if the block that made it is applied and none that    *)
(* spends it; a reorganisation gives or takes every other coin itself.     *)
(***************************************************************************)
EXTENDS PeerServer, OlderChain, SequenceTheorems, NatSetInduction, TLAPS

(* Types of a connection.  What a peer sends is any of Messages, of which  *)
(* only the blocks of an IBD matter later.                                 *)

\* What an event may carry.
Payloads == {m.payload : m \in Messages} \cup {m.type : m \in Messages}
              \cup {0, -1, "no ibd", "ibd"}

States == {"greeting", "ibd", "ready", "closed", "broken"}
Parts == [part : {"length", "rest"}, of : Messages]
Sends == [type : {"greeting", "ibd_req", "pong"}, payload : Int]

\* An event of an IBD names its blocks.
Kinds == {"greeted", "connected", "error", "ping", "pulse", "txpowid", "txpow",
          "unknown", "ibd"}
Events == {e \in Kinds \X Payloads : e[1] = "ibd" => e[2] \in Seq(Blocks)}

Protos == [localTip : Int, peerTip : Payloads, state : States,
           buffer : Seq(Parts), out : Seq(Sends), events : Seq(Events)]

\* A connection with one of its fields replaced is one.
LEMMA ProtoFields ==
  ASSUME NEW c \in Protos
  PROVE  /\ \A v \in Payloads : [c EXCEPT !.peerTip = v] \in Protos
         /\ \A v \in States : [c EXCEPT !.state = v] \in Protos
         /\ \A v \in Seq(Parts) : [c EXCEPT !.buffer = v] \in Protos
         /\ \A v \in Sends : [c EXCEPT !.out = Append(@, v)] \in Protos
         /\ [c EXCEPT !.out = <<>>] \in Protos
         /\ \A v \in Events : [c EXCEPT !.events = Append(@, v)] \in Protos
<1> HIDE DEF Payloads, States, Parts, Sends, Events
<1>1. c.out \in Seq(Sends) /\ c.events \in Seq(Events)
  BY DEF Protos
<1>2. /\ \A v \in Sends : Append(c.out, v) \in Seq(Sends)
      /\ \A v \in Events : Append(c.events, v) \in Seq(Events)
      /\ <<>> \in Seq(Sends)
  BY <1>1
<1> QED BY <1>2 DEF Protos

\* Emit, Enqueue, Goto and Dispatch leave a connection a connection.
LEMMA EmitTyped ==
  ASSUME NEW c \in Protos, NEW k \in Kinds, NEW d \in Payloads, k = "ibd" => d \in Seq(Blocks)
  PROVE  Emit(c, k, d) \in Protos
<1>1. <<k, d>> \in Events
  BY DEF Events
<1> QED BY <1>1, ProtoFields DEF Emit

LEMMA EnqueueTyped ==
  ASSUME NEW c \in Protos, NEW t \in {"greeting", "ibd_req", "pong"}, NEW n \in Int
  PROVE  Enqueue(c, Msg(t, n)) \in Protos
<1>1. Msg(t, n) \in Sends
  BY DEF Msg, Sends
<1> QED BY <1>1, ProtoFields DEF Enqueue

LEMMA GotoTyped ==
  ASSUME NEW c \in Protos, NEW s \in States
  PROVE  Goto(c, s) \in Protos
BY ProtoFields DEF Goto

LEMMA DispatchTyped ==
  ASSUME NEW c \in Protos, NEW m \in Messages
  PROVE  Dispatch(c, m) \in Protos
<1> USE ProtoFields, EmitTyped, EnqueueTyped, GotoTyped
<1>1. /\ m.payload \in Payloads /\ m.type \in Payloads
      /\ 0 \in Payloads /\ -1 \in Payloads /\ "no ibd" \in Payloads /\ "ibd" \in Payloads
      /\ c.localTip \in Int /\ c.state \in States
      /\ {"greeting", "ibd", "ready", "closed", "broken"} \subseteq States
  <2>1. m.payload \in Payloads /\ m.type \in Payloads
    BY Zenon DEF Payloads
  <2>2. 0 \in Payloads /\ -1 \in Payloads /\ "no ibd" \in Payloads /\ "ibd" \in Payloads
    BY Zenon DEF Payloads
  <2>3. c.localTip \in Int /\ c.state \in States
    BY DEF Protos
  <2>4. {"greeting", "ibd", "ready", "closed", "broken"} \subseteq States
    BY DEF States
  <2> QED BY <2>1, <2>2, <2>3, <2>4
<1> HIDE DEF Payloads, Protos, States
<1>2. m.type \in {"ibd", "ibd_resp"} /\ m.payload # Garbled => m.payload \in Seq(Blocks)
  BY MessagesAssumption
<1>3. Greeted(c, m.payload) \in Protos
  <2> DEFINE seen == Emit([c EXCEPT !.peerTip = m.payload], "greeted", m.payload)
  <2>1. seen \in Protos
    BY <1>1 DEF Kinds
  <2> HIDE DEF seen
  <2>2. /\ Goto(Enqueue(seen, Msg("ibd_req", c.localTip)), "ibd") \in Protos
        /\ Emit(Goto(seen, "ready"), "connected", "no ibd") \in Protos
    BY <1>1, <2>1 DEF Kinds
  <2> QED BY <2>2 DEF Greeted, seen
<1>4. HandleHandshakeGreeting(c, m) \in Protos
  BY <1>1, <1>3 DEF HandleHandshakeGreeting, Kinds
<1>5. HandleReady(c, m) \in Protos
  <2>1. Emit(Enqueue(c, Msg("pong", 0)), "ping", 0) \in Protos
    <3>1. Enqueue(c, Msg("pong", 0)) \in Protos
      <4>1. 0 \in Int /\ "pong" \in {"greeting", "ibd_req", "pong"}
        OBVIOUS
      <4> QED BY <4>1, EnqueueTyped, Zenon
    <3>2. "ping" \in Kinds /\ "ping" # "ibd"
      BY DEF Kinds
    <3> QED BY <1>1, <3>1, <3>2, EmitTyped, Zenon
  <2>2. Emit([c EXCEPT !.peerTip = m.payload], "pulse", m.payload) \in Protos
    BY <1>1 DEF Kinds
  <2>3. /\ Emit(c, "txpowid", m.payload) \in Protos
        /\ Emit(c, "error", m.type) \in Protos
        /\ Emit(c, "txpow", m.type) \in Protos
        /\ Emit(c, "unknown", m.type) \in Protos
    BY <1>1 DEF Kinds
  <2> QED BY <2>1, <2>2, <2>3 DEF HandleReady
<1>6. HandleHandshakeIBD(c, m) \in Protos
  <2>1. Emit(c, "error", m.type) \in Protos
    BY <1>1 DEF Kinds
  <2>2. m.type \in {"ibd", "ibd_resp"} /\ m.payload # Garbled =>
          Emit(c, "ibd", m.payload) \in Protos
    BY <1>1, <1>2 DEF Kinds
  <2>3. \A d \in Protos : Emit(Goto(d, "ready"), "connected", "ibd") \in Protos
    BY <1>1 DEF Kinds
  <2> QED BY <1>5, <2>1, <2>2, <2>3 DEF HandleHandshakeIBD
<1>7. "broken" \in States
  BY DEF States
<1> QED BY <1>1, <1>4, <1>5, <1>6, <1>7 DEF Dispatch, States, Over
-----------------------------------------------------------------------------
(* Reading is the same as dispatching one message after the other.         *)

\* The part of a connection that dispatching looks at.
Core(c) == <<c.localTip, c.peerTip, c.state, c.events>>

\* What dispatching makes of that part depends on that part alone.
LEMMA DispatchCore ==
  ASSUME NEW c \in Protos, NEW d \in Protos, NEW m \in Messages, Core(c) = Core(d)
  PROVE  Core(Dispatch(c, m)) = Core(Dispatch(d, m))
<1>1. c.localTip = d.localTip /\ c.peerTip = d.peerTip /\ c.state = d.state /\ c.events = d.events
  BY DEF Core
<1> USE <1>1 DEF Core, Protos, Emit, Enqueue, Goto, Msg
<1> HIDE DEF Payloads, Parts, Sends, Events
<1>2. Core(HandleHandshakeGreeting(c, m)) = Core(HandleHandshakeGreeting(d, m))
  BY DEF HandleHandshakeGreeting, Greeted
<1>3. Core(HandleReady(c, m)) = Core(HandleReady(d, m))
  BY DEF HandleReady
<1>4. Core(HandleHandshakeIBD(c, m)) = Core(HandleHandshakeIBD(d, m))
  <2>1. CASE m.type \notin {"ibd", "ibd_resp"}
    BY <1>3, <2>1 DEF HandleHandshakeIBD
  <2>2. CASE m.type \in {"ibd", "ibd_resp"}
    BY <2>2 DEF HandleHandshakeIBD
  <2> QED BY <2>1, <2>2
<1>5. c.state \in {"greeting", "ibd", "ready", "closed", "broken"}
  BY DEF States
<1>6. Core(Goto(c, "broken")) = Core(Goto(d, "broken"))
  OBVIOUS
<1> HIDE DEF Core, Protos, Emit, Enqueue, Goto, Msg
<1>7. Over(c) <=> Over(d)
  BY DEF Over
<1>8. CASE Over(c)
  BY <1>7, <1>8 DEF Dispatch, Over
<1>9. CASE ~ Over(c) /\ m.type = "empty"
  BY <1>6, <1>7, <1>9 DEF Dispatch
<1>10. CASE ~ Over(c) /\ m.type # "empty"
  BY <1>2, <1>3, <1>4, <1>5, <1>7, <1>10 DEF Dispatch, Over
<1> QED BY <1>8, <1>9, <1>10

\* Dispatching reads nothing from the buffer, keeps the tip the connection was
\* greeted with, and changes no connection that is over.
LEMMA DispatchKeeps ==
  ASSUME NEW c \in Protos, NEW m \in Messages
  PROVE  /\ Dispatch(c, m).buffer = c.buffer /\ Dispatch(c, m).localTip = c.localTip
         /\ Over(c) => Dispatch(c, m) = c
<1>1. CASE Over(c)
  BY <1>1 DEF Dispatch, Over
<1>2. CASE ~ Over(c) /\ m.type = "empty"
  BY <1>2 DEF Dispatch, Protos, Goto
<1>3. CASE ~ Over(c) /\ m.type # "empty"
  BY <1>3 DEF Protos, States, Dispatch, Over, HandleHandshakeGreeting, HandleReady,
          HandleHandshakeIBD, Greeted, Emit, Enqueue, Goto, Msg
<1> QED BY <1>1, <1>2, <1>3

\* What a connection is after k of the messages ms.
Dispatched(f, c, ms) ==
  /\ f \in [0 .. Len(ms) -> Protos]
  /\ f[0] = c /\ \A k \in 1 .. Len(ms) : f[k] = Dispatch(f[k - 1], ms[k])

\* DispatchAll is the last of those connections, which exist.
LEMMA DispatchAllIs ==
  ASSUME NEW c \in Protos, NEW ms \in Seq(Messages)
  PROVE  \E f : Dispatched(f, c, ms) /\ DispatchAll(c, ms) = f[Len(ms)]
<1> DEFINE N == Len(ms)
           F == [k \in 1 .. N |-> [d \in Protos |-> Dispatch(d, ms[k])]]
           after == CHOOSE f : f = [k \in 0 .. N |-> IF k = 0 THEN c ELSE Dispatch(f[k - 1], ms[k])]
<1>1. N \in Nat /\ \A k \in 1 .. N : ms[k] \in Messages
  OBVIOUS
<1>2. F \in [1 .. N -> [Protos -> Protos]]
  BY <1>1, DispatchTyped
<1>3. PICK f : /\ f \in [0 .. N -> Protos]
               /\ f[0] = c /\ \A k \in 1 .. N : f[k] = F[k][f[k - 1]]
  <2> HIDE DEF F, N
  <2>1. Recursion(N, Protos, c, F)
    BY <1>1, <1>2, RecursionExists
  <2> QED BY <2>1 DEF Recursion, Recursive
<1>4. \A k \in 1 .. N : k - 1 \in 0 .. N /\ F[k][f[k - 1]] = Dispatch(f[k - 1], ms[k])
  <2>1. \A k \in 1 .. N : k - 1 \in 0 .. N
    BY <1>1
  <2>2. \A k \in 1 .. N, d \in Protos : F[k][d] = Dispatch(d, ms[k])
    OBVIOUS
  <2>3. \A k \in 0 .. N : f[k] \in Protos
    BY <1>3
  <2> HIDE DEF F, N
  <2> QED BY <2>1, <2>2, <2>3
<1>5. f = [k \in 0 .. N |-> IF k = 0 THEN c ELSE Dispatch(f[k - 1], ms[k])]
  <2> HIDE DEF F
  <2>1. \A k \in 0 .. N : f[k] = IF k = 0 THEN c ELSE Dispatch(f[k - 1], ms[k])
    BY <1>1, <1>3, <1>4
  <2> QED BY <1>3, <2>1
<1>6. after = [k \in 0 .. N |-> IF k = 0 THEN c ELSE Dispatch(after[k - 1], ms[k])]
  BY <1>5, Zenon
<1>7. DispatchAll(c, ms) = after[N]
  BY DEF DispatchAll
<1> HIDE DEF F, after
<1>8. 
  /\ after[0] = c
  /\ \A k \in 1 .. N : after[k] = Dispatch(after[k - 1], ms[k])
  BY <1>1, <1>6
<1>9. 0 .. N \subseteq {k \in 0 .. N : after[k] \in Protos}
  <2> DEFINE S == {k \in 0 .. N : after[k] \in Protos}
  <2>1. 0 \in S
    BY <1>1, <1>8
  <2>2. \A k \in 1 .. N : k - 1 \in S => k \in S
    BY <1>1, <1>8, DispatchTyped
  <2> HIDE DEF S
  <2>3. 0 .. N \subseteq S
    BY <1>1, <2>1, <2>2, BoundedInduction
  <2> QED BY <2>3 DEF S
<1>10. after \in [0 .. N -> Protos]
  BY <1>6, <1>9
<1> QED BY <1>7, <1>8, <1>10 DEF Dispatched

\* Dispatching all is dispatching all but the last, and then the last.
LEMMA DispatchAllStep ==
  ASSUME NEW c \in Protos
  PROVE  /\ DispatchAll(c, <<>>) = c
         /\ \A ms \in Seq(Messages), m \in Messages :
              /\ DispatchAll(c, ms) \in Protos
              /\ DispatchAll(c, Append(ms, m)) = Dispatch(DispatchAll(c, ms), m)
<1>1. DispatchAll(c, <<>>) = c
  <2>1. <<>> \in Seq(Messages) /\ Len(<<>>) = 0
    OBVIOUS
  <2>2. PICK f : Dispatched(f, c, <<>>) /\ DispatchAll(c, <<>>) = f[Len(<<>>)]
    BY <2>1, DispatchAllIs
  <2>3. f[0] = c
    BY <2>2 DEF Dispatched
  <2> QED BY <2>1, <2>2, <2>3
<1>2. ASSUME NEW ms \in Seq(Messages), NEW m \in Messages
      PROVE  /\ DispatchAll(c, ms) \in Protos
             /\ DispatchAll(c, Append(ms, m)) = Dispatch(DispatchAll(c, ms), m)
  <2> DEFINE N == Len(ms)
             more == Append(ms, m)
  <2>1. /\ N \in Nat /\ more \in Seq(Messages) /\ Len(more) = N + 1
        /\ more[N + 1] = m /\ \A k \in 1 .. N : more[k] = ms[k]
    OBVIOUS
  <2>2. PICK f : Dispatched(f, c, ms) /\ DispatchAll(c, ms) = f[N]
    BY DispatchAllIs
  <2>3. PICK g : Dispatched(g, c, more) /\ DispatchAll(c, more) = g[N + 1]
    BY <2>1, DispatchAllIs
  <2> HIDE DEF more, N
  <2> DEFINE S == {k \in 0 .. N : f[k] = g[k]}
  <2>4. Len(ms) = N
    BY DEF N
  <2>5. 0 \in S
    BY <2>1, <2>2, <2>3 DEF Dispatched
  <2>6. ASSUME NEW k \in 1 .. N, k - 1 \in S PROVE k \in S
    <3>1. k \in 1 .. N + 1
      BY <2>1
    <3>2. f[k] = Dispatch(f[k - 1], ms[k]) /\ g[k] = Dispatch(g[k - 1], more[k])
      BY <2>1, <2>2, <2>3, <2>4, <3>1 DEF Dispatched
    <3> QED BY <2>1, <2>6, <3>2
  <2>7. 0 .. N \subseteq S
    <3> HIDE DEF S
    <3> QED BY <2>1, <2>5, <2>6, BoundedInduction
  <2>8. f[N] = g[N]
    BY <2>1, <2>7
  <2>9. g[N + 1] = Dispatch(g[(N + 1) - 1], more[N + 1])
    BY <2>1, <2>3 DEF Dispatched
  <2>10. f[N] \in Protos
    BY <2>1, <2>2, <2>4 DEF Dispatched
  <2> QED BY <2>1, <2>2, <2>3, <2>8, <2>9, <2>10 DEF more
<1> QED BY <1>1, <1>2

\* The steps of ProcessRecvBuf.
TakeOne(d, k) ==
  IF k > 1 /\ Over(d) THEN d
  ELSE Dispatch([d EXCEPT !.buffer = SubSeq(@, 3, Len(@))], d.buffer[1].of)

Taken(f, c, N) ==
  /\ f \in [0 .. N -> Protos]
  /\ f[0] = c /\ \A k \in 1 .. N : f[k] = TakeOne(f[k - 1], k)

\* A step takes one message out of the buffer, unless the connection is closed.
LEMMA TakeOneTyped ==
  ASSUME NEW d \in Protos, NEW k \in Nat, Len(d.buffer) >= 2
  PROVE  /\ TakeOne(d, k) \in Protos
         /\ ~ (k > 1 /\ Over(d)) =>
              TakeOne(d, k).buffer = SubSeq(d.buffer, 3, Len(d.buffer))
<1>1. d.buffer \in Seq(Parts) /\ d.buffer[1] \in Parts
  BY DEF Protos
<1>2. d.buffer[1].of \in Messages /\ SubSeq(d.buffer, 3, Len(d.buffer)) \in Seq(Parts)
  <2>1. Len(d.buffer) \in Nat /\ \A i \in 3 .. Len(d.buffer) : d.buffer[i] \in Parts
    BY <1>1
  <2> QED BY <1>1, <2>1, SubSeqProperties DEF Parts
<1> DEFINE e == [d EXCEPT !.buffer = SubSeq(@, 3, Len(@))]
<1>3. e \in Protos /\ e.buffer = SubSeq(d.buffer, 3, Len(d.buffer))
  <2> HIDE DEF Parts
  <2> QED BY <1>2 DEF Protos
<1> HIDE DEF e
<1>4. Dispatch(e, d.buffer[1].of) \in Protos /\ Dispatch(e, d.buffer[1].of).buffer = e.buffer
  BY <1>2, <1>3, DispatchTyped, DispatchKeeps
<1> QED BY <1>3, <1>4 DEF TakeOne, e

\* ProcessRecvBuf takes one message after the other.
LEMMA ReadIs ==
  ASSUME NEW c \in Protos
  PROVE  \E f : Taken(f, c, Len(c.buffer) \div 2) /\ ProcessRecvBuf(c) = f[Len(c.buffer) \div 2]
<1> DEFINE L == Len(c.buffer)
           N == L \div 2
           Full(d) == Len(d.buffer) >= 2
           F == [k \in 1 .. N |-> [d \in Protos |-> IF Full(d) THEN TakeOne(d, k) ELSE d]]
           take == CHOOSE f : f = [k \in 0 .. N |->
                     IF k = 0 THEN c
                     ELSE LET d == f[k - 1]
                              m == d.buffer[1].of
                          IN  IF k > 1 /\ Over(d) THEN d
                              ELSE Dispatch([d EXCEPT !.buffer = SubSeq(@, 3, Len(@))], m)]
<1>1. L \in Nat /\ N \in Nat /\ 2 * N <= L /\ Len(c.buffer) = L
  BY DEF Protos
<1> HIDE DEF N, L
<1>2. F \in [1 .. N -> [Protos -> Protos]]
  <2>1. \A k \in 1 .. N, d \in Protos : Full(d) => TakeOne(d, k) \in Protos
    BY <1>1, TakeOneTyped
  <2> HIDE DEF Full
  <2> QED BY <2>1
<1>3. PICK f : Recursive(f, N, Protos, c, F)
  <2> HIDE DEF F, N
  <2>1. Recursion(N, Protos, c, F)
    BY <1>1, <1>2, RecursionExists
  <2> QED BY <2>1 DEF Recursion
<1>4. /\ \A k \in 0 .. N : f[k] \in Protos
      /\ f[0] = c
      /\ \A k \in 1 .. N : f[k] = IF Full(f[k - 1]) THEN TakeOne(f[k - 1], k) ELSE f[k - 1]
  <2>1. \A k \in 1 .. N, d \in Protos : F[k][d] = IF Full(d) THEN TakeOne(d, k) ELSE d
    OBVIOUS
  <2>2. \A k \in 1 .. N : k - 1 \in 0 .. N
    BY <1>1
  <2> HIDE DEF F, Full
  <2> QED BY <1>3, <2>1, <2>2 DEF Recursive
<1> HIDE DEF F
\* Two parts are left for every step to come, unless the connection is closed.
<1> DEFINE S == {k \in 0 .. N : \/ Len(f[k].buffer) = L - 2 * k
                                \/ k >= 1 /\ Over(f[k])}
<1>5. 0 .. N \subseteq S
  <2>1. 0 \in S
    BY <1>1, <1>4
  <2>2. ASSUME NEW k \in 1 .. N, k - 1 \in S PROVE k \in S
    <3>1. /\ f[k - 1] \in Protos /\ k - 1 \in Nat /\ L - 2 * (k - 1) >= 2
          /\ f[k] = IF Full(f[k - 1]) THEN TakeOne(f[k - 1], k) ELSE f[k - 1]
      BY <1>1, <1>4
    <3>2. CASE k > 1 /\ Over(f[k - 1])
      BY <1>1, <3>1, <3>2 DEF TakeOne
    <3>3. CASE ~ (k > 1 /\ Over(f[k - 1]))
      <4>1. Len(f[k - 1].buffer) = L - 2 * (k - 1)
        <5>1. \/ Len(f[k - 1].buffer) = L - 2 * (k - 1)
              \/ k - 1 >= 1 /\ Over(f[k - 1])
          BY <2>2
        <5> HIDE DEF S
        <5> QED BY <3>3, <5>1
      <4>2. f[k].buffer = SubSeq(f[k - 1].buffer, 3, Len(f[k - 1].buffer))
        <5>1. k \in Nat /\ Full(f[k - 1])
          BY <1>1, <3>1, <4>1
        <5>2. f[k] = TakeOne(f[k - 1], k)
          BY <3>1, <5>1
        <5> HIDE DEF S
        <5> QED BY <3>1, <3>3, <5>1, <5>2, TakeOneTyped
      <4>3. f[k - 1].buffer \in Seq(Parts)
        BY <3>1 DEF Protos
      <4>4. Len(f[k].buffer) = L - 2 * k
        <5>1. \A i \in 3 .. Len(f[k - 1].buffer) : f[k - 1].buffer[i] \in Parts
          BY <4>3
        <5>2. Len(SubSeq(f[k - 1].buffer, 3, Len(f[k - 1].buffer)))
                = IF 3 <= Len(f[k - 1].buffer) THEN Len(f[k - 1].buffer) - 3 + 1 ELSE 0
          BY <4>3, <5>1, SubSeqProperties
        <5> HIDE DEF S
        <5>3. L - 2 * (k - 1) - 3 + 1 = L - 2 * k
          BY <1>1
        <5>4. 3 <= Len(f[k - 1].buffer) \/ L - 2 * k = 0
          BY <1>1, <3>1, <4>1
        <5> QED BY <1>1, <3>1, <4>1, <4>2, <5>2, <5>3, <5>4
      <4> QED BY <4>4
    <3> QED BY <3>2, <3>3
  <2> HIDE DEF S
  <2> QED BY <1>1, <2>1, <2>2, BoundedInduction
<1>6. \A k \in 1 .. N : f[k] = TakeOne(f[k - 1], k)
  <2> SUFFICES ASSUME NEW k \in 1 .. N PROVE f[k] = TakeOne(f[k - 1], k)
    OBVIOUS
  <2>1. k - 1 \in S /\ k - 1 \in Nat /\ L - 2 * (k - 1) >= 2
    <3>1. k - 1 \in 0 .. N
      BY <1>1
    <3>2. k - 1 \in S
      BY <1>5, <3>1
    <3> HIDE DEF S
    <3> QED BY <1>1, <3>2
  <2>2. CASE k > 1 /\ Over(f[k - 1])
    BY <1>4, <2>2 DEF TakeOne
  <2>3. CASE ~ (k > 1 /\ Over(f[k - 1]))
    <3>1. \/ Len(f[k - 1].buffer) = L - 2 * (k - 1)
          \/ k - 1 >= 1 /\ Over(f[k - 1])
      BY <2>1
    <3> HIDE DEF S
    <3>2. Len(f[k - 1].buffer) = L - 2 * (k - 1)
      <4>1. k \in Int /\ (k - 1 >= 1 => k > 1)
        BY <1>1
      <4> HIDE DEF Full
      <4> QED BY <2>3, <3>1, <4>1
    <3>3. Full(f[k - 1])
      BY <2>1, <3>2
    <3> QED BY <1>4, <3>3
  <2> QED BY <2>2, <2>3
<1>7. ProcessRecvBuf(c) = take[N]
  BY DEF ProcessRecvBuf, N, L
<1>8. f = [k \in 0 .. N |-> IF k = 0 THEN c ELSE TakeOne(f[k - 1], k)]
  <2>1. \A k \in 0 .. N : f[k] = IF k = 0 THEN c ELSE TakeOne(f[k - 1], k)
    BY <1>1, <1>4, <1>6
  <2> QED BY <1>3, <2>1 DEF Recursive
<1>9. take = [k \in 0 .. N |-> IF k = 0 THEN c ELSE TakeOne(take[k - 1], k)]
  BY <1>8, Zenon DEF TakeOne
<1>10. take = f
  <2> DEFINE T == {k \in 0 .. N : take[k] = f[k]}
  <2> HIDE DEF take
  <2>1. 0 \in T
    BY <1>1, <1>4, <1>9
  <2>2. ASSUME NEW k \in 1 .. N, k - 1 \in T PROVE k \in T
    <3>1. take[k] = TakeOne(take[k - 1], k)
      BY <1>1, <1>9
    <3> QED BY <1>6, <2>2, <3>1
  <2>3. 0 .. N \subseteq T
    <3> HIDE DEF T
    <3> QED BY <1>1, <2>1, <2>2, BoundedInduction
  <2> QED BY <1>8, <1>9, <2>3
<1> QED
  <2> HIDE DEF take
  <2>1. Taken(f, c, N)
    BY <1>3, <1>4, <1>6 DEF Taken, Recursive
  <2> QED BY <1>7, <1>10, <2>1 DEF N, L

\* A connection that is over reads on and is not changed by what it reads.
LEMMA ReadClosed ==
  ASSUME NEW c \in Protos, Over(c)
  PROVE  ProcessRecvBuf(c) \in Protos /\ Core(ProcessRecvBuf(c)) = Core(c)
<1> DEFINE N == Len(c.buffer) \div 2
<1>1. PICK f : Taken(f, c, N) /\ ProcessRecvBuf(c) = f[N]
  BY ReadIs
<1>2. N \in Nat /\ (1 <= N => Len(c.buffer) >= 2)
  BY DEF Protos
<1> HIDE DEF N
<1> DEFINE S == {k \in 0 .. N : Core(f[k]) = Core(c)}
<1>3. 0 \in S
  BY <1>1, <1>2 DEF Taken
<1>4. ASSUME NEW k \in 1 .. N, k - 1 \in S PROVE k \in S
  <2>1. f[k - 1] \in Protos /\ f[k] = TakeOne(f[k - 1], k) /\ Over(f[k - 1])
    BY <1>1, <1>2, <1>4 DEF Taken, Core, Over
  <2>2. CASE k > 1
    BY <1>4, <2>1, <2>2 DEF TakeOne
  <2>3. CASE k = 1
    <3>1. f[k - 1] = c /\ Len(c.buffer) >= 2
      BY <1>1, <1>2, <2>3 DEF Taken
    <3>2. c.buffer[1].of \in Messages
      <4>1. c.buffer \in Seq(Parts)
        BY DEF Protos
      <4>2. c.buffer[1] \in Parts
        BY <3>1, <4>1
      <4> QED BY <4>2 DEF Parts
    <3> DEFINE e == [c EXCEPT !.buffer = SubSeq(@, 3, Len(@))]
    <3>3. Over(e) /\ Core(e) = Core(c)
      BY DEF Protos, Core, Over
    <3>4. f[k] = Dispatch(e, c.buffer[1].of)
      BY <2>1, <2>3, <3>1 DEF TakeOne
    <3>5. Dispatch(e, c.buffer[1].of) = e
      <4> HIDE DEF e
      <4> QED BY <3>3 DEF Dispatch, Over
    <3> HIDE DEF e
    <3> QED BY <3>3, <3>4, <3>5
  <2> QED BY <1>2, <2>2, <2>3
<1>5. 0 .. N \subseteq S
  <2> HIDE DEF S
  <2> QED BY <1>2, <1>3, <1>4, BoundedInduction
<1> QED BY <1>1, <1>2, <1>5 DEF Taken

\* The connection c after the first k of the messages ms.
After(c, ms, k) == DispatchAll(c, SubSeq(ms, 1, k))

\* One message more is one Dispatch more.
LEMMA AfterStep ==
  ASSUME NEW c \in Protos, NEW ms \in Seq(Messages)
  PROVE  /\ After(c, ms, 0) = c
         /\ \A k \in 0 .. Len(ms) : After(c, ms, k) \in Protos
         /\ \A k \in 1 .. Len(ms) : After(c, ms, k) = Dispatch(After(c, ms, k - 1), ms[k])
<1>1. SubSeq(ms, 1, 0) = <<>>
  BY SubSeqEmpty
<1>2. \A k \in 0 .. Len(ms) : SubSeq(ms, 1, k) \in Seq(Messages)
  BY SubSeqProperties
<1>3. ASSUME NEW k \in 1 .. Len(ms)
      PROVE  ms[k] \in Messages /\ SubSeq(ms, 1, k) = Append(SubSeq(ms, 1, k - 1), ms[k])
  <2>1. 1 \in 1 .. Len(ms) /\ k \in 1 .. Len(ms) /\ ms[k] \in Messages
    OBVIOUS
  <2>2. SubSeq(ms, 1, k) = SubSeq(ms, 1, k - 1) \o << ms[k] >>
    BY <2>1, SubSeqRecursiveSecond
  <2>3. SubSeq(ms, 1, k - 1) \in Seq(Messages)
    BY <1>2
  <2> QED BY <2>1, <2>2, <2>3
<1>4. \A k \in 1 .. Len(ms) : k - 1 \in 0 .. Len(ms)
  OBVIOUS
<1>5. Messages = {} \/ \A t \in Seq(Messages) : DispatchAll(c, t) \in Protos
  BY DispatchAllStep
<1>6. Messages = {} => Len(ms) = 0
  OBVIOUS
<1>7. DispatchAll(c, <<>>) = c
  BY DispatchAllStep
<1>8. \A k \in 0 .. Len(ms) : After(c, ms, k) \in Protos
  <2>1. CASE Messages = {}
    <3>1. \A k \in 0 .. Len(ms) : k = 0
      BY <1>6, <2>1
    <3> QED BY <1>1, <1>7, <3>1 DEF After
  <2>2. CASE \A t \in Seq(Messages) : DispatchAll(c, t) \in Protos
    BY <1>2, <2>2 DEF After
  <2> QED BY <1>5, <2>1, <2>2
<1>9. ASSUME NEW k \in 1 .. Len(ms)
      PROVE  After(c, ms, k) = Dispatch(After(c, ms, k - 1), ms[k])
  <2>1. SubSeq(ms, 1, k - 1) \in Seq(Messages) /\ ms[k] \in Messages
    BY <1>2, <1>3, <1>4
  <2>2. DispatchAll(c, Append(SubSeq(ms, 1, k - 1), ms[k]))
          = Dispatch(DispatchAll(c, SubSeq(ms, 1, k - 1)), ms[k])
    BY <2>1, DispatchAllStep
  <2> QED BY <1>3, <2>2 DEF After
<1> QED BY <1>1, <1>7, <1>8, <1>9 DEF After

\* Messages do not change the tip the connection was greeted with.
LEMMA AfterTip ==
  ASSUME NEW c \in Protos, NEW ms \in Seq(Messages), NEW k \in 0 .. Len(ms)
  PROVE  After(c, ms, k).localTip = c.localTip
<1> DEFINE N == Len(ms)
           S == {i \in 0 .. N : After(c, ms, i).localTip = c.localTip}
<1>1. N \in Nat
  OBVIOUS
<1>2. 0 \in S
  BY <1>1, AfterStep
<1>3. ASSUME NEW i \in 1 .. N, i - 1 \in S PROVE i \in S
  <2>1. i - 1 \in 0 .. Len(ms) /\ ms[i] \in Messages
    OBVIOUS
  <2>2. After(c, ms, i - 1) \in Protos
        /\ After(c, ms, i) = Dispatch(After(c, ms, i - 1), ms[i])
    BY <2>1, AfterStep
  <2>3. After(c, ms, i).localTip = After(c, ms, i - 1).localTip
    BY <2>1, <2>2, DispatchKeeps
  <2> QED BY <1>3, <2>3
<1>4. 0 .. N \subseteq S
  <2> HIDE DEF S, N
  <2> QED BY <1>1, <1>2, <1>3, BoundedInduction
<1> QED BY <1>4

\* Once closed, a connection ignores the messages to come.
LEMMA AfterClosed ==
  ASSUME NEW c \in Protos, NEW ms \in Seq(Messages), NEW k \in 0 .. Len(ms),
         Over(After(c, ms, k)), NEW j \in k .. Len(ms)
  PROVE  After(c, ms, j) = After(c, ms, k)
<1> DEFINE N == Len(ms) - k
           S == {i \in 0 .. N : After(c, ms, k + i) = After(c, ms, k)}
<1>1. N \in Nat /\ k \in Nat
  OBVIOUS
<1>2. 0 \in S
  OBVIOUS
<1>3. ASSUME NEW i \in 1 .. N, i - 1 \in S PROVE i \in S
  <2>1. k + i \in 1 .. Len(ms) /\ (k + i) - 1 = k + (i - 1) /\ ms[k + i] \in Messages
    OBVIOUS
  <2>2. After(c, ms, k + i) = Dispatch(After(c, ms, k), ms[k + i])
    BY <1>3, <2>1, AfterStep
  <2>3. Dispatch(After(c, ms, k), ms[k + i]) = After(c, ms, k)
    BY <2>1, AfterStep, DispatchKeeps
  <2> QED BY <2>2, <2>3
<1>4. 0 .. N \subseteq S
  <2> HIDE DEF S, N
  <2> QED BY <1>1, <1>2, <1>3, BoundedInduction
<1>5. j - k \in 0 .. N /\ k + (j - k) = j
  OBVIOUS
<1>6. j - k \in S
  <2> HIDE DEF S, N
  <2> QED BY <1>4, <1>5
<1>7. After(c, ms, k + (j - k)) = After(c, ms, k)
  BY <1>6
<1> QED BY <1>5, <1>7

\* N messages of ms, from base on, are in the buffer of c entirely.
Holds(c, ms, base, N) ==
  /\ Len(c.buffer) \in {2 * N, 2 * N + 1} /\ base + N <= Len(ms)
  /\ \A k \in 1 .. N : c.buffer[2 * k - 1].of = ms[base + k]

\* r is what c becomes by reading them: as if they had been dispatched, with a
\* piece of a message left in the buffer of a connection that is still open.
HasRead(r, x, ms, base, c, N) ==
  /\ r \in Protos /\ Core(r) = Core(After(x, ms, base + N))
  /\ ~ Over(r) =>
       /\ Len(r.buffer) = Len(c.buffer) - 2 * N
       /\ \A i \in 1 .. Len(c.buffer) - 2 * N : r.buffer[i] = c.buffer[2 * N + i]

\* An open connection reads every message its buffer holds entirely, or those
\* up to one that closes it.
LEMMA ReadOpen ==
  ASSUME NEW x \in Protos, NEW ms \in Seq(Messages), NEW base \in Nat,
         NEW c \in Protos, ~ Over(c), Core(c) = Core(After(x, ms, base)),
         NEW N \in Nat, Holds(c, ms, base, N)
  PROVE  HasRead(ProcessRecvBuf(c), x, ms, base, c, N)
<1> DEFINE L == Len(c.buffer)
           Rest(d, k) == /\ Len(d.buffer) = L - 2 * k
                         /\ \A i \in 1 .. L - 2 * k : d.buffer[i] = c.buffer[2 * k + i]
<1>0. /\ Len(c.buffer) \in {2 * N, 2 * N + 1} /\ base + N <= Len(ms)
      /\ \A k \in 1 .. N : c.buffer[2 * k - 1].of = ms[base + k]
  BY DEF Holds
<1>1. PICK f : Taken(f, c, N) /\ ProcessRecvBuf(c) = f[N]
  <2>1. Len(c.buffer) \div 2 = N
    <3>1. (2 * N) \div 2 = N /\ (2 * N + 1) \div 2 = N
      OBVIOUS
    <3> QED BY <1>0, <3>1
  <2> QED BY <2>1, ReadIs
<1>2. L \in Nat /\ 2 * N <= L
  BY <1>0
<1>3. /\ \A k \in 0 .. N : f[k] \in Protos
      /\ f[0] = c /\ \A k \in 1 .. N : f[k] = TakeOne(f[k - 1], k)
  BY <1>1 DEF Taken
<1>4. \A k \in 0 .. N : After(x, ms, base + k) \in Protos
  BY <1>0, AfterStep
<1> HIDE DEF L
<1> DEFINE Read(k) == /\ Core(f[k]) = Core(After(x, ms, base + k))
                      /\ ~ Over(f[k]) => Rest(f[k], k)
           S == {k \in 0 .. N : Read(k)}
<1>5. 0 \in S
  <2>1. base + 0 = base /\ \A i \in 1 .. L - 2 * 0 : 2 * 0 + i = i
    BY <1>2
  <2>2. L - 2 * 0 = L
    BY <1>2
  <2> QED BY <1>2, <1>3, <2>1, <2>2 DEF L
<1>6. ASSUME NEW k \in 1 .. N, k - 1 \in S PROVE k \in S
  <2> DEFINE d == f[k - 1]
             e == After(x, ms, base + (k - 1))
             m == ms[base + k]
  <2>1. /\ d \in Protos /\ f[k] = TakeOne(d, k) /\ k - 1 \in 0 .. N /\ k \in Nat
        /\ Core(d) = Core(e) /\ (~ Over(d) => Rest(d, k - 1))
    <3>1. k - 1 \in 0 .. N /\ k \in Nat
      OBVIOUS
    <3>2. Core(d) = Core(e) /\ (~ Over(d) => Rest(d, k - 1))
      <4>1. Read(k - 1)
        <5> HIDE DEF Read
        <5> QED BY <1>6
      <4> HIDE DEF Rest
      <4> QED BY <4>1
    <3> HIDE DEF Rest, e, S
    <3> QED BY <1>3, <3>1, <3>2
  <2>2. /\ e \in Protos /\ m \in Messages /\ After(x, ms, base + k) = Dispatch(e, m)
    <3>1. base + k \in 1 .. Len(ms) /\ (base + k) - 1 = base + (k - 1)
      BY <1>0
    <3> QED BY <1>4, <2>1, <3>1, AfterStep
  <2> HIDE DEF d, e, m, Rest, S
  <2>3. CASE k > 1 /\ Over(d)
    <3>1. f[k] = d
      BY <2>1, <2>3 DEF TakeOne
    <3>2. Over(e)
      BY <2>1, <2>3 DEF Core, Over
    <3>3. After(x, ms, base + k) = e
      BY <2>2, <3>2, DispatchKeeps
    <3> QED BY <2>1, <2>3, <3>1, <3>3 DEF S
  <2>4. CASE ~ (k > 1 /\ Over(d))
    <3>1. ~ Over(d)
      <4>1. k = 1 => d = c
        BY <1>3 DEF d
      <4> QED BY <2>1, <2>4, <4>1
    <3>2. /\ Len(d.buffer) = L - 2 * (k - 1) /\ Len(d.buffer) >= 2
          /\ \A i \in 1 .. L - 2 * (k - 1) : d.buffer[i] = c.buffer[2 * (k - 1) + i]
      <4>1. Rest(d, k - 1)
        BY <2>1, <3>1
      <4>2. L - 2 * (k - 1) >= 2
        BY <1>2
      <4> QED BY <4>1, <4>2 DEF Rest
    <3>3. d.buffer[1].of = m
      <4>1. 1 \in 1 .. L - 2 * (k - 1) /\ 2 * (k - 1) + 1 = 2 * k - 1
        BY <1>2, <2>1
      <4> QED BY <1>0, <3>2, <4>1 DEF m
    <3> DEFINE g == [d EXCEPT !.buffer = SubSeq(@, 3, Len(@))]
    <3>4. d.buffer \in Seq(Parts) /\ \A i \in 3 .. Len(d.buffer) : d.buffer[i] \in Parts
      BY <2>1 DEF Protos
    <3>5. SubSeq(d.buffer, 3, Len(d.buffer)) \in Seq(Parts)
      BY <3>4, SubSeqProperties
    <3>6. g \in Protos /\ Core(g) = Core(d) /\ g.buffer = SubSeq(d.buffer, 3, Len(d.buffer))
      BY <2>1, <3>5 DEF Protos, Core
    <3>7. f[k] = Dispatch(g, m)
      BY <2>1, <2>4, <3>3 DEF TakeOne
    <3> HIDE DEF g
    <3>8. Core(f[k]) = Core(After(x, ms, base + k))
      BY <2>1, <2>2, <3>6, <3>7, DispatchCore
    <3>9. f[k].buffer = SubSeq(d.buffer, 3, Len(d.buffer))
      BY <2>2, <3>6, <3>7, DispatchKeeps
    <3>10. Rest(f[k], k)
      <4> DEFINE l == Len(d.buffer)
      <4>1. l \in Nat /\ l >= 2 /\ l = L - 2 * (k - 1) /\ l - 2 = L - 2 * k
        BY <1>2, <2>1, <3>2
      <4>2. /\ Len(f[k].buffer) = (IF 3 <= l THEN l - 3 + 1 ELSE 0)
            /\ \A i \in 1 .. l - 3 + 1 : f[k].buffer[i] = d.buffer[3 + i - 1]
        BY <3>4, <3>9, <4>1, SubSeqProperties
      <4> HIDE DEF l
      <4>3. Len(f[k].buffer) = L - 2 * k
        BY <4>1, <4>2
      <4>4. ASSUME NEW i \in 1 .. L - 2 * k PROVE f[k].buffer[i] = c.buffer[2 * k + i]
        <5>1. /\ i \in 1 .. l - 3 + 1 /\ 3 + i - 1 = i + 2
              /\ i + 2 \in 1 .. L - 2 * (k - 1) /\ 2 * (k - 1) + (i + 2) = 2 * k + i
          BY <1>2, <2>1, <4>1
        <5>2. f[k].buffer[i] = d.buffer[i + 2]
          BY <4>2, <5>1
        <5>3. d.buffer[i + 2] = c.buffer[2 * (k - 1) + (i + 2)]
          BY <3>2, <5>1
        <5> QED BY <5>1, <5>2, <5>3
      <4> QED BY <4>3, <4>4 DEF Rest
    <3> QED BY <3>8, <3>10 DEF S
  <2> QED BY <2>3, <2>4
<1>7. N \in S
  <2> HIDE DEF S
  <2>1. 0 .. N \subseteq S
    BY <1>5, <1>6, BoundedInduction
  <2> QED BY <2>1
<1>8. /\ f[N] \in Protos /\ Core(f[N]) = Core(After(x, ms, base + N))
      /\ ~ Over(f[N]) => Rest(f[N], N)
  <2>1. N \in 0 .. N
    OBVIOUS
  <2>2. /\ Core(f[N]) = Core(After(x, ms, base + N))
        /\ ~ Over(f[N]) => Rest(f[N], N)
    <3>1. Read(N)
      <4> HIDE DEF Read
      <4> QED BY <1>7
    <3> HIDE DEF Rest
    <3> QED BY <3>1
  <2> HIDE DEF Rest, S
  <2> QED BY <1>3, <2>1, <2>2
<1> QED BY <1>1, <1>8 DEF L, HasRead
-----------------------------------------------------------------------------
(* What a connection has read, of what its peer has sent.                  *)

\* Of the messages ms, of which the parts w were not read yet, h were read to
\* their end: the connection is as if they had been dispatched one by one, and
\* an open one has the first part of the next, or nothing, in its buffer.
Reads(c, ms, w, h) ==
  LET R == 2 * Len(ms) - Len(w) IN
  /\ h \in Nat /\ h <= Len(ms) /\ R \in {2 * h, 2 * h + 1}
  /\ \A j \in h + 1 .. Len(ms) :
       /\ w[2 * j - R].of = ms[j]
       /\ 2 * j - 1 - R >= 1 => w[2 * j - 1 - R].of = ms[j]
  /\ Core(c) = Core(After(NewConnection(c.localTip), ms, h))
  /\ ~ Over(c) =>
       Len(c.buffer) = R - 2 * h /\ (R - 2 * h = 1 => c.buffer[1].of = ms[h + 1])

\* A new connection has read nothing, and nothing was sent.
LEMMA NewTyped == \A n \in Int : NewConnection(n) \in Protos /\ NewConnection(n).localTip = n
<1> SUFFICES ASSUME NEW n \in Int PROVE NewConnection(n) \in Protos /\ NewConnection(n).localTip = n
  OBVIOUS
<1>1. <<Msg("greeting", n)>> \in Seq(Sends)
  BY DEF Msg, Sends
<1>2. <<>> \in Seq(Parts) /\ <<>> \in Seq(Events) /\ "greeting" \in States
  BY DEF States
<1>3. -1 \in Payloads
  BY Zenon DEF Payloads
<1> HIDE DEF Payloads, Parts, Events, States, Sends
<1> QED BY <1>1, <1>2, <1>3 DEF NewConnection, Protos

LEMMA ReadsNew == \A n \in Int : Reads(NewConnection(n), <<>>, <<>>, 0)
<1> SUFFICES ASSUME NEW n \in Int PROVE Reads(NewConnection(n), <<>>, <<>>, 0)
  OBVIOUS
<1>1. After(NewConnection(n), <<>>, 0) = NewConnection(n)
  <2>1. <<>> \in Seq(Messages) /\ NewConnection(n) \in Protos
    BY NewTyped
  <2> QED BY <2>1, AfterStep
<1>2. Len(NewConnection(n).buffer) = 0 /\ NewConnection(n).localTip = n
  BY DEF NewConnection
<1>3. Len(<<>>) = 0
  OBVIOUS
<1> QED BY <1>1, <1>2, <1>3 DEF Reads

\* A peer sends another message.
LEMMA ReadsSend ==
  ASSUME NEW c \in Protos, NEW ms \in Seq(Messages), NEW w \in Seq(Parts), NEW h,
         Reads(c, ms, w, h), NEW m \in Messages
  PROVE  Reads(c, Append(ms, m), w \o Encode(m), h) /\ w \o Encode(m) \in Seq(Parts)
<1> DEFINE L == Len(ms)
           more == Append(ms, m)
           R == 2 * L - Len(w)
           v == w \o Encode(m)
<1>1. /\ more \in Seq(Messages) /\ L \in Nat /\ Len(more) = L + 1 /\ more[L + 1] = m
      /\ \A j \in 1 .. L : more[j] = ms[j]
  OBVIOUS
<1>2. /\ Encode(m) \in Seq(Parts) /\ Len(Encode(m)) = 2
      /\ Encode(m)[1].of = m /\ Encode(m)[2].of = m
  BY DEF Encode, Parts
<1>3. /\ v \in Seq(Parts) /\ Len(w) \in Nat /\ Len(v) = Len(w) + 2
      /\ \A j \in 1 .. Len(w) : v[j] = w[j]
      /\ v[Len(w) + 1].of = m /\ v[Len(w) + 2].of = m
  <2> DEFINE e == Encode(m)
  <2>1. e \in Seq(Parts) /\ Len(e) = 2 /\ e[1].of = m /\ e[2].of = m
    BY <1>2
  <2> HIDE DEF Parts, e
  <2>2. /\ w \o e \in Seq(Parts) /\ Len(w) \in Nat /\ Len(w \o e) = Len(w) + 2
        /\ \A j \in 1 .. Len(w) : (w \o e)[j] = w[j]
        /\ (w \o e)[Len(w) + 1] = e[1] /\ (w \o e)[Len(w) + 2] = e[2]
    <3>1. w \o e \in Seq(Parts)
      BY <2>1
    <3>2. /\ Len(w \o e) = Len(w) + Len(e)
          /\ \A i \in 1 .. Len(w) + Len(e) :
               (w \o e)[i] = IF i <= Len(w) THEN w[i] ELSE e[i - Len(w)]
      BY <2>1, ConcatProperties
    <3>3. Len(w) \in Nat
      BY <2>1
    <3> DEFINE l == Len(w)
    <3>4. l \in Nat /\ Len(e) = 2
      BY <2>1, <3>3
    <3>5. (l + 1) - l = 1 /\ (l + 2) - l = 2 /\ l + 1 \in 1 .. l + 2 /\ l + 2 \in 1 .. l + 2
          /\ ~ (l + 1 <= l) /\ ~ (l + 2 <= l) /\ \A j \in 1 .. l : j \in 1 .. l + 2 /\ j <= l
      <4> HIDE DEF l
      <4> QED BY <3>4
    <3> QED BY <3>1, <3>2, <3>4, <3>5
  <2> QED BY <2>1, <2>2 DEF e
<1>4. /\ h \in Nat /\ h <= L /\ R \in {2 * h, 2 * h + 1}
      /\ \A j \in h + 1 .. L : w[2 * j - R].of = ms[j]
      /\ \A j \in h + 1 .. L : 2 * j - 1 - R >= 1 => w[2 * j - 1 - R].of = ms[j]
      /\ Core(c) = Core(After(NewConnection(c.localTip), ms, h))
      /\ ~ Over(c) =>
           Len(c.buffer) = R - 2 * h /\ (R - 2 * h = 1 => c.buffer[1].of = ms[h + 1])
  BY DEF Reads
<1>5. After(NewConnection(c.localTip), more, h) = After(NewConnection(c.localTip), ms, h)
  <2>1. SubSeq(more, 1, h) = SubSeq(ms, 1, h)
    BY <1>1, <1>4
  <2> QED BY <2>1 DEF After
<1>6. 2 * Len(more) - Len(v) = R
  BY <1>1, <1>3
<1> HIDE DEF L, R, more, v
<1>7. ASSUME NEW j \in h + 1 .. L + 1
      PROVE  /\ v[2 * j - R].of = more[j]
             /\ 2 * j - 1 - R >= 1 => v[2 * j - 1 - R].of = more[j]
  <2>1. CASE j = L + 1
    <3>1. 2 * j - R = Len(w) + 2 /\ 2 * j - 1 - R = Len(w) + 1
      BY <1>1, <1>3, <2>1 DEF R
    <3> QED BY <1>1, <1>3, <2>1, <3>1
  <2>2. CASE j # L + 1
    <3>1. j \in h + 1 .. L /\ j \in 1 .. L /\ 2 * j - R \in 1 .. Len(w)
          /\ (2 * j - 1 - R >= 1 => 2 * j - 1 - R \in 1 .. Len(w))
      <4> DEFINE l == Len(w)
      <4>1. R = 2 * L - l /\ l \in Nat /\ L \in Nat
        BY <1>1, <1>3 DEF R
      <4> HIDE DEF l
      <4>2. h \in Nat /\ h <= L /\ (R = 2 * h \/ R = 2 * h + 1) /\ j \in h + 1 .. L
        BY <1>4, <2>2, <4>1
      <4>3. j \in 1 .. L /\ 2 * j - R \in 1 .. l /\ (2 * j - 1 - R >= 1 => 2 * j - 1 - R \in 1 .. l)
        BY <4>1, <4>2
      <4> QED BY <4>2, <4>3 DEF l
    <3>4. \A p \in 1 .. Len(w) : v[p] = w[p]
      BY <1>3
    <3>5. w[2 * j - R].of = ms[j] /\ (2 * j - 1 - R >= 1 => w[2 * j - 1 - R].of = ms[j])
      <4>1. j \in h + 1 .. L
        BY <3>1
      <4> QED BY <1>4, <4>1, Zenon
    <3>2. v[2 * j - R] = w[2 * j - R] /\ more[j] = ms[j] /\ w[2 * j - R].of = ms[j]
      <4>1. v[2 * j - R] = w[2 * j - R]
        BY <3>1, <3>4, Zenon
      <4>2. more[j] = ms[j]
        BY <1>1, <3>1, Zenon
      <4> QED BY <4>1, <4>2, <3>5
    <3>3. 2 * j - 1 - R >= 1 =>
            v[2 * j - 1 - R] = w[2 * j - 1 - R] /\ w[2 * j - 1 - R].of = ms[j]
      BY <3>1, <3>4, <3>5, Zenon
    <3> QED BY <3>2, <3>3
  <2> QED BY <2>1, <2>2
<1>8. R - 2 * h = 1 => more[h + 1] = ms[h + 1]
  <2>1. R - 2 * h = 1 => h + 1 \in 1 .. L
    BY <1>1, <1>3, <1>4 DEF R
  <2> QED BY <1>1, <2>1
<1>9. Reads(c, more, v, h)
  <2>1. h <= Len(more) /\ Len(more) = L + 1
    BY <1>1, <1>4
  <2> QED BY <1>4, <1>5, <1>6, <1>7, <1>8, <2>1 DEF Reads
<1> QED BY <1>3, <1>9 DEF more, v

\* The buffer once the first n parts of w have arrived.
Filled(c, w, n) == c.buffer \o SubSeq(w, 1, n)

\* Every second part of it begins the next message.
Begun(f, ms, w, h, n) ==
  /\ Len(f) = 2 * Len(ms) - Len(w) - 2 * h + n
  /\ \A k \in Nat \ {0} : 2 * k - 1 <= Len(f) => f[2 * k - 1].of = ms[h + k]
LEMMA Begins ==
  ASSUME NEW c \in Protos, NEW ms \in Seq(Messages), NEW w \in Seq(Parts), NEW h,
         Reads(c, ms, w, h), ~ Over(c), NEW n \in 1 .. Len(w)
  PROVE  Begun(Filled(c, w, n), ms, w, h, n)
<1> DEFINE e == Filled(c, w, n)
           L == Len(ms)
           W == Len(w)
           R == 2 * L - W
           b == c.buffer
           p == SubSeq(w, 1, n)
           B == Len(b)
<1>1. /\ h \in Nat /\ h <= L /\ R \in {2 * h, 2 * h + 1}
      /\ \A j \in h + 1 .. L : 2 * j - 1 - R >= 1 => w[2 * j - 1 - R].of = ms[j]
      /\ B = R - 2 * h /\ (R - 2 * h = 1 => b[1].of = ms[h + 1])
  BY DEF Reads
<1>2. L \in Nat /\ W \in Nat /\ n \in 1 .. W /\ b \in Seq(Parts)
  BY DEF Protos
<1>3. p \in Seq(Parts) /\ Len(p) = n /\ \A i \in 1 .. n : p[i] = w[i]
  <2>1. \A i \in 1 .. n : w[i] \in Parts
    OBVIOUS
  <2> HIDE DEF Parts
  <2> QED BY <2>1, SubSeqProperties
<1>4. /\ Len(e) = B + n
      /\ \A i \in 1 .. B + n : e[i] = IF i <= B THEN b[i] ELSE p[i - B]
  BY <1>2, <1>3, ConcatProperties DEF Filled
<1> HIDE DEF L, W, B, b, p, e
<1>5. /\ h \in Nat /\ L \in Nat /\ W \in Nat /\ n \in Nat /\ n <= W
      /\ R \in Int /\ R = 2 * L - W /\ B = R - 2 * h /\ (B = 0 \/ B = 1)
      /\ Len(e) = R - 2 * h + n
  BY <1>1, <1>2, <1>4 DEF R
<1> HIDE DEF R
<1>6. ASSUME NEW k \in Nat \ {0}, 2 * k - 1 <= Len(e) PROVE e[2 * k - 1].of = ms[h + k]
  <2>0. k \in Nat /\ k >= 1 /\ 2 * k - 1 <= R - 2 * h + n
    BY <1>5, <1>6
  <2>1. h + k \in h + 1 .. L
    BY <1>5, <2>0
  <2>2. CASE B = 0
    <3>1. 2 * k - 1 \in 1 .. n /\ 2 * (h + k) - 1 - R = 2 * k - 1
      BY <1>5, <2>0, <2>2
    <3>2. e[2 * k - 1] = w[2 * k - 1]
      <4> DEFINE i == 2 * k - 1
      <4>1. i \in 1 .. n /\ i \in 1 .. 0 + n /\ ~ (i <= 0) /\ i - 0 = i
        BY <1>2, <3>1
      <4> HIDE DEF i
      <4>2. e[i] = p[i]
        BY <1>4, <2>2, <4>1
      <4>3. e[i] = w[i]
        BY <1>3, <4>1, <4>2
      <4> QED BY <4>3 DEF i
    <3>3. w[2 * (h + k) - 1 - R].of = ms[h + k]
      <4>1. 2 * (h + k) - 1 - R >= 1
        BY <3>1
      <4> QED BY <1>1, <2>1, <4>1, Zenon
    <3> QED BY <3>1, <3>2, <3>3
  <2>3. CASE B = 1 /\ k = 1
    <3>1. 1 \in 1 .. 1 + n /\ 1 <= 1
      BY <1>2
    <3>2. e[1] = b[1]
      BY <1>4, <2>3, <3>1
    <3>3. R - 2 * h = 1 /\ 2 * k - 1 = 1 /\ h + k = h + 1
      BY <1>5, <2>0, <2>3
    <3>4. b[1].of = ms[h + 1]
      BY <1>1, <3>3
    <3> QED BY <3>2, <3>3, <3>4
  <2>4. CASE B = 1 /\ k # 1
    <3>1. 2 * k - 2 \in 1 .. n /\ 2 * (h + k) - 1 - R = 2 * k - 2
      BY <1>5, <2>0, <2>4
    <3>2. e[2 * k - 1] = w[2 * k - 2]
      <4> DEFINE i == 2 * k - 2
      <4>1. /\ i \in 1 .. n /\ i + 1 \in 1 .. 1 + n /\ ~ (i + 1 <= 1) /\ (i + 1) - 1 = i
            /\ 2 * k - 1 = i + 1
        BY <1>2, <3>1
      <4> HIDE DEF i
      <4>2. e[i + 1] = p[i]
        BY <1>4, <2>4, <4>1
      <4>3. e[i + 1] = w[i]
        BY <1>3, <4>1, <4>2
      <4> QED BY <4>1, <4>3 DEF i
    <3>3. w[2 * (h + k) - 1 - R].of = ms[h + k]
      <4>1. 2 * (h + k) - 1 - R >= 1
        BY <3>1
      <4> QED BY <1>1, <2>1, <4>1, Zenon
    <3> QED BY <3>1, <3>2, <3>3
  <2> QED BY <1>5, <2>2, <2>3, <2>4
<1>7. Begun(e, ms, w, h, n)
  BY <1>5, <1>6 DEF R, L, W, Begun
<1> QED BY <1>7 DEF e

\* A read of any piece of what has arrived.
LEMMA ReceiveReads ==
  ASSUME NEW c \in Protos, NEW ms \in Seq(Messages), NEW w \in Seq(Parts), NEW h,
         Reads(c, ms, w, h), NEW n \in 1 .. Len(w)
  PROVE  LET r == Receive(c, SubSeq(w, 1, n))
             rest == SubSeq(w, n + 1, Len(w))
         IN  /\ r \in Protos /\ r.localTip = c.localTip
             /\ rest \in Seq(Parts) /\ \E g : Reads(r, ms, rest, g)
<1> DEFINE L == Len(ms)
           W == Len(w)
           R == 2 * L - W
           p == SubSeq(w, 1, n)
           rest == SubSeq(w, n + 1, W)
           e == [c EXCEPT !.buffer = @ \o p]
           r == Receive(c, p)
           x == NewConnection(c.localTip)
<1>1. /\ h \in Nat /\ h <= L /\ R \in {2 * h, 2 * h + 1}
      /\ \A j \in h + 1 .. L : w[2 * j - R].of = ms[j]
      /\ \A j \in h + 1 .. L : 2 * j - 1 - R >= 1 => w[2 * j - 1 - R].of = ms[j]
      /\ Core(c) = Core(After(x, ms, h))
  BY DEF Reads
<1>2. L \in Nat /\ W \in Nat /\ n \in 1 .. W /\ c.buffer \in Seq(Parts) /\ R \in Int
  BY DEF Protos
<1>3. p \in Seq(Parts) /\ Len(p) = n
  <2>1. \A i \in 1 .. n : w[i] \in Parts
    OBVIOUS
  <2> HIDE DEF Parts
  <2> QED BY <2>1, SubSeqProperties
<1>4. rest \in Seq(Parts) /\ Len(rest) = W - n /\ \A i \in 1 .. W - n : rest[i] = w[n + i]
  <2>1. \A i \in n + 1 .. W : w[i] \in Parts
    BY <1>2
  <2>2. /\ rest \in Seq(Parts)
        /\ Len(rest) = IF n + 1 <= W THEN W - (n + 1) + 1 ELSE 0
        /\ \A i \in 1 .. W - (n + 1) + 1 : rest[i] = w[(n + 1) + i - 1]
    BY <1>2, <2>1, SubSeqProperties
  <2>3. /\ W - (n + 1) + 1 = W - n /\ (~ (n + 1 <= W) => W - n = 0)
        /\ \A i \in 1 .. W - n : (n + 1) + i - 1 = n + i
    BY <1>2
  <2> HIDE DEF rest, W
  <2> QED BY <2>2, <2>3
<1>5. c.buffer \o p \in Seq(Parts)
  BY <1>2, <1>3, ConcatProperties
<1>6. e \in Protos /\ e.buffer = c.buffer \o p /\ Core(e) = Core(c) /\ e.state = c.state
  <2> HIDE DEF Parts, p
  <2> QED BY <1>5 DEF Protos, Core
<1>7. r = ProcessRecvBuf(e)
  BY DEF Receive
<1>8. x \in Protos
  <2>1. c.localTip \in Int
    BY DEF Protos
  <2> QED BY <2>1, NewTyped
<1> HIDE DEF p, rest, e, r, x, L, W
<1>9. PICK g \in Nat : h <= g /\ g <= L /\ R + n \in {2 * g, 2 * g + 1}
  <2>1. \A m \in Nat : \E g \in Nat : m \in {2 * g, 2 * g + 1}
    <3> SUFFICES ASSUME NEW m \in Nat PROVE \E g \in Nat : m \in {2 * g, 2 * g + 1}
      OBVIOUS
    <3>1. m \div 2 \in Nat /\ m \in {2 * (m \div 2), 2 * (m \div 2) + 1}
      OBVIOUS
    <3> QED BY <3>1
  <2>2. R + n \in Nat
    BY <1>1, <1>2
  <2>3. PICK g \in Nat : R + n \in {2 * g, 2 * g + 1}
    BY <2>1, <2>2
  <2>4. h <= g /\ g <= L
    BY <1>1, <1>2, <2>3 DEF R
  <2> QED BY <2>3, <2>4
<1>10. /\ r \in Protos /\ Core(r) = Core(After(x, ms, g))
       /\ ~ Over(r) =>
            Len(r.buffer) = R + n - 2 * g /\ (R + n - 2 * g = 1 => r.buffer[1].of = ms[g + 1])
  <2>1. CASE Over(c)
    <3>1. r \in Protos /\ Core(r) = Core(c)
      BY <1>6, <1>7, <2>1, ReadClosed DEF Over
    <3>2. Over(After(x, ms, h))
      BY <1>1, <2>1 DEF Core, Over
    <3>3. After(x, ms, g) = After(x, ms, h)
      <4>1. h \in 0 .. Len(ms) /\ g \in h .. Len(ms)
        BY <1>1, <1>9 DEF L
      <4> QED BY <1>8, <3>2, <4>1, AfterClosed
    <3>4. Over(r)
      BY <2>1, <3>1 DEF Core, Over
    <3> QED BY <1>1, <3>1, <3>3, <3>4
  <2>2. CASE ~ Over(c)
    <3>1. /\ Len(e.buffer) = R - 2 * h + n
          /\ \A k \in Nat \ {0} : 2 * k - 1 <= Len(e.buffer) => e.buffer[2 * k - 1].of = ms[h + k]
      <4>1. /\ Len(e.buffer) = 2 * Len(ms) - Len(w) - 2 * h + n
            /\ \A k \in Nat \ {0} : 2 * k - 1 <= Len(e.buffer) => e.buffer[2 * k - 1].of = ms[h + k]
        <5>1. e.buffer = Filled(c, w, n)
          BY <1>6 DEF p, Filled
        <5>2. Begun(Filled(c, w, n), ms, w, h, n)
          BY <2>2, Begins, Zenon
        <5> QED BY <5>1, <5>2 DEF Begun
      <4>2. 2 * Len(ms) - Len(w) - 2 * h + n = R - 2 * h + n
        BY DEF L, W
      <4> QED BY <4>1, <4>2
    <3> DEFINE N == g - h
    <3>2. N \in Nat /\ Len(e.buffer) \in {2 * N, 2 * N + 1} /\ h + N = g /\ h + N <= Len(ms)
      BY <1>1, <1>2, <1>9, <3>1 DEF L
    <3>3. \A k \in 1 .. N : k \in Nat \ {0} /\ 2 * k - 1 <= Len(e.buffer)
      BY <3>2
    <3>4. \A k \in 1 .. N : e.buffer[2 * k - 1].of = ms[h + k]
      BY <3>1, <3>3
    <3> HIDE DEF N
    <3>5. /\ r \in Protos /\ Core(r) = Core(After(x, ms, h + N))
          /\ ~ Over(r) =>
               /\ Len(r.buffer) = Len(e.buffer) - 2 * N
               /\ \A i \in 1 .. Len(e.buffer) - 2 * N : r.buffer[i] = e.buffer[2 * N + i]
      <4>1. Core(e) = Core(After(x, ms, h)) /\ ~ Over(e)
        BY <1>1, <1>6, <2>2 DEF Over
      <4>2. h \in Nat /\ x \in Protos /\ e \in Protos
        BY <1>1, <1>6, <1>8
      <4>3. ~ Over(e) /\ Len(e.buffer) \in {2 * N, 2 * N + 1} /\ h + N <= Len(ms)
        BY <3>2, <4>1
      <4>4. Holds(e, ms, h, N)
        BY <3>2, <3>4 DEF Holds
      <4> HIDE DEF Parts, Protos, Core, After, R
      <4>5. HasRead(r, x, ms, h, e, N)
        BY <1>7, <3>2, <4>1, <4>2, <4>4, ReadOpen
      <4> QED BY <4>5 DEF HasRead
    <3>6. Len(e.buffer) - 2 * N = R + n - 2 * g
      BY <1>1, <1>2, <1>9, <3>1, <3>2 DEF N
    <3>7. ASSUME ~ Over(r), R + n - 2 * g = 1 PROVE r.buffer[1].of = ms[g + 1]
      <4>1. /\ N + 1 \in Nat \ {0} /\ 2 * (N + 1) - 1 = 2 * N + 1 /\ 2 * N + 1 <= Len(e.buffer)
            /\ h + (N + 1) = g + 1 /\ 1 \in 1 .. Len(e.buffer) - 2 * N
        <5>1. /\ N \in Nat /\ h \in Nat /\ g \in Nat /\ h + N = g
              /\ Len(e.buffer) - 2 * N = 1 /\ Len(e.buffer) \in Nat
          <6>1. e.buffer \in Seq(Parts)
            BY <1>5, <1>6
          <6>2. N \in Nat /\ h \in Nat /\ g \in Nat /\ h + N = g
            BY <1>1, <3>2
          <6>3. Len(e.buffer) - 2 * N = 1
            BY <3>6, <3>7
          <6>4. Len(e.buffer) \in Nat
            BY <6>1, LenProperties
          <6> QED BY <6>2, <6>3, <6>4
        <5> QED BY <5>1
      <4>2. r.buffer[1] = e.buffer[2 * N + 1]
        BY <3>5, <3>7, <4>1
      <4>3. e.buffer[2 * (N + 1) - 1].of = ms[h + (N + 1)]
        BY <3>1, <4>1
      <4> QED BY <4>1, <4>2, <4>3
    <3> QED BY <3>2, <3>5, <3>6, <3>7
  <2> QED BY <2>1, <2>2
<1>11. r.localTip = c.localTip
  <2>1. g \in 0 .. Len(ms)
    BY <1>9 DEF L
  <2>2. After(x, ms, g).localTip = x.localTip
    BY <1>8, <2>1, AfterTip
  <2>3. x.localTip = c.localTip
    BY DEF x, NewConnection
  <2> QED BY <1>10, <2>2, <2>3 DEF Core
<1>12. 2 * L - (W - n) = R + n
  BY <1>2 DEF R
<1>13. ASSUME NEW j \in g + 1 .. L
       PROVE  /\ rest[2 * j - (R + n)].of = ms[j]
              /\ 2 * j - 1 - (R + n) >= 1 => rest[2 * j - 1 - (R + n)].of = ms[j]
  <2>1. /\ j \in h + 1 .. L /\ 2 * j - (R + n) \in 1 .. W - n
        /\ n + (2 * j - (R + n)) = 2 * j - R
        /\ 2 * j - 1 - (R + n) >= 1 =>
             2 * j - 1 - (R + n) \in 1 .. W - n /\ 2 * j - 1 - R >= 1
        /\ n + (2 * j - 1 - (R + n)) = 2 * j - 1 - R
    <3>1. /\ h \in Nat /\ L \in Nat /\ W \in Nat /\ n \in Nat /\ n <= W /\ g \in Nat
          /\ h <= g /\ R = 2 * L - W /\ (R + n = 2 * g \/ R + n = 2 * g + 1)
          /\ j \in Int /\ j >= g + 1 /\ j <= L
      BY <1>1, <1>2, <1>9 DEF R
    <3> HIDE DEF R
    <3> QED BY <3>1
  <2>2. w[2 * j - R].of = ms[j] /\ (2 * j - 1 - R >= 1 => w[2 * j - 1 - R].of = ms[j])
    BY <1>1, <2>1, Zenon
  <2>3. \A i \in 1 .. W - n : rest[i] = w[n + i]
    BY <1>4
  <2>4. rest[2 * j - (R + n)] = w[2 * j - R]
    BY <2>1, <2>3
  <2>5. 2 * j - 1 - (R + n) >= 1 => rest[2 * j - 1 - (R + n)] = w[2 * j - 1 - R]
    BY <2>1, <2>3
  <2> QED BY <2>1, <2>2, <2>4, <2>5
<1>14. Reads(r, ms, rest, g)
  <2>1. 2 * Len(ms) - Len(rest) = R + n /\ Len(ms) = L
    BY <1>4, <1>12 DEF L
  <2>2. R + n - 2 * g = (R + n) - 2 * g
    BY <1>2
  <2> DEFINE q == R + n
  <2>3. q \in {2 * g, 2 * g + 1}
    BY <1>9
  <2>4. \A j \in g + 1 .. L : /\ rest[2 * j - q].of = ms[j]
                            /\ (2 * j - 1 - q >= 1 => rest[2 * j - 1 - q].of = ms[j])
    BY <1>13
  <2>5. ~ Over(r) =>
          Len(r.buffer) = q - 2 * g /\ (q - 2 * g = 1 => r.buffer[1].of = ms[g + 1])
    <3>1. R + n - 2 * g = q - 2 * g
      BY <1>2
    <3> HIDE DEF q, R
    <3> QED BY <1>10, <3>1
  <2>6. 2 * Len(ms) - Len(rest) = q
    BY <2>1
  <2>7. Core(r) = Core(After(NewConnection(r.localTip), ms, g))
    BY <1>10, <1>11 DEF x
  <2> HIDE DEF q, R
  <2> QED BY <1>9, <2>1, <2>3, <2>4, <2>5, <2>6, <2>7 DEF Reads
<1> QED BY <1>4, <1>10, <1>11, <1>14 DEF r, rest, p, W
-----------------------------------------------------------------------------
(* What the node makes of the events.                                      *)

\* A tip is -1 or the number of a block that is held.
Held(number, store) == number = -1 \/ \E b \in store : Number[b] = number

Chains == [store : SUBSET Blocks, height : Int, tip : Blocks \cup {NoBlock}]

\* The node, with the tip its server advertises.
Nodes == {n \in [chain : Chains, tip : Int, my : Int] : Held(n.my, n.chain.store)}

\* A block is in the store before its number becomes the tip, and no block
\* leaves the store; so it is for an IBD, an event and all events of a read.
LEMMA AddBlockGrows ==
  ASSUME NEW n \in Nodes, NEW b \in Blocks
  PROVE  AddBlock(n, b) \in Nodes /\ n.chain.store \subseteq AddBlock(n, b).chain.store
<1>1. CASE b \in n.chain.store
  BY <1>1 DEF AddBlock
<1>2. CASE b \notin n.chain.store
  <2> DEFINE chn == ProcessBlock(n.chain, b)
             r == [chain |-> chn, tip |-> Number[b], my |-> Number[b]]
  <2>1. Number[b] \in Int /\ n.chain \in Chains
    BY ChainAssumption DEF Nodes
  <2>2. chn \in Chains /\ n.chain.store \subseteq chn.store /\ b \in chn.store
    BY <2>1 DEF ProcessBlock, Chains
  <2>3. AddBlock(n, b) = r
    BY <1>2 DEF AddBlock
  <2> HIDE DEF chn
  <2>4. r \in Nodes
    BY <2>1, <2>2 DEF Nodes, Held
  <2> QED BY <2>2, <2>3, <2>4
<1> QED BY <1>1, <1>2

LEMMA ApplyIBDGrows ==
  ASSUME NEW n \in Nodes, NEW bs \in Seq(Blocks)
  PROVE  ApplyIBD(n, bs) \in Nodes /\ n.chain.store \subseteq ApplyIBD(n, bs).chain.store
<1> DEFINE N == Len(bs)
           F == [k \in 1 .. N |-> [d \in Nodes |-> AddBlock(d, bs[k])]]
           after == CHOOSE f : f = [k \in 0 .. N |-> IF k = 0 THEN n ELSE AddBlock(f[k - 1], bs[k])]
<1>1. N \in Nat /\ \A k \in 1 .. N : bs[k] \in Blocks
  OBVIOUS
<1>2. F \in [1 .. N -> [Nodes -> Nodes]]
  BY <1>1, AddBlockGrows
<1>3. PICK f : Recursive(f, N, Nodes, n, F)
  <2> HIDE DEF F, N
  <2>1. Recursion(N, Nodes, n, F)
    BY <1>1, <1>2, RecursionExists
  <2> QED BY <2>1 DEF Recursion
<1>4. f = [k \in 0 .. N |-> IF k = 0 THEN n ELSE AddBlock(f[k - 1], bs[k])]
  <2>1. \A k \in 1 .. N : k - 1 \in 0 .. N /\ k - 1 \in Nat
    BY <1>1
  <2>2. \A k \in 1 .. N, d \in Nodes : F[k][d] = AddBlock(d, bs[k])
    OBVIOUS
  <2> HIDE DEF F, N
  <2>3. \A k \in 1 .. N : f[k - 1] \in Nodes /\ f[k] = AddBlock(f[k - 1], bs[k])
    BY <1>3, <2>1, <2>2 DEF Recursive
  <2>4. \A k \in 0 .. N : f[k] = IF k = 0 THEN n ELSE AddBlock(f[k - 1], bs[k])
    BY <1>1, <1>3, <2>3 DEF Recursive
  <2> QED BY <1>3, <2>4 DEF Recursive
<1>5. after = [k \in 0 .. N |-> IF k = 0 THEN n ELSE AddBlock(after[k - 1], bs[k])]
  BY <1>4, Zenon
<1>6. ApplyIBD(n, bs) = after[N]
  BY DEF ApplyIBD
<1> HIDE DEF F, after
<1> DEFINE S == {k \in 0 .. N : after[k] \in Nodes /\ n.chain.store \subseteq after[k].chain.store}
<1>7. 0 \in S
  BY <1>1, <1>5
<1>8. ASSUME NEW k \in 1 .. N, k - 1 \in S PROVE k \in S
  <2>1. after[k] = AddBlock(after[k - 1], bs[k])
    BY <1>1, <1>5
  <2>2. k \in 0 .. N /\ after[k - 1] \in Nodes /\ bs[k] \in Blocks
    BY <1>1, <1>8
  <2>3. n.chain.store \subseteq after[k - 1].chain.store
    BY <1>8
  <2> HIDE DEF N
  <2>4. after[k] \in Nodes /\ after[k - 1].chain.store \subseteq after[k].chain.store
    BY <2>1, <2>2, AddBlockGrows
  <2> QED BY <2>2, <2>3, <2>4, Zenon
<1>9. N \in S
  <2> HIDE DEF S, N
  <2>1. 0 .. N \subseteq S
    BY <1>1, <1>7, <1>8, BoundedInduction
  <2> QED BY <1>1, <2>1
<1> QED BY <1>6, <1>9

LEMMA OnEventGrows ==
  ASSUME NEW n \in Nodes, NEW e \in Events
  PROVE  OnEvent(n, e) \in Nodes /\ n.chain.store \subseteq OnEvent(n, e).chain.store
BY ApplyIBDGrows DEF OnEvent, Events

LEMMA OnEventsGrows ==
  ASSUME NEW events \in Seq(Events), OnEvents(events),
         [chain |-> chain, tip |-> tip, my |-> myTip] \in Nodes
  PROVE  /\ [chain |-> chain', tip |-> tip', my |-> myTip'] \in Nodes
         /\ chain.store \subseteq chain'.store
<1> DEFINE n == [chain |-> chain, tip |-> tip, my |-> myTip]
           N == Len(events)
           F == [k \in 1 .. N |-> [d \in Nodes |-> OnEvent(d, events[k])]]
           after == CHOOSE f : f = [k \in 0 .. N |->
                      IF k = 0 THEN n ELSE OnEvent(f[k - 1], events[k])]
<1>1. N \in Nat /\ (\A k \in 1 .. N : events[k] \in Events) /\ n \in Nodes
  <2> HIDE DEF Events, Nodes
  <2> QED OBVIOUS
<1>2. F \in [1 .. N -> [Nodes -> Nodes]]
  BY <1>1, OnEventGrows
<1>3. PICK f : Recursive(f, N, Nodes, n, F)
  <2> HIDE DEF F, N, n
  <2>1. Recursion(N, Nodes, n, F)
    BY <1>1, <1>2, RecursionExists
  <2> QED BY <2>1 DEF Recursion
<1>4. f = [k \in 0 .. N |-> IF k = 0 THEN n ELSE OnEvent(f[k - 1], events[k])]
  <2>1. \A k \in 1 .. N : k - 1 \in 0 .. N /\ k - 1 \in Nat
    BY <1>1
  <2>2. \A k \in 1 .. N, d \in Nodes : F[k][d] = OnEvent(d, events[k])
    OBVIOUS
  <2> HIDE DEF F, N, n
  <2>3. \A k \in 1 .. N : f[k - 1] \in Nodes /\ f[k] = OnEvent(f[k - 1], events[k])
    BY <1>3, <2>1, <2>2 DEF Recursive
  <2>4. \A k \in 0 .. N : f[k] = IF k = 0 THEN n ELSE OnEvent(f[k - 1], events[k])
    BY <1>1, <1>3, <2>3 DEF Recursive
  <2> QED BY <1>3, <2>4 DEF Recursive
<1>5. after = [k \in 0 .. N |-> IF k = 0 THEN n ELSE OnEvent(after[k - 1], events[k])]
  BY <1>4, Zenon
<1>6. chain' = after[N].chain /\ tip' = after[N].tip /\ myTip' = after[N].my
  BY DEF OnEvents
<1>7. n.chain = chain
  OBVIOUS
<1> HIDE DEF F, after, n
<1> DEFINE S == {k \in 0 .. N : after[k] \in Nodes /\ n.chain.store \subseteq after[k].chain.store}
<1>8. 0 \in S
  BY <1>1, <1>5
<1>9. ASSUME NEW k \in 1 .. N, k - 1 \in S PROVE k \in S
  <2>1. after[k] = OnEvent(after[k - 1], events[k])
    BY <1>1, <1>5
  <2>2. events[k] \in Events /\ k \in 0 .. N
    BY <1>1
  <2>3. after[k - 1] \in Nodes /\ n.chain.store \subseteq after[k - 1].chain.store
    BY <1>9
  <2>4. /\ OnEvent(after[k - 1], events[k]) \in Nodes
        /\ after[k - 1].chain.store \subseteq OnEvent(after[k - 1], events[k]).chain.store
    BY <2>2, <2>3, OnEventGrows
  <2> QED BY <2>1, <2>2, <2>3, <2>4
<1>10. N \in S
  <2> HIDE DEF S, N
  <2>1. 0 .. N \subseteq S
    BY <1>1, <1>8, <1>9, BoundedInduction
  <2> QED BY <1>1, <2>1
<1>11. after[N] \in Nodes /\ chain.store \subseteq after[N].chain.store
  BY <1>7, <1>10
<1>12. after[N] = [chain |-> after[N].chain, tip |-> after[N].tip, my |-> after[N].my]
  BY <1>11 DEF Nodes
<1> QED BY <1>6, <1>11, <1>12
-----------------------------------------------------------------------------
(* One connection: c is its side here, s what its peer has sent, w what of  *)
(* it was not read yet, and st the blocks the node holds.                   *)

ConnOk(c, s, w, st) ==
  /\ c \in Protos /\ s \in Seq(Messages) /\ w \in Seq(Parts)
  /\ Held(c.localTip, st)
  /\ \E h : Reads(c, s, w, h)

\* A connection is made so, whatever the tip it is greeted with, if that is held.
LEMMA ConnNew ==
  ASSUME NEW n \in Int, NEW st, Held(n, st)
  PROVE  ConnOk(NewConnection(n), <<>>, <<>>, st)
<1>1. <<>> \in Seq(Messages) /\ <<>> \in Seq(Parts)
  OBVIOUS
<1> HIDE DEF Parts, Protos
<1> QED BY <1>1, NewTyped, ReadsNew DEF ConnOk

\* It stays so when what it had to send has gone,
LEMMA ConnOut ==
  ASSUME NEW c, NEW s, NEW w, NEW st, ConnOk(c, s, w, st)
  PROVE  ConnOk([c EXCEPT !.out = <<>>], s, w, st)
<1> DEFINE d == [c EXCEPT !.out = <<>>]
<1>1. c \in Protos
  BY DEF ConnOk
<1>2. /\ d \in Protos /\ Core(d) = Core(c) /\ d.localTip = c.localTip
      /\ d.buffer = c.buffer /\ (Over(d) <=> Over(c))
  BY <1>1, ProtoFields DEF Protos, Core, Over
<1> HIDE DEF d
<1>3. ASSUME NEW h, Reads(c, s, w, h) PROVE Reads(d, s, w, h)
  BY <1>2, <1>3 DEF Reads
<1>4. ConnOk(d, s, w, st)
  BY <1>2, <1>3 DEF ConnOk
<1> QED BY <1>4 DEF d

\* when its peer sends another message,
LEMMA ConnSend ==
  ASSUME NEW c, NEW s, NEW w, NEW st, ConnOk(c, s, w, st), NEW m \in Messages
  PROVE  ConnOk(c, Append(s, m), w \o Encode(m), st)
<1>1. c \in Protos /\ s \in Seq(Messages) /\ w \in Seq(Parts) /\ Held(c.localTip, st)
  BY DEF ConnOk
<1>2. PICK h : Reads(c, s, w, h)
  BY DEF ConnOk
<1>3. Append(s, m) \in Seq(Messages)
  BY <1>1
<1> HIDE DEF Parts, Protos
<1>4. Reads(c, Append(s, m), w \o Encode(m), h) /\ w \o Encode(m) \in Seq(Parts)
  BY <1>1, <1>2, ReadsSend
<1> QED BY <1>1, <1>3, <1>4 DEF ConnOk

\* when any piece of what has arrived is read,
LEMMA ConnReceive ==
  ASSUME NEW c, NEW s, NEW w, NEW st, ConnOk(c, s, w, st), NEW n \in 1 .. Len(w)
  PROVE  ConnOk(Receive(c, SubSeq(w, 1, n)), s, SubSeq(w, n + 1, Len(w)), st)
<1>1. c \in Protos /\ s \in Seq(Messages) /\ w \in Seq(Parts) /\ Held(c.localTip, st)
  BY DEF ConnOk
<1>2. PICK h : Reads(c, s, w, h)
  BY DEF ConnOk
<1> HIDE DEF Parts, Protos
<1> DEFINE r == Receive(c, SubSeq(w, 1, n))
           rest == SubSeq(w, n + 1, Len(w))
<1>3. r \in Protos /\ r.localTip = c.localTip /\ rest \in Seq(Parts) /\ \E g : Reads(r, s, rest, g)
  BY <1>1, <1>2, ReceiveReads
<1> HIDE DEF r, rest
<1>4. ConnOk(r, s, rest, st)
  BY <1>1, <1>3 DEF ConnOk
<1> QED BY <1>4 DEF r, rest

\* and when the node holds more blocks.
LEMMA ConnGrows ==
  ASSUME NEW c, NEW s, NEW w, NEW st, ConnOk(c, s, w, st), NEW more, st \subseteq more
  PROVE  ConnOk(c, s, w, more)
BY DEF ConnOk, Held

\* What the messages read so far make of a connection does not depend on the
\* pieces.
LEMMA ConnPieces ==
  ASSUME NEW c, NEW s, NEW w, NEW st, ConnOk(c, s, w, st)
  PROVE  Core(c) = Core(DispatchAll(NewConnection(c.localTip),
                                    SubSeq(s, 1, (2 * Len(s) - Len(w)) \div 2)))
<1>1. PICK h : Reads(c, s, w, h)
  BY DEF ConnOk
<1>2. (2 * Len(s) - Len(w)) \div 2 = h
  <2>1. h \in Nat /\ 2 * Len(s) - Len(w) \in {2 * h, 2 * h + 1}
    BY <1>1 DEF Reads
  <2>2. (2 * h) \div 2 = h /\ (2 * h + 1) \div 2 = h
    BY <2>1
  <2> QED BY <2>1, <2>2
<1>3. Core(c) = Core(After(NewConnection(c.localTip), s, h))
  BY <1>1 DEF Reads
<1> QED BY <1>2, <1>3 DEF After
-----------------------------------------------------------------------------
(* The inductive invariant.                                                *)

\* The types of the state.
PeerConns == [proto : Protos, open : BOOLEAN, running : BOOLEAN]

ServerTyped ==
  /\ main \in {"new", "failed", "dial", "up", "join", "clear", "stopped"}
  /\ accepting \in {"none", "select", "add", "done"}
  /\ running \in BOOLEAN /\ backlog \in Nat /\ nextId \in Nat /\ peers \subseteq Conns
  /\ conn \in [Conns -> PeerConns]
  /\ thread \in [Conns -> {"none", "greet", "loop", "send", "close", "done"}]
  /\ sent \in [Conns -> Seq(Messages)] /\ wire \in [Conns -> Seq(Parts)]

\* The node advertises a block it holds.
NodeInv == [chain |-> chain, tip |-> tip, my |-> myTip] \in Nodes

\* Nothing is at an id that was not given out yet.
FreshInv ==
  \A i \in Conns :
    /\ i >= nextId => thread[i] = "none"
    /\ thread[i] = "none" => sent[i] = <<>> /\ wire[i] = <<>>

\* Every connection has read its peer and greets it with a block that is held.
ConnInv == \A i \in Conns : ConnOk(conn[i].proto, sent[i], wire[i], chain.store)

\* A socket is open for as long as its id is in the map.
StopInv ==
  /\ \A i \in Conns : conn[i].open => i \in peers
  /\ main \in {"clear", "stopped"} => accepting = "done"
  /\ main = "stopped" => peers = {}

\* The whole of it.
ServerInv == ServerTyped /\ NodeInv /\ FreshInv /\ ConnInv /\ StopInv

\* It holds of the server that was not started yet.
LEMMA ServerInitial == Init => ServerInv
<1> SUFFICES ASSUME Init PROVE ServerInv
  OBVIOUS
<1>1. NewConnection(-1) \in Protos /\ -1 \in Int
  BY NewTyped
<1>2. ConnOk(NewConnection(-1), <<>>, <<>>, {})
  BY <1>1, ConnNew DEF Held
<1>3. <<>> \in Seq(Messages) /\ <<>> \in Seq(Parts)
  OBVIOUS
<1> HIDE DEF Protos, Parts
<1>4. ServerTyped
  BY <1>1, <1>3 DEF ServerTyped, Init, NoConn, PeerConns
<1>5. NodeInv
  BY <1>1 DEF NodeInv, Nodes, Chains, Held, Init
<1>6. FreshInv /\ StopInv
  BY DEF FreshInv, StopInv, Init, NoConn
<1>7. ConnInv
  <2> SUFFICES ASSUME NEW i \in Conns
               PROVE  ConnOk(conn[i].proto, sent[i], wire[i], chain.store)
    BY DEF ConnInv
  <2>1. /\ conn[i].proto = NewConnection(-1) /\ sent[i] = <<>> /\ wire[i] = <<>>
        /\ chain.store = {}
    BY DEF Init, NoConn
  <2> QED BY <1>2, <2>1
<1> QED BY <1>4, <1>5, <1>6, <1>7 DEF ServerInv

\* A new peer, dialled or accepted.
LEMMA AddPeerKeeps ==
  ASSUME ServerInv, AddPeer, UNCHANGED <<peerVars, nodeVars>>
  PROVE  /\ nextId' \in Nat /\ peers' \subseteq Conns
         /\ conn' \in [Conns -> PeerConns]
         /\ thread' \in [Conns -> {"none", "greet", "loop", "send", "close", "done"}]
         /\ FreshInv' /\ ConnInv'
         /\ \A i \in Conns : conn'[i].open => i \in peers'
<1> USE DEF ServerInv
<1> HIDE DEF Protos, Parts, Nodes
<1>1. nextId \in Conns /\ nextId \in Nat /\ \A i \in Conns : i \in Nat
  BY ConnsAssumption DEF AddPeer, ServerTyped
<1>2. sent' = sent /\ wire' = wire /\ chain' = chain /\ myTip' = myTip
  BY DEF peerVars, nodeVars
<1>3. myTip \in Int /\ Held(myTip, chain.store)
  BY DEF NodeInv, Nodes
<1>4. ConnOk(NewConnection(myTip), <<>>, <<>>, chain.store) /\ NewConnection(myTip) \in Protos
  BY <1>3, ConnNew, NewTyped
<1>5. /\ nextId' \in Nat /\ peers' \subseteq Conns
      /\ conn' \in [Conns -> PeerConns]
      /\ thread' \in [Conns -> {"none", "greet", "loop", "send", "close", "done"}]
  BY <1>1, <1>4 DEF AddPeer, ServerTyped, PeerConns
<1>6. FreshInv'
  <2> SUFFICES ASSUME NEW i \in Conns
               PROVE  /\ i >= nextId + 1 => thread'[i] = "none"
                      /\ thread'[i] = "none" => sent[i] = <<>> /\ wire[i] = <<>>
    BY <1>2 DEF FreshInv, AddPeer
  <2>1. CASE i = nextId
    BY <1>1, <2>1 DEF AddPeer, ServerTyped
  <2>2. CASE i # nextId
    <3>1. thread'[i] = thread[i]
      BY <2>2 DEF AddPeer, ServerTyped
    <3>2. i >= nextId + 1 => i >= nextId
      BY <1>1
    <3> QED BY <3>1, <3>2 DEF FreshInv
  <2> QED BY <2>1, <2>2
<1>7. ConnInv'
  <2> SUFFICES ASSUME NEW i \in Conns
               PROVE  ConnOk(conn'[i].proto, sent[i], wire[i], chain.store)
    BY <1>2 DEF ConnInv
  <2>1. CASE i = nextId
    <3>1. nextId >= nextId
      BY <1>1
    <3>2. sent[i] = <<>> /\ wire[i] = <<>>
      BY <1>1, <2>1, <3>1 DEF FreshInv
    <3>3. conn'[i].proto = NewConnection(myTip)
      BY <1>1, <2>1 DEF AddPeer, ServerTyped
    <3> QED BY <1>4, <3>2, <3>3
  <2>2. CASE i # nextId
    <3>1. conn'[i] = conn[i]
      BY <2>2 DEF AddPeer, ServerTyped
    <3> QED BY <3>1 DEF ConnInv
  <2> QED BY <2>1, <2>2
<1>8. \A i \in Conns : conn'[i].open => i \in peers'
  <2> SUFFICES ASSUME NEW i \in Conns, conn'[i].open PROVE i \in peers'
    OBVIOUS
  <2>1. i # nextId => conn'[i] = conn[i]
    BY DEF AddPeer, ServerTyped
  <2> QED BY <2>1 DEF AddPeer, StopInv
<1> QED BY <1>5, <1>6, <1>7, <1>8

\* A step of the threads that changes no connection, and nothing a peer sent.
LEMMA QuietKeeps ==
  ASSUME ServerInv, UNCHANGED <<nextId, peers, conn, thread, peerVars, nodeVars>>
  PROVE  NodeInv' /\ FreshInv' /\ ConnInv' /\ \A i \in Conns : conn'[i].open => i \in peers'
<1>1. NodeInv' /\ FreshInv'
  BY DEF ServerInv, NodeInv, FreshInv, peerVars, nodeVars
<1>2. ConnInv'
  BY DEF ServerInv, ConnInv, peerVars, nodeVars
<1> QED BY <1>1, <1>2 DEF ServerInv, StopInv

\* A step of the thread of connection i that leaves its proto as it was, or
\* empties what it had to send.
LEMMA ThreadKeeps ==
  ASSUME ServerInv, NEW i \in Conns, NEW to \in {"loop", "send", "close", "done"},
         thread' = [thread EXCEPT ![i] = to],
         NEW c \in PeerConns, conn' = [conn EXCEPT ![i] = c],
         \/ c.proto = conn[i].proto
         \/ c.proto = [conn[i].proto EXCEPT !.out = <<>>],
         thread[i] # "none",
         UNCHANGED <<main, accepting, running, backlog, nextId>>,
         UNCHANGED peerVars, UNCHANGED nodeVars,
         c.open => conn[i].open /\ peers' = peers,
         peers' \in {peers, peers \ {i}}
  PROVE  ServerInv'
<1> USE DEF ServerInv
<1> HIDE DEF Protos, Parts, Nodes
<1>1. sent' = sent /\ wire' = wire /\ chain' = chain /\ myTip' = myTip /\ tip' = tip
  BY DEF peerVars, nodeVars
<1>2. ServerTyped'
  <2>1. conn' \in [Conns -> PeerConns]
    BY DEF ServerTyped
  <2>2. thread' \in [Conns -> {"none", "greet", "loop", "send", "close", "done"}]
    BY DEF ServerTyped
  <2> QED BY <1>1, <2>1, <2>2 DEF ServerTyped
<1>3. NodeInv'
  BY <1>1 DEF NodeInv
<1>4. FreshInv'
  <2> SUFFICES ASSUME NEW j \in Conns
               PROVE  /\ j >= nextId => thread'[j] = "none"
                      /\ thread'[j] = "none" => sent[j] = <<>> /\ wire[j] = <<>>
    BY <1>1 DEF FreshInv
  <2>1. CASE j = i
    BY <2>1 DEF FreshInv, ServerTyped
  <2>2. CASE j # i
    BY <2>2 DEF FreshInv, ServerTyped
  <2> QED BY <2>1, <2>2
<1>5. ConnInv'
  <2> SUFFICES ASSUME NEW j \in Conns
               PROVE  ConnOk(conn'[j].proto, sent[j], wire[j], chain.store)
    BY <1>1 DEF ConnInv
  <2>1. CASE j = i
    <3>1. conn'[i] = c /\ ConnOk(conn[i].proto, sent[i], wire[i], chain.store)
      BY DEF ConnInv, ServerTyped
    <3> QED BY <2>1, <3>1, ConnOut
  <2>2. CASE j # i
    <3>1. conn'[j] = conn[j]
      BY <2>2 DEF ServerTyped
    <3> QED BY <3>1 DEF ConnInv
  <2> QED BY <2>1, <2>2
<1>6. StopInv'
  <2>1. ASSUME NEW j \in Conns, conn'[j].open PROVE j \in peers'
    <3>1. CASE j = i
      <4>1. conn'[i] = c
        BY DEF ServerTyped
      <4> QED BY <2>1, <3>1, <4>1 DEF StopInv
    <3>2. CASE j # i
      <4>1. conn'[j] = conn[j]
        BY <3>2 DEF ServerTyped
      <4> QED BY <2>1, <3>2, <4>1 DEF StopInv
    <3> QED BY <3>1, <3>2
  <2>2. main = "stopped" => peers' = {}
    BY DEF StopInv
  <2> QED BY <2>1, <2>2 DEF StopInv
<1> QED BY <1>2, <1>3, <1>4, <1>5, <1>6

\* A read, of which the node applies the events at once.
LEMMA ReceiveSomeKeeps ==
  ASSUME ServerInv, NEW i \in Conns, ReceiveSome(i)
  PROVE  ServerInv'
<1> USE DEF ServerInv
<1> HIDE DEF Protos, Parts, Nodes, Events
<1> DEFINE was == conn[i].proto
<1>1. PICK n \in 1 .. Len(wire[i]) :
        LET now == Receive(was, SubSeq(wire[i], 1, n))
        IN  /\ Step(i, "loop", IF now.state = "broken" THEN "close" ELSE "send")
            /\ wire' = [wire EXCEPT ![i] = SubSeq(@, n + 1, Len(@))]
            /\ conn' = [conn EXCEPT ![i].proto = now]
            /\ OnEvents(SubSeq(now.events, Len(was.events) + 1, Len(now.events)))
  BY DEF ReceiveSome
<1> DEFINE now == Receive(was, SubSeq(wire[i], 1, n))
           news == SubSeq(now.events, Len(was.events) + 1, Len(now.events))
<1>2. /\ wire' = [wire EXCEPT ![i] = SubSeq(@, n + 1, Len(@))]
      /\ conn' = [conn EXCEPT ![i].proto = now]
      /\ OnEvents(news)
  BY <1>1
<1> DEFINE to == IF now.state = "broken" THEN "close" ELSE "send"
<1>3. /\ thread[i] = "loop" /\ thread' = [thread EXCEPT ![i] = to] /\ to \in {"close", "send"}
      /\ UNCHANGED <<main, accepting, running, backlog, nextId, peers, sent>>
  BY <1>1 DEF ReceiveSome, Step, serverVars
<1> HIDE DEF to
<1>4. ConnOk(was, sent[i], wire[i], chain.store)
  BY DEF ConnInv
<1>5. ConnOk(now, sent[i], SubSeq(wire[i], n + 1, Len(wire[i])), chain.store)
  BY <1>4, ConnReceive
<1> HIDE DEF now
<1>6. was \in Protos /\ now \in Protos
  BY <1>4, <1>5 DEF ConnOk
<1>7. news \in Seq(Events)
  <2>1. was.events \in Seq(Events) /\ now.events \in Seq(Events)
    BY <1>6 DEF Protos
  <2> DEFINE a == Len(was.events) + 1
             z == Len(now.events)
  <2>2. a \in Int /\ z \in Int /\ a >= 1
    BY <2>1
  <2>3. \A k \in a .. z : k \in 1 .. Len(now.events)
    BY <2>2
  <2>4. \A k \in a .. z : now.events[k] \in Events
    BY <2>1, <2>3
  <2> HIDE DEF a, z
  <2> QED BY <2>2, <2>4, SubSeqProperties DEF a, z
<1> HIDE DEF news
<1>8. NodeInv' /\ chain.store \subseteq chain'.store
  BY <1>2, <1>7, OnEventsGrows DEF NodeInv
<1>9. /\ conn'[i] = [conn[i] EXCEPT !.proto = now]
      /\ wire'[i] = SubSeq(wire[i], n + 1, Len(wire[i]))
      /\ \A j \in Conns : j # i => conn'[j] = conn[j] /\ wire'[j] = wire[j] /\ thread'[j] = thread[j]
      /\ thread'[i] \in {"close", "send"}
  BY <1>2, <1>3 DEF ServerTyped
<1>10. ServerTyped'
  <2>1. conn' \in [Conns -> PeerConns]
    BY <1>2, <1>6 DEF ServerTyped, PeerConns
  <2>2. wire' \in [Conns -> Seq(Parts)]
    <3>1. SubSeq(wire[i], n + 1, Len(wire[i])) \in Seq(Parts)
      BY <1>5 DEF ConnOk
    <3> QED BY <1>2, <3>1 DEF ServerTyped
  <2>3. thread' \in [Conns -> {"none", "greet", "loop", "send", "close", "done"}]
    BY <1>3 DEF ServerTyped
  <2> QED BY <1>3, <2>1, <2>2, <2>3 DEF ServerTyped
<1>11. FreshInv'
  <2> SUFFICES ASSUME NEW j \in Conns
               PROVE  /\ j >= nextId => thread'[j] = "none"
                      /\ thread'[j] = "none" => sent[j] = <<>> /\ wire'[j] = <<>>
    BY <1>3 DEF FreshInv
  <2>1. CASE j = i
    BY <1>3, <1>9, <2>1 DEF FreshInv
  <2>2. CASE j # i
    BY <1>9, <2>2 DEF FreshInv
  <2> QED BY <2>1, <2>2
<1>12. ConnInv'
  <2> SUFFICES ASSUME NEW j \in Conns
               PROVE  ConnOk(conn'[j].proto, sent[j], wire'[j], chain'.store)
    BY <1>3 DEF ConnInv
  <2>1. ConnOk(conn'[j].proto, sent[j], wire'[j], chain.store)
    <3>1. CASE j = i
      <4>1. conn[i] \in PeerConns
        BY DEF ServerTyped
      <4>2. conn'[i].proto = now
        BY <1>9, <4>1 DEF PeerConns
      <4> QED BY <1>5, <1>9, <3>1, <4>2
    <3>2. CASE j # i
      BY <1>9, <3>2 DEF ConnInv
    <3> QED BY <3>1, <3>2
  <2> QED BY <1>8, <2>1, ConnGrows
<1>13. StopInv'
  <2>1. ASSUME NEW j \in Conns PROVE conn'[j].open = conn[j].open
    <3>1. conn[j] \in PeerConns
      BY DEF ServerTyped
    <3>2. [conn[j] EXCEPT !.proto = now].open = conn[j].open
      BY <3>1 DEF PeerConns
    <3> QED BY <1>9, <3>2
  <2> QED BY <1>3, <2>1 DEF StopInv
<1> QED BY <1>8, <1>10, <1>11, <1>12, <1>13

\* A message of a peer.
LEMMA PeerSendsKeeps ==
  ASSUME ServerInv, NEW i \in Conns, NEW m \in Messages, PeerSends(i, m)
  PROVE  ServerInv'
<1> USE DEF ServerInv
<1> HIDE DEF Protos, Parts, Nodes
<1>1. /\ thread[i] # "none"
      /\ wire' = [wire EXCEPT ![i] = @ \o Encode(m)]
      /\ sent' = [sent EXCEPT ![i] = Append(@, m)]
      /\ UNCHANGED <<main, accepting, running, backlog, nextId, peers, conn, thread>>
      /\ UNCHANGED <<chain, tip, myTip>>
  BY DEF PeerSends, serverVars, nodeVars
<1>2. ConnOk(conn[i].proto, Append(sent[i], m), wire[i] \o Encode(m), chain.store)
  BY ConnSend DEF ConnInv
<1>3. /\ sent'[i] = Append(sent[i], m) /\ wire'[i] = wire[i] \o Encode(m)
      /\ \A j \in Conns : j # i => sent'[j] = sent[j] /\ wire'[j] = wire[j]
  BY <1>1 DEF ServerTyped
<1>4. ServerTyped'
  <2>1. Append(sent[i], m) \in Seq(Messages) /\ wire[i] \o Encode(m) \in Seq(Parts)
    BY <1>2 DEF ConnOk
  <2> QED BY <1>1, <2>1 DEF ServerTyped
<1>5. NodeInv' /\ StopInv'
  BY <1>1 DEF NodeInv, StopInv
<1>6. FreshInv'
  <2> SUFFICES ASSUME NEW j \in Conns
               PROVE  /\ j >= nextId => thread[j] = "none"
                      /\ thread[j] = "none" => sent'[j] = <<>> /\ wire'[j] = <<>>
    BY <1>1 DEF FreshInv
  <2> QED BY <1>1, <1>3 DEF FreshInv
<1>7. ConnInv'
  <2> SUFFICES ASSUME NEW j \in Conns
               PROVE  ConnOk(conn[j].proto, sent'[j], wire'[j], chain.store)
    BY <1>1 DEF ConnInv
  <2> QED BY <1>2, <1>3 DEF ConnInv
<1> QED BY <1>4, <1>5, <1>6, <1>7

\* Every step keeps the invariant.
LEMMA ServerStep == ServerInv /\ [Next]_allVars => ServerInv'
<1> SUFFICES ASSUME ServerInv, [Next]_allVars PROVE ServerInv'
  OBVIOUS
<1> USE DEF ServerInv
<1> HIDE DEF Protos, Parts, Nodes, PeerConns
<1>1. CASE Start
  <2>1. UNCHANGED <<nextId, peers, conn, thread, peerVars, nodeVars>>
    BY <1>1 DEF Start
  <2>2. ServerTyped' /\ StopInv'
    BY <1>1, QuietKeeps, <2>1 DEF Start, Listen, ServerTyped, StopInv, peerVars
  <2> QED BY <2>1, <2>2, QuietKeeps
<1>2. CASE Dial
  <2>1. CASE AddPeer
    BY <1>2, <2>1, AddPeerKeeps DEF Dial, ServerTyped, StopInv, NodeInv, peerVars, nodeVars
  <2>2. CASE UNCHANGED <<nextId, peers, conn, thread>>
    <3>1. ServerTyped' /\ StopInv'
      BY <1>2, <2>2 DEF Dial, ServerTyped, StopInv, peerVars
    <3>2. UNCHANGED <<nextId, peers, conn, thread, peerVars, nodeVars>>
      BY <1>2, <2>2 DEF Dial
    <3> QED BY <3>1, <3>2, QuietKeeps
  <2> QED BY <1>2, <2>1, <2>2 DEF Dial
<1>3. CASE StopListening
  <2>1. UNCHANGED <<nextId, peers, conn, thread, peerVars, nodeVars>>
    BY <1>3 DEF StopListening
  <2>2. ServerTyped' /\ StopInv'
    BY <1>3 DEF StopListening, ServerTyped, StopInv, peerVars
  <2> QED BY <2>1, <2>2, QuietKeeps
<1>4. CASE JoinAccept
  <2>1. UNCHANGED <<nextId, peers, conn, thread, peerVars, nodeVars>>
    BY <1>4 DEF JoinAccept
  <2>2. ServerTyped' /\ StopInv'
    BY <1>4 DEF JoinAccept, ServerTyped, StopInv, peerVars
  <2> QED BY <2>1, <2>2, QuietKeeps
<1>5. CASE ClearPeers
  <2>1. /\ \A i \in Conns : conn'[i].proto = conn[i].proto /\ ~ conn'[i].open
        /\ conn' \in [Conns -> PeerConns]
    <3>1. ASSUME NEW i \in Conns
          PROVE  /\ conn'[i] \in PeerConns /\ conn'[i].proto = conn[i].proto /\ ~ conn'[i].open
      <4>1. conn[i] \in PeerConns /\ (conn[i].open => i \in peers)
        BY DEF ServerTyped, StopInv
      <4>2. conn'[i] = IF i \in peers
                       THEN [conn[i] EXCEPT !.open = FALSE, !.running = FALSE] ELSE conn[i]
        BY <1>5 DEF ClearPeers
      <4> QED BY <4>1, <4>2 DEF PeerConns
    <3>2. conn' = [i \in Conns |-> conn'[i]]
      BY <1>5 DEF ClearPeers
    <3> QED BY <3>1, <3>2
  <2>2. /\ main = "clear" /\ main' = "stopped" /\ peers' = {}
        /\ UNCHANGED <<accepting, running, backlog, nextId, thread, wire, sent, chain, tip, myTip>>
    BY <1>5 DEF ClearPeers, peerVars, nodeVars
  <2>3. ServerTyped' /\ NodeInv' /\ FreshInv' /\ StopInv'
    BY <2>1, <2>2 DEF ServerTyped, NodeInv, FreshInv, StopInv
  <2>4. ConnInv'
    BY <2>1, <2>2 DEF ConnInv
  <2> QED BY <2>3, <2>4
<1>6. CASE Accept \/ AcceptFails \/ Knock
  <2>1. UNCHANGED <<main, nextId, peers, conn, thread, peerVars, nodeVars>>
    BY <1>6 DEF Accept, AcceptFails, Knock
  <2>2. ServerTyped' /\ StopInv'
    BY <1>6 DEF Accept, AcceptFails, Knock, ServerTyped, StopInv, peerVars
  <2> QED BY <2>1, <2>2, QuietKeeps
<1>7. CASE AddInbound
  BY <1>7, AddPeerKeeps DEF AddInbound, ServerTyped, StopInv, NodeInv, peerVars, nodeVars
<1>8. ASSUME NEW i \in Conns, SendGreeting(i) \/ LeaveLoop(i) \/ SendRest(i) \/ LeaveMap(i)
      PROVE  ServerInv'
  <2> DEFINE pc == conn[i]
  <2>1. /\ pc \in PeerConns
        /\ [pc EXCEPT !.proto.out = <<>>] \in PeerConns
        /\ \A b \in BOOLEAN : [pc EXCEPT !.proto.out = <<>>, !.running = b] \in PeerConns
        /\ [pc EXCEPT !.open = FALSE, !.running = FALSE] \in PeerConns
    <3>1. pc \in PeerConns
      BY DEF ServerTyped
    <3>2. pc.proto \in Protos
      BY <3>1 DEF PeerConns
    <3>3. [pc.proto EXCEPT !.out = <<>>] \in Protos
      BY <3>2, ProtoFields
    <3> QED BY <3>1, <3>3 DEF PeerConns
  <2>2. CASE SendGreeting(i)
    <3> DEFINE c == [pc EXCEPT !.proto.out = <<>>]
    <3>1. /\ conn' = [conn EXCEPT ![i] = c] /\ thread' = [thread EXCEPT ![i] = "loop"]
          /\ thread[i] # "none" /\ peers' = peers
          /\ UNCHANGED <<main, accepting, running, backlog, nextId>>
          /\ UNCHANGED peerVars /\ UNCHANGED nodeVars
      BY <2>2 DEF SendGreeting, Step, serverVars
    <3>2. c \in PeerConns /\ c.proto = [pc.proto EXCEPT !.out = <<>>] /\ c.open = pc.open
      BY <2>1 DEF PeerConns
    <3> HIDE DEF c
    <3> QED BY <3>1, <3>2, ThreadKeeps
  <2>3. CASE LeaveLoop(i)
    <3>1. /\ conn' = [conn EXCEPT ![i] = pc] /\ thread' = [thread EXCEPT ![i] = "close"]
          /\ thread[i] # "none" /\ peers' = peers
          /\ UNCHANGED <<main, accepting, running, backlog, nextId>>
          /\ UNCHANGED peerVars /\ UNCHANGED nodeVars
      BY <2>3 DEF LeaveLoop, Step, serverVars, ServerTyped
    <3> QED BY <2>1, <3>1, ThreadKeeps
  <2>4. CASE SendRest(i)
    <3>1. PICK fails \in BOOLEAN :
            conn' = [conn EXCEPT ![i].proto.out = <<>>, ![i].running = @ /\ ~fails]
      BY <2>4 DEF SendRest
    <3> DEFINE c == [pc EXCEPT !.proto.out = <<>>, !.running = pc.running /\ ~fails]
    <3>2. PICK to \in {"close", "loop"} : thread' = [thread EXCEPT ![i] = to]
      BY <2>4 DEF SendRest, Step
    <3>3. /\ thread[i] # "none" /\ peers' = peers
          /\ UNCHANGED <<main, accepting, running, backlog, nextId>>
          /\ UNCHANGED peerVars /\ UNCHANGED nodeVars
      BY <2>4 DEF SendRest, Step, serverVars
    <3>4. conn' = [conn EXCEPT ![i] = c]
      BY <3>1 DEF ServerTyped
    <3>5. c \in PeerConns /\ c.proto = [pc.proto EXCEPT !.out = <<>>] /\ c.open = pc.open
      <4>1. (pc.running /\ ~fails) \in BOOLEAN
        OBVIOUS
      <4> QED BY <2>1, <4>1 DEF PeerConns
    <3> HIDE DEF c
    <3> QED BY <3>2, <3>3, <3>4, <3>5, ThreadKeeps
  <2>5. CASE LeaveMap(i)
    <3> DEFINE c == [pc EXCEPT !.open = FALSE, !.running = FALSE]
    <3>1. /\ conn' = [conn EXCEPT ![i] = c] /\ thread' = [thread EXCEPT ![i] = "done"]
          /\ thread[i] # "none" /\ peers' = peers \ {i}
          /\ UNCHANGED <<main, accepting, running, backlog, nextId>>
          /\ UNCHANGED peerVars /\ UNCHANGED nodeVars
      BY <2>5 DEF LeaveMap, Step
    <3>2. c \in PeerConns /\ c.proto = pc.proto /\ ~ c.open
      BY <2>1 DEF PeerConns
    <3> HIDE DEF c
    <3> QED BY <3>1, <3>2, ThreadKeeps
  <2> QED BY <1>8, <2>2, <2>3, <2>4, <2>5
<1>9. ASSUME NEW i \in Conns, PeerCloses(i) PROVE ServerInv'
  <2>1. /\ UNCHANGED <<main, accepting, running, backlog, nextId, peers, conn, thread>>
        /\ UNCHANGED <<wire, sent, chain, tip, myTip>>
    BY <1>9 DEF PeerCloses, serverVars, nodeVars
  <2> QED BY <2>1 DEF ServerTyped, NodeInv, FreshInv, ConnInv, StopInv
<1>10. CASE UNCHANGED allVars
  <2>1. /\ UNCHANGED <<main, accepting, running, backlog, nextId, peers, conn, thread>>
        /\ UNCHANGED <<wire, sent, chain, tip, myTip>>
    BY <1>10 DEF allVars, serverVars, peerVars, nodeVars
  <2> QED BY <2>1 DEF ServerTyped, NodeInv, FreshInv, ConnInv, StopInv
<1> QED BY <1>1, <1>2, <1>3, <1>4, <1>5, <1>6, <1>7, <1>8, <1>9, <1>10,
           ReceiveSomeKeeps, PeerSendsKeeps DEF Next, ConnStep
-----------------------------------------------------------------------------
(* The theorems.                                                           *)

\* The invariant above: the server's types, the tips it has advertised and
\* advertises, and how far every peer was read (NIOServer, Node, NetworkProtocol).
THEOREM ServerInvariant == Spec => []ServerInv
BY ServerInitial, ServerStep, PTL DEF Spec

\* However many peers knock, and whenever: after NIOServer::stop no peer is in
\* the map, no socket of one is open, and the accept thread has ended.
THEOREM StopEmpties == Spec => []StoppedServerIsEmpty
<1>1. ServerInv => StoppedServerIsEmpty
  BY DEF ServerInv, StopInv, StoppedServerIsEmpty
<1> QED BY <1>1, ServerInvariant, PTL

\* The top block of every greeting is -1 or the number of a block the node
\* holds: m_myTip changes in the callback of a block that is in the store.
THEOREM AdvertisesWhatItHolds == Spec => []AdvertisedIsHeld
<1>1. ServerInv => AdvertisedIsHeld
  BY DEF ServerInv, ServerTyped, ConnInv, ConnOk, Held, AdvertisedIsHeld
<1> QED BY <1>1, ServerInvariant, PTL

\* However the reads cut the bytes of a peer, ProcessRecvBuf has come to the
\* same state and the same events as if its messages came one by one.
THEOREM PiecesDoNotMatter == Spec => []PiecesAreIrrelevant
<1>1. ServerInv => PiecesAreIrrelevant
  <2> SUFFICES ASSUME ServerInv, NEW i \in Conns
               PROVE  LET c == DispatchAll(NewConnection(conn[i].proto.localTip), ReadOf(i))
                          p == conn[i].proto
                      IN  <<p.state, p.peerTip, p.events>> = <<c.state, c.peerTip, c.events>>
    BY DEF PiecesAreIrrelevant
  <2>1. ConnOk(conn[i].proto, sent[i], wire[i], chain.store)
    BY DEF ServerInv, ConnInv
  <2>2. Core(conn[i].proto)
          = Core(DispatchAll(NewConnection(conn[i].proto.localTip), ReadOf(i)))
    BY <2>1, ConnPieces DEF ReadOf
  <2> QED BY <2>2 DEF Core
<1> QED BY <1>1, ServerInvariant, PTL
-----------------------------------------------------------------------------
(* Sequences of coin sets.                                                 *)

\* The coins, after taking R[1] and giving A[1], taking R[2] and giving A[2]
\* and so on.
Swaps(g, N, coins, R, A) ==
  g = [n \in 0 .. N |-> IF n = 0 THEN coins ELSE (g[n - 1] \ R[n]) \cup A[n]]

LEMMA SwapsExist ==
  ASSUME NEW N \in Nat, NEW coins, NEW R, NEW A
  PROVE  \E g : Swaps(g, N, coins, R, A)
<1> DEFINE X == SUBSET (coins \cup UNION {A[n] : n \in 1 .. N})
           F == [k \in 1 .. N |-> [v \in X |-> (v \ R[k]) \cup A[k]]]
<1>1. F \in [1 .. N -> [X -> X]] /\ coins \in X
  OBVIOUS
<1>2. PICK g : Recursive(g, N, X, coins, F)
  <2> HIDE DEF X, F
  <2> QED BY <1>1, RecursionExists DEF Recursion
<1>3. ASSUME NEW k \in 1 .. N PROVE g[k] = (g[k - 1] \ R[k]) \cup A[k]
  <2>1. k - 1 \in 0 .. N
    OBVIOUS
  <2>2. g[k - 1] \in X /\ g[k] = F[k][g[k - 1]]
    <3> HIDE DEF X, F
    <3> QED BY <1>2, <2>1 DEF Recursive
  <2> QED BY <2>2
<1>4. g \in [0 .. N -> X] /\ g[0] = coins
  <2> HIDE DEF X, F
  <2> QED BY <1>2 DEF Recursive
<1>5. \A n \in 0 .. N : g[n] = IF n = 0 THEN coins ELSE (g[n - 1] \ R[n]) \cup A[n]
  <2> TAKE n \in 0 .. N
  <2>1. n = 0 \/ n \in 1 .. N
    OBVIOUS
  <2> HIDE DEF X, F
  <2> QED BY <1>3, <1>4, <2>1
<1> HIDE DEF X, F
<1> QED BY <1>4, <1>5 DEF Swaps

\* A coin is there in the end if it was given and not taken after that, or was
\* there and not taken.
LEMMA SwapsGive ==
  ASSUME NEW N \in Nat, NEW coins, NEW R, NEW A, NEW g, Swaps(g, N, coins, R, A), NEW c
  PROVE  c \in g[N] <=> \/ \E i \in 1 .. N : c \in A[i] /\ \A j \in i + 1 .. N : c \notin R[j]
                        \/ c \in coins /\ \A j \in 1 .. N : c \notin R[j]
<1> DEFINE Is(n) == c \in g[n] <=>
                    \/ \E i \in 1 .. n : c \in A[i] /\ \A j \in i + 1 .. n : c \notin R[j]
                    \/ c \in coins /\ \A j \in 1 .. n : c \notin R[j]
           S == {n \in 0 .. N : Is(n)}
<1>1. 0 \in S
  BY DEF Swaps
<1>2. ASSUME NEW n \in 1 .. N, n - 1 \in S PROVE n \in S
  <2>1. g[n] = (g[n - 1] \ R[n]) \cup A[n]
    BY DEF Swaps
  <2>2. n \in 0 .. N /\ Is(n - 1) /\ n \in 1 .. n
    BY <1>2
  <2>3. CASE c \in A[n]
    <3>1. \A j \in n + 1 .. n : c \notin R[j]
      OBVIOUS
    <3> QED BY <2>1, <2>2, <2>3, <3>1
  <2>4. CASE c \notin A[n] /\ c \in R[n]
    <3>1. \A i \in 1 .. n : i = n \/ n \in i + 1 .. n
      OBVIOUS
    <3> QED BY <2>1, <2>2, <2>4, <3>1
  <2>5. CASE c \notin A[n] /\ c \notin R[n]
    <3>1. \A i \in 1 .. n : i = n \/ i \in 1 .. n - 1
      OBVIOUS
    <3>2. \A i \in 1 .. n - 1 : i \in 1 .. n
      OBVIOUS
    <3>3. \A i \in 1 .. n : \A j \in i + 1 .. n : j = n \/ j \in i + 1 .. n - 1
      OBVIOUS
    <3>4. \A i \in 1 .. n : \A j \in i + 1 .. n - 1 : j \in i + 1 .. n
      OBVIOUS
    <3>5. c \in g[n] <=> c \in g[n - 1]
      BY <2>1, <2>5
    <3>6. (\A j \in 1 .. n : c \notin R[j]) <=> (\A j \in 1 .. n - 1 : c \notin R[j])
      BY <2>5, <3>1, <3>2
    <3>7. ASSUME NEW i \in 1 .. n - 1
          PROVE  (\A j \in i + 1 .. n : c \notin R[j])
                   <=> (\A j \in i + 1 .. n - 1 : c \notin R[j])
      BY <2>5, <3>2, <3>3, <3>4
    <3>8. (\E i \in 1 .. n : c \in A[i] /\ \A j \in i + 1 .. n : c \notin R[j])
            <=> (\E i \in 1 .. n - 1 : c \in A[i] /\ \A j \in i + 1 .. n - 1 : c \notin R[j])
      BY <2>5, <3>1, <3>2, <3>7
    <3> QED BY <2>2, <3>5, <3>6, <3>8
  <2> QED BY <2>3, <2>4, <2>5
<1>3. 0 .. N \subseteq S
  <2> HIDE DEF S
  <2> QED BY <1>1, <1>2, BoundedInduction
<1> QED BY <1>3

\* Applying blocks, the last of a sequence first.
LEMMA ApplyAllGives ==
  ASSUME NEW s, NEW L \in Nat, s \in [1 .. L -> TxPoWs], NEW coins, NEW c
  PROVE  c \in ApplyAll(coins, Reverse(s)) <=>
           \/ \E i \in 1 .. L : /\ c \in ToSet(Outputs[s[i]])
                                /\ \A j \in 1 .. i - 1 : c \notin Inputs[s[j]]
           \/ c \in coins /\ \A j \in 1 .. L : c \notin Inputs[s[j]]
<1> DEFINE r == Reverse(s)
           R == [n \in 1 .. L |-> Inputs[r[n]]]
           A == [n \in 1 .. L |-> ToSet(Outputs[r[n]])]
           body(g) == [n \in 0 .. Len(r) |-> IF n = 0 THEN coins ELSE ApplyCoins(g[n - 1], r[n])]
           f == CHOOSE g : g = body(g)
<1>1. Len(s) = L /\ Len(r) = L /\ \A i \in 1 .. L : r[i] = s[L - i + 1]
  <2>1. s \in Seq(TxPoWs) /\ Len(s) = L
    BY DEF Seq
  <2>2. r = [i \in 1 .. L |-> s[(L - i) + 1]]
    BY <2>1 DEF Reverse
  <2> QED BY <2>1, <2>2
<1>2. ApplyAll(coins, r) = f[L]
  <2> HIDE DEF r
  <2> QED BY <1>1 DEF ApplyAll
<1>3. \A g : Swaps(g, L, coins, R, A) <=> g = body(g)
  <2> HIDE DEF r
  <2> TAKE g
  <2>1. body(g) = [n \in 0 .. L |-> IF n = 0 THEN coins ELSE (g[n - 1] \ R[n]) \cup A[n]]
    <3>1. \A n \in 0 .. L : n # 0 => n \in 1 .. L
      OBVIOUS
    <3>2. \A n \in 1 .. L : ApplyCoins(g[n - 1], r[n]) = (g[n - 1] \ R[n]) \cup A[n]
      BY DEF ApplyCoins
    <3> QED BY <1>1, <3>1, <3>2
  <2> QED BY <2>1 DEF Swaps
<1>4. Swaps(f, L, coins, R, A)
  <2> HIDE DEF R, A, body
  <2>1. \E g : g = body(g)
    BY <1>3, SwapsExist
  <2> QED BY <2>1, <1>3
<1>5. c \in f[L] <=> \/ \E i \in 1 .. L : c \in A[i] /\ \A j \in i + 1 .. L : c \notin R[j]
                     \/ c \in coins /\ \A j \in 1 .. L : c \notin R[j]
  <2> HIDE DEF R, A, f
  <2> QED BY <1>4, SwapsGive
<1>6. \A i \in 1 .. L : R[i] = Inputs[s[L - i + 1]] /\ A[i] = ToSet(Outputs[s[L - i + 1]])
  BY <1>1
<1> HIDE DEF r, R, A, f
<1>7. (\A j \in 1 .. L : c \notin R[j]) <=> (\A j \in 1 .. L : c \notin Inputs[s[j]])
  <2>1. \A j \in 1 .. L : L - j + 1 \in 1 .. L /\ L - (L - j + 1) + 1 = j
    OBVIOUS
  <2>2. ASSUME \A j \in 1 .. L : c \notin R[j], NEW j \in 1 .. L PROVE c \notin Inputs[s[j]]
    <3>1. L - j + 1 \in 1 .. L /\ R[L - j + 1] = Inputs[s[j]]
      BY <1>6, <2>1
    <3> QED BY <2>2, <3>1
  <2>3. ASSUME \A j \in 1 .. L : c \notin Inputs[s[j]], NEW j \in 1 .. L PROVE c \notin R[j]
    <3>1. L - j + 1 \in 1 .. L /\ R[j] = Inputs[s[L - j + 1]]
      BY <1>6, <2>1
    <3> QED BY <2>3, <3>1
  <2> QED BY <2>2, <2>3
<1>8. ASSUME NEW i \in 1 .. L
      PROVE  (\A j \in i + 1 .. L : c \notin R[j])
               <=> (\A j \in 1 .. (L - i + 1) - 1 : c \notin Inputs[s[j]])
  <2>1. \A j \in i + 1 .. L : L - j + 1 \in 1 .. (L - i + 1) - 1 /\ j \in 1 .. L
    OBVIOUS
  <2>2. \A j \in 1 .. (L - i + 1) - 1 : /\ L - j + 1 \in i + 1 .. L /\ L - j + 1 \in 1 .. L
                                        /\ L - (L - j + 1) + 1 = j
    OBVIOUS
  <2>3. ASSUME \A j \in i + 1 .. L : c \notin R[j], NEW j \in 1 .. (L - i + 1) - 1
        PROVE  c \notin Inputs[s[j]]
    BY <1>6, <2>2, <2>3
  <2>4. ASSUME \A j \in 1 .. (L - i + 1) - 1 : c \notin Inputs[s[j]], NEW j \in i + 1 .. L
        PROVE  c \notin R[j]
    BY <1>6, <2>1, <2>4
  <2> QED BY <2>3, <2>4
<1>9. (\E i \in 1 .. L : c \in A[i] /\ \A j \in i + 1 .. L : c \notin R[j])
        <=> (\E i \in 1 .. L : /\ c \in ToSet(Outputs[s[i]])
                               /\ \A j \in 1 .. i - 1 : c \notin Inputs[s[j]])
  <2>1. \A i \in 1 .. L : L - i + 1 \in 1 .. L /\ L - (L - i + 1) + 1 = i
    OBVIOUS
  <2>2. ASSUME NEW i \in 1 .. L, c \in A[i], \A j \in i + 1 .. L : c \notin R[j]
        PROVE  \E k \in 1 .. L : /\ c \in ToSet(Outputs[s[k]])
                                 /\ \A j \in 1 .. k - 1 : c \notin Inputs[s[j]]
    BY <1>6, <1>8, <2>1, <2>2
  <2>3. ASSUME NEW k \in 1 .. L, c \in ToSet(Outputs[s[k]]),
               \A j \in 1 .. k - 1 : c \notin Inputs[s[j]]
        PROVE  \E i \in 1 .. L : c \in A[i] /\ \A j \in i + 1 .. L : c \notin R[j]
    <3> DEFINE i == L - k + 1
    <3>1. i \in 1 .. L /\ L - i + 1 = k
      OBVIOUS
    <3>2. c \in A[i]
      BY <1>6, <2>3, <3>1
    <3>3. \A j \in i + 1 .. L : c \notin R[j]
      <4> HIDE DEF i
      <4> QED BY <1>8, <2>3, <3>1
    <3> QED BY <3>1, <3>2, <3>3
  <2> QED BY <2>2, <2>3
<1> QED BY <1>2, <1>5, <1>7, <1>9 DEF r

\* Undoing blocks, the first of a sequence first.
LEMMA UndoAllGives ==
  ASSUME NEW s, NEW L \in Nat, s \in [1 .. L -> TxPoWs \cap Named], NEW coins, NEW c
  PROVE  c \in UndoAll(coins, s) <=>
           \/ \E i \in 1 .. L : /\ c \in Inputs[s[i]]
                                /\ \A j \in i + 1 .. L : c \notin ToSet(Outputs[s[j]])
           \/ c \in coins /\ \A j \in 1 .. L : c \notin ToSet(Outputs[s[j]])
<1> DEFINE R == [n \in 1 .. L |-> ToSet(Outputs[s[n]])]
           A == [n \in 1 .. L |-> Inputs[s[n]]]
           body(g) == [n \in 0 .. Len(s) |-> IF n = 0 THEN coins ELSE Undo(g[n - 1], s[n])]
           f == CHOOSE g : g = body(g)
<1>1. Len(s) = L
  BY DEF Seq
<1>2. UndoAll(coins, s) = f[L]
  BY <1>1 DEF UndoAll
<1>3. \A g : Swaps(g, L, coins, R, A) <=> g = body(g)
  <2> TAKE g
  <2>1. body(g) = [n \in 0 .. L |-> IF n = 0 THEN coins ELSE (g[n - 1] \ R[n]) \cup A[n]]
    <3>1. \A n \in 0 .. L : n # 0 => n \in 1 .. L
      OBVIOUS
    <3>2. \A n \in 1 .. L : Undo(g[n - 1], s[n]) = (g[n - 1] \ R[n]) \cup A[n]
      BY DEF Undo
    <3> QED BY <1>1, <3>1, <3>2
  <2> QED BY <2>1 DEF Swaps
<1>4. Swaps(f, L, coins, R, A)
  <2> HIDE DEF R, A, body
  <2>1. \E g : g = body(g)
    BY <1>3, SwapsExist
  <2> QED BY <2>1, <1>3
<1>5. c \in f[L] <=> \/ \E i \in 1 .. L : c \in A[i] /\ \A j \in i + 1 .. L : c \notin R[j]
                     \/ c \in coins /\ \A j \in 1 .. L : c \notin R[j]
  <2> HIDE DEF R, A, f
  <2> QED BY <1>4, SwapsGive
<1>6. \A i \in 1 .. L : i + 1 .. L \subseteq 1 .. L
  OBVIOUS
<1> QED BY <1>2, <1>5, <1>6

(* Lines.                                                                  *)

\* A line of blocks down to number 0.
IsLine(s, N) ==
  /\ N \in 1 .. MaxDepth /\ s \in [1 .. N -> TxPoWs] /\ BlockNumber[s[N]] = 0
  /\ \A i \in 1 .. N - 1 : BlockNumber[s[i]] # 0 /\ s[i + 1] = SuperParent[s[i]]

\* It is, from each of its blocks on, the line of that block.
LEMMA LineFrom ==
  ASSUME NEW s, NEW N, IsLine(s, N), NEW i \in 1 .. N
  PROVE  Line[s[i]] = {s[j] : j \in i .. N}
<1> USE OlderChainAssumption
<1> DEFINE T == {s[j] : j \in i .. N}
<1>1. T \subseteq TxPoWs /\ s[i] \in T /\ s[i] \in TxPoWs
  BY DEF IsLine
<1>2. Line[s[i]] = {x \in TxPoWs : \A S \in SUBSET TxPoWs : s[i] \in S /\ GoesDown(S) => x \in S}
  BY <1>1 DEF Line
<1>3. GoesDown(T)
  <2> SUFFICES ASSUME NEW j \in i .. N, BlockNumber[s[j]] # 0 PROVE SuperParent[s[j]] \in T
    BY DEF GoesDown
  <2>1. j # N /\ j \in 1 .. N - 1 /\ j + 1 \in i .. N
    BY DEF IsLine
  <2> QED BY <2>1 DEF IsLine
<1>4. ASSUME NEW S \in SUBSET TxPoWs, s[i] \in S, GoesDown(S) PROVE T \subseteq S
  <2> DEFINE K == {k \in 0 .. N - i : s[i + k] \in S}
  <2>1. 0 \in K /\ N - i \in Nat
    BY <1>4 DEF IsLine
  <2>2. ASSUME NEW k \in 1 .. N - i, k - 1 \in K PROVE k \in K
    <3>1. i + (k - 1) \in 1 .. N - 1 /\ (i + (k - 1)) + 1 = i + k /\ k \in 0 .. N - i
      BY DEF IsLine
    <3>2. s[i + (k - 1)] \in S
      BY <2>2
    <3>3. BlockNumber[s[i + (k - 1)]] # 0 /\ s[i + k] = SuperParent[s[i + (k - 1)]]
      BY <3>1 DEF IsLine
    <3>4. s[i + k] \in TxPoWs
      BY DEF IsLine
    <3> QED BY <1>4, <3>1, <3>2, <3>3, <3>4 DEF GoesDown
  <2>3. 0 .. N - i \subseteq K
    <3> HIDE DEF K
    <3> QED BY <2>1, <2>2, BoundedInduction
  <2>4. \A j \in i .. N : j - i \in 0 .. N - i /\ i + (j - i) = j
    BY DEF IsLine
  <2> QED BY <2>3, <2>4
<1> HIDE DEF T
<1>5. T \subseteq Line[s[i]]
  BY <1>1, <1>2, <1>4
<1>6. Line[s[i]] \subseteq T
  BY <1>1, <1>2, <1>3
<1> QED BY <1>5, <1>6 DEF T

\* getAncestors walks such a line to its end, when its blocks are stored.
WalkStep(s) == IF Last(s) \notin blocks \/ BlockNumber[Last(s)] = 0 THEN s
               ELSE Append(s, SuperParent[Last(s)])
IsWalk(f, b) ==
  /\ f \in [0 .. MaxDepth - 1 -> Seq(TxPoWs \cup {ZeroID})] /\ f[0] = <<b>>
  /\ \A k \in 1 .. MaxDepth - 1 : f[k] = WalkStep(f[k - 1])
  /\ Ancestry(b, MaxDepth) = f[MaxDepth - 1]

LEMMA Walks ==
  ASSUME blocks \subseteq TxPoWs, NEW b \in TxPoWs \cup {ZeroID}
  PROVE  \E f : IsWalk(f, b)
<1> USE OlderChainAssumption
<1> DEFINE X == Seq(TxPoWs \cup {ZeroID})
           N == MaxDepth - 1
           F == [k \in 1 .. N |-> [s \in X |-> WalkStep(s)]]
           body(g) == [n \in 0 .. N |-> IF n = 0 THEN <<b>> ELSE WalkStep(g[n - 1])]
           f == CHOOSE g : g = body(g)
<1>1. N \in Nat /\ <<b>> \in X
  OBVIOUS
<1>2. \A s \in X : WalkStep(s) \in X
  BY DEF WalkStep
<1>3. F \in [1 .. N -> [X -> X]]
  BY <1>2
<1>4. PICK g : Recursive(g, N, X, <<b>>, F)
  <2> HIDE DEF N, X, F
  <2> QED BY <1>1, <1>3, RecursionExists DEF Recursion
<1>5. g \in [0 .. N -> X] /\ g[0] = <<b>> /\ \A k \in 1 .. N : g[k] = WalkStep(g[k - 1])
  <2>1. ASSUME NEW k \in 1 .. N PROVE F[k][g[k - 1]] = WalkStep(g[k - 1])
    <3>1. k - 1 \in 0 .. N
      BY <1>1
    <3>2. g[k - 1] \in X
      <4> HIDE DEF X, N, F
      <4> QED BY <1>4, <3>1 DEF Recursive
    <3> QED BY <3>2
  <2> HIDE DEF X, N, F
  <2> QED BY <1>4, <2>1 DEF Recursive
<1>6. g = body(g)
  <2>1. \A n \in 0 .. N : n = 0 \/ n \in 1 .. N
    OBVIOUS
  <2>2. \A n \in 0 .. N : g[n] = IF n = 0 THEN <<b>> ELSE WalkStep(g[n - 1])
    BY <1>5, <2>1
  <2> QED BY <1>5, <2>2
<1>7. f = body(f)
  <2> HIDE DEF body
  <2> QED BY <1>6
<1>8. Ancestry(b, MaxDepth) = f[MaxDepth - 1]
  BY DEF Ancestry, WalkStep
<1> HIDE DEF f
<1>9. f[0] = <<b>> /\ \A k \in 1 .. N : f[k] = WalkStep(f[k - 1])
  <2>1. \A n \in 0 .. N : f[n] = IF n = 0 THEN <<b>> ELSE WalkStep(f[n - 1])
    BY <1>7
  <2>2. 0 \in 0 .. N /\ \A k \in 1 .. N : k \in 0 .. N /\ k # 0
    BY <1>1
  <2> QED BY <2>1, <2>2
<1>10. f \in [0 .. N -> X]
  <2> DEFINE K == {k \in 0 .. N : f[k] \in X}
  <2>1. 0 \in K
    <3> HIDE DEF X, N
    <3> QED BY <1>1, <1>9
  <2>2. \A k \in 1 .. N : k - 1 \in K => k \in K
    <3> HIDE DEF X, N
    <3> QED BY <1>1, <1>2, <1>9
  <2>3. 0 .. N \subseteq K
    <3> HIDE DEF K, N, X
    <3> QED BY <1>1, <2>1, <2>2, BoundedInduction
  <2>4. DOMAIN f = 0 .. N /\ f = [n \in 0 .. N |-> f[n]]
    BY <1>7
  <2> HIDE DEF N, X
  <2> QED BY <2>3, <2>4
<1> QED BY <1>8, <1>9, <1>10 DEF IsWalk

\* A complete line that is stored is what getAncestors gives.
LEMMA WalkOfLine ==
  ASSUME blocks \subseteq TxPoWs, NEW s, NEW N, IsLine(s, N), ToSet(s) \subseteq blocks
  PROVE  Ancestry(s[1], MaxDepth) = s
<1> USE OlderChainAssumption
<1>1. s \in Seq(TxPoWs) /\ Len(s) = N /\ s[1] \in TxPoWs /\ N \in 1 .. MaxDepth
  BY DEF IsLine, Seq
<1>2. PICK f : IsWalk(f, s[1])
  BY <1>1, Walks
<1> DEFINE size(k) == IF k + 1 <= N THEN k + 1 ELSE N
           K == {k \in 0 .. MaxDepth - 1 : f[k] = SubSeq(s, 1, size(k))}
<1>3. 0 \in K
  BY <1>1, <1>2 DEF IsWalk
<1>4. ASSUME NEW k \in 1 .. MaxDepth - 1, k - 1 \in K PROVE k \in K
  <2>0. f[k - 1] = SubSeq(s, 1, size(k - 1)) /\ k \in 0 .. MaxDepth - 1
    BY <1>4
  <2>1. f[k] = WalkStep(SubSeq(s, 1, size(k - 1))) /\ k \in 0 .. MaxDepth - 1
    <3> HIDE DEF size
    <3> QED BY <1>2, <2>0 DEF IsWalk
  <2>2. size(k - 1) \in 1 .. N
    BY <1>1
  <2>3. Last(SubSeq(s, 1, size(k - 1))) = s[size(k - 1)]
    BY <1>1, <2>2 DEF Last
  <2>4. s[size(k - 1)] \in blocks
    BY <1>1, <2>2 DEF ToSet
  <2>5. CASE k < N
    <3>1. size(k - 1) = k /\ size(k) = k + 1 /\ k \in 1 .. N - 1
      BY <1>1, <2>5
    <3>2. BlockNumber[s[k]] # 0 /\ s[k + 1] = SuperParent[s[k]]
      BY <3>1 DEF IsLine
    <3>3. f[k] = Append(SubSeq(s, 1, k), s[k + 1])
      BY <2>1, <2>3, <2>4, <3>1, <3>2 DEF WalkStep
    <3>4. Append(SubSeq(s, 1, k), s[k + 1]) = SubSeq(s, 1, k + 1)
      BY <1>1, <3>1
    <3> QED BY <2>1, <3>1, <3>3, <3>4
  <2>6. CASE ~ (k < N)
    <3>1. size(k - 1) = N /\ size(k) = N
      BY <1>1, <2>6
    <3>2. BlockNumber[s[N]] = 0
      BY DEF IsLine
    <3> QED BY <2>1, <2>3, <3>1, <3>2 DEF WalkStep
  <2> QED BY <2>5, <2>6
<1>5. 0 .. MaxDepth - 1 \subseteq K
  <2> HIDE DEF K
  <2> QED BY <1>3, <1>4, BoundedInduction
<1>6. MaxDepth - 1 \in K /\ size(MaxDepth - 1) = N
  BY <1>1, <1>5
<1>7. SubSeq(s, 1, N) = s
  BY <1>1
<1> QED BY <1>2, <1>6, <1>7 DEF IsWalk

\* getAncestors starts at its block and goes from block to parent.
IsAncestry(s, b) ==
  /\ s \in Seq(TxPoWs \cup {ZeroID}) /\ Len(s) \in 1 .. MaxDepth /\ s[1] = b
  /\ \A i \in 1 .. Len(s) - 1 : /\ s[i] \in blocks /\ BlockNumber[s[i]] # 0
                                /\ s[i + 1] = SuperParent[s[i]]

LEMMA AncestryIs ==
  ASSUME blocks \subseteq TxPoWs, NEW b \in TxPoWs \cup {ZeroID}
  PROVE  IsAncestry(Ancestry(b, MaxDepth), b)
<1> USE OlderChainAssumption
<1>1. PICK f : IsWalk(f, b)
  BY Walks
<1> DEFINE P(s, k) ==
             /\ s \in Seq(TxPoWs \cup {ZeroID}) /\ Len(s) \in 1 .. k + 1 /\ s[1] = b
             /\ \A i \in 1 .. Len(s) - 1 : /\ s[i] \in blocks /\ BlockNumber[s[i]] # 0
                                           /\ s[i + 1] = SuperParent[s[i]]
           K == {k \in 0 .. MaxDepth - 1 : P(f[k], k)}
<1>2. 0 \in K
  <2>1. P(<<b>>, 0)
    OBVIOUS
  <2>2. f[0] = <<b>> /\ 0 \in 0 .. MaxDepth - 1
    BY <1>1 DEF IsWalk
  <2> HIDE DEF P
  <2> QED BY <2>1, <2>2
<1>3. ASSUME NEW k \in 1 .. MaxDepth - 1, k - 1 \in K PROVE k \in K
  <2> DEFINE s == f[k - 1]
  <2>1. P(s, k - 1) /\ f[k] = WalkStep(s) /\ k \in 0 .. MaxDepth - 1
    BY <1>1, <1>3 DEF IsWalk
  <2>2. Last(s) = s[Len(s)]
    BY DEF Last
  <2>3. CASE Last(s) \notin blocks \/ BlockNumber[Last(s)] = 0
    BY <2>1, <2>3 DEF WalkStep
  <2>4. CASE Last(s) \in blocks /\ BlockNumber[Last(s)] # 0
    <3>1. f[k] = Append(s, SuperParent[s[Len(s)]]) /\ SuperParent[s[Len(s)]] \in TxPoWs \cup {ZeroID}
      BY <2>1, <2>2, <2>4 DEF WalkStep
    <3> HIDE DEF s
    <3>2. /\ f[k] \in Seq(TxPoWs \cup {ZeroID}) /\ Len(f[k]) = Len(s) + 1
          /\ \A i \in 1 .. Len(s) : f[k][i] = s[i]
          /\ f[k][Len(s) + 1] = SuperParent[s[Len(s)]]
      BY <2>1, <3>1
    <3>3. Len(f[k]) \in 1 .. k + 1 /\ f[k][1] = b
      BY <2>1, <3>2
    <3>4. ASSUME NEW i \in 1 .. Len(f[k]) - 1
          PROVE  /\ f[k][i] \in blocks /\ BlockNumber[f[k][i]] # 0
                 /\ f[k][i + 1] = SuperParent[f[k][i]]
      <4>1. CASE i = Len(s)
        BY <2>1, <2>2, <2>4, <3>2, <4>1
      <4>2. CASE i # Len(s)
        <5>1. i \in 1 .. Len(s) - 1 /\ i \in 1 .. Len(s) /\ i + 1 \in 1 .. Len(s)
          BY <2>1, <3>2, <4>2
        <5> QED BY <2>1, <3>2, <5>1
      <4> QED BY <4>1, <4>2
    <3> QED BY <2>1, <3>2, <3>3, <3>4
  <2> QED BY <2>3, <2>4
<1>4. 0 .. MaxDepth - 1 \subseteq K
  <2> HIDE DEF K
  <2> QED BY <1>2, <1>3, BoundedInduction
<1>5. P(f[MaxDepth - 1], MaxDepth - 1) /\ (MaxDepth - 1) + 1 = MaxDepth
  BY <1>4
<1> QED BY <1>1, <1>5 DEF IsWalk, IsAncestry

\* Within its depth, it gives a complete line.
LEMMA LineOfWalk ==
  ASSUME blocks \subseteq TxPoWs, NEW b \in TxPoWs \cup {ZeroID}, Within(b)
  PROVE  \E N : /\ IsLine(Ancestry(b, MaxDepth), N) /\ Ancestry(b, MaxDepth)[1] = b
                /\ ToSet(Ancestry(b, MaxDepth)) \subseteq blocks
<1> DEFINE t == Ancestry(b, MaxDepth)
<1>1. IsAncestry(t, b)
  BY AncestryIs
<1>2. ToSet(t) \subseteq blocks /\ BlockNumber[Last(t)] = 0 /\ Last(t) = t[Len(t)]
  BY DEF Within, AllStored, Last
<1> HIDE DEF t
<1>3. \A i \in 1 .. Len(t) : t[i] \in blocks
  BY <1>1, <1>2 DEF ToSet, IsAncestry
<1>4. t \in [1 .. Len(t) -> TxPoWs]
  BY <1>1, <1>3 DEF IsAncestry
<1>5. IsLine(t, Len(t))
  BY <1>1, <1>2, <1>4 DEF IsLine, IsAncestry
<1> QED BY <1>1, <1>2, <1>5 DEF t, IsAncestry

(* Stored blocks whose coins are accounted for: each fits its chain and its *)
(* line is complete.                                                       *)
Complete(x) == \E s, N : IsLine(s, N) /\ s[1] = x
Sound(B) == \A x \in B : x \in TxPoWs \cap Named /\ Fits(x) /\ Complete(x)
Closed(B) == \A x \in B : Line[x] \subseteq B

\* Numbers fall along a line of such blocks, so that no block is on it twice.
LEMMA LineFalls ==
  ASSUME NEW s, NEW N, IsLine(s, N), \A i \in 1 .. N : Fits(s[i]),
         NEW i \in 1 .. N, NEW j \in i + 1 .. N
  PROVE  BlockNumber[s[j]] < BlockNumber[s[i]]
<1> USE OlderChainAssumption
<1>1. N \in Nat /\ \A k \in 1 .. N : BlockNumber[s[k]] \in Nat
  BY DEF IsLine
<1>2. ASSUME NEW k \in 1 .. N - 1 PROVE BlockNumber[s[k + 1]] < BlockNumber[s[k]]
  <2>1. /\ k \in 1 .. N /\ k + 1 \in 1 .. N /\ BlockNumber[s[k]] # 0
        /\ s[k + 1] = SuperParent[s[k]] /\ s[k + 1] \in TxPoWs
    BY DEF IsLine
  <2> QED BY <2>1 DEF Fits
<1> DEFINE K == {k \in 0 .. N - (i + 1) : BlockNumber[s[i + 1 + k]] < BlockNumber[s[i]]}
<1>3. 0 \in K
  BY <1>1, <1>2
<1>4. ASSUME NEW k \in 1 .. N - (i + 1), k - 1 \in K PROVE k \in K
  <2> DEFINE p == i + 1 + (k - 1)
  <2>1. p \in 1 .. N - 1 /\ p \in 1 .. N /\ p + 1 \in 1 .. N /\ p + 1 = i + 1 + k
    BY <1>1
  <2>2. BlockNumber[s[p]] < BlockNumber[s[i]]
    BY <1>4
  <2> HIDE DEF p
  <2>3. BlockNumber[s[p + 1]] < BlockNumber[s[i]]
    BY <1>1, <1>2, <2>1, <2>2
  <2> QED BY <2>1, <2>3
<1>5. 0 .. N - (i + 1) \subseteq K
  <2>1. N - (i + 1) \in Nat
    BY <1>1
  <2> HIDE DEF K
  <2> QED BY <1>3, <1>4, <2>1, BoundedInduction
<1>6. j - (i + 1) \in K /\ i + 1 + (j - (i + 1)) = j
  BY <1>1, <1>5
<1> QED BY <1>6

\* The line of a stored block as a sequence of stored blocks.
LineOf(x, s, N) ==
  /\ IsLine(s, N) /\ s[1] = x
  /\ Line[x] = {s[i] : i \in 1 .. N}
  /\ \A i \in 1 .. N : Line[s[i]] = {s[j] : j \in i .. N}
  /\ \A i, j \in 1 .. N : i < j => BlockNumber[s[j]] < BlockNumber[s[i]]
  /\ \A i, j \in 1 .. N : s[i] = s[j] => i = j

LEMMA LineExists ==
  ASSUME NEW B, Sound(B), Closed(B), NEW x \in B
  PROVE  \E s, N : LineOf(x, s, N)
<1>1. PICK s, N : IsLine(s, N) /\ s[1] = x
  BY DEF Sound, Complete
<1>2. N \in Nat /\ 1 \in 1 .. N /\ \A i \in 1 .. N : BlockNumber[s[i]] \in Nat
  BY <1>1, OlderChainAssumption DEF IsLine
<1>3. \A i \in 1 .. N : Line[s[i]] = {s[j] : j \in i .. N}
  BY <1>1, LineFrom
<1>4. Line[x] = {s[i] : i \in 1 .. N}
  BY <1>1, <1>2, <1>3
<1>5. \A i \in 1 .. N : Fits(s[i])
  BY <1>4 DEF Sound, Closed
<1>6. \A i, j \in 1 .. N : i < j => BlockNumber[s[j]] < BlockNumber[s[i]]
  <2> TAKE i, j \in 1 .. N
  <2> HAVE i < j
  <2>1. j \in i + 1 .. N
    BY <1>2
  <2> QED BY <1>1, <1>5, <2>1, LineFalls
<1>7. \A i, j \in 1 .. N : s[i] = s[j] => i = j
  BY <1>2, <1>6
<1> QED BY <1>1, <1>3, <1>4, <1>6, <1>7 DEF LineOf

\* The lines of stored blocks are ordered: a block below one is lower, what is
\* below it is below the other, and of two blocks below one, one is below the
\* other.
LEMMA LineOrder ==
  ASSUME NEW B, Sound(B), Closed(B), NEW x \in B
  PROVE  /\ x \in Line[x]
         /\ \A y \in Line[x] : Line[y] \subseteq Line[x] /\ y \in B
         /\ \A y \in Line[x] : y # x => x \notin Line[y]
         /\ \A y \in Line[x] : y # x => BlockNumber[y] < BlockNumber[x]
         /\ \A y, z \in Line[x] : y \in Line[z] \/ z \in Line[y]
<1>1. PICK s, N : LineOf(x, s, N)
  BY LineExists
<1>2. /\ N \in Nat /\ 1 \in 1 .. N /\ s[1] = x /\ Line[x] = {s[i] : i \in 1 .. N}
      /\ \A i \in 1 .. N : BlockNumber[s[i]] \in Nat /\ s[i] \in TxPoWs
  <2>1. IsLine(s, N) /\ s[1] = x /\ Line[x] = {s[i] : i \in 1 .. N}
    BY <1>1 DEF LineOf
  <2>2. N \in Nat /\ 1 \in 1 .. N /\ s \in [1 .. N -> TxPoWs]
    BY <2>1, OlderChainAssumption DEF IsLine
  <2> QED BY <2>1, <2>2, OlderChainAssumption
<1>3. \A i \in 1 .. N : i # 1 => BlockNumber[s[i]] < BlockNumber[s[1]]
  BY <1>1, <1>2 DEF LineOf
<1>4. \A i \in 1 .. N : Line[s[i]] \subseteq Line[x]
  BY <1>1, <1>2 DEF LineOf
<1>5. ASSUME NEW i \in 1 .. N, i # 1 PROVE s[1] \notin Line[s[i]]
  <2>1. Line[s[i]] = {s[j] : j \in i .. N} /\ \A j \in i .. N : j \in 1 .. N /\ j # 1
    BY <1>1, <1>2, <1>5 DEF LineOf
  <2> QED BY <1>1, <1>2, <2>1 DEF LineOf
<1>6. \A i, j \in 1 .. N : s[i] \in Line[s[j]] \/ s[j] \in Line[s[i]]
  <2> TAKE i, j \in 1 .. N
  <2>1. i \in j .. N \/ j \in i .. N
    BY <1>2
  <2> QED BY <1>1, <2>1 DEF LineOf
<1>7. Line[x] \subseteq B
  BY DEF Closed
<1>8. \A y \in Line[x] : \E i \in 1 .. N : y = s[i] /\ (y # x => i # 1)
  BY <1>2
<1>9. \A y \in Line[x] : Line[y] \subseteq Line[x] /\ y \in B
  BY <1>4, <1>7, <1>8
<1>10. \A y \in Line[x] : y # x => x \notin Line[y]
  BY <1>2, <1>5, <1>8
<1>11. \A y \in Line[x] : y # x => BlockNumber[y] < BlockNumber[x]
  BY <1>2, <1>3, <1>8
<1>12. \A y, z \in Line[x] : y \in Line[z] \/ z \in Line[y]
  BY <1>6, <1>8
<1> QED BY <1>2, <1>9, <1>10, <1>11, <1>12

(* What a reorganisation does to a coin, in terms of the blocks it undoes   *)
(* and those it applies.                                                   *)

Applied(c, coins, onto) ==
  \/ \E x \in onto : /\ c \in ToSet(Outputs[x])
                     /\ \A y \in onto : x \in Line[y] /\ y # x => c \notin Inputs[y]
  \/ c \in coins /\ \A y \in onto : c \notin Inputs[y]
Unapplied(c, coins, undone) ==
  \/ \E x \in undone : /\ c \in Inputs[x]
                       /\ \A y \in undone : y \in Line[x] /\ y # x => c \notin ToSet(Outputs[y])
  \/ c \in coins /\ \A y \in undone : c \notin ToSet(Outputs[y])

\* A prefix of a line.
Prefix(p, M, s) == p \in [1 .. M -> TxPoWs] /\ \A j \in 1 .. M : p[j] = s[j]

LEMMA PrefixOrder ==
  ASSUME NEW x, NEW s, NEW N, LineOf(x, s, N), NEW M \in 0 .. N,
         NEW i \in 1 .. M, NEW j \in 1 .. M
  PROVE  s[j] \in Line[s[i]] /\ s[j] # s[i] <=> i < j
<1>1. N \in Nat /\ i \in 1 .. N /\ j \in 1 .. N
  BY DEF LineOf, IsLine
<1>2. Line[s[i]] = {s[k] : k \in i .. N} /\ \A k \in i .. N : k \in 1 .. N
  <2>1. Line[s[i]] = {s[k] : k \in i .. N}
    BY <1>1 DEF LineOf
  <2>2. \A k \in i .. N : k \in 1 .. N
    BY <1>1
  <2> QED BY <2>1, <2>2
<1>3. \A k \in 1 .. N : s[k] = s[j] => k = j
  BY <1>1 DEF LineOf
<1>4. s[j] = s[i] <=> i = j
  BY <1>1 DEF LineOf
<1>5. s[j] \in Line[s[i]] <=> j \in i .. N
  BY <1>2, <1>3
<1> QED BY <1>1, <1>4, <1>5

LEMMA ApplyPrefix ==
  ASSUME NEW x, NEW s, NEW N, LineOf(x, s, N), NEW M \in 0 .. N, NEW p, Prefix(p, M, s),
         NEW coins, NEW c
  PROVE  c \in ApplyAll(coins, Reverse(p)) <=> Applied(c, coins, {s[j] : j \in 1 .. M})
<1> DEFINE P == {s[j] : j \in 1 .. M}
<1>1. M \in Nat
  BY DEF LineOf, IsLine
<1>2. c \in ApplyAll(coins, Reverse(p)) <=>
           \/ \E i \in 1 .. M : /\ c \in ToSet(Outputs[p[i]])
                                /\ \A j \in 1 .. i - 1 : c \notin Inputs[p[j]]
           \/ c \in coins /\ \A j \in 1 .. M : c \notin Inputs[p[j]]
  BY <1>1, ApplyAllGives DEF Prefix
<1>3. \A j \in 1 .. M : p[j] = s[j]
  BY DEF Prefix
<1>4. (\A j \in 1 .. M : c \notin Inputs[p[j]]) <=> (\A y \in P : c \notin Inputs[y])
  BY <1>3
<1>5. ASSUME NEW i \in 1 .. M
      PROVE  (\A j \in 1 .. i - 1 : c \notin Inputs[p[j]])
               <=> (\A y \in P : s[i] \in Line[y] /\ y # s[i] => c \notin Inputs[y])
  <2>1. \A j \in 1 .. M : s[i] \in Line[s[j]] /\ s[i] # s[j] <=> j < i
    BY PrefixOrder
  <2>2. \A j \in 1 .. i - 1 : j \in 1 .. M /\ j < i
    BY <1>1
  <2>3. \A j \in 1 .. M : j < i => j \in 1 .. i - 1
    BY <1>1
  <2> QED BY <1>3, <2>1, <2>2, <2>3
<1>6. (\E i \in 1 .. M : /\ c \in ToSet(Outputs[p[i]])
                         /\ \A j \in 1 .. i - 1 : c \notin Inputs[p[j]])
        <=> (\E z \in P : /\ c \in ToSet(Outputs[z])
                          /\ \A y \in P : z \in Line[y] /\ y # z => c \notin Inputs[y])
  BY <1>3, <1>5
<1> QED BY <1>2, <1>4, <1>6 DEF Applied

LEMMA UndoPrefix ==
  ASSUME NEW x, NEW s, NEW N, LineOf(x, s, N), NEW M \in 0 .. N, NEW p, Prefix(p, M, s),
         \A i \in 1 .. N : s[i] \in Named, NEW coins, NEW c
  PROVE  c \in UndoAll(coins, p) <=> Unapplied(c, coins, {s[j] : j \in 1 .. M})
<1> DEFINE P == {s[j] : j \in 1 .. M}
<1>1. M \in Nat /\ p \in [1 .. M -> TxPoWs \cap Named]
  BY DEF LineOf, IsLine, Prefix
<1>2. c \in UndoAll(coins, p) <=>
           \/ \E i \in 1 .. M : /\ c \in Inputs[p[i]]
                                /\ \A j \in i + 1 .. M : c \notin ToSet(Outputs[p[j]])
           \/ c \in coins /\ \A j \in 1 .. M : c \notin ToSet(Outputs[p[j]])
  BY <1>1, UndoAllGives
<1>3. \A j \in 1 .. M : p[j] = s[j]
  BY DEF Prefix
<1>4. (\A j \in 1 .. M : c \notin ToSet(Outputs[p[j]])) <=> (\A y \in P : c \notin ToSet(Outputs[y]))
  BY <1>3
<1>5. ASSUME NEW i \in 1 .. M
      PROVE  (\A j \in i + 1 .. M : c \notin ToSet(Outputs[p[j]]))
               <=> (\A y \in P : y \in Line[s[i]] /\ y # s[i] => c \notin ToSet(Outputs[y]))
  <2>1. \A j \in 1 .. M : s[j] \in Line[s[i]] /\ s[j] # s[i] <=> i < j
    BY PrefixOrder
  <2>2. \A j \in i + 1 .. M : j \in 1 .. M /\ i < j
    BY <1>1
  <2>3. \A j \in 1 .. M : i < j => j \in i + 1 .. M
    BY <1>1
  <2> QED BY <1>3, <2>1, <2>2, <2>3
<1>6. (\E i \in 1 .. M : /\ c \in Inputs[p[i]]
                         /\ \A j \in i + 1 .. M : c \notin ToSet(Outputs[p[j]]))
        <=> (\E z \in P : /\ c \in Inputs[z]
                          /\ \A y \in P : y \in Line[z] /\ y # z => c \notin ToSet(Outputs[y]))
  BY <1>3, <1>5
<1> QED BY <1>2, <1>4, <1>6 DEF Unapplied

LEMMA AboveIs ==
  ASSUME NEW x, NEW s, NEW N, LineOf(x, s, N), NEW q \in 1 .. N
  PROVE  Prefix(Above(s, s[q]), q - 1, s)
<1>1. s \in Seq(TxPoWs) /\ Len(s) = N /\ DOMAIN s = 1 .. N /\ N \in Nat
  BY DEF LineOf, IsLine, Seq
<1>2. (CHOOSE i \in DOMAIN s : s[i] = s[q]) = q
  <2>1. \A i \in DOMAIN s : s[i] = s[q] <=> i = q
    BY <1>1 DEF LineOf
  <2> QED BY <1>1, <2>1
<1>3. Above(s, s[q]) = SubSeq(s, 1, q - 1)
  BY <1>2 DEF Above
<1>4. /\ SubSeq(s, 1, q - 1) \in [1 .. q - 1 -> TxPoWs]
      /\ \A j \in 1 .. q - 1 : SubSeq(s, 1, q - 1)[j] = s[j]
  <2>1. SubSeq(s, 1, q - 1) \in Seq(TxPoWs) /\ Len(SubSeq(s, 1, q - 1)) = q - 1
    BY <1>1
  <2>2. \A j \in 1 .. q - 1 : SubSeq(s, 1, q - 1)[j] = s[j]
    BY <1>1
  <2>3. SubSeq(s, 1, q - 1) \in [1 .. Len(SubSeq(s, 1, q - 1)) -> TxPoWs]
    BY <2>1, LenProperties
  <2> QED BY <2>1, <2>2, <2>3
<1> QED BY <1>3, <1>4 DEF Prefix

\* A set of naturals has a least one.
LEMMA MinIsLeast ==
  ASSUME NEW S \in SUBSET Nat, S # {}
  PROVE  Min(S) \in S /\ \A n \in S : Min(S) <= n
<1> DEFINE Low == {i \in Nat : \A n \in S : i <= n}
<1>1. 0 \in Low
  OBVIOUS
<1>2. ASSUME \A i \in Low : i + 1 \in Low PROVE FALSE
  <2>1. Low = Nat
    <3>1. Low \in SUBSET Nat
      OBVIOUS
    <3> HIDE DEF Low
    <3> QED BY <1>1, <1>2, <3>1, SetInduction
  <2>2. PICK n \in S : TRUE
    OBVIOUS
  <2>3. n + 1 \in Low
    <3> HIDE DEF Low
    <3> QED BY <2>1
  <2> QED BY <2>3
<1>3. PICK i \in Low : i + 1 \notin Low
  BY <1>2
<1>4. PICK n \in S : ~ (i + 1 <= n)
  BY <1>3
<1>5. n = i /\ \A x \in S : n <= x
  BY <1>3, <1>4
<1> QED BY <1>5 DEF Min

\* What a reorganisation undoes and applies.
LEMMA ReorgGives ==
  ASSUME blocks \subseteq TxPoWs, Sound(blocks), Closed(blocks), state.tip \in blocks,
         NEW b \in blocks, Reorg(b)
  PROVE  /\ left' = (left \cup (Line[state.tip] \ Line[b])) \ (Line[b] \ Line[state.tip])
         /\ \E mid : /\ \A c : c \in mid <=> Unapplied(c, utxo, Line[state.tip] \ Line[b])
                     /\ \A c : c \in utxo' <=> Applied(c, mid, Line[b] \ Line[state.tip])
<1> DEFINE here == state.tip
           fork == GetAncestors(b, MaxDepth)
           ours == GetAncestors(here, MaxDepth)
           cm == {i \in DOMAIN ours : ours[i] \in ToSet(fork)}
           undone == IF cm = {} THEN ours ELSE Above(ours, ours[Min(cm)])
           onto == IF cm = {} THEN fork ELSE Above(fork, ours[Min(cm)])
<1>1. /\ utxo' = ApplyAll(UndoAll(utxo, undone), Reverse(onto))
      /\ left' = (left \cup ToSet(undone)) \ ToSet(onto)
  BY DEF Reorg
<1>2. PICK s, N : LineOf(here, s, N)
  BY LineExists
<1>3. PICK t, M : LineOf(b, t, M)
  BY LineExists
<1>4. ASSUME NEW x \in blocks, NEW r, NEW L, LineOf(x, r, L)
      PROVE  /\ GetAncestors(x, MaxDepth) = r /\ ToSet(r) = Line[x] /\ Prefix(r, L, r)
             /\ r \in Seq(TxPoWs) /\ DOMAIN r = 1 .. L /\ L \in 1 .. MaxDepth
             /\ \A i \in 1 .. L : r[i] \in blocks /\ r[i] \in Named
  <2>1. IsLine(r, L) /\ r[1] = x /\ Line[x] = {r[i] : i \in 1 .. L}
    BY <1>4 DEF LineOf
  <2>2. r \in Seq(TxPoWs) /\ DOMAIN r = 1 .. L /\ L \in 1 .. MaxDepth /\ Len(r) = L
    BY <2>1, OlderChainAssumption DEF IsLine, Seq
  <2>3. ToSet(r) = Line[x]
    BY <2>1, <2>2 DEF ToSet
  <2>4. Line[x] \subseteq blocks
    BY DEF Closed
  <2>5. Ancestry(x, MaxDepth) = r
    BY <2>1, <2>3, <2>4, WalkOfLine
  <2>6. \A i \in 1 .. L : r[i] \in blocks /\ r[i] \in Named
    BY <2>1, <2>4 DEF Sound
  <2>7. Last(r) \in blocks
    BY <2>2, <2>6 DEF Last
  <2>8. GetAncestors(x, MaxDepth) = r
    BY <2>5, <2>7 DEF GetAncestors
  <2> QED BY <2>1, <2>2, <2>3, <2>6, <2>8 DEF Prefix, IsLine
<1>5. ours = s /\ ToSet(s) = Line[here] /\ Prefix(s, N, s) /\ DOMAIN s = 1 .. N /\ N \in Nat
  BY <1>2, <1>4, OlderChainAssumption
<1>6. fork = t /\ ToSet(t) = Line[b] /\ Prefix(t, M, t) /\ DOMAIN t = 1 .. M /\ M \in Nat
  BY <1>3, <1>4, OlderChainAssumption
<1>7. \A i \in 1 .. N : s[i] \in Named
  BY <1>2, <1>4
<1>8. cm = {i \in 1 .. N : s[i] \in Line[b]}
  BY <1>5, <1>6
<1> HIDE DEF ours, fork, cm
<1>9. Line[here] = {s[i] : i \in 1 .. N} /\ Line[b] = {t[i] : i \in 1 .. M}
  BY <1>2, <1>3 DEF LineOf
<1>10. \E m \in 0 .. N, q \in 0 .. M :
         /\ Prefix(undone, m, s) /\ {s[j] : j \in 1 .. m} = Line[here] \ Line[b]
         /\ Prefix(onto, q, t) /\ {t[j] : j \in 1 .. q} = Line[b] \ Line[here]
  <2>1. CASE cm = {}
    <3>1. undone = s /\ N \in 0 .. N /\ onto = t /\ M \in 0 .. M
      BY <1>5, <1>6, <2>1
    <3>2. {s[j] : j \in 1 .. N} = Line[here] \ Line[b] /\ {t[j] : j \in 1 .. M} = Line[b] \ Line[here]
      BY <1>8, <1>9, <2>1
    <3> QED BY <1>5, <1>6, <3>1, <3>2
  <2>2. CASE cm # {}
    <3> DEFINE k == Min(cm)
    <3>1. k \in cm /\ \A i \in cm : k <= i
      <4>1. cm \in SUBSET Nat
        BY <1>5, <1>8
      <4> QED BY <2>2, <4>1, MinIsLeast
    <3> HIDE DEF k
    <3>2. k \in 1 .. N /\ s[k] \in Line[b]
      BY <1>8, <3>1
    <3>3. PICK q \in 1 .. M : s[k] = t[q]
      BY <1>9, <3>2
    <3>4. undone = Above(s, s[k]) /\ onto = Above(t, t[q])
      BY <1>5, <1>6, <2>2, <3>3 DEF k
    <3>5. /\ Prefix(undone, k - 1, s) /\ k - 1 \in 0 .. N
          /\ Prefix(onto, q - 1, t) /\ q - 1 \in 0 .. M
      <4>1. Prefix(undone, k - 1, s)
        BY <1>2, <3>2, <3>4, AboveIs
      <4>2. Prefix(onto, q - 1, t)
        BY <1>3, <3>4, AboveIs
      <4>3. k - 1 \in 0 .. N /\ q - 1 \in 0 .. M
        BY <1>5, <1>6, <3>2
      <4> QED BY <4>1, <4>2, <4>3
    <3>6. Line[s[k]] = {s[j] : j \in k .. N} /\ Line[s[k]] = {t[j] : j \in q .. M}
      BY <1>2, <1>3, <3>2, <3>3 DEF LineOf
    <3>7. Line[s[k]] \subseteq Line[b]
      BY <3>2, LineOrder
    <3>8. s[k] \in Line[here] /\ here \in blocks
      BY <1>9, <3>2
    <3>9. Line[s[k]] \subseteq Line[here]
      BY <3>8, LineOrder
    <3>10. \A j \in 1 .. k - 1 : j \in 1 .. N /\ s[j] \notin Line[b]
      BY <1>5, <1>8, <3>1, <3>2
    <3>11. \A j \in 1 .. N : s[j] \notin Line[b] => j \in 1 .. k - 1
      BY <1>5, <3>2, <3>6, <3>7
    <3>12. {s[j] : j \in 1 .. k - 1} = Line[here] \ Line[b]
      BY <1>9, <3>10, <3>11
    <3>13. ASSUME NEW j \in 1 .. q - 1 PROVE j \in 1 .. M /\ t[j] \notin Line[here]
      <4>1. j \in 1 .. M /\ j \notin q .. M
        BY <1>6
      <4> SUFFICES ASSUME t[j] \in Line[here] PROVE FALSE
        BY <4>1
      <4>2. PICK l \in 1 .. N : t[j] = s[l]
        BY <1>9
      <4>3. l \in cm
        BY <1>8, <1>9, <4>1, <4>2
      <4>4. l \in k .. N
        BY <3>1, <3>2, <4>3
      <4>5. PICK i \in q .. M : t[j] = t[i]
        BY <3>6, <4>2, <4>4
      <4>6. i = j
        BY <1>3, <1>6, <4>1, <4>5 DEF LineOf
      <4> QED BY <4>1, <4>6
    <3>14. ASSUME NEW j \in 1 .. M, t[j] \notin Line[here] PROVE j \in 1 .. q - 1
      <4>1. j \notin q .. M
        BY <3>6, <3>9, <3>14
      <4> QED BY <1>6, <4>1
    <3>15. {t[j] : j \in 1 .. q - 1} = Line[b] \ Line[here]
      BY <1>9, <3>13, <3>14
    <3> QED BY <3>5, <3>12, <3>15
  <2> QED BY <2>1, <2>2
<1>11. PICK m \in 0 .. N, q \in 0 .. M :
         /\ Prefix(undone, m, s) /\ {s[j] : j \in 1 .. m} = Line[here] \ Line[b]
         /\ Prefix(onto, q, t) /\ {t[j] : j \in 1 .. q} = Line[b] \ Line[here]
  BY <1>10
<1> HIDE DEF undone, onto
<1>12. ToSet(undone) = Line[here] \ Line[b] /\ ToSet(onto) = Line[b] \ Line[here]
  BY <1>11 DEF ToSet, Prefix
<1>13. \A c : c \in UndoAll(utxo, undone) <=> Unapplied(c, utxo, Line[here] \ Line[b])
  BY <1>2, <1>7, <1>11, UndoPrefix
<1>14. \A c : c \in utxo' <=> Applied(c, UndoAll(utxo, undone), Line[b] \ Line[here])
  BY <1>1, <1>3, <1>11, ApplyPrefix
<1> QED BY <1>1, <1>12, <1>13, <1>14

(* The invariant of the chain processor.                                   *)

\* The blocks every stored block is above or below of.
Trunk(B) == {x \in B : \A y \in B : x \in Line[y] \/ y \in Line[x]}
Spenders(B, c) == {y \in B : c \in Inputs[y]}

\* What holds of stored blocks that are sound and of which none came late: on
\* the trunk, a block is applied if it is at or below the tip, and a coin that
\* is spent nowhere else is there if the block that made it is applied and
\* none that spends it.
Steady(B, here, undone, coins) ==
  /\ Closed(B) /\ undone \subseteq B
  /\ \A x \in Trunk(B) : x \in undone <=> x \notin Line[here]
  /\ \A c \in coins : \E x \in B : c \in ToSet(Outputs[x])
  /\ \A x \in Trunk(B) : \A c \in ToSet(Outputs[x]) :
       Spenders(B, c) \subseteq Trunk(B) =>
         (c \in coins <=> x \notin undone /\ Spenders(B, c) \subseteq undone)

TipIs(B, st) ==
  /\ st \in [tip : TxPoWs \cup {ZeroID}, height : Nat]
  /\ \/ B = {} /\ st = [tip |-> ZeroID, height |-> 0]
     \/ st.tip \in B /\ st.height = BlockNumber[st.tip]

ChainInv ==
  /\ blocks \subseteq TxPoWs /\ TipIs(blocks, state)
  /\ late = {} /\ Sound(blocks) => Steady(blocks, state.tip, left, utxo)

\* A block that spends a coin is above the one that made it, and no two on a
\* line spend the same.
LEMMA CoinOrder ==
  ASSUME NEW B, Sound(B), Closed(B), NEW y \in B, NEW c \in Inputs[y]
  PROVE  /\ \A x \in B : c \in ToSet(Outputs[x]) => x \in Line[y] /\ x # y
         /\ \E x \in Line[y] : c \in ToSet(Outputs[x])
         /\ \A z \in Line[y] : z # y => c \notin Inputs[z]
<1>1. Fits(y) /\ y \in TxPoWs /\ Line[y] \subseteq B /\ B \subseteq TxPoWs
  BY DEF Sound, Closed
<1>2. PICK x \in Line[y] \ {y} : c \in ToSet(Outputs[x])
  BY <1>1 DEF Fits
<1>3. \A z \in B : c \in ToSet(Outputs[z]) => z = x
  BY <1>1, <1>2, OlderChainAssumption
<1>4. \A z \in Line[y] : z # y => c \notin Inputs[z]
  BY <1>1 DEF Fits
<1> QED BY <1>2, <1>3, <1>4

\* A new block whose line is stored and applied.
LEMMA StoreSteady ==
  ASSUME NEW B, NEW here, NEW undone, NEW coins, Steady(B, here, undone, coins),
         NEW b, b \notin B, Sound(B \cup {b}), Line[b] \ {b} \subseteq B \ undone,
         NEW to, to \in {b, here}, B \subseteq Line[b] => to = b
  PROVE  Steady(B \cup {b}, to, undone, ApplyCoins(coins, b))
<1> DEFINE C == B \cup {b}
           kept == ApplyCoins(coins, b)
<1>1. Closed(C)
  BY DEF Steady, Closed
<1>2. /\ \A x \in C : x \in Line[x]
      /\ \A x \in C : \A y \in Line[x] : y # x => x \notin Line[y]
      /\ b \in C
  BY <1>1, LineOrder
<1>3. \A x \in B : b \notin Line[x]
  BY DEF Steady, Closed
<1>4. \A x \in B : x \in Trunk(C) => x \in Trunk(B) /\ x \in Line[b] /\ x \notin undone
  BY <1>2, <1>3 DEF Trunk
<1>5. b \in Trunk(C) => B \subseteq Line[b] /\ to = b /\ undone = {}
  BY <1>3 DEF Trunk, Steady
<1>6. undone \subseteq C /\ b \notin undone
  BY DEF Steady
<1>7. ASSUME NEW x \in Trunk(C) PROVE x \in undone <=> x \notin Line[to]
  <2>1. CASE x = b
    BY <1>2, <1>5, <1>6, <1>7, <2>1
  <2>2. CASE x # b
    <3>1. x \in B /\ x \in Trunk(B) /\ x \in Line[b] /\ x \notin undone
      BY <1>4, <1>7, <2>2 DEF Trunk
    <3>2. x \in Line[here]
      BY <3>1 DEF Steady
    <3> QED BY <3>1, <3>2
  <2> QED BY <2>1, <2>2
<1>8. \A c \in kept : \E x \in C : c \in ToSet(Outputs[x])
  BY DEF Steady, ApplyCoins
<1>9. ASSUME NEW x \in Trunk(C), NEW c \in ToSet(Outputs[x]), Spenders(C, c) \subseteq Trunk(C)
      PROVE  c \in kept <=> x \notin undone /\ Spenders(C, c) \subseteq undone
  <2>1. \A y \in Spenders(C, c) : x \in Line[y] /\ x # y
    <3>1. x \in C
      BY <1>9 DEF Trunk
    <3> QED BY <1>1, <1>9, <3>1, CoinOrder DEF Spenders
  <2>2. CASE x = b
    <3>1. Spenders(C, c) = {}
      BY <1>3, <2>1, <2>2 DEF Spenders
    <3> QED BY <1>6, <1>9, <2>2, <3>1 DEF ApplyCoins
  <2>3. CASE x # b
    <3>1. x \in B /\ x \in Trunk(B) /\ x \notin undone
      BY <1>4, <1>9, <2>3 DEF Trunk
    <3>2. c \notin ToSet(Outputs[b])
      <4>1. x \in TxPoWs /\ b \in TxPoWs
        BY <3>1 DEF Sound
      <4> QED BY <1>9, <2>3, <4>1, OlderChainAssumption
    <3>3. CASE c \in Inputs[b]
      <4>1. b \in Spenders(C, c) /\ c \notin kept
        BY <3>2, <3>3 DEF Spenders, ApplyCoins
      <4> QED BY <1>6, <4>1
    <3>4. CASE c \notin Inputs[b]
      <4>1. Spenders(C, c) = Spenders(B, c) /\ (c \in kept <=> c \in coins)
        BY <3>2, <3>4 DEF Spenders, ApplyCoins
      <4>2. Spenders(B, c) \subseteq Trunk(B)
        BY <1>4, <1>9, <4>1 DEF Spenders
      <4> QED BY <1>9, <3>1, <4>1, <4>2 DEF Steady
    <3> QED BY <3>3, <3>4
  <2> QED BY <2>2, <2>3
<1> QED BY <1>1, <1>6, <1>7, <1>8, <1>9 DEF Steady

\* A reorganisation, coin by coin.
LEMMA ReorgCoin ==
  ASSUME blocks \subseteq TxPoWs, Sound(blocks), Closed(blocks), state.tip \in blocks,
         NEW b \in blocks, Reorg(b), NEW x \in blocks, NEW c \in ToSet(Outputs[x]),
         NEW U, U = Line[state.tip] \ Line[b], NEW O, O = Line[b] \ Line[state.tip]
  PROVE  c \in utxo' <=>
           /\ Spenders(blocks, c) \cap O = {}
           /\ x \in O \/ (x \notin U /\ (Spenders(blocks, c) \cap U # {} \/ c \in utxo))
<1>1. PICK mid : /\ \A d : d \in mid <=> Unapplied(d, utxo, U)
                 /\ \A d : d \in utxo' <=> Applied(d, mid, O)
  BY ReorgGives
<1>2. U \subseteq blocks /\ O \subseteq blocks
  BY DEF Closed
<1>3. \A y \in blocks : c \in Inputs[y] => x \in Line[y] /\ x # y
  BY CoinOrder
<1>4. \A y \in blocks : c \in ToSet(Outputs[y]) => y = x
  BY OlderChainAssumption
<1>5. /\ Spenders(blocks, c) \cap O = {} <=> \A y \in O : c \notin Inputs[y]
      /\ Spenders(blocks, c) \cap U = {} <=> \A y \in U : c \notin Inputs[y]
  BY <1>2 DEF Spenders
<1>6. c \in mid <=> x \notin U /\ ((\E y \in U : c \in Inputs[y]) \/ c \in utxo)
  BY <1>1, <1>2, <1>3, <1>4 DEF Unapplied
<1>7. c \in utxo' <=> (\A y \in O : c \notin Inputs[y]) /\ (x \in O \/ c \in mid)
  BY <1>1, <1>2, <1>3, <1>4 DEF Applied
<1> QED BY <1>5, <1>6, <1>7

\* A reorganisation is to a stored block.
LEMMA ReorgStored ==
  ASSUME blocks \subseteq TxPoWs, NEW b \in TxPoWs, Reorg(b)
  PROVE  b \in blocks
<1> DEFINE t == Ancestry(b, MaxDepth)
<1>1. IsAncestry(t, b)
  BY AncestryIs
<1>2. ToSet(t) \subseteq blocks
  BY DEF Reorg, AllStored
<1> HIDE DEF t
<1>3. 1 \in DOMAIN t /\ t[1] = b
  BY <1>1 DEF IsAncestry
<1> QED BY <1>2, <1>3 DEF ToSet

LEMMA ReorgSteady ==
  ASSUME blocks \subseteq TxPoWs, Sound(blocks), TipIs(blocks, state),
         Steady(blocks, state.tip, left, utxo), NEW b \in blocks, Reorg(b)
  PROVE  Steady(blocks, b, left', utxo')
<1> DEFINE here == state.tip
           U == Line[here] \ Line[b]
           O == Line[b] \ Line[here]
<1>1. Closed(blocks) /\ here \in blocks
  BY DEF Steady, TipIs
<1>2. /\ left' = (left \cup U) \ O
      /\ \E mid : /\ \A d : d \in mid <=> Unapplied(d, utxo, U)
                  /\ \A d : d \in utxo' <=> Applied(d, mid, O)
  BY <1>1, ReorgGives
<1>3. U \subseteq blocks /\ O \subseteq blocks /\ left' \subseteq blocks
  BY <1>1, <1>2 DEF Closed, Steady
<1>4. ASSUME NEW x \in Trunk(blocks) PROVE x \in left' <=> x \notin Line[b]
  <2>1. x \in left <=> x \notin Line[here]
    BY <1>4 DEF Steady
  <2> QED BY <1>2, <2>1
<1>5. ASSUME NEW c \in utxo' PROVE \E x \in blocks : c \in ToSet(Outputs[x])
  <2>1. PICK mid : /\ \A d : d \in mid <=> Unapplied(d, utxo, U)
                   /\ \A d : d \in utxo' <=> Applied(d, mid, O)
    BY <1>2
  <2>2. \/ \E x \in O : c \in ToSet(Outputs[x])
        \/ \E x \in U : c \in Inputs[x]
        \/ c \in utxo
    BY <1>5, <2>1 DEF Applied, Unapplied
  <2>3. ASSUME NEW x \in U, c \in Inputs[x] PROVE \E z \in blocks : c \in ToSet(Outputs[z])
    <3>1. \E z \in Line[x] : c \in ToSet(Outputs[z])
      BY <1>1, <1>3, <2>3, CoinOrder
    <3> QED BY <1>1, <1>3, <2>3, <3>1 DEF Closed
  <2> QED BY <1>3, <2>2, <2>3 DEF Steady
<1>6. ASSUME NEW x \in Trunk(blocks), NEW c \in ToSet(Outputs[x]),
             Spenders(blocks, c) \subseteq Trunk(blocks)
      PROVE  c \in utxo' <=> x \notin left' /\ Spenders(blocks, c) \subseteq left'
  <2> DEFINE S == Spenders(blocks, c)
  <2> SUFFICES c \in utxo' <=> x \notin left' /\ S \subseteq left'
    OBVIOUS
  <2>1. x \in blocks
    BY <1>6 DEF Trunk
  <2>2. c \in utxo' <=> S \cap O = {} /\ (x \in O \/ (x \notin U /\ (S \cap U # {} \/ c \in utxo)))
    <3>1. U = Line[state.tip] \ Line[b] /\ O = Line[b] \ Line[state.tip]
      OBVIOUS
    <3> HIDE DEF U, O, here
    <3> QED BY <1>1, <2>1, <3>1, ReorgCoin DEF here
  <2>3. c \in utxo <=> x \notin left /\ S \subseteq left
    BY <1>6 DEF Steady
  <2>4. \A y \in S : y \in Trunk(blocks) /\ y \in blocks /\ c \in Inputs[y]
    BY <1>6 DEF Spenders
  <2>5. \A y \in S : x \in Line[y]
    BY <1>1, <2>1, <2>4, CoinOrder
  <2>6. \A y, z \in S : y = z
    <3> TAKE y, z \in S
    <3>1. y \in Line[z] \/ z \in Line[y]
      BY <2>4 DEF Trunk
    <3> QED BY <1>1, <2>4, <3>1, CoinOrder
  <2>7. /\ x \in left <=> x \notin Line[here]
        /\ x \in left' <=> x \notin Line[b]
        /\ \A y \in S : (y \in left <=> y \notin Line[here]) /\ (y \in left' <=> y \notin Line[b])
    BY <1>4, <1>6, <2>4 DEF Steady
  <2>8. \A y \in S : (y \in Line[here] => x \in Line[here]) /\ (y \in Line[b] => x \in Line[b])
    BY <1>1, <2>5, LineOrder
  <2>9. /\ x \in O <=> x \in Line[b] /\ x \notin Line[here]
        /\ x \in U <=> x \in Line[here] /\ x \notin Line[b]
        /\ \A y : y \in O <=> y \in Line[b] /\ y \notin Line[here]
        /\ \A y : y \in U <=> y \in Line[here] /\ y \notin Line[b]
    OBVIOUS
  <2> HIDE DEF S, U, O
  <2>10. CASE S = {}
    <3>1. c \in utxo' <=> x \in O \/ (x \notin U /\ c \in utxo)
      BY <2>2, <2>10
    <3>2. (c \in utxo <=> x \notin left) /\ S \subseteq left'
      BY <2>3, <2>10
    <3> QED BY <2>7, <2>9, <3>1, <3>2
  <2>11. CASE S # {}
    <3>1. PICK y \in S : TRUE
      BY <2>11
    <3>2. S = {y}
      BY <2>6, <3>1
    <3>3. c \in utxo' <=> y \notin O /\ (x \in O \/ (x \notin U /\ (y \in U \/ c \in utxo)))
      BY <2>2, <3>2
    <3>4. (c \in utxo <=> x \notin left /\ y \in left) /\ (S \subseteq left' <=> y \in left')
      BY <2>3, <3>2
    <3> QED BY <2>7, <2>8, <2>9, <3>1, <3>3, <3>4
  <2> QED BY <2>10, <2>11
<1> QED BY <1>1, <1>3, <1>4, <1>5, <1>6 DEF Steady

LEMMA SoundPart ==
  ASSUME NEW C, NEW B \in SUBSET C, Sound(C)
  PROVE  Sound(B)
  BY DEF Sound

\* Whatever lies on a line with a new block at its end has a lower number.
LEMMA NewOnTop ==
  ASSUME blocks \subseteq TxPoWs, TipIs(blocks, state), NEW b \in TxPoWs, b \notin blocks,
         Sound(blocks \cup {b}), Closed(blocks \cup {b}), blocks \subseteq Line[b]
  PROVE  BlockNumber[b] >= state.height
<1>1. CASE blocks = {}
  BY <1>1, OlderChainAssumption DEF TipIs
<1>2. CASE blocks # {}
  <2>1. state.tip \in blocks /\ state.height = BlockNumber[state.tip]
    BY <1>2 DEF TipIs
  <2>2. state.tip \in Line[b] /\ state.tip # b /\ b \in blocks \cup {b}
    BY <2>1
  <2>3. BlockNumber[state.tip] < BlockNumber[b]
    BY <2>2, LineOrder
  <2>4. BlockNumber[state.tip] \in Nat /\ BlockNumber[b] \in Nat
    BY <2>1, OlderChainAssumption
  <2> QED BY <2>1, <2>3, <2>4
<1> QED BY <1>1, <1>2

LEMMA StoreKeeps ==
  ASSUME ChainInv, NEW b \in TxPoWs, Store(b)
  PROVE  ChainInv'
<1>1. /\ b \notin blocks /\ blocks' = blocks \cup {b} /\ utxo' = ApplyCoins(utxo, b)
      /\ state' = IF BlockNumber[b] >= state.height
                  THEN [tip |-> b, height |-> BlockNumber[b]] ELSE state
      /\ late' = IF Line[b] \ {b} \subseteq blocks \ left THEN late ELSE late \cup {b}
      /\ left' = left
  BY DEF Store
<1>2. TipIs(blocks', state')
  <2>1. BlockNumber[b] \in Nat
    BY OlderChainAssumption
  <2>2. CASE BlockNumber[b] >= state.height
    BY <1>1, <2>1, <2>2 DEF TipIs
  <2>3. CASE ~ (BlockNumber[b] >= state.height)
    BY <1>1, <2>1, <2>3 DEF TipIs, ChainInv
  <2> QED BY <2>2, <2>3
<1>3. ASSUME late' = {}, Sound(blocks') PROVE Steady(blocks', state'.tip, left', utxo')
  <2>1. late = {} /\ Line[b] \ {b} \subseteq blocks \ left
    BY <1>1, <1>3
  <2>2. Steady(blocks, state.tip, left, utxo)
    BY <1>1, <1>3, <2>1, SoundPart DEF ChainInv
  <2>3. Closed(blocks \cup {b})
    BY <2>1, <2>2 DEF Steady, Closed
  <2>4. blocks \subseteq Line[b] => BlockNumber[b] >= state.height
    BY <1>1, <1>3, <2>3, NewOnTop DEF ChainInv
  <2>5. state'.tip \in {b, state.tip} /\ (blocks \subseteq Line[b] => state'.tip = b)
    BY <1>1, <2>4
  <2> QED BY <1>1, <1>3, <2>1, <2>2, <2>5, StoreSteady
<1> QED BY <1>1, <1>2, <1>3 DEF ChainInv

LEMMA ReorgKeeps ==
  ASSUME ChainInv, NEW b \in TxPoWs, Reorg(b)
  PROVE  ChainInv'
<1>1. blocks' = blocks /\ late' = late /\ state' = [tip |-> b, height |-> BlockNumber[b]]
  BY DEF Reorg
<1>2. b \in blocks
  BY ReorgStored DEF ChainInv
<1>3. TipIs(blocks', state')
  BY <1>1, <1>2, OlderChainAssumption DEF TipIs
<1>4. late = {} /\ Sound(blocks) => Steady(blocks, b, left', utxo')
  BY <1>2, ReorgSteady DEF ChainInv
<1> QED BY <1>1, <1>3, <1>4 DEF ChainInv

\* From any of its blocks on, a complete line is complete.
LEMMA TailComplete ==
  ASSUME NEW s, NEW N, IsLine(s, N), NEW i \in 1 .. N
  PROVE  Complete(s[i])
<1> DEFINE t == [j \in 1 .. N - i + 1 |-> s[i + j - 1]]
<1>1. N \in Nat /\ N - i + 1 \in 1 .. MaxDepth /\ \A j \in 1 .. N - i + 1 : i + j - 1 \in 1 .. N
  BY OlderChainAssumption DEF IsLine
<1>2. t \in [1 .. N - i + 1 -> TxPoWs] /\ t[1] = s[i] /\ t[N - i + 1] = s[N]
  BY <1>1 DEF IsLine
<1>3. ASSUME NEW j \in 1 .. (N - i + 1) - 1
      PROVE  BlockNumber[t[j]] # 0 /\ t[j + 1] = SuperParent[t[j]]
  <2>1. /\ j \in 1 .. N - i + 1 /\ j + 1 \in 1 .. N - i + 1
        /\ i + j - 1 \in 1 .. N - 1 /\ i + (j + 1) - 1 = (i + j - 1) + 1
    BY <1>1
  <2>2. t[j] = s[i + j - 1] /\ t[j + 1] = s[(i + j - 1) + 1]
    BY <2>1
  <2> QED BY <2>1, <2>2 DEF IsLine
<1> HIDE DEF t
<1>4. IsLine(t, N - i + 1)
  BY <1>1, <1>2, <1>3 DEF IsLine
<1> QED BY <1>2, <1>4 DEF Complete

\* A reorganisation between the only two branches leaves the coins of the one
\* it moves to.
LEMMA ReorgSettles ==
  ASSUME ChainInv, NEW b \in TxPoWs, Reorg(b), Settled(b)
  PROVE  utxo' = CoinsOf(b)
<1> DEFINE here == state.tip
           U == Line[here] \ Line[b]
           O == Line[b] \ Line[here]
<1>1. /\ blocks \subseteq TxPoWs /\ b \in blocks /\ here \in blocks /\ late = {}
      /\ blocks \subseteq Line[here] \cup Line[b] /\ TipIs(blocks, state)
      /\ \A x \in blocks : x \in Named /\ Fits(x)
      /\ Within(b) /\ Within(here)
  <2>1. b \in blocks
    BY ReorgStored DEF ChainInv
  <2> QED BY <2>1 DEF ChainInv, TipIs, Settled
<1>2. ASSUME NEW x \in blocks, NEW z \in {b, here}, x \in Line[z] PROVE Complete(x)
  <2>1. PICK N : IsLine(Ancestry(z, MaxDepth), N) /\ Ancestry(z, MaxDepth)[1] = z
    BY <1>1, LineOfWalk
  <2> DEFINE s == Ancestry(z, MaxDepth)
  <2>2. 1 \in 1 .. N
    BY <2>1, OlderChainAssumption DEF IsLine
  <2>3. Line[s[1]] = {s[i] : i \in 1 .. N}
    BY <2>1, <2>2, LineFrom
  <2>4. PICK i \in 1 .. N : x = s[i]
    BY <1>2, <2>1, <2>3
  <2> QED BY <2>1, <2>4, TailComplete
<1>3. Sound(blocks)
  BY <1>1, <1>2 DEF Sound
<1>4. Steady(blocks, here, left, utxo) /\ Closed(blocks)
  BY <1>1, <1>3 DEF ChainInv, Steady
<1>5. Steady(blocks, b, left', utxo')
  BY <1>1, <1>3, <1>4, ReorgSteady
<1>6. Line[b] \subseteq blocks /\ Line[here] \subseteq blocks
  BY <1>1, <1>4 DEF Closed
<1>7. \A x \in blocks : x \in Line[here] \cap Line[b] => x \in Trunk(blocks)
  <2> SUFFICES ASSUME NEW x \in blocks, x \in Line[here] \cap Line[b], NEW y \in blocks
               PROVE  x \in Line[y] \/ y \in Line[x]
    BY DEF Trunk
  <2> QED BY <1>1, <1>3, <1>4, LineOrder
<1>8. ASSUME NEW x \in blocks, NEW c \in ToSet(Outputs[x])
      PROVE  c \in utxo' <=> x \in Line[b] /\ \A y \in Line[b] : c \notin Inputs[y]
  <2> DEFINE S == Spenders(blocks, c)
  <2>1. c \in utxo' <=> S \cap O = {} /\ (x \in O \/ (x \notin U /\ (S \cap U # {} \/ c \in utxo)))
    <3>1. U = Line[state.tip] \ Line[b] /\ O = Line[b] \ Line[state.tip]
      OBVIOUS
    <3> HIDE DEF U, O, here
    <3> QED BY <1>1, <1>3, <1>4, <3>1, ReorgCoin DEF here
  <2>2. (\A y \in Line[b] : c \notin Inputs[y]) <=> S \cap Line[b] = {}
    BY <1>6 DEF Spenders
  <2>3. \A y \in S : y \in blocks /\ c \in Inputs[y]
    BY DEF Spenders
  <2>4. \A y \in S : x \in Line[y]
    BY <1>3, <1>4, <2>3, CoinOrder
  <2>5. \A y \in S : (y \in Line[here] => x \in Line[here])
    BY <1>1, <1>3, <1>4, <2>4, LineOrder
  <2> HIDE DEF S
  <2>6. CASE x \notin Line[b]
    BY <1>1, <2>1, <2>6
  <2>7. CASE x \in O
    <3>1. S \cap Line[b] = S \cap O
      BY <2>5, <2>7
    <3> QED BY <2>1, <2>2, <2>7, <3>1
  <2>8. CASE x \in Line[b] /\ x \in Line[here]
    <3>1. c \in utxo' <=> S \cap O = {} /\ (S \cap U # {} \/ c \in utxo)
      BY <2>1, <2>8
    <3>2. CASE S \cap U # {}
      <4>1. PICK y \in S : y \in Line[here] /\ y \notin Line[b]
        BY <3>2
      <4>2. ASSUME NEW z \in S, z \in Line[b], z \in Line[here] PROVE FALSE
        <5>1. z \in Line[y] \/ y \in Line[z]
          BY <1>1, <1>3, <1>4, <4>1, <4>2, LineOrder
        <5>2. y \notin Line[z]
          BY <1>1, <1>3, <1>4, <4>1, <4>2, LineOrder
        <5>3. z \in Line[y] /\ z # y
          BY <4>1, <4>2, <5>1, <5>2
        <5> QED BY <1>3, <1>4, <2>3, <4>2, <5>3, CoinOrder
      <4>3. S \cap Line[b] = S \cap O
        BY <4>2
      <4> QED BY <2>2, <2>8, <3>1, <3>2, <4>3
    <3>3. CASE S \cap U = {}
      <4>1. CASE S \cap O # {}
        BY <2>2, <3>1, <4>1
      <4>2. CASE S \cap O = {}
        <5>1. \A y \in S : y \in Line[here] /\ y \in Line[b]
          BY <1>1, <2>3, <3>3, <4>2
        <5>2. x \in Trunk(blocks) /\ S \subseteq Trunk(blocks)
          BY <1>7, <2>3, <2>8, <5>1
        <5>3. c \in utxo <=> x \notin left /\ S \subseteq left
          BY <1>4, <5>2 DEF Steady, S
        <5>4. x \notin left /\ \A y \in S : y \notin left
          BY <1>4, <2>8, <5>1, <5>2 DEF Steady
        <5>5. c \in utxo <=> S = {}
          BY <5>3, <5>4
        <5>6. S \cap Line[b] = S
          BY <5>1
        <5> QED BY <2>2, <2>8, <3>1, <3>3, <4>2, <5>5, <5>6
      <4> QED BY <4>1, <4>2
    <3> QED BY <3>2, <3>3
  <2> QED BY <2>6, <2>7, <2>8
<1>9. \A c \in utxo' : \E x \in blocks : c \in ToSet(Outputs[x])
  BY <1>5 DEF Steady
<1>10. \A c : c \in CoinsOf(b) <=> /\ \E x \in Line[b] : c \in ToSet(Outputs[x])
                                   /\ \A y \in Line[b] : c \notin Inputs[y]
  <2> TAKE c
  <2>1. c \in UNION {ToSet(Outputs[x]) : x \in Line[b]} <=> \E x \in Line[b] : c \in ToSet(Outputs[x])
    BY Zenon
  <2>2. c \in UNION {Inputs[x] : x \in Line[b]} <=> \E x \in Line[b] : c \in Inputs[x]
    BY Zenon
  <2>3. c \in CoinsOf(b) <=> /\ c \in UNION {ToSet(Outputs[x]) : x \in Line[b]}
                            /\ c \notin UNION {Inputs[x] : x \in Line[b]}
    BY Zenon DEF CoinsOf
  <2> QED BY <2>1, <2>2, <2>3, Zenon
<1>11. ASSUME NEW c PROVE c \in utxo' <=> c \in CoinsOf(b)
  <2>1. ASSUME c \in utxo' PROVE c \in CoinsOf(b)
    <3>1. PICK x \in blocks : c \in ToSet(Outputs[x])
      BY <1>9, <2>1
    <3> QED BY <1>8, <1>10, <2>1, <3>1
  <2>2. ASSUME c \in CoinsOf(b) PROVE c \in utxo'
    <3>1. PICK x \in Line[b] : c \in ToSet(Outputs[x])
      BY <1>10, <2>2
    <3> QED BY <1>6, <1>8, <1>10, <2>2, <3>1
  <2> QED BY <2>1, <2>2
<1> QED BY <1>11

(* The invariant of the pool.                                              *)

\* What is left of a sequence.
LEMMA ExceptIs ==
  ASSUME NEW T, NEW s \in Seq(T), NEW out
  PROVE  /\ Except(s, out) \in Seq(T)
         /\ ToSet(Except(s, out)) = ToSet(s) \ out
         /\ IsInjective(s) => IsInjective(Except(s, out))
<1> DEFINE X == Seq(T)
           N == Len(s)
           step(v, k) == IF s[k] \in out THEN v ELSE Append(v, s[k])
           F == [k \in 1 .. N |-> [v \in X |-> step(v, k)]]
           body(g) == [n \in 0 .. N |-> IF n = 0 THEN <<>> ELSE step(g[n - 1], n)]
           f == CHOOSE g : g = body(g)
<1>1. N \in Nat /\ <<>> \in X /\ \A k \in 1 .. N : s[k] \in T
  OBVIOUS
<1>2. \A v \in X, k \in 1 .. N : step(v, k) \in X
  BY <1>1
<1>3. PICK g : Recursive(g, N, X, <<>>, F)
  <2>1. F \in [1 .. N -> [X -> X]]
    BY <1>2
  <2> HIDE DEF N, X, F
  <2> QED BY <1>1, <2>1, RecursionExists DEF Recursion
<1>4. g \in [0 .. N -> X] /\ g[0] = <<>> /\ \A k \in 1 .. N : g[k] = step(g[k - 1], k)
  <2>1. ASSUME NEW k \in 1 .. N PROVE F[k][g[k - 1]] = step(g[k - 1], k)
    <3>1. k - 1 \in 0 .. N
      BY <1>1
    <3>2. g[k - 1] \in X
      <4> HIDE DEF X, N, F
      <4> QED BY <1>3, <3>1 DEF Recursive
    <3> QED BY <3>2
  <2> HIDE DEF X, N, F, step
  <2> QED BY <1>3, <2>1 DEF Recursive
<1>5. g = body(g)
  <2>1. \A n \in 0 .. N : n = 0 \/ n \in 1 .. N
    BY <1>1
  <2> HIDE DEF step, N, X
  <2>2. \A n \in 0 .. N : g[n] = IF n = 0 THEN <<>> ELSE step(g[n - 1], n)
    BY <1>4, <2>1
  <2> QED BY <1>4, <2>2
<1>6. f = body(f)
  <2> HIDE DEF body
  <2> QED BY <1>5
<1>7. Except(s, out) = f[N]
  BY DEF Except
<1> HIDE DEF f
<1>8. f[0] = <<>> /\ \A k \in 1 .. N : f[k] = step(f[k - 1], k)
  <2> HIDE DEF step
  <2>1. \A n \in 0 .. N : f[n] = IF n = 0 THEN <<>> ELSE step(f[n - 1], n)
    BY <1>6
  <2>2. 0 \in 0 .. N /\ \A k \in 1 .. N : k \in 0 .. N /\ k # 0
    BY <1>1
  <2> QED BY <2>1, <2>2
<1> DEFINE P(v, n) == /\ v \in Seq(T) /\ ToSet(v) = {s[i] : i \in 1 .. n} \ out
                      /\ IsInjective(s) => IsInjective(v)
           K == {n \in 0 .. N : P(f[n], n)}
<1>9. 0 \in K
  <2>1. P(<<>>, 0)
    BY DEF ToSet, IsInjective
  <2> HIDE DEF P
  <2> QED BY <1>1, <1>8, <2>1
<1>10. ASSUME NEW k \in 1 .. N, k - 1 \in K PROVE k \in K
  <2>1. P(f[k - 1], k - 1) /\ f[k] = step(f[k - 1], k) /\ k \in 0 .. N
    BY <1>8, <1>10
  <2> DEFINE v == f[k - 1]
             w == f[k]
  <2> HIDE DEF v, w
  <2> SUFFICES P(w, k)
    BY <2>1 DEF w
  <2>2. P(v, k - 1) /\ w = IF s[k] \in out THEN v ELSE Append(v, s[k])
    BY <2>1 DEF v, w
  <2>3. {s[i] : i \in 1 .. k} = {s[i] : i \in 1 .. k - 1} \cup {s[k]}
    <3>1. 1 .. k = (1 .. k - 1) \cup {k}
      OBVIOUS
    <3> QED BY <3>1
  <2>4. CASE s[k] \in out
    BY <2>2, <2>3, <2>4
  <2>5. CASE s[k] \notin out
    <3>1. /\ w \in Seq(T) /\ DOMAIN w = 1 .. Len(v) + 1 /\ DOMAIN v = 1 .. Len(v)
          /\ \A i \in 1 .. Len(v) : w[i] = v[i]
          /\ w[Len(v) + 1] = s[k] /\ Len(v) \in Nat
      BY <1>1, <2>2, <2>5
    <3>2. ToSet(w) = ToSet(v) \cup {s[k]}
      BY <3>1 DEF ToSet
    <3>3. ASSUME IsInjective(s) PROVE IsInjective(w)
      <4>1. \A i \in 1 .. k - 1 : s[i] # s[k]
        <5>1. DOMAIN s = 1 .. N /\ \A i \in 1 .. k - 1 : i \in DOMAIN s /\ i # k
          OBVIOUS
        <5> QED BY <3>3, <5>1 DEF IsInjective
      <4>2. s[k] \notin ToSet(v)
        BY <2>2, <4>1
      <4>3. \A i \in 1 .. Len(v) : w[i] \in ToSet(v)
        BY <3>1 DEF ToSet
      <4>4. \A i, j \in 1 .. Len(v) : w[i] = w[j] => i = j
        BY <2>2, <3>1, <3>3 DEF IsInjective
      <4>5. \A i \in DOMAIN w : i \in 1 .. Len(v) \/ i = Len(v) + 1
        BY <3>1
      <4> QED BY <3>1, <4>2, <4>3, <4>4, <4>5 DEF IsInjective
    <3>4. ToSet(w) = {s[i] : i \in 1 .. k} \ out
      BY <2>2, <2>3, <2>5, <3>2
    <3> QED BY <3>1, <3>3, <3>4
  <2> QED BY <2>4, <2>5
<1>11. P(f[N], N)
  <2>1. 0 .. N \subseteq K
    <3> HIDE DEF K, N
    <3> QED BY <1>1, <1>9, <1>10, BoundedInduction
  <2> HIDE DEF P
  <2> QED BY <1>1, <2>1
<1>12. ToSet(s) = {s[i] : i \in 1 .. N}
  BY DEF ToSet
<1> QED BY <1>7, <1>11, <1>12

\* No transaction is in the pool twice, no two of them spend the same coin, and
\* the reserved coins are theirs.
ReservedBy(xs) == UNION {Inputs[x] : x \in xs}
PendingInv ==
  /\ pending \in Seq(TxPoWs) /\ IsInjective(pending)
  /\ spentInPool = ReservedBy(ToSet(pending))
  /\ \A x, y \in ToSet(pending) : x # y => Inputs[x] \cap Inputs[y] = {}

LEMMA InReserved ==
  ASSUME NEW xs, NEW c
  PROVE  c \in ReservedBy(xs) <=> \E x \in xs : c \in Inputs[x]
  BY Zenon DEF ReservedBy

LEMMA EvictIs ==
  ASSUME PendingInv, NEW out \in SUBSET ToSet(pending)
  PROVE  /\ Evict(out).order \in Seq(TxPoWs) /\ IsInjective(Evict(out).order)
         /\ ToSet(Evict(out).order) = ToSet(pending) \ out
         /\ Evict(out).spent = ReservedBy(ToSet(pending) \ out)
<1>1. Evict(out).order = Except(pending, out) /\ Evict(out).spent = spentInPool \ ReservedBy(out)
  BY Zenon DEF Evict, ReservedBy
<1>2. \A c : c \in spentInPool <=> \E x \in ToSet(pending) : c \in Inputs[x]
  BY InReserved DEF PendingInv
<1>3. \A c : c \in ReservedBy(out) <=> \E x \in out : c \in Inputs[x]
  BY InReserved
<1>4. \A c : c \in ReservedBy(ToSet(pending) \ out) <=> \E x \in ToSet(pending) \ out : c \in Inputs[x]
  BY InReserved
<1>5. \A c : \A x, y \in ToSet(pending) : c \in Inputs[x] /\ c \in Inputs[y] => x = y
  BY DEF PendingInv
<1>6. spentInPool \ ReservedBy(out) = ReservedBy(ToSet(pending) \ out)
  <2>1. ASSUME NEW c \in spentInPool, c \notin ReservedBy(out)
        PROVE  c \in ReservedBy(ToSet(pending) \ out)
    BY <1>2, <1>3, <1>4, <2>1
  <2>2. ASSUME NEW c \in ReservedBy(ToSet(pending) \ out)
        PROVE  c \in spentInPool /\ c \notin ReservedBy(out)
    <3>1. PICK x \in ToSet(pending) : x \notin out /\ c \in Inputs[x]
      BY <1>4
    <3>2. \A y \in out : c \notin Inputs[y]
      BY <1>5, <3>1
    <3> QED BY <1>2, <1>3, <3>1, <3>2
  <2> QED BY <2>1, <2>2
<1>7. /\ Except(pending, out) \in Seq(TxPoWs) /\ IsInjective(Except(pending, out))
      /\ ToSet(Except(pending, out)) = ToSet(pending) \ out
  BY ExceptIs DEF PendingInv
<1> QED BY <1>1, <1>6, <1>7

\* The pool after eviction.
LEMMA EvictKeeps ==
  ASSUME PendingInv, NEW out \in SUBSET ToSet(pending), SetPool(Evict(out))
  PROVE  PendingInv' /\ ToSet(pending') = ToSet(pending) \ out
<1>1. pending' = Evict(out).order /\ spentInPool' = Evict(out).spent
  BY DEF SetPool
<1>2. /\ pending' \in Seq(TxPoWs) /\ IsInjective(pending')
      /\ ToSet(pending') = ToSet(pending) \ out
      /\ spentInPool' = ReservedBy(ToSet(pending'))
  BY <1>1, EvictIs
<1>3. \A x, y \in ToSet(pending') : x # y => Inputs[x] \cap Inputs[y] = {}
  BY <1>2 DEF PendingInv
<1> QED BY <1>2, <1>3 DEF PendingInv

LEMMA AddKeeps ==
  ASSUME PendingInv, NEW x \in TxPoWs, AddPending(x)
  PROVE  PendingInv'
<1> DEFINE out == IF Len(pending) >= PoolSize THEN {Head(pending)} ELSE {}
           p == Evict(out)
<1>1. /\ x \notin ToSet(pending) /\ Inputs[x] \cap spentInPool = {}
      /\ pending' = Append(p.order, x) /\ spentInPool' = p.spent \cup Inputs[x]
  BY DEF AddPending, SetPool
<1>2. out \in SUBSET ToSet(pending)
  <2>1. CASE Len(pending) >= PoolSize
    <3>1. pending \in Seq(TxPoWs) /\ pending # <<>>
      BY <2>1, OlderChainAssumption DEF PendingInv
    <3>2. 1 \in DOMAIN pending /\ Head(pending) = pending[1]
      BY <3>1
    <3> QED BY <3>2 DEF ToSet
  <2> QED BY <2>1
<1>3. /\ p.order \in Seq(TxPoWs) /\ IsInjective(p.order)
      /\ ToSet(p.order) = ToSet(pending) \ out
      /\ p.spent = ReservedBy(ToSet(pending) \ out)
  <2> HIDE DEF out
  <2> QED BY <1>2, EvictIs
<1> DEFINE o == p.order
<1> HIDE DEF p, out, o
<1>4. /\ pending' \in Seq(TxPoWs) /\ DOMAIN pending' = 1 .. Len(o) + 1 /\ DOMAIN o = 1 .. Len(o)
      /\ \A i \in 1 .. Len(o) : pending'[i] = o[i]
      /\ pending'[Len(o) + 1] = x /\ Len(o) \in Nat
  BY <1>1, <1>3 DEF o
<1>5. ToSet(pending') = ToSet(o) \cup {x} /\ ToSet(o) = ToSet(pending) \ out
  <2>1. ToSet(o) = ToSet(pending) \ out
    BY <1>3 DEF o
  <2>2. ToSet(pending') = ToSet(o) \cup {x}
    BY <1>4 DEF ToSet
  <2> QED BY <2>1, <2>2
<1>6. IsInjective(pending')
  <2>1. \A i \in 1 .. Len(o) : pending'[i] \in ToSet(o) /\ pending'[i] # x
    BY <1>1, <1>4, <1>5 DEF ToSet
  <2>2. \A i, j \in 1 .. Len(o) : pending'[i] = pending'[j] => i = j
    BY <1>3, <1>4 DEF IsInjective, o
  <2>3. \A i \in DOMAIN pending' : i \in 1 .. Len(o) \/ i = Len(o) + 1
    BY <1>4
  <2> QED BY <1>4, <2>1, <2>2, <2>3 DEF IsInjective
<1>7. \A c : c \in spentInPool' <=> \E y \in ToSet(pending') : c \in Inputs[y]
  BY <1>1, <1>3, <1>5, InReserved
<1>8. spentInPool' = ReservedBy(ToSet(pending'))
  BY <1>7, InReserved
<1>9. \A y \in ToSet(pending) : Inputs[x] \cap Inputs[y] = {}
  BY <1>1, InReserved DEF PendingInv
<1>10. \A y, z \in ToSet(pending') : y # z => Inputs[y] \cap Inputs[z] = {}
  BY <1>5, <1>9 DEF PendingInv
<1> QED BY <1>4, <1>6, <1>8, <1>10 DEF PendingInv

(* The steps of the chain processor.                                       *)

OlderChainInv == ChainInv /\ PendingInv

LEMMA OlderChainInitial == OlderChainInit => OlderChainInv
<1> SUFFICES ASSUME OlderChainInit PROVE OlderChainInv
  OBVIOUS
<1> USE DEF OlderChainInit
<1>1. ChainInv
  <2>1. TipIs(blocks, state)
    BY DEF TipIs
  <2>2. Steady(blocks, state.tip, left, utxo)
    BY DEF Steady, Closed, Trunk
  <2> QED BY <2>1, <2>2 DEF ChainInv
<1>2. PendingInv
  <2>1. ToSet(pending) = {}
    BY DEF ToSet
  <2>2. spentInPool = ReservedBy(ToSet(pending))
    BY <2>1, InReserved
  <2> QED BY <2>1, <2>2 DEF PendingInv, IsInjective
<1> QED BY <1>1, <1>2 DEF OlderChainInv

LEMMA OlderChainStep ==
  ASSUME OlderChainInv, [OlderChainNext]_olderChainVars
  PROVE  OlderChainInv'
<1> USE DEF OlderChainInv
<1>1. ASSUME NEW b \in TxPoWs, AddPending(b) PROVE OlderChainInv'
  <2>1. ChainInv'
    BY <1>1 DEF AddPending, ChainInv
  <2> QED BY <1>1, <2>1, AddKeeps
<1>2. ASSUME NEW b \in TxPoWs, RemovePending(b) PROVE OlderChainInv'
  <2>1. ChainInv'
    BY <1>2 DEF RemovePending, ChainInv
  <2>2. {b} \in SUBSET ToSet(pending) /\ SetPool(Evict({b}))
    BY <1>2 DEF RemovePending
  <2> QED BY <2>1, <2>2, EvictKeeps
<1>3. ASSUME NEW b \in TxPoWs, ProcessTxPoW(b) PROVE OlderChainInv'
  <2>1. ChainInv'
    BY <1>3, StoreKeeps DEF ProcessTxPoW
  <2>2. Conflicts(Inputs[b]) \in SUBSET ToSet(pending) /\ SetPool(Evict(Conflicts(Inputs[b])))
    BY <1>3 DEF ProcessTxPoW, EvictConflicts, Conflicts
  <2> QED BY <2>1, <2>2, EvictKeeps
<1>4. ASSUME NEW b \in TxPoWs, ProcessUnchecked(b) PROVE OlderChainInv'
  <2>1. ChainInv'
    BY <1>4, StoreKeeps DEF ProcessUnchecked
  <2>2. PendingInv'
    BY <1>4 DEF ProcessUnchecked, PendingInv
  <2> QED BY <2>1, <2>2
<1>5. ASSUME NEW b \in TxPoWs, Reorg(b) PROVE OlderChainInv'
  <2>1. ChainInv'
    BY <1>5, ReorgKeeps
  <2>2. PendingInv'
    BY <1>5 DEF Reorg, PendingInv
  <2> QED BY <2>1, <2>2
<1>6. ASSUME UNCHANGED olderChainVars PROVE OlderChainInv'
  BY <1>6 DEF olderChainVars, ChainInv, PendingInv
<1> QED BY <1>1, <1>2, <1>3, <1>4, <1>5, <1>6 DEF OlderChainNext

\* What OlderChain promises of a call, from the invariant.
Settles ==
  /\ spentInPool' = UNION {Inputs[x] : x \in ToSet(pending')}
  /\ \A b \in TxPoWs : ProcessTxPoW(b) =>
       \A x \in ToSet(pending') : Inputs[x] \cap Inputs[b] = {}
  /\ \A b \in TxPoWs : Reorg(b) /\ Settled(b) => utxo' = CoinsOf(b)

LEMMA StepSettles ==
  ASSUME OlderChainInv, OlderChainInv'
  PROVE  Settles
<1>1. spentInPool' = UNION {Inputs[x] : x \in ToSet(pending')}
  BY Zenon DEF OlderChainInv, PendingInv, ReservedBy
<1>2. ASSUME NEW b \in TxPoWs, ProcessTxPoW(b), NEW x \in ToSet(pending')
      PROVE  Inputs[x] \cap Inputs[b] = {}
  <2>1. Conflicts(Inputs[b]) \in SUBSET ToSet(pending) /\ SetPool(Evict(Conflicts(Inputs[b])))
    BY <1>2 DEF ProcessTxPoW, EvictConflicts, Conflicts
  <2>2. ToSet(pending') = ToSet(pending) \ Conflicts(Inputs[b])
    BY <2>1, EvictKeeps DEF OlderChainInv
  <2> QED BY <1>2, <2>2 DEF Conflicts
<1>3. ASSUME NEW b \in TxPoWs, Reorg(b), Settled(b) PROVE utxo' = CoinsOf(b)
  BY <1>3, ReorgSettles DEF OlderChainInv
<1> QED BY <1>1, <1>2, <1>3, Zenon DEF Settles

\* The pool's reservations are exact, and under the blocks that are sound and
\* came in time the coin set follows the trunk.
THEOREM OlderChainInvariant == OlderChainSpec => []OlderChainInv
<1>1. OlderChainInit => OlderChainInv
  BY OlderChainInitial
<1>2. OlderChainInv /\ [OlderChainNext]_olderChainVars => OlderChainInv'
  BY OlderChainStep
<1> QED BY <1>1, <1>2, PTL DEF OlderChainSpec

\* What a call of the older chain processor leaves behind is in step: reserved
\* coins are those of the pending transactions, none of which competes with a
\* block that was processed, and a reorganisation within its depth, between the
\* only two branches, leaves the coins of the branch it moves to.
THEOREM CallsAlwaysSettle == OlderChainSpec => CallsSettle
<1>1. OlderChainInv /\ OlderChainInv' => Settles
  BY StepSettles
<1>2. OlderChainSpec => [][Settles]_olderChainVars
  BY <1>1, OlderChainInvariant, PTL DEF OlderChainSpec
<1>3. CallsSettle <=> [][Settles]_olderChainVars
  BY PTL DEF CallsSettle, Settles
<1> QED BY <1>2, <1>3
=============================================================================
