--------------------------------- MODULE Hub ---------------------------------
(***************************************************************************)
(* The WebSocket hub of hub.go with the goroutines around it: the handler  *)
(* of /ws (server.go), which registers a client and starts its two pumps,  *)
(* and the goroutines that call broadcastJSON (the metrics relay of        *)
(* main.go, the alert engine, the AI goroutines).                          *)
(*                                                                         *)
(* run takes one register, unregister or broadcast at a time.  A broadcast *)
(* is offered to the clients one by one, in the order of a map iteration,  *)
(* while their write pumps go on.  A client whose queue is full is removed *)
(* and its channel closed; nobody closes its connection but its pumps.     *)
(*                                                                         *)
(* A message is its producer and its number there; a TCP connection is     *)
(* open or closed at our end, and its peer is present or gone.             *)
(***************************************************************************)
EXTENDS Naturals, Sequences

CONSTANTS
  Clients,       \* the WebSocket connections that may come
  Producers,     \* the goroutines that call broadcastJSON
  SendCap,       \* capacity of Client.send (64)
  BroadcastCap,  \* capacity of Hub.broadcast (256)
  NoMessage,     \* what run holds between two broadcasts
  MaxMessages    \* bound: the messages of one producer

ASSUME CapacityAssumption ==
  /\ SendCap \in Nat \ {0}
  /\ BroadcastCap \in Nat \ {0}
  /\ MaxMessages \in Nat

Messages == [from : Producers, n : 1..MaxMessages]

ASSUME NoMessageAssumption == NoMessage \notin Messages

VARIABLES
  broadcast,  \* Hub.broadcast
  clients,    \* Hub.clients
  msg,        \* the message run is delivering, or NoMessage
  todo,       \* the clients that are still to be offered msg
  send,       \* per client the channel Client.send
  closes,     \* per client how often send has been closed
  handler,    \* per client the handler of /ws
  reader,     \* per client readPump
  writer,     \* per client writePump
  writing,    \* per client the message writePump holds, or NoMessage
  conn,       \* per client our end of the connection
  peer,       \* per client the other end
  produced,   \* per producer the number of messages handed over
  received,   \* per client the messages written to the connection
  history,    \* the messages taken from Hub.broadcast (history variable)
  joined      \* Len(history) when the client was registered (history variable)

hubVars      == <<broadcast, clients, msg, todo>>
channelVars  == <<send, closes>>
clientVars   == <<handler, reader, writer, writing, conn, peer, received>>
historyVars  == <<history, joined>>
vars == <<broadcast, clients, msg, todo, send, closes, handler, reader, writer,
          writing, conn, peer, produced, received, history, joined>>

Init ==
  /\ broadcast = <<>> /\ clients = {} /\ msg = NoMessage /\ todo = {}
  /\ send = [c \in Clients |-> <<>>] /\ closes = [c \in Clients |-> 0]
  /\ handler = [c \in Clients |-> "idle"]
  /\ reader = [c \in Clients |-> "none"]
  /\ writer = [c \in Clients |-> "none"]
  /\ writing = [c \in Clients |-> NoMessage]
  /\ conn = [c \in Clients |-> "none"]
  /\ peer = [c \in Clients |-> "present"]
  /\ produced = [p \in Producers |-> 0]
  /\ received = [c \in Clients |-> <<>>]
  /\ history = <<>> /\ joined = [c \in Clients |-> 0]

-----------------------------------------------------------------------------
(* broadcastJSON: the producer waits while the channel is full. *)

Publish(p) ==
  /\ produced[p] < MaxMessages
  /\ Len(broadcast) < BroadcastCap
  /\ produced' = [produced EXCEPT ![p] = @ + 1]
  /\ broadcast' = Append(broadcast, [from |-> p, n |-> produced[p] + 1])
  /\ UNCHANGED <<clients, msg, todo, channelVars, clientVars, historyVars>>

-----------------------------------------------------------------------------
(* The handler of /ws. *)

\* The upgrade has succeeded; the handler waits at hub.register <- client.
Connect(c) ==
  /\ handler[c] = "idle"
  /\ handler' = [handler EXCEPT ![c] = "registering"]
  /\ conn' = [conn EXCEPT ![c] = "open"]
  /\ UNCHANGED <<hubVars, channelVars, reader, writer, writing, peer, produced,
                 received, historyVars>>

\* go writePump, go readPump.
StartPumps(c) ==
  /\ handler[c] = "registered"
  /\ handler' = [handler EXCEPT ![c] = "done"]
  /\ reader' = [reader EXCEPT ![c] = "reading"]
  /\ writer' = [writer EXCEPT ![c] = "receiving"]
  /\ UNCHANGED <<hubVars, channelVars, writing, conn, peer, produced, received,
                 historyVars>>

-----------------------------------------------------------------------------
(* Hub.run *)

Selecting == msg = NoMessage

Register(c) ==
  /\ Selecting /\ handler[c] = "registering"
  /\ clients' = clients \cup {c}
  /\ joined' = [joined EXCEPT ![c] = Len(history)]
  /\ handler' = [handler EXCEPT ![c] = "registered"]
  /\ UNCHANGED <<broadcast, msg, todo, channelVars, reader, writer, writing,
                 conn, peer, produced, received, history>>

\* Mutant of Unregister: the channel is closed without looking at the map.
UnregisterUnchecked(c) ==
  /\ Selecting /\ reader[c] = "unregistering"
  /\ reader' = [reader EXCEPT ![c] = "closing"]
  /\ clients' = clients \ {c}
  /\ closes' = [closes EXCEPT ![c] = @ + 1]
  /\ UNCHANGED <<broadcast, msg, todo, send, handler, writer, writing, conn,
                 peer, produced, received, historyVars>>

\* A client that was evicted before is not in the map any more.
Unregister(c) ==
  /\ Selecting /\ reader[c] = "unregistering"
  /\ reader' = [reader EXCEPT ![c] = "closing"]
  /\ clients' = clients \ {c}
  /\ closes' = IF c \in clients THEN [closes EXCEPT ![c] = @ + 1] ELSE closes
  /\ UNCHANGED <<broadcast, msg, todo, send, handler, writer, writing, conn,
                 peer, produced, received, historyVars>>

\* A message is received from the channel and the iteration begins.
Take ==
  /\ Selecting /\ broadcast # <<>>
  /\ broadcast' = Tail(broadcast)
  /\ history' = Append(history, Head(broadcast))
  /\ todo' = clients
  /\ msg' = IF clients = {} THEN NoMessage ELSE Head(broadcast)
  /\ UNCHANGED <<clients, channelVars, clientVars, produced, joined>>

\* The iteration over the map goes on without c, or ends.
Offered(c) ==
  /\ todo' = todo \ {c}
  /\ msg' = IF todo = {c} THEN NoMessage ELSE msg

\* case client.send <- msg
Enqueue(c) ==
  /\ ~Selecting /\ c \in todo
  /\ Len(send[c]) < SendCap
  /\ send' = [send EXCEPT ![c] = Append(@, msg)]
  /\ Offered(c)
  /\ UNCHANGED <<broadcast, clients, closes, clientVars, produced, historyVars>>

\* Mutant of Evict: run waits for a free place in the queue.
EvictWaits(c) ==
  /\ Len(send[c]) > SendCap
  /\ UNCHANGED vars

\* default: the queue is full, the client is closed and deleted.
Evict(c) ==
  /\ ~Selecting /\ c \in todo
  /\ Len(send[c]) = SendCap
  /\ closes' = [closes EXCEPT ![c] = @ + 1]
  /\ clients' = clients \ {c}
  /\ Offered(c)
  /\ UNCHANGED <<broadcast, send, clientVars, produced, historyVars>>

HubStep ==
  \/ Take
  \/ \E c \in Clients : Register(c) \/ Unregister(c) \/ Enqueue(c) \/ Evict(c)

-----------------------------------------------------------------------------
(* readPump *)

\* ReadMessage fails: the peer has gone or our end was closed.
ReadFails(c) ==
  /\ reader[c] = "reading"
  /\ peer[c] = "gone" \/ conn[c] = "closed"
  /\ reader' = [reader EXCEPT ![c] = "unregistering"]
  /\ UNCHANGED <<hubVars, channelVars, handler, writer, writing, conn, peer,
                 produced, received, historyVars>>

ReaderCloses(c) ==
  /\ reader[c] = "closing"
  /\ reader' = [reader EXCEPT ![c] = "done"]
  /\ conn' = [conn EXCEPT ![c] = "closed"]
  /\ UNCHANGED <<hubVars, channelVars, handler, writer, writing, peer, produced,
                 received, historyVars>>

Reader(c) == ReadFails(c) \/ ReaderCloses(c)

-----------------------------------------------------------------------------
(* writePump *)

\* for msg := range c.send
Receive(c) ==
  /\ writer[c] = "receiving" /\ send[c] # <<>>
  /\ writer' = [writer EXCEPT ![c] = "writing"]
  /\ writing' = [writing EXCEPT ![c] = Head(send[c])]
  /\ send' = [send EXCEPT ![c] = Tail(@)]
  /\ UNCHANGED <<hubVars, closes, handler, reader, conn, peer, produced,
                 received, historyVars>>

\* The range ends when the channel is closed and drained.
ChannelClosed(c) ==
  /\ writer[c] = "receiving" /\ send[c] = <<>> /\ closes[c] > 0
  /\ writer' = [writer EXCEPT ![c] = "closing"]
  /\ UNCHANGED <<hubVars, channelVars, handler, reader, writing, conn, peer,
                 produced, received, historyVars>>

\* WriteMessage succeeds; a peer that has gone may not have been noticed yet.
WriteSucceeds(c) ==
  /\ writer[c] = "writing" /\ conn[c] = "open"
  /\ received' = [received EXCEPT ![c] = Append(@, writing[c])]
  /\ writing' = [writing EXCEPT ![c] = NoMessage]
  /\ writer' = [writer EXCEPT ![c] = "receiving"]
  /\ UNCHANGED <<hubVars, channelVars, handler, reader, conn, peer, produced,
                 historyVars>>

\* Mutant of WriteFails: the pump goes on with the next message.
WriteFailsAndGoesOn(c) ==
  /\ writer[c] = "writing"
  /\ peer[c] = "gone" \/ conn[c] = "closed"
  /\ writing' = [writing EXCEPT ![c] = NoMessage]
  /\ writer' = [writer EXCEPT ![c] = "receiving"]
  /\ UNCHANGED <<hubVars, channelVars, handler, reader, conn, peer, produced,
                 received, historyVars>>

\* WriteMessage fails and the pump returns.
WriteFails(c) ==
  /\ writer[c] = "writing"
  /\ peer[c] = "gone" \/ conn[c] = "closed"
  /\ writing' = [writing EXCEPT ![c] = NoMessage]
  /\ writer' = [writer EXCEPT ![c] = "closing"]
  /\ UNCHANGED <<hubVars, channelVars, handler, reader, conn, peer, produced,
                 received, historyVars>>

\* Mutant of WriterCloses: the connection is left to the read pump.
WriterLeavesOpen(c) ==
  /\ writer[c] = "closing"
  /\ writer' = [writer EXCEPT ![c] = "done"]
  /\ UNCHANGED <<hubVars, channelVars, handler, reader, writing, conn, peer,
                 produced, received, historyVars>>

WriterCloses(c) ==
  /\ writer[c] = "closing"
  /\ writer' = [writer EXCEPT ![c] = "done"]
  /\ conn' = [conn EXCEPT ![c] = "closed"]
  /\ UNCHANGED <<hubVars, channelVars, handler, reader, writing, peer, produced,
                 received, historyVars>>

Writer(c) ==
  \/ Receive(c) \/ ChannelClosed(c)
  \/ WriteSucceeds(c) \/ WriteFails(c) \/ WriterCloses(c)

-----------------------------------------------------------------------------
(* The environment: the peer closes the connection or loses it. *)

PeerLeaves(c) ==
  /\ conn[c] # "none" /\ peer[c] = "present"
  /\ peer' = [peer EXCEPT ![c] = "gone"]
  /\ UNCHANGED <<hubVars, channelVars, handler, reader, writer, writing, conn,
                 produced, received, historyVars>>

Next ==
  \/ \E p \in Producers : Publish(p)
  \/ HubStep
  \/ \E c \in Clients :
       Connect(c) \/ StartPumps(c) \/ Reader(c) \/ Writer(c) \/ PeerLeaves(c)

Spec == Init /\ [][Next]_vars

\* run and the producers are scheduled; nothing is asked of any client.
HubFairness == WF_vars(HubStep) /\ \A p \in Producers : WF_vars(Publish(p))

FairSpec == Spec /\ HubFairness

\* Every goroutine of a client is scheduled and every WriteMessage returns: the
\* peer reads, or TCP gives up on it.  The code sets no write deadline.
PumpFairness ==
  \A c \in Clients :
    WF_vars(StartPumps(c)) /\ WF_vars(Reader(c)) /\ WF_vars(Writer(c))

-----------------------------------------------------------------------------
(* Properties *)

\* Type invariant of the hub, the clients and their goroutines.
TypeOK ==
  /\ broadcast \in Seq(Messages) /\ Len(broadcast) <= BroadcastCap
  /\ clients \subseteq Clients /\ todo \subseteq Clients
  /\ msg \in Messages \cup {NoMessage}
  /\ msg = NoMessage <=> todo = {}
  /\ send \in [Clients -> Seq(Messages)]
  /\ \A c \in Clients : Len(send[c]) <= SendCap
  /\ closes \in [Clients -> Nat]
  /\ handler \in [Clients -> {"idle", "registering", "registered", "done"}]
  /\ reader \in [Clients -> {"none", "reading", "unregistering", "closing", "done"}]
  /\ writer \in [Clients -> {"none", "receiving", "writing", "closing", "done"}]
  /\ writing \in [Clients -> Messages \cup {NoMessage}]
  /\ conn \in [Clients -> {"none", "open", "closed"}]
  /\ peer \in [Clients -> {"present", "gone"}]
  /\ produced \in [Producers -> 0..MaxMessages]
  /\ received \in [Clients -> Seq(Messages)]
  /\ history \in Seq(Messages)
  /\ joined \in [Clients -> Nat]

\* run panics neither with "close of closed channel" nor with "send on closed
\* channel": a channel is closed at most once, by an eviction or by an
\* unregistration, and a client in the map, or still to be offered the current
\* message, has an open one.
NoChannelPanic ==
  \A c \in Clients :
    /\ closes[c] <= 1
    /\ c \in clients \cup todo => closes[c] = 0

\* What the peer of c has been or may still be sent, in order.
Stream(c) ==
  received[c]
    \o (IF writer[c] = "writing" THEN <<writing[c]>> ELSE <<>>)
    \o (IF writer[c] \in {"closing", "done"} THEN <<>> ELSE send[c])

Leaving(c) == writer[c] \in {"closing", "done"}

Promise == INSTANCE PubSub WITH
  Subscribers <- Clients, log <- history, from <- joined, given <- received,
  until <- [c \in Clients |-> joined[c] + Len(Stream(c))],
  stage <- [c \in Clients |->
    IF handler[c] \in {"idle", "registering"} THEN "new"
    ELSE IF c \in clients /\ ~Leaving(c) THEN "member"
    ELSE "left"]

\* The hub, its queues, evictions and pumps keep the promise of PubSub step by
\* step: a client is sent the broadcasts in order and without a gap from its
\* registration on, and an evicted one misses a suffix, never a message between.
RefinesPubSub == Promise!Spec

\* However slow the clients are, no producer waits forever at the hub (nor the
\* alert engine, which holds its mutex meanwhile): all messages get through.
SlowClientsBlockNobody ==
  <>[](/\ \A p \in Producers : produced[p] = MaxMessages
       /\ broadcast = <<>> /\ todo = {})

Released(c) ==
  /\ c \notin clients /\ conn[c] = "closed"
  /\ reader[c] = "done" /\ writer[c] = "done"

\* If the pumps run, every client is given all there is or is dropped, and one
\* whose peer has gone, or that was evicted as too slow, ends up out of the map,
\* with its connection closed and both its goroutines finished.
ClientsAreServedOrReleased ==
  PumpFairness =>
    /\ Promise!Served
    /\ \A c \in Clients : (peer[c] = "gone" \/ closes[c] > 0) ~> Released(c)
=============================================================================
