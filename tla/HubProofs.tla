------------------------------- MODULE HubProofs -------------------------------
(***************************************************************************)
(* Proofs about Hub, for all sets of clients and producers and all         *)
(* capacities: type correctness, that run never panics, and that the hub   *)
(* implements PubSub.                                                      *)
(***************************************************************************)
EXTENDS Hub, SequenceTheorems, TLAPS

-----------------------------------------------------------------------------
(* The inductive invariant. *)

Unregistered(c) == handler[c] \in {"idle", "registering"}

\* The goroutines of a client: none runs before it is registered, and the map
\* holds a client from its registration until its channel is closed.
GoroutinesInv ==
  \A c \in Clients :
    /\ Unregistered(c) =>
         /\ c \notin clients /\ closes[c] = 0
         /\ send[c] = <<>> /\ received[c] = <<>> /\ joined[c] = 0
    /\ handler[c] # "done" => reader[c] = "none" /\ writer[c] = "none"
    /\ handler[c] = "done" => reader[c] # "none" /\ writer[c] # "none"
    /\ writer[c] = "writing" <=> writing[c] # NoMessage
    /\ c \in clients => reader[c] \notin {"closing", "done"}

\* Of the channels: exactly those of the clients in the map are open.
ChannelsInv ==
  /\ todo \subseteq clients
  /\ \A c \in Clients :
       /\ c \in clients => closes[c] = 0
       /\ ~Unregistered(c) /\ c \notin clients => closes[c] = 1

\* The place in history of the message before the one the pump holds, of the
\* last one the pump has taken, and of the last one on its way to the peer.
Written(c) == joined[c] + Len(received[c])

Taken(c) == Written(c) + IF writer[c] = "writing" THEN 1 ELSE 0

Offering(c) == Taken(c) + IF Leaving(c) THEN 0 ELSE Len(send[c])

\* What is on its way to a client is a stretch of history, and it reaches to the
\* end of history while the client is in the map, but for the message that is
\* being delivered.
StreamInv ==
  \A c \in Clients :
    /\ \A i \in 1..Len(received[c]) : received[c][i] = history[joined[c] + i]
    /\ writer[c] = "writing" => writing[c] = history[Written(c) + 1]
    /\ ~Leaving(c) =>
         \A i \in 1..Len(send[c]) : send[c][i] = history[Taken(c) + i]
    /\ Offering(c) <= Len(history)
    /\ c \in clients /\ ~Leaving(c) =>
         Offering(c) = Len(history) - IF c \in todo THEN 1 ELSE 0

\* The message being delivered is the last of history.
DeliveryInv == todo # {} => history # <<>> /\ msg = history[Len(history)]

Inv == TypeOK /\ GoroutinesInv /\ ChannelsInv /\ StreamInv /\ DeliveryInv

-----------------------------------------------------------------------------
(* Type correctness. *)

\* NoMessage can be told from every message.
LEMMA MessageIsNone == \A x \in Messages : x # NoMessage
BY NoMessageAssumption

\* The initial states satisfy the invariant.
LEMMA InitInv == Init => Inv
BY CapacityAssumption
   DEF Init, Inv, TypeOK, GoroutinesInv, ChannelsInv, StreamInv, DeliveryInv,
       Unregistered, Offering, Taken, Written, Leaving

\* A step of the hub preserves the types.
LEMMA HubType == TypeOK /\ HubStep => TypeOK'
<1> SUFFICES ASSUME TypeOK, HubStep PROVE TypeOK'
  OBVIOUS
<1> USE CapacityAssumption, MessageIsNone
    DEF hubVars, channelVars, clientVars, historyVars
<1>1. CASE Take
  <2>1. Head(broadcast) \in Messages /\ Tail(broadcast) \in Seq(Messages)
        /\ Len(Tail(broadcast)) = Len(broadcast) - 1
    BY <1>1 DEF Take, TypeOK
  <2>2. history' \in Seq(Messages)
    BY <1>1, <2>1 DEF Take, TypeOK
  <2>3. broadcast' \in Seq(Messages) /\ Len(broadcast') <= BroadcastCap
    BY <1>1, <2>1 DEF Take, TypeOK
  <2>4. msg' \in Messages \cup {NoMessage} /\ (msg' = NoMessage <=> todo' = {})
    BY <1>1, <2>1 DEF Take
  <2> QED
    BY <1>1, <2>2, <2>3, <2>4 DEF Take, TypeOK
<1>2. ASSUME NEW c \in Clients, Register(c) PROVE TypeOK'
  BY SMTT(30), <1>2 DEF Register, TypeOK
<1>3. ASSUME NEW c \in Clients, Unregister(c) PROVE TypeOK'
  BY SMTT(30), <1>3 DEF Unregister, TypeOK
<1>4. ASSUME NEW c \in Clients, Enqueue(c) PROVE TypeOK'
  <2>1. msg \in Messages
    BY <1>4 DEF Enqueue, Selecting, TypeOK
  <2>2. Append(send[c], msg) \in Seq(Messages)
        /\ Len(Append(send[c], msg)) = Len(send[c]) + 1
    BY <2>1 DEF TypeOK
  <2>3. send' \in [Clients -> Seq(Messages)]
        /\ \A d \in Clients : Len(send'[d]) <= SendCap
    BY SMTT(30), <1>4, <2>2 DEF Enqueue, TypeOK
  <2>4. msg' \in Messages \cup {NoMessage} /\ (msg' = NoMessage <=> todo' = {})
        /\ todo' \subseteq Clients
    BY <1>4, <2>1 DEF Enqueue, Offered, TypeOK
  <2> QED
    BY <1>4, <2>3, <2>4 DEF Enqueue, TypeOK
<1>5. ASSUME NEW c \in Clients, Evict(c) PROVE TypeOK'
  <2>1. msg \in Messages
    BY <1>5 DEF Evict, Selecting, TypeOK
  <2>2. msg' \in Messages \cup {NoMessage} /\ (msg' = NoMessage <=> todo' = {})
        /\ todo' \subseteq Clients
    BY <1>5, <2>1 DEF Evict, Offered, TypeOK
  <2>3. closes' \in [Clients -> Nat] /\ clients' \subseteq Clients
    BY <1>5 DEF Evict, TypeOK
  <2> QED
    BY <1>5, <2>2, <2>3 DEF Evict, TypeOK
<1> QED
  BY <1>1, <1>2, <1>3, <1>4, <1>5 DEF HubStep

\* A step of a client's goroutines, or of its peer, preserves the types.
LEMMA ClientType ==
  ASSUME TypeOK, GoroutinesInv, NEW c \in Clients,
         Connect(c) \/ StartPumps(c) \/ Reader(c) \/ Writer(c) \/ PeerLeaves(c)
  PROVE  TypeOK'
<1> USE MessageIsNone DEF TypeOK, hubVars, channelVars, clientVars, historyVars
<1>1. CASE Connect(c)
  BY <1>1 DEF Connect
<1>2. CASE StartPumps(c)
  BY <1>2 DEF StartPumps
<1>3. CASE Reader(c)
  BY <1>3 DEF Reader, ReadFails, ReaderCloses
<1>4. CASE Receive(c)
  <2>1. Head(send[c]) \in Messages /\ Tail(send[c]) \in Seq(Messages)
        /\ Len(Tail(send[c])) <= SendCap
    BY <1>4, CapacityAssumption DEF Receive
  <2> QED
    BY <1>4, <2>1 DEF Receive
<1>5. CASE ChannelClosed(c)
  BY <1>5 DEF ChannelClosed
<1>6. CASE WriteSucceeds(c)
  <2>1. writing[c] \in Messages
    BY <1>6 DEF WriteSucceeds, GoroutinesInv
  <2>2. Append(received[c], writing[c]) \in Seq(Messages)
    BY <2>1
  <2> QED
    BY <1>6, <2>2 DEF WriteSucceeds
<1>7. CASE WriteFails(c) \/ WriterCloses(c)
  BY <1>7 DEF WriteFails, WriterCloses
<1>8. CASE PeerLeaves(c)
  BY <1>8 DEF PeerLeaves
<1> QED
  BY <1>1, <1>2, <1>3, <1>4, <1>5, <1>6, <1>7, <1>8 DEF Writer

\* Every step preserves the types.
LEMMA StepType == TypeOK /\ GoroutinesInv /\ [Next]_vars => TypeOK'
<1> SUFFICES ASSUME TypeOK, GoroutinesInv, [Next]_vars PROVE TypeOK'
  OBVIOUS
<1>1. ASSUME NEW p \in Producers, Publish(p) PROVE TypeOK'
  <2>1. [from |-> p, n |-> produced[p] + 1] \in Messages
    BY <1>1, CapacityAssumption DEF Publish, Messages, TypeOK
  <2>2. broadcast' \in Seq(Messages) /\ Len(broadcast') <= BroadcastCap
    BY <1>1, <2>1, CapacityAssumption DEF Publish, TypeOK
  <2>3. produced' \in [Producers -> 0..MaxMessages]
    BY <1>1, CapacityAssumption DEF Publish, TypeOK
  <2> QED
    BY <1>1, <2>2, <2>3
       DEF Publish, TypeOK, channelVars, clientVars, historyVars
<1>2. CASE HubStep
  BY <1>2, HubType
<1>3. ASSUME NEW c \in Clients,
             Connect(c) \/ StartPumps(c) \/ Reader(c) \/ Writer(c) \/ PeerLeaves(c)
      PROVE  TypeOK'
  BY <1>3, ClientType
<1>4. CASE UNCHANGED vars
  BY <1>4 DEF vars, TypeOK
<1> QED
  BY <1>1, <1>2, <1>3, <1>4 DEF Next

-----------------------------------------------------------------------------
(* The goroutines, the channels and the message being delivered. *)

\* Every step preserves the order of a client's goroutines.
LEMMA StepGoroutines ==
  TypeOK /\ GoroutinesInv /\ ChannelsInv /\ [Next]_vars => GoroutinesInv'
<1> SUFFICES ASSUME TypeOK, GoroutinesInv, ChannelsInv, [Next]_vars
             PROVE  GoroutinesInv'
  OBVIOUS
<1> USE DEF GoroutinesInv, Unregistered, TypeOK, hubVars, channelVars, clientVars,
            historyVars
<1>1. ASSUME NEW p \in Producers, Publish(p) PROVE GoroutinesInv'
  BY <1>1 DEF Publish
<1>2. CASE Take
  BY <1>2 DEF Take
<1>3. ASSUME NEW c \in Clients, Register(c) \/ Connect(c) PROVE GoroutinesInv'
  BY <1>3 DEF Register, Connect
<1>4. ASSUME NEW c \in Clients, Unregister(c) PROVE GoroutinesInv'
  BY <1>4 DEF Unregister
<1>5. ASSUME NEW c \in Clients, Enqueue(c) PROVE GoroutinesInv'
  BY <1>5 DEF Enqueue, ChannelsInv
<1>6. ASSUME NEW c \in Clients, Evict(c) PROVE GoroutinesInv'
  BY <1>6 DEF Evict, ChannelsInv
<1>7. ASSUME NEW c \in Clients, StartPumps(c) PROVE GoroutinesInv'
  BY <1>7, MessageIsNone DEF StartPumps
<1>8. ASSUME NEW c \in Clients, Reader(c) \/ PeerLeaves(c) PROVE GoroutinesInv'
  BY <1>8 DEF Reader, ReadFails, ReaderCloses, PeerLeaves
<1>9. ASSUME NEW c \in Clients, Receive(c) PROVE GoroutinesInv'
  <2>1. Head(send[c]) \in Messages /\ Head(send[c]) # NoMessage
    BY <1>9, MessageIsNone DEF Receive
  <2> QED
    BY <1>9, <2>1 DEF Receive
<1>10. ASSUME NEW c \in Clients,
              ChannelClosed(c) \/ WriteSucceeds(c) \/ WriteFails(c) \/ WriterCloses(c)
       PROVE  GoroutinesInv'
  BY <1>10 DEF ChannelClosed, WriteSucceeds, WriteFails, WriterCloses
<1>11. CASE UNCHANGED vars
  BY <1>11 DEF vars
<1> QED
  BY <1>1, <1>2, <1>3, <1>4, <1>5, <1>6, <1>7, <1>8, <1>9, <1>10, <1>11
     DEF Next, HubStep, Writer

\* Every step closes the channel of a client when, and only when, it takes the
\* client out of the map.
LEMMA StepChannels ==
  TypeOK /\ GoroutinesInv /\ ChannelsInv /\ [Next]_vars => ChannelsInv'
<1> SUFFICES ASSUME TypeOK, GoroutinesInv, ChannelsInv, [Next]_vars
             PROVE  ChannelsInv'
  OBVIOUS
<1> USE DEF ChannelsInv, Unregistered, TypeOK, hubVars, channelVars, clientVars,
            historyVars
<1>1. ASSUME NEW p \in Producers, Publish(p) PROVE ChannelsInv'
  BY <1>1 DEF Publish
<1>2. CASE Take
  BY <1>2 DEF Take, Selecting
<1>3. ASSUME NEW c \in Clients, Register(c) \/ Connect(c) \/ StartPumps(c)
      PROVE  ChannelsInv'
  <2>1. CASE Register(c)
    BY <2>1 DEF Register, Selecting, GoroutinesInv
  <2>2. CASE Connect(c) \/ StartPumps(c)
    BY <2>2 DEF Connect, StartPumps
  <2> QED
    BY <1>3, <2>1, <2>2
<1>4. ASSUME NEW c \in Clients, Unregister(c) PROVE ChannelsInv'
  <2>1. handler[c] \notin {"idle", "registering"}
    BY <1>4 DEF Unregister, GoroutinesInv
  <2> QED
    BY <1>4, <2>1 DEF Unregister, Selecting
<1>5. ASSUME NEW c \in Clients, Enqueue(c) PROVE ChannelsInv'
  BY <1>5 DEF Enqueue, Offered
<1>6. ASSUME NEW c \in Clients, Evict(c) PROVE ChannelsInv'
  BY <1>6 DEF Evict, Offered
<1>7. ASSUME NEW c \in Clients, Reader(c) \/ PeerLeaves(c) PROVE ChannelsInv'
  BY <1>7 DEF Reader, ReadFails, ReaderCloses, PeerLeaves
<1>8. ASSUME NEW c \in Clients, Writer(c) PROVE ChannelsInv'
  BY <1>8 DEF Writer, Receive, ChannelClosed, WriteSucceeds, WriteFails, WriterCloses
<1>9. CASE UNCHANGED vars
  BY <1>9 DEF vars
<1> QED
  BY <1>1, <1>2, <1>3, <1>4, <1>5, <1>6, <1>7, <1>8, <1>9 DEF Next, HubStep

\* Every step leaves the message being delivered at the end of history.
LEMMA StepDelivery == TypeOK /\ DeliveryInv /\ [Next]_vars => DeliveryInv'
<1> SUFFICES ASSUME TypeOK, DeliveryInv, [Next]_vars PROVE DeliveryInv'
  OBVIOUS
<1> USE DEF DeliveryInv, hubVars, channelVars, clientVars, historyVars
<1>1. CASE Take
  <2>1. Head(broadcast) \in Messages
    BY <1>1 DEF Take, TypeOK
  <2>2. Len(history') # 0 /\ history'[Len(history')] = Head(broadcast)
    BY <1>1, <2>1 DEF Take, TypeOK
  <2> QED
    BY <1>1, <2>2 DEF Take
<1>2. ASSUME NEW c \in Clients, Enqueue(c) \/ Evict(c) PROVE DeliveryInv'
  <2>1. UNCHANGED history /\ todo' = todo \ {c}
        /\ msg' = IF todo = {c} THEN NoMessage ELSE msg
    BY <1>2 DEF Enqueue, Evict, Offered
  <2> QED
    BY <2>1
<1>3. CASE UNCHANGED <<todo, msg, history>>
  BY <1>3
<1>4. ASSUME Next, ~Take, \A c \in Clients : ~Enqueue(c) /\ ~Evict(c)
      PROVE  UNCHANGED <<todo, msg, history>>
  BY <1>4
     DEF Next, HubStep, Publish, Register, Unregister, Connect, StartPumps, Reader,
         ReadFails, ReaderCloses, Writer, Receive, ChannelClosed, WriteSucceeds,
         WriteFails, WriterCloses, PeerLeaves
<1> QED
  BY <1>1, <1>2, <1>3, <1>4 DEF vars

-----------------------------------------------------------------------------
(* The stream of a client. *)

\* What StreamInv says of one client.
StreamOf(c) ==
  /\ \A i \in 1..Len(received[c]) : received[c][i] = history[joined[c] + i]
  /\ writer[c] = "writing" => writing[c] = history[Written(c) + 1]
  /\ ~Leaving(c) =>
       \A i \in 1..Len(send[c]) : send[c][i] = history[Taken(c) + i]
  /\ Offering(c) <= Len(history)
  /\ c \in clients /\ ~Leaving(c) =>
       Offering(c) = Len(history) - IF c \in todo THEN 1 ELSE 0

LEMMA StreamInvOf == StreamInv <=> \A c \in Clients : StreamOf(c)
BY DEF StreamInv, StreamOf

\* The variables the stream of c depends on.
streamVars(c) ==
  <<received[c], writer[c], writing[c], send[c], joined[c], history,
    c \in clients, c \in todo>>

\* A step that leaves them alone leaves the stream alone.
LEMMA SameStream ==
  ASSUME NEW c \in Clients, StreamOf(c), UNCHANGED streamVars(c)
  PROVE  StreamOf(c)'
BY DEF StreamOf, streamVars, Written, Taken, Offering, Leaving

\* The places in history are natural numbers in their order.
LEMMA Places ==
  ASSUME TypeOK, NEW c \in Clients
  PROVE  /\ joined[c] \in Nat /\ Len(history) \in Nat
         /\ Len(received[c]) \in Nat /\ Len(send[c]) \in Nat
         /\ Written(c) \in Nat /\ Taken(c) \in Nat /\ Offering(c) \in Nat
         /\ Written(c) = joined[c] + Len(received[c])
         /\ Taken(c) = Written(c) + IF writer[c] = "writing" THEN 1 ELSE 0
         /\ Offering(c) = Taken(c) + IF Leaving(c) THEN 0 ELSE Len(send[c])
         /\ Written(c) <= Taken(c) /\ Taken(c) <= Offering(c)
BY SMTT(30) DEF TypeOK, Written, Taken, Offering

\* Take makes history longer and puts every client in the map one behind.
LEMMA TakeStream ==
  ASSUME TypeOK, ChannelsInv, StreamInv, Take, NEW d \in Clients
  PROVE  StreamOf(d)'
<1>1. Head(broadcast) \in Messages
  BY DEF Take, TypeOK
<1>2. /\ Len(history') = Len(history) + 1
      /\ \A i \in 1..Len(history) : history'[i] = history[i]
  BY <1>1 DEF Take, TypeOK
<1>3. StreamOf(d) /\ d \notin todo
  BY StreamInvOf DEF Take, Selecting, TypeOK
<1>4. /\ received' = received /\ writer' = writer /\ writing' = writing
      /\ send' = send /\ joined' = joined /\ clients' = clients /\ todo' = clients
  BY DEF Take, clientVars, channelVars
<1>5. /\ Offering(d)' = Offering(d) /\ Taken(d)' = Taken(d)
      /\ Written(d)' = Written(d) /\ Leaving(d)' = Leaving(d)
  BY <1>4 DEF Offering, Taken, Written, Leaving
<1>6. \A i \in 1..Len(received[d]) : joined[d] + i \in 1..Len(history)
  BY <1>3, Places DEF StreamOf
<1>7. writer[d] = "writing" => Written(d) + 1 \in 1..Len(history)
  BY <1>3, Places DEF StreamOf
<1>8. ~Leaving(d) => \A i \in 1..Len(send[d]) : Taken(d) + i \in 1..Len(history)
  BY <1>3, Places DEF StreamOf
<1>9. \A i \in 1..Len(received'[d]) : received'[d][i] = history'[joined'[d] + i]
  BY <1>2, <1>3, <1>4, <1>6 DEF StreamOf
<1>10. writer'[d] = "writing" => writing'[d] = history'[Written(d)' + 1]
  BY <1>2, <1>3, <1>4, <1>5, <1>7 DEF StreamOf
<1>11. ~Leaving(d)' =>
         \A i \in 1..Len(send'[d]) : send'[d][i] = history'[Taken(d)' + i]
  BY <1>2, <1>3, <1>4, <1>5, <1>8 DEF StreamOf
<1>12. Offering(d)' <= Len(history')
       /\ (d \in clients' /\ ~Leaving(d)' =>
             Offering(d)' = Len(history') - IF d \in todo' THEN 1 ELSE 0)
  BY <1>2, <1>3, <1>4, <1>5, Places DEF StreamOf
<1> QED
  BY <1>9, <1>10, <1>11, <1>12 DEF StreamOf

\* The message being delivered goes to the end of the queue of c.
LEMMA EnqueueStream ==
  ASSUME Inv, NEW c \in Clients, Enqueue(c)
  PROVE  StreamOf(c)'
<1>1. TypeOK /\ StreamOf(c)
  BY StreamInvOf DEF Inv
<1>2. msg \in Messages /\ msg = history[Len(history)] /\ c \in clients /\ c \in todo
  BY DEF Inv, Enqueue, Selecting, DeliveryInv, ChannelsInv, TypeOK
<1>3. /\ Len(send'[c]) = Len(send[c]) + 1
      /\ \A i \in 1..Len(send[c]) : send'[c][i] = send[c][i]
      /\ send'[c][Len(send[c]) + 1] = msg
  BY <1>1, <1>2 DEF Enqueue, TypeOK
<1>4. /\ received' = received /\ writer' = writer /\ writing' = writing
      /\ joined' = joined /\ clients' = clients /\ history' = history
      /\ c \notin todo'
  BY DEF Enqueue, Offered, clientVars, historyVars
<1>5. /\ Taken(c)' = Taken(c) /\ Written(c)' = Written(c) /\ Leaving(c)' = Leaving(c)
      /\ Offering(c)' = Taken(c)' + IF Leaving(c)' THEN 0 ELSE Len(send'[c])
  BY <1>4 DEF Offering, Taken, Written, Leaving
<1>6. ASSUME ~Leaving(c)
      PROVE  /\ Taken(c) + Len(send[c]) + 1 = Len(history)
             /\ \A i \in 1..Len(send'[c]) : send'[c][i] = history[Taken(c) + i]
  <2>1. Taken(c) + Len(send[c]) + 1 = Len(history)
    BY <1>1, <1>2, <1>6, Places DEF StreamOf
  <2>2. ASSUME NEW i \in 1..Len(send'[c]) PROVE send'[c][i] = history[Taken(c) + i]
    <3>1. CASE i = Len(send[c]) + 1
      <4>1. Taken(c) + i = Len(history)
        BY SMTT(30), <1>1, <2>1, <3>1, Places
      <4> QED
        BY <1>2, <1>3, <3>1, <4>1
    <3>2. CASE i \in 1..Len(send[c])
      BY <1>1, <1>3, <1>6, <3>2 DEF StreamOf
    <3> QED
      BY SMTT(30), <1>1, <1>3, <3>1, <3>2, Places
  <2> QED
    BY <2>1, <2>2
<1>7. \A i \in 1..Len(received'[c]) : received'[c][i] = history'[joined'[c] + i]
  BY <1>1, <1>4 DEF StreamOf
<1>8. writer'[c] = "writing" => writing'[c] = history'[Written(c)' + 1]
  BY <1>1, <1>4, <1>5 DEF StreamOf
<1>9. ~Leaving(c)' =>
        \A i \in 1..Len(send'[c]) : send'[c][i] = history'[Taken(c)' + i]
  BY <1>4, <1>5, <1>6
<1>10. Offering(c)' <= Len(history')
       /\ (c \in clients' /\ ~Leaving(c)' =>
             Offering(c)' = Len(history') - IF c \in todo' THEN 1 ELSE 0)
  BY <1>1, <1>3, <1>4, <1>5, <1>6, Places DEF StreamOf
<1> QED
  BY <1>7, <1>8, <1>9, <1>10 DEF StreamOf

\* The steps of run that concern one client.
LEMMA HubStream ==
  ASSUME Inv, NEW c \in Clients,
         Register(c) \/ Unregister(c) \/ Enqueue(c) \/ Evict(c)
  PROVE  StreamOf(c)'
<1> USE DEF Inv, TypeOK, Written, Taken, Offering, Leaving
<1> StreamOf(c)
  BY StreamInvOf
<1>1. CASE Register(c)
  <2>1. /\ received'[c] = <<>> /\ send'[c] = <<>> /\ writer'[c] = "none"
        /\ joined'[c] = Len(history) /\ history' = history /\ c \notin todo'
    BY <1>1 DEF Register, Selecting, GoroutinesInv, Unregistered, channelVars
  <2>2. Len(<<>>) = 0 /\ Len(history) \in Nat
    OBVIOUS
  <2> HIDE DEF TypeOK, Inv
  <2> QED
    BY <2>1, <2>2 DEF StreamOf
<1>2. CASE Unregister(c)
  BY <1>2 DEF Unregister, StreamOf, historyVars
<1>3. CASE Enqueue(c)
  BY <1>3, EnqueueStream
<1>4. CASE Evict(c)
  BY <1>4 DEF Evict, StreamOf, clientVars, historyVars
<1> QED
  BY <1>1, <1>2, <1>3, <1>4

\* The pump takes the first message of the queue.
LEMMA ReceiveStream ==
  ASSUME TypeOK, NEW c \in Clients, StreamOf(c), Receive(c)
  PROVE  StreamOf(c)'
<1>1. /\ Len(send'[c]) = Len(send[c]) - 1 /\ Len(send[c]) \in Nat \ {0}
      /\ \A i \in 1..Len(send'[c]) : send'[c][i] = send[c][i + 1]
      /\ writing'[c] = send[c][1]
  BY DEF Receive, TypeOK
<1>2. /\ received' = received /\ joined' = joined /\ clients' = clients
      /\ todo' = todo /\ history' = history
      /\ writer[c] = "receiving" /\ writer'[c] = "writing"
  BY DEF Receive, hubVars, historyVars, TypeOK
<1>3. /\ ~Leaving(c) /\ ~Leaving(c)' /\ Written(c)' = Written(c)
      /\ Taken(c) = Written(c) /\ Taken(c)' = Written(c) + 1
      /\ Offering(c)' = Taken(c)' + Len(send'[c])
  BY <1>2, Places DEF Leaving, Written, Taken, Offering
<1>4. Offering(c)' = Offering(c)
  BY <1>1, <1>3, Places
<1>5. 1 \in 1..Len(send[c]) /\ \A i \in 1..Len(send'[c]) : i + 1 \in 1..Len(send[c])
  BY <1>1
<1>6. writing'[c] = history[Written(c) + 1]
  BY <1>1, <1>3, <1>5 DEF StreamOf
<1>7. ASSUME NEW i \in 1..Len(send'[c]) PROVE send'[c][i] = history[Taken(c)' + i]
  <2>1. Taken(c)' + i = Taken(c) + (i + 1)
    BY <1>1, <1>3, Places
  <2>2. send[c][i + 1] = history[Taken(c) + (i + 1)]
    BY <1>3, <1>5 DEF StreamOf
  <2> QED
    BY <1>1, <2>1, <2>2
<1> QED
  BY <1>2, <1>3, <1>4, <1>6, <1>7 DEF StreamOf

\* The message the pump has taken arrives.
LEMMA WriteStream ==
  ASSUME TypeOK, GoroutinesInv, NEW c \in Clients, StreamOf(c), WriteSucceeds(c)
  PROVE  StreamOf(c)'
<1>1. writing[c] \in Messages /\ writing[c] = history[Written(c) + 1]
  BY DEF WriteSucceeds, GoroutinesInv, StreamOf, TypeOK
<1>2. /\ Len(received'[c]) = Len(received[c]) + 1
      /\ \A i \in 1..Len(received[c]) : received'[c][i] = received[c][i]
      /\ received'[c][Len(received[c]) + 1] = writing[c]
  BY <1>1 DEF WriteSucceeds, TypeOK
<1>3. /\ send' = send /\ joined' = joined /\ clients' = clients
      /\ todo' = todo /\ history' = history
      /\ writer[c] = "writing" /\ writer'[c] = "receiving"
  BY DEF WriteSucceeds, hubVars, channelVars, historyVars, TypeOK
<1>4. /\ ~Leaving(c) /\ ~Leaving(c)' /\ Written(c)' = Written(c) + 1
      /\ Taken(c) = Written(c) + 1 /\ Taken(c)' = Written(c)'
      /\ Offering(c)' = Taken(c)' + Len(send[c])
  BY <1>2, <1>3, Places DEF Leaving, Written, Taken, Offering
<1>5. ASSUME NEW i \in 1..Len(received'[c])
      PROVE  received'[c][i] = history[joined[c] + i]
  <2>1. CASE i = Len(received[c]) + 1
    <3>1. joined[c] + i = Written(c) + 1
      <4>1. /\ joined[c] \in Nat /\ Len(received[c]) \in Nat
            /\ Written(c) = joined[c] + Len(received[c])
        BY Places
      <4> QED
        BY <2>1, <4>1
    <3>2. received'[c][i] = writing[c]
      BY <1>2, <2>1
    <3> QED
      BY <1>1, <3>1, <3>2, Zenon
  <2>2. CASE i \in 1..Len(received[c])
    BY <1>2, <2>2 DEF StreamOf
  <2> QED
    BY <1>2, <2>1, <2>2, Places
<1>6. Offering(c)' = Offering(c) /\ Taken(c)' = Taken(c)
  BY <1>4, Places
<1> QED
  BY <1>3, <1>4, <1>5, <1>6 DEF StreamOf

\* The steps of the write pump.
LEMMA WriterStream ==
  ASSUME Inv, NEW c \in Clients, Writer(c)
  PROVE  StreamOf(c)'
<1>1. TypeOK /\ GoroutinesInv /\ StreamOf(c)
  BY StreamInvOf DEF Inv
<1>2. CASE Receive(c)
  BY <1>1, <1>2, ReceiveStream
<1>3. CASE ChannelClosed(c)
  BY <1>1, <1>3
     DEF ChannelClosed, StreamOf, Written, Taken, Offering, Leaving, hubVars,
         channelVars, historyVars, TypeOK
<1>4. CASE WriteSucceeds(c)
  BY <1>1, <1>4, WriteStream
<1>5. CASE WriteFails(c) \/ WriterCloses(c)
  BY <1>1, <1>5
     DEF WriteFails, WriterCloses, StreamOf, Written, Taken, Offering, Leaving,
         hubVars, channelVars, historyVars, TypeOK
<1> QED
  BY <1>2, <1>3, <1>4, <1>5 DEF Writer

\* Every step leaves each client a stretch of history.
LEMMA StepStream == Inv /\ [Next]_vars => StreamInv'
<1> SUFFICES ASSUME Inv, [Next]_vars, NEW d \in Clients PROVE StreamOf(d)'
  BY StreamInvOf DEF StreamInv, StreamOf
<1>1. StreamOf(d)
  BY StreamInvOf DEF Inv
<1>2. CASE Take
  BY <1>2, TakeStream DEF Inv
<1>3. ASSUME NEW c \in Clients, Register(c) \/ Unregister(c) \/ Enqueue(c) \/ Evict(c)
      PROVE  StreamOf(d)'
  <2>1. CASE c = d
    BY <1>3, <2>1, HubStream
  <2>2. CASE c # d
    <3>1. UNCHANGED streamVars(d)
      BY SMTT(30), <1>3, <2>2
         DEF Inv, TypeOK, streamVars, Register, Unregister, Enqueue, Evict, Offered,
             channelVars, clientVars, historyVars
    <3> QED
      BY <1>1, <3>1, SameStream
  <2> QED
    BY <2>1, <2>2
<1>4. ASSUME NEW c \in Clients, Writer(c) PROVE StreamOf(d)'
  <2>1. CASE c = d
    BY <1>4, <2>1, WriterStream
  <2>2. CASE c # d
    <3>1. UNCHANGED streamVars(d)
      BY <1>4, <2>2
         DEF Inv, TypeOK, streamVars, Writer, Receive, ChannelClosed, WriteSucceeds,
             WriteFails, WriterCloses, hubVars, channelVars, historyVars
    <3> QED
      BY <1>1, <3>1, SameStream
  <2> QED
    BY <2>1, <2>2
<1>5. ASSUME NEW c \in Clients, StartPumps(c) PROVE StreamOf(d)'
  <2>1. writer[c] = "none"
    BY <1>5 DEF Inv, GoroutinesInv, StartPumps
  <2>2. /\ writer'[d] = writer[d] \/ (writer[d] = "none" /\ writer'[d] = "receiving")
        /\ UNCHANGED <<received, writing, send, joined, history, clients, todo>>
    BY <1>5, <2>1
       DEF Inv, TypeOK, StartPumps, hubVars, channelVars, historyVars
  <2> QED
    BY <1>1, <2>2 DEF StreamOf, Written, Taken, Offering, Leaving
<1>6. ASSUME NEW c \in Clients, Connect(c) \/ Reader(c) \/ PeerLeaves(c)
      PROVE  StreamOf(d)'
  <2>1. UNCHANGED streamVars(d)
    BY <1>6
       DEF streamVars, Connect, Reader, ReadFails, ReaderCloses, PeerLeaves, hubVars,
           channelVars, historyVars
  <2> QED
    BY <1>1, <2>1, SameStream
<1>7. ASSUME NEW p \in Producers, Publish(p) PROVE StreamOf(d)'
  <2>1. UNCHANGED streamVars(d)
    BY <1>7 DEF streamVars, Publish, channelVars, clientVars, historyVars
  <2> QED
    BY <1>1, <2>1, SameStream
<1>8. CASE UNCHANGED vars
  <2>1. UNCHANGED streamVars(d)
    BY <1>8 DEF streamVars, vars
  <2> QED
    BY <1>1, <2>1, SameStream
<1> QED
  BY <1>2, <1>3, <1>4, <1>5, <1>6, <1>7, <1>8 DEF Next, HubStep

-----------------------------------------------------------------------------
(* The invariants. *)

\* What the proofs below rest on: every state of the hub, of its queues and of its
\* clients' goroutines satisfies the inductive invariant.
THEOREM Invariance == Spec => []Inv
<1>1. Inv /\ [Next]_vars => Inv'
  BY StepType, StepGoroutines, StepChannels, StepStream, StepDelivery DEF Inv
<1> QED
  BY InitInv, <1>1, PTL DEF Spec

\* Type correctness of the hub, its queues and the goroutines of its clients: no
\* queue ever holds more than its capacity.
THEOREM TypeCorrect == Spec => []TypeOK
<1>1. Inv => TypeOK
  BY DEF Inv
<1> QED
  BY <1>1, Invariance, PTL

\* run never closes a channel twice and never sends on a closed one, whoever
\* evicts or unregisters a client first.
THEOREM NoPanic == Spec => []NoChannelPanic
<1>1. Inv => NoChannelPanic
  <2> SUFFICES ASSUME Inv, NEW c \in Clients
               PROVE  closes[c] <= 1 /\ (c \in clients \cup todo => closes[c] = 0)
    BY DEF NoChannelPanic
  <2>1. closes[c] = 0 \/ (closes[c] = 1 /\ c \notin clients)
    BY Zenon DEF Inv, ChannelsInv, GoroutinesInv
  <2>2. todo \subseteq clients
    BY DEF Inv, ChannelsInv
  <2> QED
    BY <2>1, <2>2
<1> QED
  BY <1>1, Invariance, PTL

-----------------------------------------------------------------------------
(* The refinement. *)

\* The refinement mapping in terms of places: a client may still be given
\* history up to Offering.
LEMMA StreamLength ==
  ASSUME Inv, NEW c \in Clients
  PROVE  joined[c] + Len(Stream(c)) = Offering(c)
<1>1. /\ received[c] \in Seq(Messages) /\ send[c] \in Seq(Messages)
      /\ joined[c] \in Nat
  BY DEF Inv, TypeOK
<1> DEFINE held   == IF writer[c] = "writing" THEN <<writing[c]>> ELSE <<>>
           queued == IF writer[c] \in {"closing", "done"} THEN <<>> ELSE send[c]
<1>2. held \in Seq(Messages) /\ Len(held) = IF writer[c] = "writing" THEN 1 ELSE 0
  <2>1. writer[c] = "writing" => writing[c] \in Messages
    BY DEF Inv, TypeOK, GoroutinesInv
  <2> QED
    BY <2>1
<1>3. queued \in Seq(Messages) /\ Len(queued) = IF Leaving(c) THEN 0 ELSE Len(send[c])
  BY <1>1 DEF Leaving
<1>4. Stream(c) = (received[c] \o held) \o queued
  BY DEF Stream
<1> HIDE DEF held, queued
<1>5. Len(Stream(c)) = Len(received[c]) + Len(held) + Len(queued)
  <2>1. received[c] \o held \in Seq(Messages)
        /\ Len(received[c] \o held) = Len(received[c]) + Len(held)
    BY <1>1, <1>2, ConcatProperties, Zenon
  <2>2. Len(Stream(c)) = Len(received[c] \o held) + Len(queued)
    BY <1>3, <1>4, <2>1, ConcatProperties, ZenonT(60)
  <2> QED
    BY <2>1, <2>2
<1>6. Len(received[c]) \in Nat /\ Len(send[c]) \in Nat
  BY <1>1
<1>7. Len(held) \in Nat /\ Len(queued) \in Nat
  BY <1>2, <1>3, <1>6
<1>8. Offering(c) = joined[c] + Len(received[c]) + Len(held) + Len(queued)
  BY <1>2, <1>3 DEF Offering, Taken, Written
<1> QED
  BY <1>1, <1>5, <1>6, <1>7, <1>8

StageOf(c) ==
  IF Unregistered(c) THEN "new"
  ELSE IF c \in clients /\ ~Leaving(c) THEN "member" ELSE "left"

\* The two abstract variables that are no variables of the hub.
untilBar == [c \in Clients |-> joined[c] + Len(Stream(c))]

stageBar ==
  [c \in Clients |->
    IF handler[c] \in {"idle", "registering"} THEN "new"
    ELSE IF c \in clients /\ ~Leaving(c) THEN "member"
    ELSE "left"]

MappingInv ==
  /\ untilBar = [c \in Clients |-> Offering(c)]
  /\ stageBar = [c \in Clients |-> StageOf(c)]

LEMMA Mapping == Inv => MappingInv
BY StreamLength DEF MappingInv, untilBar, stageBar, StageOf, Unregistered

LEMMA MappingNext == Inv' => MappingInv'
BY Mapping, PTL

\* A step that no client's stream and stage notices is a step of nothing.
LEMMA Stutter ==
  ASSUME Inv, Inv', UNCHANGED <<history, joined, received>>,
         \A d \in Clients : Offering(d)' = Offering(d) /\ StageOf(d)' = StageOf(d)
  PROVE  UNCHANGED Promise!vars
<1>1. untilBar' = untilBar /\ stageBar' = stageBar
  BY Mapping, MappingNext DEF MappingInv
<1> QED
  BY <1>1 DEF Promise!vars, untilBar, stageBar

\* What a step of the hub may do to Offering and StageOf, c alone concerned.
LEMMA OthersUntouched ==
  ASSUME Inv, NEW c \in Clients, NEW d \in Clients \ {c},
         Register(c) \/ Unregister(c) \/ Enqueue(c) \/ Evict(c) \/ Writer(c)
           \/ StartPumps(c) \/ Connect(c)
  PROVE  Offering(d)' = Offering(d) /\ StageOf(d)' = StageOf(d)
<1>1. UNCHANGED <<received[d], writer[d], send[d], joined[d], handler[d],
                  d \in clients>>
  BY DEF Inv, TypeOK, Register, Unregister, Enqueue, Evict, Offered, Writer, Receive,
         ChannelClosed, WriteSucceeds, WriteFails, WriterCloses, StartPumps, Connect,
         hubVars, channelVars, clientVars, historyVars
<1> QED
  BY <1>1 DEF Offering, Taken, Written, Leaving, StageOf, Unregistered

\* A change of Offering and StageOf at c alone, as PubSub writes it.
LEMMA ChangeAt ==
  ASSUME Inv, Inv', NEW c \in Clients,
         \A d \in Clients \ {c} :
           Offering(d)' = Offering(d) /\ StageOf(d)' = StageOf(d)
  PROVE  /\ untilBar' = [untilBar EXCEPT ![c] = Offering(c)']
         /\ stageBar' = [stageBar EXCEPT ![c] = StageOf(c)']
         /\ untilBar[c] = Offering(c) /\ stageBar[c] = StageOf(c)
BY Mapping, MappingNext DEF MappingInv

LEMMA TakeIsBroadcast ==
  ASSUME Inv, Inv', Take
  PROVE  Promise!Broadcast
<1>1. Head(broadcast) \in Messages /\ history' = Append(history, Head(broadcast))
  BY DEF Inv, TypeOK, Take
<1>2. /\ received' = received /\ writer' = writer /\ send' = send
      /\ joined' = joined /\ handler' = handler /\ clients' = clients
  BY DEF Take, channelVars, clientVars
<1>3. untilBar' = untilBar /\ stageBar' = stageBar
  BY <1>2, Mapping, MappingNext
     DEF MappingInv, Offering, Taken, Written, Leaving, StageOf, Unregistered
<1> QED
  BY <1>1, <1>2, <1>3 DEF Promise!Broadcast, untilBar, stageBar

LEMMA RegisterIsJoin ==
  ASSUME Inv, Inv', NEW c \in Clients, Register(c)
  PROVE  Promise!Join(c)
<1>1. /\ untilBar' = [untilBar EXCEPT ![c] = Offering(c)']
      /\ stageBar' = [stageBar EXCEPT ![c] = StageOf(c)']
      /\ untilBar[c] = Offering(c) /\ stageBar[c] = StageOf(c)
  BY OthersUntouched, ChangeAt
<1>2. /\ handler[c] = "registering" /\ handler'[c] = "registered"
      /\ joined' = [joined EXCEPT ![c] = Len(history)] /\ c \in clients'
      /\ history' = history /\ received' = received
      /\ writer'[c] = "none" /\ send'[c] = <<>> /\ received'[c] = <<>>
  BY DEF Inv, TypeOK, GoroutinesInv, Unregistered, Register, channelVars
<1>3. StageOf(c) = "new" /\ StageOf(c)' = "member"
  BY <1>2 DEF StageOf, Unregistered, Leaving
<1>4. Offering(c)' = Len(history)
  <2>1. Len(history) \in Nat /\ joined'[c] = Len(history) /\ Len(<<>>) = 0
    BY <1>2 DEF Inv, TypeOK
  <2> QED
    BY <1>2, <2>1 DEF Offering, Taken, Written, Leaving
<1> QED
  BY <1>1, <1>2, <1>3, <1>4 DEF Promise!Join, untilBar, stageBar

\* The client leaves the map: if its pump goes on it ceases to be a member.
LEMMA RemovalIsLeave ==
  ASSUME Inv, Inv', NEW c \in Clients, Unregister(c) \/ Evict(c)
  PROVE  Promise!Leave(c) \/ UNCHANGED Promise!vars
<1>1. /\ untilBar' = [untilBar EXCEPT ![c] = Offering(c)']
      /\ stageBar' = [stageBar EXCEPT ![c] = StageOf(c)']
      /\ untilBar[c] = Offering(c) /\ stageBar[c] = StageOf(c)
  BY OthersUntouched, ChangeAt
<1>2. /\ writer' = writer /\ send' = send /\ handler' = handler
      /\ joined' = joined /\ history' = history /\ received' = received
      /\ clients' = clients \ {c} /\ ~Unregistered(c)
  BY DEF Inv, TypeOK, GoroutinesInv, ChannelsInv, Unregistered, Unregister, Evict,
         clientVars, channelVars, historyVars
<1>3. Offering(c)' = Offering(c)
  BY <1>2 DEF Offering, Taken, Written, Leaving
<1>4. StageOf(c)' = "left" /\ StageOf(c) \in {"member", "left"}
  BY <1>2 DEF StageOf, Unregistered, Leaving
<1>5. untilBar' = untilBar
  BY <1>1, <1>3 DEF untilBar
<1>6. CASE StageOf(c) = "member"
  BY <1>1, <1>2, <1>4, <1>5, <1>6 DEF Promise!Leave, untilBar, stageBar
<1>7. CASE StageOf(c) = "left"
  BY <1>2, <1>4, <1>7, OthersUntouched, <1>3, Stutter
<1> QED
  BY <1>4, <1>6, <1>7

\* A message is put into the queue of a member, or of a client whose pump has
\* stopped.
LEMMA EnqueueIsOffer ==
  ASSUME Inv, Inv', NEW c \in Clients, Enqueue(c)
  PROVE  Promise!Offer(c) \/ UNCHANGED Promise!vars
<1>1. /\ untilBar' = [untilBar EXCEPT ![c] = Offering(c)']
      /\ stageBar' = [stageBar EXCEPT ![c] = StageOf(c)']
      /\ untilBar[c] = Offering(c) /\ stageBar[c] = StageOf(c)
  BY OthersUntouched, ChangeAt
<1>2. /\ writer' = writer /\ handler' = handler /\ clients' = clients
      /\ joined' = joined /\ history' = history /\ received' = received
      /\ c \in clients /\ c \in todo /\ ~Unregistered(c)
  BY DEF Inv, GoroutinesInv, ChannelsInv, Enqueue, clientVars, historyVars
<1>3. StageOf(c)' = StageOf(c) /\ Leaving(c)' = Leaving(c)
  BY <1>2 DEF StageOf, Unregistered, Leaving
<1>4. CASE Leaving(c)
  <2>1. Offering(c)' = Offering(c)
    BY <1>2, <1>3, <1>4 DEF Offering, Taken, Written
  <2> QED
    BY <1>2, <1>3, <2>1, OthersUntouched, Stutter
<1>5. CASE ~Leaving(c)
  <2>1. Len(send'[c]) = Len(send[c]) + 1 /\ Len(send[c]) \in Nat
    BY DEF Inv, TypeOK, Enqueue, Selecting
  <2>2. Taken(c)' = Taken(c) /\ Taken(c) \in Nat
    BY <1>2, Places DEF Taken, Written, Inv
  <2>3. Offering(c)' = Offering(c) + 1
    BY <1>3, <1>5, <2>1, <2>2 DEF Offering
  <2>4. Offering(c) < Len(history)
    <3>1. StreamOf(c) /\ TypeOK
      BY StreamInvOf DEF Inv
    <3> QED
      BY <1>2, <1>5, <3>1, Places DEF StreamOf
  <2>5. StageOf(c) = "member"
    BY <1>2, <1>5 DEF StageOf
  <2>6. stageBar' = stageBar
    BY <1>1, <1>3 DEF stageBar
  <2> QED
    BY <1>1, <1>2, <2>3, <2>4, <2>5, <2>6 DEF Promise!Offer, untilBar, stageBar
<1> QED
  BY <1>4, <1>5

LEMMA WriteIsGive ==
  ASSUME Inv, Inv', NEW c \in Clients, WriteSucceeds(c)
  PROVE  Promise!Give(c)
<1>1. /\ received' = [received EXCEPT ![c] = Append(@, writing[c])]
      /\ history' = history /\ joined' = joined /\ send' = send
      /\ handler' = handler /\ clients' = clients
      /\ writer[c] = "writing" /\ writer'[c] = "receiving" /\ ~Unregistered(c)
  BY DEF Inv, TypeOK, GoroutinesInv, Unregistered, WriteSucceeds, hubVars, channelVars,
         historyVars
<1>2. Writer(c)
  BY DEF Writer
<1>3. /\ writing[c] = history[Written(c) + 1]
      /\ Len(received'[c]) = Len(received[c]) + 1
  <2>1. writing[c] \in Messages /\ received[c] \in Seq(Messages)
    BY <1>1 DEF Inv, TypeOK, GoroutinesInv
  <2> QED
    BY <1>1, <2>1 DEF Inv, StreamInv, TypeOK
<1>4. /\ Written(c) = joined[c] + Len(received[c]) /\ Taken(c) = Written(c) + 1
      /\ Written(c) \in Nat /\ Taken(c) <= Offering(c) /\ Offering(c) \in Nat
      /\ Len(received[c]) \in Nat /\ joined[c] \in Nat
  BY <1>1, Places DEF Inv
<1>5. Offering(c)' = Offering(c) /\ StageOf(c)' = StageOf(c) /\ StageOf(c) # "new"
  <2>1. Taken(c)' = Taken(c)
    BY <1>1, <1>3, <1>4 DEF Taken, Written
  <2> QED
    BY <1>1, <2>1 DEF Offering, StageOf, Unregistered, Leaving
<1>6. untilBar' = untilBar /\ stageBar' = stageBar
      /\ untilBar[c] = Offering(c) /\ stageBar[c] = StageOf(c)
  BY <1>2, <1>5, OthersUntouched, Mapping, MappingNext DEF MappingInv
<1>7. joined[c] + Len(received[c]) < untilBar[c]
  BY <1>4, <1>6
<1> QED
  BY <1>1, <1>3, <1>4, <1>5, <1>6, <1>7
     DEF Promise!Give, Promise!Place, untilBar, stageBar

LEMMA FailureIsLose ==
  ASSUME Inv, Inv', NEW c \in Clients, WriteFails(c)
  PROVE  Promise!Lose(c)
<1>1. Writer(c)
  BY DEF Writer
<1>2. /\ untilBar' = [untilBar EXCEPT ![c] = Offering(c)']
      /\ stageBar' = [stageBar EXCEPT ![c] = StageOf(c)']
      /\ stageBar[c] = StageOf(c)
  BY <1>1, OthersUntouched, ChangeAt
<1>3. /\ received' = received /\ history' = history /\ joined' = joined
      /\ handler' = handler /\ writer'[c] = "closing" /\ ~Unregistered(c)
  BY DEF Inv, TypeOK, GoroutinesInv, Unregistered, WriteFails, hubVars, historyVars
<1>4. Offering(c)' = joined[c] + Len(received[c])
  <2>1. joined[c] + Len(received[c]) \in Nat
    BY Places DEF Inv
  <2> QED
    BY <1>3, <2>1 DEF Offering, Taken, Written, Leaving
<1>5. StageOf(c)' = "left" /\ StageOf(c) # "new"
  BY <1>3 DEF StageOf, Unregistered, Leaving
<1> QED
  BY <1>2, <1>3, <1>4, <1>5 DEF Promise!Lose, Promise!Place, untilBar, stageBar

\* The rest of the pumps, and of the handler, changes nothing for the peer.
LEMMA PumpsStutter ==
  ASSUME Inv, Inv', NEW c \in Clients,
         Receive(c) \/ ChannelClosed(c) \/ WriterCloses(c) \/ StartPumps(c) \/ Connect(c)
  PROVE  UNCHANGED Promise!vars
<1>1. UNCHANGED <<history, joined, received>> /\ clients' = clients
  BY DEF Receive, ChannelClosed, WriterCloses, StartPumps, Connect, historyVars, hubVars
<1>2. ASSUME NEW d \in Clients \ {c}
      PROVE  Offering(d)' = Offering(d) /\ StageOf(d)' = StageOf(d)
  BY OthersUntouched DEF Writer
<1>3. Offering(c)' = Offering(c) /\ StageOf(c)' = StageOf(c)
  <2>1. CASE Receive(c)
    <3>1. /\ Len(send'[c]) = Len(send[c]) - 1 /\ Len(send[c]) \in Nat \ {0}
          /\ handler' = handler /\ writer[c] = "receiving" /\ writer'[c] = "writing"
      BY <2>1 DEF Inv, TypeOK, Receive
    <3>2. Written(c)' = Written(c) /\ Written(c) \in Nat
      BY <1>1, Places DEF Written, Inv
    <3> QED
      BY <1>1, <3>1, <3>2 DEF Offering, Taken, StageOf, Unregistered, Leaving
  <2>2. CASE ChannelClosed(c)
    <3>1. /\ send' = send /\ Len(send[c]) = 0 /\ handler' = handler
          /\ writer[c] = "receiving" /\ writer'[c] = "closing" /\ c \notin clients
      BY <2>2 DEF Inv, TypeOK, ChannelsInv, ChannelClosed, channelVars
    <3>2. Written(c)' = Written(c) /\ Written(c) \in Nat
      BY <1>1, Places DEF Written, Inv
    <3> QED
      BY <1>1, <3>1, <3>2 DEF Offering, Taken, StageOf, Unregistered, Leaving
  <2>3. CASE WriterCloses(c)
    <3>1. /\ handler' = handler /\ writer[c] = "closing" /\ writer'[c] = "done"
      BY <2>3 DEF Inv, TypeOK, WriterCloses
    <3> QED
      BY <1>1, <3>1 DEF Offering, Taken, Written, StageOf, Unregistered, Leaving
  <2>4. CASE StartPumps(c)
    <3>1. /\ handler[c] = "registered" /\ handler'[c] = "done" /\ send' = send
          /\ writer[c] = "none" /\ writer'[c] = "receiving"
      BY <2>4 DEF Inv, TypeOK, GoroutinesInv, StartPumps, channelVars
    <3> QED
      BY <1>1, <3>1 DEF Offering, Taken, Written, StageOf, Unregistered, Leaving
  <2>5. CASE Connect(c)
    <3>1. /\ handler[c] = "idle" /\ handler'[c] = "registering" /\ send' = send
          /\ writer' = writer
      BY <2>5 DEF Inv, TypeOK, Connect, channelVars
    <3> QED
      BY <1>1, <3>1 DEF Offering, Taken, Written, StageOf, Unregistered, Leaving
  <2> QED
    BY <2>1, <2>2, <2>3, <2>4, <2>5
<1> QED
  BY <1>1, <1>2, <1>3, Stutter

\* Every step of the hub, its clients and its producers is a step of PubSub or
\* none.
LEMMA StepRefines == Inv /\ Inv' /\ [Next]_vars => [Promise!Next]_(Promise!vars)
<1> SUFFICES ASSUME Inv, Inv', [Next]_vars
             PROVE  Promise!Next \/ UNCHANGED Promise!vars
  OBVIOUS
<1>1. CASE Take
  BY <1>1, TakeIsBroadcast DEF Promise!Next
<1>2. ASSUME NEW c \in Clients, Register(c) PROVE Promise!Next
  BY <1>2, RegisterIsJoin DEF Promise!Next
<1>3. ASSUME NEW c \in Clients, Unregister(c) \/ Evict(c)
      PROVE  Promise!Next \/ UNCHANGED Promise!vars
  BY <1>3, RemovalIsLeave DEF Promise!Next
<1>4. ASSUME NEW c \in Clients, Enqueue(c)
      PROVE  Promise!Next \/ UNCHANGED Promise!vars
  BY <1>4, EnqueueIsOffer DEF Promise!Next
<1>5. ASSUME NEW c \in Clients, WriteSucceeds(c) PROVE Promise!Next
  BY <1>5, WriteIsGive DEF Promise!Next
<1>6. ASSUME NEW c \in Clients, WriteFails(c) PROVE Promise!Next
  BY <1>6, FailureIsLose DEF Promise!Next
<1>7. ASSUME NEW c \in Clients,
             Receive(c) \/ ChannelClosed(c) \/ WriterCloses(c) \/ StartPumps(c)
               \/ Connect(c)
      PROVE  UNCHANGED Promise!vars
  BY <1>7, PumpsStutter
<1>8. CASE UNCHANGED <<history, joined, received, handler, writer, send, clients>>
  BY <1>8, Stutter
     DEF Offering, Taken, Written, Leaving, StageOf, Unregistered
<1>9. ASSUME NEW c \in Clients, Reader(c) \/ PeerLeaves(c)
      PROVE  UNCHANGED <<history, joined, received, handler, writer, send, clients>>
  BY <1>9 DEF Reader, ReadFails, ReaderCloses, PeerLeaves, hubVars, channelVars,
              historyVars
<1>10. ASSUME NEW p \in Producers, Publish(p)
       PROVE  UNCHANGED <<history, joined, received, handler, writer, send, clients>>
  BY <1>10 DEF Publish, channelVars, clientVars, historyVars
<1>11. CASE UNCHANGED vars
  BY <1>11, <1>8 DEF vars
<1> QED
  BY <1>1, <1>2, <1>3, <1>4, <1>5, <1>6, <1>7, <1>8, <1>9, <1>10, <1>11
     DEF Next, HubStep, Writer

LEMMA InitRefines == Init => Promise!Init
BY DEF Init, Promise!Init, Stream, Leaving

\* The hub keeps the promise of PubSub, for any number of clients and any queue
\* lengths: what a client is sent is a stretch of the broadcasts, without a gap,
\* from its registration on, and only the end of it can be lost.
THEOREM Refinement == Spec => RefinesPubSub
<1> QED
  BY InitRefines, StepRefines, Invariance, PTL DEF Spec, RefinesPubSub, Promise!Spec
=============================================================================
