SPECIFICATION FairSpec
CONSTANTS
  Clients = {c1, c2}
  Producers = {p1}
  SendCap = 1
  BroadcastCap = 1
  NoMessage = NoMessage
  MaxMessages = 3
INVARIANT NoChannelPanic
PROPERTIES SlowClientsBlockNobody ClientsAreServedOrReleased RefinesPubSub
CHECK_DEADLOCK FALSE
