-------------------------- MODULE DashboardProofs --------------------------
(***************************************************************************)
(* Proofs about Dashboard: what the page errs about, for any number of     *)
(* connections, restarts and metrics, and whatever fails.                  *)
(***************************************************************************)
EXTENDS Dashboard, AlertEngineProofs

-----------------------------------------------------------------------------
(* The engine. *)

Messages == [type : {"alert", "alert_resolved", "ai_response"}, id : Nat, analysed : BOOLEAN]

\* The resolution of alert i was sent.
Ended(i) == \E p \in DOMAIN sent : sent[p].type = "alert_resolved" /\ sent[p].id = i

Pursued(i) == \E q \in Keys : Open(q) /\ active[q].id = i

\* An alert that was announced is open until its resolution is.
Followed == \A n \in DOMAIN sent : sent[n].type = "alert" => Pursued(sent[n].id) \/ Ended(sent[n].id)

EngineInv == TypeInv /\ NoticeInv /\ Followed

\* The steps of one process.
Running == Evaluate \/ Analyze \/ Refresh \/ Tick \/ UNCHANGED vars

\* The messages sent are kept, and at most one is added.
LEMMA Sends ==
  ASSUME TypeInv, Running
  PROVE  run' = run /\ (sent' = sent \/ \E msg : sent' = Append(sent, msg))
BY DEF Running, Evaluate, StartEvaluate, Skip, Forget, ResolveAlert, ResolveIncident,
   AnnounceResolved, Fire, SaveIncident, Announce, Analyze, AnalysisUnavailable,
   UpdateAIResponse, SaveAnalysis, AnnounceAnalysis, Refresh, Tick, vars

LEMMA Grows ==
  ASSUME TypeInv, Running
  PROVE  /\ \A n \in DOMAIN sent : n \in DOMAIN sent' /\ sent'[n] = sent[n]
         /\ Len(sent) \in Nat /\ Len(sent') \in Nat /\ Len(sent) <= Len(sent')
<1>1. CASE sent' = sent
  BY <1>1, SentSeq
<1>2. ASSUME NEW msg, sent' = Append(sent, msg)
      PROVE  /\ \A n \in DOMAIN sent : n \in DOMAIN sent' /\ sent'[n] = sent[n]
             /\ Len(sent) \in Nat /\ Len(sent') \in Nat /\ Len(sent) <= Len(sent')
  BY <1>2, OneMore, SentSeq
<1> QED
  BY <1>1, <1>2, Sends

\* Steps that announce nothing and close no open alert.
LEMMA FollowedStays ==
  ASSUME TypeInv, Followed, Running,
         \A n \in DOMAIN sent' : n \in DOMAIN sent \/ sent'[n].type # "alert",
         \A q \in Keys : Open(q) => active'[q] = active[q]
  PROVE  Followed'
<1>1. \A n \in DOMAIN sent : n \in DOMAIN sent' /\ sent'[n] = sent[n]
  BY Grows
<1>2. \A i : Pursued(i) => Pursued(i)'
  BY DEF Pursued, Open
<1>3. \A i : Ended(i) => Ended(i)'
  BY <1>1 DEF Ended
<1> QED
  BY <1>1, <1>2, <1>3 DEF Followed

LEMMA StepFollowed ==
  ASSUME TypeInv, Followed, Running
  PROVE  Followed'
<1>1. CASE StartEvaluate \/ Skip \/ ResolveAlert \/ ResolveIncident \/ SaveIncident
           \/ Refresh \/ Tick \/ UNCHANGED vars
  <2>1. UNCHANGED <<sent, active>>
    BY <1>1 DEF StartEvaluate, Skip, ResolveAlert, ResolveIncident, SaveIncident, Refresh, Tick,
       vars, memVars
  <2> QED
    BY <2>1, FollowedStays
<1>2. CASE Forget \/ Fire
  <2>1. sent' = sent
    BY <1>2 DEF Forget, Fire
  <2>2. ~Open(k) /\ \A q \in Keys \ {k} : active'[q] = active[q]
    BY <1>2 DEF Forget, Fire, CooldownOver, Resolved, Open, TypeInv, TypeOK
  <2> QED
    BY <2>1, <2>2, FollowedStays
<1>3. ASSUME NEW a \in analyses,
             AnalysisUnavailable(a) \/ UpdateAIResponse(a) \/ SaveAnalysis(a) \/ AnnounceAnalysis(a)
      PROVE  Followed'
  <2>1. /\ active' = active
        /\ sent' = sent \/ \E msg : sent' = Append(sent, msg) /\ msg.type = "ai_response"
    BY <1>3 DEF AnalysisUnavailable, UpdateAIResponse, SaveAnalysis, AnnounceAnalysis, memVars, Message
  <2>2. \A n \in DOMAIN sent' : n \in DOMAIN sent \/ sent'[n].type # "alert"
    <3>1. ASSUME NEW msg, sent' = Append(sent, msg), msg.type = "ai_response"
          PROVE  \A n \in DOMAIN sent' : n \in DOMAIN sent \/ sent'[n].type # "alert"
      BY <3>1, OneMore
    <3> QED
      BY <2>1, <3>1
  <2> QED
    BY <2>1, <2>2, FollowedStays
<1>4. CASE AnnounceResolved
  <2> DEFINE msg == Message("alert_resolved", active[k].id, FALSE)
             last == Len(sent) + 1
  <2>1. /\ sent' = Append(sent, msg) /\ k \in Keys
        /\ \A q \in Keys \ {k} : active'[q] = active[q]
        /\ msg.type = "alert_resolved" /\ msg.id = active[k].id
    BY <1>4, CurrentKey DEF AnnounceResolved, TypeInv, TypeOK, Message
  <2> HIDE DEF msg
  <2>2. /\ DOMAIN sent' = DOMAIN sent \cup {last} /\ sent'[last] = msg
        /\ \A n \in DOMAIN sent : sent'[n] = sent[n]
    BY <2>1, OneMore
  <2> HIDE DEF last
  <2>3. \A i : Ended(i) => Ended(i)'
    BY <2>2 DEF Ended
  <2>4. ASSUME NEW i, i = active[k].id PROVE Ended(i)'
    <3>1. \E p \in DOMAIN sent' : sent'[p].type = "alert_resolved" /\ sent'[p].id = i
      BY <2>1, <2>2, <2>4
    <3> QED
      BY <3>1 DEF Ended
  <2>5. ASSUME NEW n \in DOMAIN sent', sent'[n].type = "alert", NEW i, i = sent'[n].id
        PROVE  Pursued(i)' \/ Ended(i)'
    <3>1. n \in DOMAIN sent /\ sent'[n] = sent[n]
      BY <2>1, <2>2, <2>5
    <3>2. CASE Ended(i)
      BY <2>3, <3>2
    <3>3. ASSUME NEW q \in Keys, Open(q), active[q].id = i
          PROVE  Pursued(i)' \/ Ended(i)'
      <4>1. CASE q = k
        BY <2>4, <3>3, <4>1
      <4>2. CASE q # k
        BY <2>1, <3>3, <4>2 DEF Pursued, Open
      <4> QED
        BY <4>1, <4>2
    <3> QED
      BY <2>5, <3>1, <3>2, <3>3 DEF Followed, Pursued
  <2> QED
    BY <2>5 DEF Followed
<1>5. CASE Announce
  <2> DEFINE msg == Message("alert", active[k].id, FALSE)
             last == Len(sent) + 1
  <2>1. /\ sent' = Append(sent, msg) /\ active' = active
        /\ k \in Keys /\ Open(k) /\ msg.type = "alert" /\ msg.id = active[k].id
    BY <1>5, CurrentKey DEF Announce, memVars, TypeInv, TypeOK, HandlesOpen, Message
  <2> HIDE DEF msg
  <2>2. /\ DOMAIN sent' = DOMAIN sent \cup {last} /\ sent'[last] = msg
        /\ \A n \in DOMAIN sent : sent'[n] = sent[n]
    BY <2>1, OneMore
  <2> HIDE DEF last
  <2>3. \A i : Ended(i) => Ended(i)'
    BY <2>2 DEF Ended
  <2>4. \A i : Pursued(i) => Pursued(i)'
    BY <2>1 DEF Pursued, Open
  <2>5. Pursued(msg.id)
    BY <2>1 DEF Pursued
  <2> QED
    BY <2>2, <2>3, <2>4, <2>5 DEF Followed
<1> QED
  BY <1>1, <1>2, <1>3, <1>4, <1>5 DEF Running, Evaluate, Analyze

-----------------------------------------------------------------------------
(* The connections.  They take up stretches of the log one after another.  *)

HubType ==
  /\ taken \in Nat /\ taken <= Len(sent)
  /\ connection \in 0..MaxConnections /\ socket \in {"open", "closed"}
  /\ socket = "open" => connection # 0
  /\ from \in [Connections -> Nat] /\ until \in [Connections -> Nat]
  /\ given \in [Connections -> Seq(Messages)]
  /\ stage \in [Connections -> {"new", "member", "left"}]

\* Of two connections the later starts where the earlier cannot come any more.
Stretches ==
  \A c \in Connections :
    /\ Hub!Place(c) <= until[c] /\ until[c] <= taken
    /\ c < connection => Hub!Place(c) <= from[connection]
    /\ c > connection => /\ from[c] = 0 /\ given[c] = <<>> /\ until[c] = 0 /\ stage[c] = "new"

HubInv == HubType /\ Stretches

LEMMA Places ==
  ASSUME TypeInv, HubInv, NEW c \in Connections
  PROVE  /\ Len(given[c]) \in Nat /\ Hub!Place(c) = from[c] + Len(given[c]) /\ Hub!Place(c) \in Nat
         /\ from[c] \in Nat /\ until[c] \in Nat /\ taken \in Nat /\ Len(sent) \in Nat
         /\ c \in Nat /\ connection \in Nat /\ from[c] <= Hub!Place(c)
<1>1. given[c] \in Seq(Messages) /\ from[c] \in Nat /\ until[c] \in Nat
  BY DEF HubInv, HubType
<1>2. Len(given[c]) \in Nat
  BY <1>1
<1>3. c \in Nat /\ connection \in Nat
  BY ConnectionsAssumption DEF Connections, HubInv, HubType
<1> QED
  BY <1>1, <1>2, <1>3, SentSeq DEF Hub!Place, HubInv, HubType

\* The page has handled nothing that the present connection has not passed.
LEMMA HandledBehind ==
  ASSUME TypeInv, HubInv, NEW n \in Nat, Handled(n)
  PROVE  connection \in Connections /\ n <= Hub!Place(connection) /\ n <= taken
<1>1. PICK c \in Connections : from[c] < n /\ n <= Hub!Place(c)
  BY DEF Handled
<1>2. ~(c > connection)
  <2> SUFFICES ASSUME c > connection PROVE FALSE
    OBVIOUS
  <2>1. from[c] = 0 /\ given[c] = <<>>
    BY DEF HubInv, Stretches
  <2>2. Len(given[c]) = 0
    BY <2>1
  <2> QED
    BY <1>1, <2>1, <2>2, Places
<1>3. connection \in Connections
  <2>1. c \in Nat /\ c >= 1 /\ connection \in 0..MaxConnections /\ MaxConnections \in Nat
    BY ConnectionsAssumption DEF Connections, HubInv, HubType
  <2> QED
    BY <1>2, <2>1 DEF Connections
<1>4. Hub!Place(c) <= Hub!Place(connection)
  <2>1. CASE c = connection
    BY <2>1, Places
  <2>2. CASE c < connection
    <3>1. Hub!Place(c) <= from[connection] /\ from[connection] <= Hub!Place(connection)
      BY <1>3, <2>2, Places DEF HubInv, Stretches
    <3>2. Hub!Place(c) \in Nat /\ from[connection] \in Nat /\ Hub!Place(connection) \in Nat
      BY <1>3, Places
    <3> QED
      BY <3>1, <3>2
  <2> QED
    BY <1>2, <2>1, <2>2, Places
<1>5. Hub!Place(connection) <= until[connection] /\ until[connection] <= taken
  BY <1>3 DEF HubInv, Stretches
<1>6. /\ Hub!Place(c) \in Nat /\ Hub!Place(connection) \in Nat /\ until[connection] \in Nat
      /\ taken \in Nat
  BY <1>3, Places
<1> QED
  BY <1>1, <1>3, <1>4, <1>5, <1>6

\* The steps after which the same messages are handled, and no more can be
\* given than the hub has taken.
LEMMA HubEngine ==
  ASSUME TypeInv, HubInv, Running, UNCHANGED <<hubVars, pageVars>>
  PROVE  HubInv'
<1>1. UNCHANGED <<taken, from, given, until, stage, connection, socket>>
  BY DEF hubVars, pageVars
<1>2. taken <= Len(sent')
  BY Grows DEF HubInv, HubType
<1>3. HubType'
  BY <1>1, <1>2 DEF HubInv, HubType
<1>4. Stretches'
  BY <1>1 DEF HubInv, Stretches, Hub!Place
<1> QED
  BY <1>3, <1>4 DEF HubInv

LEMMA HubMoves ==
  ASSUME TypeInv, HubInv, HubTakes \/ HubOffers \/ HubEvicts \/ OnClose
  PROVE  HubInv' /\ UNCHANGED <<from, given>>
<1>1. CASE HubTakes
  <2>1. /\ taken < Len(sent) /\ taken' = taken + 1
        /\ UNCHANGED <<sent, from, given, until, stage, connection, socket>>
    BY <1>1 DEF HubTakes, vars, pageVars
  <2>2. taken \in Nat /\ Len(sent) \in Nat
    BY SentSeq DEF HubInv, HubType
  <2>3. HubType'
    BY <2>1, <2>2 DEF HubInv, HubType
  <2>4. ASSUME NEW c \in Connections PROVE until[c] <= taken + 1
    BY Places DEF HubInv, Stretches
  <2>5. Stretches'
    BY <2>1, <2>4 DEF HubInv, Stretches, Hub!Place
  <2> QED
    BY <2>1, <2>3, <2>5 DEF HubInv
<1>2. CASE HubOffers
  <2>1. PICK d \in Connections : Hub!Offer(d)
    BY <1>2 DEF HubOffers
  <2>2. Len(SubSeq(sent, 1, taken)) = taken
    BY SentSeq DEF HubInv, HubType
  <2>3. /\ UNCHANGED <<sent, taken, from, given, stage, connection, socket>>
        /\ stage[d] = "member" /\ until[d] < taken /\ until' = [until EXCEPT ![d] = @ + 1]
    BY <1>2, <2>1, <2>2 DEF HubOffers, Hub!Offer, vars, pageVars
  <2>4. /\ until' \in [Connections -> Nat]
        /\ until'[d] = until[d] + 1 /\ \A c \in Connections \ {d} : until'[c] = until[c]
    BY <2>3, Places DEF HubInv, HubType
  <2>5. HubType'
    BY <2>3, <2>4 DEF HubInv, HubType
  <2>6. ~(d > connection)
    BY <2>3 DEF HubInv, Stretches
  <2>7. ASSUME NEW c \in Connections
        PROVE  /\ Hub!Place(c) <= until'[c] /\ until'[c] <= taken
               /\ c > connection => until'[c] = 0
    BY <2>3, <2>4, <2>6, Places DEF HubInv, Stretches
  <2>8. Stretches'
    BY <2>3, <2>7 DEF HubInv, Stretches, Hub!Place
  <2> QED
    BY <2>3, <2>5, <2>8 DEF HubInv
<1>3. CASE HubEvicts
  <2>1. /\ UNCHANGED <<sent, taken, from, given, until, connection, socket>>
        /\ \E d \in Connections : stage[d] = "member" /\ stage' = [stage EXCEPT ![d] = "left"]
    BY <1>3 DEF HubEvicts, Hub!Leave, vars, pageVars
  <2>2. HubType'
    BY <2>1 DEF HubInv, HubType
  <2>3. \A c \in Connections : stage[c] = "new" => stage'[c] = "new"
    BY <2>1 DEF HubInv, HubType
  <2>4. Stretches'
    BY <2>1, <2>3 DEF HubInv, Stretches, Hub!Place
  <2> QED
    BY <2>1, <2>2, <2>4 DEF HubInv
<1>4. CASE OnClose
  <2>1. /\ socket = "open" /\ socket' = "closed"
        /\ UNCHANGED <<sent, taken, connection, from, given>>
        /\ until' = [until EXCEPT ![connection] = Hub!Place(connection)]
        /\ stage' = [stage EXCEPT ![connection] = "left"]
    BY <1>4 DEF OnClose, Hub!Lose, vars
  <2>2. connection \in Connections
    BY <2>1, ConnectionsAssumption DEF HubInv, HubType, Connections
  <2>3. /\ until' \in [Connections -> Nat] /\ until'[connection] = Hub!Place(connection)
        /\ \A c \in Connections \ {connection} : until'[c] = until[c]
    BY <2>1, <2>2, Places DEF HubInv, HubType
  <2>4. HubType'
    BY <2>1, <2>3 DEF HubInv, HubType
  <2>5. ASSUME NEW c \in Connections
        PROVE  /\ Hub!Place(c) <= until'[c] /\ until'[c] <= taken
               /\ c > connection => until'[c] = 0 /\ stage'[c] = "new"
    <3>1. c # connection => stage'[c] = stage[c]
      BY <2>1 DEF HubInv, HubType
    <3>2. ~(connection > connection)
      BY <2>2, Places
    <3> QED
      BY <2>2, <2>3, <3>1, <3>2, Places DEF HubInv, Stretches
  <2>6. Stretches'
    BY <2>1, <2>5 DEF HubInv, Stretches, Hub!Place
  <2> QED
    BY <2>1, <2>4, <2>6 DEF HubInv
<1> QED
  BY <1>1, <1>2, <1>3, <1>4

LEMMA HubConnects ==
  ASSUME TypeInv, HubInv, ConnectWS
  PROVE  HubInv' /\ \A n \in Nat : Handled(n)' <=> Handled(n)
<1> DEFINE d == connection + 1
<1>1. /\ connection < MaxConnections /\ connection' = d /\ socket' = "open"
      /\ UNCHANGED <<sent, taken, given>>
      /\ stage' = [stage EXCEPT ![d] = "member"]
      /\ from' = [from EXCEPT ![d] = taken] /\ until' = [until EXCEPT ![d] = taken]
  <2>1. Len(SubSeq(sent, 1, taken)) = taken
    BY SentSeq DEF HubInv, HubType
  <2> QED
    BY <2>1 DEF ConnectWS, Hub!Join, vars
<1>2. connection \in Nat /\ d \in Connections /\ MaxConnections \in Nat
  BY <1>1, ConnectionsAssumption DEF HubInv, HubType, Connections
<1>3. d \in Nat /\ d # 0 /\ d > connection /\ d \in 0..MaxConnections
  BY <1>1, <1>2
<1>4. \A c \in Connections : c \in Nat /\ (c < d => c <= connection) /\ (c > d => c > connection)
  BY <1>2, Places
<1> HIDE DEF d
<1>5. /\ from'[d] = taken /\ until'[d] = taken
      /\ \A c \in Connections \ {d} : from'[c] = from[c] /\ until'[c] = until[c]
  BY <1>1, <1>2 DEF HubInv, HubType
<1>6. HubType'
  BY <1>1, <1>2, <1>3 DEF HubInv, HubType
<1>7. given[d] = <<>> /\ Len(given[d]) = 0 /\ from[d] = 0
  <2>1. given[d] = <<>> /\ from[d] = 0
    BY <1>2, <1>3 DEF HubInv, Stretches
  <2> QED
    BY <2>1
<1>8. \A n \in Nat : Handled(n)' <=> Handled(n)
  <2> SUFFICES ASSUME NEW n \in Nat, NEW c \in Connections
               PROVE  (from'[c] < n /\ n <= from'[c] + Len(given[c]))
                        <=> (from[c] < n /\ n <= from[c] + Len(given[c]))
    BY <1>1 DEF Handled, Hub!Place
  <2>1. CASE c = d
    BY <1>5, <1>7, <2>1, Places
  <2>2. CASE c # d
    BY <1>5, <2>2
  <2> QED
    BY <2>1, <2>2
<1>9. Stretches'
  <2> SUFFICES ASSUME NEW c \in Connections
               PROVE  /\ from'[c] + Len(given[c]) <= until'[c] /\ until'[c] <= taken
                      /\ c < d => from'[c] + Len(given[c]) <= taken
                      /\ c > d => /\ from'[c] = 0 /\ given[c] = <<>> /\ until'[c] = 0
                                  /\ stage'[c] = "new"
    BY <1>1, <1>5 DEF Stretches, Hub!Place
  <2>1. CASE c = d
    BY <1>3, <1>5, <1>7, <2>1, Places
  <2>2. CASE c # d
    <3>1. Hub!Place(c) <= until[c] /\ until[c] <= taken
      BY DEF HubInv, Stretches
    <3>2. c > d => from[c] = 0 /\ given[c] = <<>> /\ until[c] = 0 /\ stage[c] = "new"
      BY <1>4 DEF HubInv, Stretches
    <3>3. stage'[c] = stage[c]
      BY <1>1, <2>2 DEF HubInv, HubType
    <3> QED
      BY <1>5, <2>2, <3>1, <3>2, <3>3, Places
  <2> QED
    BY <2>1, <2>2
<1> QED
  BY <1>6, <1>8, <1>9 DEF HubInv

LEMMA Appending ==
  ASSUME NEW S, NEW s \in Seq(S), NEW e \in S
  PROVE  Append(s, e) \in Seq(S) /\ Len(Append(s, e)) = Len(s) + 1
OBVIOUS

LEMMA Element ==
  ASSUME NEW S, NEW s \in Seq(S), NEW i \in 1..Len(s)
  PROVE  s[i] \in S /\ i \in DOMAIN s
OBVIOUS

\* HandleMsg takes the next message of its connection.
LEMMA HubHandles ==
  ASSUME TypeInv, HubInv, HandleMsg, NEW next, next = Hub!Place(connection) + 1
  PROVE  /\ HubInv' /\ UNCHANGED <<vars, connection>>
         /\ next \in DOMAIN sent /\ next \in Nat /\ ~Handled(next)
         /\ \A n \in Nat : Handled(n)' <=> Handled(n) \/ n = next
<1>1. /\ socket = "open" /\ Hub!Place(connection) < until[connection]
      /\ UNCHANGED <<vars, taken, connection, socket, from, until, stage>>
      /\ given' = [given EXCEPT ![connection] = Append(@, SubSeq(sent, 1, taken)[next])]
  BY DEF HandleMsg, Hub!Give
<1>2. connection \in Connections
  BY <1>1, ConnectionsAssumption DEF HubInv, HubType, Connections
<1>3. /\ next \in Nat /\ next <= until[connection] /\ until[connection] <= taken
      /\ next >= 1 /\ next <= taken /\ taken <= Len(sent)
  <2>1. until[connection] <= taken /\ taken <= Len(sent)
    BY <1>2 DEF HubInv, HubType, Stretches
  <2> QED
    BY <1>1, <1>2, <2>1, Places
<1>4. /\ Len(given[connection]) \in Nat /\ from[connection] \in Nat /\ Len(sent) \in Nat
       /\ taken \in Nat /\ until[connection] \in Nat
       /\ next = from[connection] + Len(given[connection]) + 1
       /\ Hub!Place(connection) = from[connection] + Len(given[connection])
  BY <1>2, Places
<1>5. next \in DOMAIN sent
  BY <1>3, <1>4, SentSeq
<1>6. SubSeq(sent, 1, taken)[next] \in Messages
  <2>1. sent \in Seq(Messages) /\ taken \in Nat
    BY SentSeq DEF Messages, HubInv, HubType
  <2>2. SubSeq(sent, 1, taken)[next] = sent[next]
    BY <1>3, <2>1, SentSeq
  <2>3. next \in 1..Len(sent)
    BY <1>3, <1>4
  <2> QED
    BY <2>1, <2>2, <2>3, Element
<1>7. /\ given' \in [Connections -> Seq(Messages)]
      /\ Len(given'[connection]) = Len(given[connection]) + 1
      /\ \A c \in Connections \ {connection} : given'[c] = given[c]
  <2>1. given \in [Connections -> Seq(Messages)] /\ given[connection] \in Seq(Messages)
    BY <1>2 DEF HubInv, HubType
  <2> DEFINE message == SubSeq(sent, 1, taken)[next]
  <2> HIDE DEF message
  <2>2. /\ Append(given[connection], message) \in Seq(Messages)
        /\ Len(Append(given[connection], message)) = Len(given[connection]) + 1
    BY <1>6, <2>1, Appending DEF message
  <2>3. given' = [given EXCEPT ![connection] = Append(given[connection], message)]
    BY <1>1 DEF message
  <2> QED
    BY <1>2, <2>1, <2>2, <2>3
<1>8. HubType'
  <2>1. sent' = sent
    BY <1>1 DEF vars
  <2> QED
    BY <1>1, <1>7, <2>1 DEF HubInv, HubType
<1>9. ~(connection > connection) /\ ~(connection < connection)
  BY <1>2, Places
<1>10. Stretches'
  <2> SUFFICES ASSUME NEW c \in Connections
               PROVE  /\ from[c] + Len(given'[c]) <= until[c] /\ until[c] <= taken
                      /\ c < connection => from[c] + Len(given'[c]) <= from[connection]
                      /\ c > connection => /\ from[c] = 0 /\ given'[c] = <<>> /\ until[c] = 0
                                           /\ stage[c] = "new"
    BY <1>1 DEF Stretches, Hub!Place
  <2>1. CASE c = connection
    <3>1. from[c] + Len(given'[c]) = next /\ until[c] <= taken
      <4> DEFINE l == Len(given[connection])
                 o == Len(given'[connection])
                 f == from[connection]
      <4> HIDE DEF l, o, f
      <4>1. l \in Nat /\ f \in Nat /\ o = l + 1 /\ next = f + l + 1
        BY <1>7, <1>4 DEF l, o, f
      <4>2. f + o = next
        BY <4>1
      <4> QED
        BY <1>3, <2>1, <4>2 DEF o, f
    <3> QED
      BY <1>3, <1>9, <2>1, <3>1
  <2>2. CASE c # connection
    BY <1>7, <2>2 DEF HubInv, Stretches, Hub!Place
  <2> QED
    BY <2>1, <2>2
<1>11. ASSUME NEW n \in Nat PROVE Handled(n)' <=> Handled(n) \/ n = next
  <2>1. Handled(n)' <=> \E c \in Connections : from[c] < n /\ n <= from[c] + Len(given'[c])
    BY <1>1 DEF Handled, Hub!Place
  <2>2. ASSUME NEW c \in Connections \ {connection}
        PROVE  (from[c] < n /\ n <= from[c] + Len(given'[c])) <=> (from[c] < n /\ n <= Hub!Place(c))
    BY <1>7 DEF Hub!Place
  <2>3. (from[connection] < n /\ n <= from[connection] + Len(given'[connection]))
          <=> (from[connection] < n /\ n <= Hub!Place(connection)) \/ n = next
    <3> DEFINE l == Len(given[connection])
               o == Len(given'[connection])
               f == from[connection]
    <3> HIDE DEF l, o, f
    <3>1. l \in Nat /\ f \in Nat /\ o = l + 1 /\ next = f + l + 1 /\ Hub!Place(connection) = f + l
      BY <1>7, <1>4 DEF l, o, f
    <3>2. (f < n /\ n <= f + o) <=> (f < n /\ n <= Hub!Place(connection)) \/ n = next
      BY <3>1
    <3> QED
      BY <3>2 DEF o, f
  <2> QED
    BY <1>2, <2>1, <2>2, <2>3 DEF Handled
<1>12. ~Handled(next)
  BY <1>2, <1>3, HandledBehind, Places
<1> QED
  BY <1>1, <1>3, <1>5, <1>8, <1>10, <1>11, <1>12 DEF HubInv

-----------------------------------------------------------------------------
(* The page. *)

\* Whatever is shown bears the number of this process or of an earlier one.
Past ==
  \A i \in DOMAIN openIncidents :
    i \in Nat /\ openIncidents[i] \in Entry /\ openIncidents[i].run <= run

\* What the page was told to show and not to remove, it shows.
Kept ==
  \A n \in DOMAIN sent : sent[n].type = "alert" /\ Handled(n) =>
    \/ sent[n].id \in Shown
    \/ \E p \in DOMAIN sent :
         sent[p].type = "alert_resolved" /\ sent[p].id = sent[n].id /\ Handled(p)

Told(i) == \E n \in DOMAIN sent : sent[n].type = "alert" /\ sent[n].id = i

\* What it shows was announced, and its resolution did not arrive.
NotOver ==
  \A i \in Shown :
    /\ Told(i)
    /\ \A p \in DOMAIN sent :
         sent[p].type = "alert_resolved" /\ sent[p].id = i => ~Handled(p)

PageInv == Past /\ Kept /\ NotOver

DashboardInv == EngineInv /\ HubInv /\ PageInv

\* Nothing is handled, whatever is sent.
LEMMA PageStays ==
  ASSUME TypeInv, HubInv, PageInv, Running, UNCHANGED openIncidents,
         \A n \in Nat : Handled(n)' <=> Handled(n)
  PROVE  PageInv'
<1>1. run' = run /\ \A n \in DOMAIN sent : n \in DOMAIN sent' /\ sent'[n] = sent[n]
  BY Sends, Grows
<1>2. Shown' = Shown
  BY <1>1 DEF Shown
<1>3. \A n \in DOMAIN sent' : n \in Nat /\ n >= 1
  <2>1. ASSUME NEW msg, sent' = Append(sent, msg) PROVE \A n \in DOMAIN sent' : n \in Nat /\ n >= 1
    BY <2>1, OneMore, SentSeq
  <2> QED
    BY <2>1, Sends, SentSeq
<1>4. ASSUME NEW n \in DOMAIN sent', Handled(n)' PROVE n \in DOMAIN sent /\ Handled(n)
  <2>1. Handled(n) /\ n \in Nat /\ n >= 1
    BY <1>3, <1>4
  <2>2. n <= taken /\ taken <= Len(sent) /\ taken \in Nat /\ Len(sent) \in Nat
    BY <2>1, HandledBehind, SentSeq DEF HubInv, HubType
  <2> QED
    BY <2>1, <2>2, SentSeq
<1>5. \A n \in DOMAIN sent : Handled(n) => Handled(n)'
  BY SentSeq
<1>6. Past'
  BY <1>1 DEF PageInv, Past
<1>7. Kept'
  <2> SUFFICES ASSUME NEW n \in DOMAIN sent', sent'[n].type = "alert", Handled(n)'
               PROVE  \/ sent'[n].id \in Shown
                      \/ \E p \in DOMAIN sent' :
                           sent'[p].type = "alert_resolved" /\ sent'[p].id = sent'[n].id /\ Handled(p)'
    BY <1>2 DEF Kept
  <2>1. n \in DOMAIN sent /\ Handled(n) /\ sent'[n] = sent[n]
    BY <1>1, <1>4
  <2>2. CASE sent[n].id \in Shown
    BY <2>1, <2>2
  <2>3. ASSUME NEW p \in DOMAIN sent,
               sent[p].type = "alert_resolved", sent[p].id = sent[n].id, Handled(p)
        PROVE  \E o \in DOMAIN sent' :
                 sent'[o].type = "alert_resolved" /\ sent'[o].id = sent'[n].id /\ Handled(o)'
    BY <1>1, <1>5, <2>1, <2>3
  <2> QED
    BY <2>1, <2>2, <2>3 DEF PageInv, Kept
<1>8. NotOver'
  <2> SUFFICES ASSUME NEW i \in Shown
               PROVE  /\ Told(i)'
                      /\ \A p \in DOMAIN sent' :
                           sent'[p].type = "alert_resolved" /\ sent'[p].id = i => ~Handled(p)'
    BY <1>2 DEF NotOver
  <2>1. Told(i)'
    BY <1>1 DEF PageInv, NotOver, Told
  <2> QED
    BY <1>1, <1>4, <2>1 DEF PageInv, NotOver
<1> QED
  BY <1>6, <1>7, <1>8 DEF PageInv

\* What the three handlers do to the map.
LEMMA PageHandles ==
  ASSUME TypeInv, Past, NEW message \in Messages,
         openIncidents' =
           CASE message.type = "alert" -> OnAlert(message.id)
             [] message.type = "ai_response" -> OnAiResp(message.id, message.analysed)
             [] message.type = "alert_resolved" -> OnResolved(message.id),
         run' = run
  PROVE  /\ Past'
         /\ message.type = "alert" => Shown' = Shown \cup {message.id}
         /\ message.type = "ai_response" => Shown' = Shown
         /\ message.type = "alert_resolved" => Shown' = Shown \ {message.id}
<1>1. message.id \in Nat /\ message.analysed \in BOOLEAN /\ run \in Nat
  BY DEF Messages, TypeInv, TypeOK
<1>2. CASE message.type = "alert"
  <2>1. /\ DOMAIN openIncidents' = DOMAIN openIncidents \cup {message.id}
        /\ openIncidents'[message.id] = [run |-> run, analysed |-> FALSE]
        /\ \A i \in DOMAIN openIncidents \ {message.id} : openIncidents'[i] = openIncidents[i]
    BY <1>2 DEF OnAlert, Put
  <2>2. [run |-> run, analysed |-> FALSE] \in Entry /\ [run |-> run, analysed |-> FALSE].run = run
    BY <1>1 DEF Entry
  <2>3. run <= run
    BY <1>1
  <2>4. Past'
    BY <1>1, <2>1, <2>2, <2>3 DEF Past
  <2>5. Shown' = Shown \cup {message.id}
    BY <2>1, <2>2 DEF Shown
  <2> QED
    BY <1>2, <2>4, <2>5
<1>3. CASE message.type = "ai_response"
  <2>1. /\ DOMAIN openIncidents' = DOMAIN openIncidents
        /\ \A i \in DOMAIN openIncidents :
             openIncidents'[i] = openIncidents[i]
             \/ openIncidents'[i] = [openIncidents[i] EXCEPT !.analysed = message.analysed]
    BY <1>3 DEF OnAiResp
  <2>2. ASSUME NEW i \in DOMAIN openIncidents
        PROVE  openIncidents'[i] \in Entry /\ openIncidents'[i].run = openIncidents[i].run
    <3>1. openIncidents[i] \in Entry
      BY DEF Past
    <3>2. PICK analysed \in BOOLEAN : analysed = message.analysed
      BY <1>1
    <3>3. /\ [openIncidents[i] EXCEPT !.analysed = analysed] \in Entry
          /\ [openIncidents[i] EXCEPT !.analysed = analysed].run = openIncidents[i].run
      BY <3>1 DEF Entry
    <3> QED
      BY <2>1, <3>1, <3>2, <3>3
  <2>3. Past'
    BY <2>1, <2>2 DEF Past
  <2>4. Shown' = Shown
    BY <2>1, <2>2 DEF Shown
  <2> QED
    BY <1>3, <2>3, <2>4
<1>4. CASE message.type = "alert_resolved"
  <2>1. /\ DOMAIN openIncidents' = DOMAIN openIncidents \ {message.id}
        /\ \A i \in DOMAIN openIncidents \ {message.id} : openIncidents'[i] = openIncidents[i]
    BY <1>4 DEF OnResolved
  <2> QED
    BY <1>4, <2>1 DEF Past, Shown
<1> QED
  BY <1>2, <1>3, <1>4 DEF Messages

LEMMA PageHandleMsg ==
  ASSUME EngineInv, HubInv, PageInv, HandleMsg
  PROVE  PageInv' /\ HubInv' /\ UNCHANGED vars
<1> DEFINE message == sent[Hub!Place(connection) + 1]
<1>0. PICK next : next = Hub!Place(connection) + 1
  OBVIOUS
<1>1. /\ HubInv' /\ UNCHANGED <<sent, run>> /\ UNCHANGED vars
      /\ next \in DOMAIN sent /\ next \in Nat /\ ~Handled(next)
      /\ \A n \in Nat : Handled(n)' <=> Handled(n) \/ n = next
  BY <1>0, HubHandles DEF EngineInv, vars
<1>2. PICK msg \in Messages : msg = sent[next]
  BY <1>1, SentSeq, Element DEF EngineInv, Messages
<1>3. /\ Past'
      /\ msg.type = "alert" => Shown' = Shown \cup {msg.id}
      /\ msg.type = "ai_response" => Shown' = Shown
      /\ msg.type = "alert_resolved" => Shown' = Shown \ {msg.id}
  <2>1. openIncidents' =
          CASE msg.type = "alert" -> OnAlert(msg.id)
            [] msg.type = "ai_response" -> OnAiResp(msg.id, msg.analysed)
            [] msg.type = "alert_resolved" -> OnResolved(msg.id)
    BY <1>0, <1>2 DEF HandleMsg
  <2> QED
    BY <1>1, <2>1, PageHandles DEF EngineInv, PageInv
<1>4. \A n \in DOMAIN sent : n \in Nat /\ (Handled(n) => n < next)
  <2>1. ASSUME NEW n \in DOMAIN sent, Handled(n) PROVE n < next
    <3>1. n \in Nat
      BY SentSeq DEF EngineInv
    <3>2. connection \in Connections /\ n <= Hub!Place(connection)
      BY <2>1, <3>1, HandledBehind DEF EngineInv
    <3>3. Hub!Place(connection) \in Nat
      BY <3>2, Places DEF EngineInv
    <3> QED
      BY <1>0, <3>1, <3>2, <3>3
  <2> QED
    BY <2>1, SentSeq DEF EngineInv
<1>5. Kept'
  <2> SUFFICES ASSUME NEW n \in DOMAIN sent, sent[n].type = "alert", Handled(n) \/ n = next
               PROVE  \/ sent[n].id \in Shown'
                      \/ \E p \in DOMAIN sent :
                           /\ sent[p].type = "alert_resolved" /\ sent[p].id = sent[n].id
                           /\ Handled(p) \/ p = next
    BY <1>1, <1>4 DEF Kept
  <2>1. CASE n = next
    BY <1>2, <1>3, <2>1
  <2>2. ASSUME NEW p \in DOMAIN sent,
               sent[p].type = "alert_resolved", sent[p].id = sent[n].id, Handled(p)
        PROVE  \E o \in DOMAIN sent :
                 /\ sent[o].type = "alert_resolved" /\ sent[o].id = sent[n].id
                 /\ Handled(o) \/ o = next
    BY <2>2
  <2>3. CASE Handled(n) /\ sent[n].id \in Shown
    <3>1. CASE msg.type = "alert_resolved" /\ msg.id = sent[n].id
      BY <1>1, <1>2, <3>1
    <3>2. CASE msg.type # "alert_resolved" \/ msg.id # sent[n].id
      BY <1>3, <2>3, <3>2 DEF Messages
    <3> QED
      BY <3>1, <3>2
  <2> QED
    BY <2>1, <2>2, <2>3 DEF PageInv, Kept
<1>6. NotOver'
  <2> SUFFICES ASSUME NEW i \in Shown'
               PROVE  /\ Told(i)
                      /\ \A p \in DOMAIN sent :
                           sent[p].type = "alert_resolved" /\ sent[p].id = i =>
                             ~(Handled(p) \/ p = next)
    BY <1>1, <1>4 DEF NotOver, Told
  <2>1. CASE i = msg.id /\ msg.type = "alert"
    \* The alert precedes its resolution in the log.
    <3>1. Told(i)
      BY <1>1, <1>2, <2>1 DEF Told
    <3>2. ASSUME NEW p \in DOMAIN sent, sent[p].type = "alert_resolved", sent[p].id = i, Handled(p)
          PROVE  FALSE
      <4>1. PICK n \in 1..(p - 1) : sent[n] = Message("alert", i, FALSE)
        BY <3>2 DEF EngineInv, NoticeInv, NotificationOrder
      <4>2. p < next /\ p \in Nat
        BY <1>4, <3>2
      <4>3. n \in 1..(next - 1)
        BY <1>1, <4>2
      <4>4. sent[n].id = sent[next].id /\ sent[n].type = sent[next].type
        BY <1>2, <2>1, <4>1 DEF Message
      <4> QED
        BY <1>1, <4>3, <4>4 DEF EngineInv, NoticeInv, NotificationOrder
    <3> QED
      BY <1>2, <2>1, <3>1, <3>2
  <2>2. CASE i \in Shown /\ ~(i = msg.id /\ msg.type = "alert_resolved")
    BY <1>2, <2>2 DEF PageInv, NotOver
  <2> QED
    BY <1>3, <2>1, <2>2 DEF Messages
<1> QED
  BY <1>1, <1>3, <1>5, <1>6 DEF PageInv

-----------------------------------------------------------------------------
(* The theorems. *)

LEMMA InitDashboard == DashboardInit => DashboardInv
<1> SUFFICES ASSUME DashboardInit PROVE DashboardInv
  OBVIOUS
<1>1. sent = <<>> /\ DOMAIN sent = {} /\ Len(sent) = 0
  BY DEF DashboardInit, Init
<1>2. EngineInv
  BY <1>1, InitType, NoticeRestart DEF DashboardInit, EngineInv, Followed
<1>3. HubInv
  <2>1. /\ taken = 0 /\ connection = 0 /\ socket = "closed"
        /\ from = [c \in Connections |-> 0] /\ given = [c \in Connections |-> <<>>]
        /\ until = [c \in Connections |-> 0] /\ stage = [c \in Connections |-> "new"]
    BY DEF DashboardInit, Hub!Init
  <2>2. HubType
    <3>1. <<>> \in Seq(Messages) /\ 0 \in 0..MaxConnections
      BY ConnectionsAssumption
    <3> QED
      BY <1>1, <2>1, <3>1 DEF HubType
  <2>3. Len(<<>>) = 0
    OBVIOUS
  <2>4. Stretches
    <3>1. ASSUME NEW c \in Connections
          PROVE  /\ from[c] + Len(given[c]) <= until[c] /\ until[c] <= taken /\ ~(c < connection)
                 /\ from[c] = 0 /\ given[c] = <<>> /\ until[c] = 0 /\ stage[c] = "new"
      <4>1. c \in Nat
        BY ConnectionsAssumption DEF Connections
      <4> QED
        BY <2>1, <2>3, <4>1
    <3> QED
      BY <3>1 DEF Stretches, Hub!Place
  <2> QED
    BY <2>2, <2>4 DEF HubInv
<1>4. PageInv
  BY <1>1 DEF DashboardInit, PageInv, Past, Kept, NotOver, Shown
<1> QED
  BY <1>2, <1>3, <1>4 DEF DashboardInv

LEMMA StepCrash == DashboardInv /\ Crash => DashboardInv'
<1> SUFFICES ASSUME DashboardInv, Crash PROVE DashboardInv'
  OBVIOUS
<1>1. /\ Restart /\ sent' = <<>> /\ run' = run + 1 /\ run \in Nat
      /\ DOMAIN sent' = {} /\ Len(sent') = 0
  BY DEF Crash, Restart, DashboardInv, EngineInv, TypeInv, TypeOK
<1>2. EngineInv'
  <2>1. TypeInv' /\ NoticeInv'
    BY <1>1, StepType, NoticeRestart DEF DashboardInv, EngineInv, Next
  <2> QED
    BY <1>1, <2>1 DEF EngineInv, Followed
<1>3. HubInv'
  <2>1. /\ taken' = 0 /\ connection' = 0 /\ socket' = "closed"
        /\ from' = [c \in Connections |-> 0] /\ given' = [c \in Connections |-> <<>>]
        /\ until' = [c \in Connections |-> 0] /\ stage' = [c \in Connections |-> "new"]
    BY DEF Crash, NewHub
  <2>2. HubType'
    <3>1. <<>> \in Seq(Messages) /\ 0 \in 0..MaxConnections
      BY ConnectionsAssumption
    <3> QED
      BY <1>1, <2>1, <3>1 DEF HubType
  <2>3. Len(<<>>) = 0
    OBVIOUS
  <2>4. Stretches'
    <3>1. ASSUME NEW c \in Connections
          PROVE  /\ from'[c] + Len(given'[c]) <= until'[c] /\ until'[c] <= taken' /\ ~(c < connection')
                 /\ from'[c] = 0 /\ given'[c] = <<>> /\ until'[c] = 0 /\ stage'[c] = "new"
      <4>1. c \in Nat
        BY ConnectionsAssumption DEF Connections
      <4> QED
        BY <2>1, <2>3, <4>1
    <3> QED
      BY <3>1 DEF Stretches, Hub!Place
  <2> QED
    BY <2>2, <2>4 DEF HubInv
<1>4. PageInv'
  <2>1. openIncidents' = openIncidents
    BY DEF Crash
  <2>2. ASSUME NEW i \in DOMAIN openIncidents
        PROVE  /\ i \in Nat /\ openIncidents[i] \in Entry
               /\ openIncidents[i].run <= run + 1 /\ openIncidents[i].run # run + 1
    <3>1. i \in Nat /\ openIncidents[i] \in Entry /\ openIncidents[i].run <= run
      BY DEF DashboardInv, PageInv, Past
    <3> QED
      BY <1>1, <3>1 DEF Entry
  <2>3. Shown' = {}
    BY <1>1, <2>1, <2>2 DEF Shown
  <2> QED
    BY <1>1, <2>1, <2>2, <2>3 DEF PageInv, Past, Kept, NotOver
<1> QED
  BY <1>2, <1>3, <1>4 DEF DashboardInv

LEMMA StepDashboard == DashboardInv /\ [DashboardNext]_dashboardVars => DashboardInv'
<1> SUFFICES ASSUME DashboardInv, [DashboardNext]_dashboardVars PROVE DashboardInv'
  OBVIOUS
<1>1. ASSUME Running, HubInv', UNCHANGED openIncidents, \A n \in Nat : Handled(n)' <=> Handled(n)
      PROVE  DashboardInv'
  <2>1. EngineInv'
    BY <1>1, StepType, StepNotice, StepFollowed DEF DashboardInv, EngineInv, Running, Next
  <2>2. PageInv'
    BY <1>1, PageStays DEF DashboardInv, EngineInv
  <2> QED
    BY <1>1, <2>1, <2>2 DEF DashboardInv
<1>2. ASSUME UNCHANGED <<from, given>> PROVE \A n \in Nat : Handled(n)' <=> Handled(n)
  BY <1>2 DEF Handled, Hub!Place
<1>3. CASE Engine \/ UNCHANGED dashboardVars
  <2>1. Running /\ UNCHANGED <<hubVars, pageVars>>
    BY <1>3 DEF Engine, dashboardVars, Running
  <2>2. HubInv' /\ UNCHANGED <<from, given, openIncidents>>
    BY <2>1, HubEngine DEF DashboardInv, EngineInv, hubVars, pageVars
  <2> QED
    BY <1>1, <1>2, <2>1, <2>2
<1>4. CASE HubTakes \/ HubOffers \/ HubEvicts \/ OnClose
  <2>1. Running /\ UNCHANGED openIncidents
    BY <1>4 DEF HubTakes, HubOffers, HubEvicts, OnClose, pageVars, Running
  <2>2. HubInv' /\ UNCHANGED <<from, given>>
    BY <1>4, HubMoves DEF DashboardInv, EngineInv
  <2> QED
    BY <1>1, <1>2, <2>1, <2>2
<1>5. CASE ConnectWS
  <2>1. Running /\ UNCHANGED openIncidents
    BY <1>5 DEF ConnectWS, Running
  <2> QED
    BY <1>1, <1>5, <2>1, HubConnects DEF DashboardInv, EngineInv
<1>6. CASE HandleMsg
  <2>1. PageInv' /\ HubInv' /\ UNCHANGED vars
    BY <1>6, PageHandleMsg DEF DashboardInv
  <2>2. EngineInv'
    BY <2>1, StepType, StepNotice, StepFollowed DEF DashboardInv, EngineInv, Running
  <2> QED
    BY <2>1, <2>2 DEF DashboardInv
<1> QED
  BY <1>3, <1>4, <1>5, <1>6, StepCrash DEF DashboardNext

\* What the theorems below rest on: the connections take up stretches of the log
\* one after another, and the map shows what those stretches say.
THEOREM Invariance == DashboardSpec => []DashboardInv
BY InitDashboard, StepDashboard, PTL DEF DashboardSpec

\* The engine, the hub as the page sees it and the map have their types.
THEOREM TypeCorrectness == DashboardSpec => []DashboardTypeOK
<1>1. DashboardInv => DashboardTypeOK
  <2> SUFFICES ASSUME DashboardInv PROVE DashboardTypeOK
    OBVIOUS
  <2>1. TypeOK /\ TypeInv /\ HubInv
    BY DEF DashboardInv, EngineInv, TypeInv
  <2>2. taken \in 0..Len(sent)
    BY <2>1, SentSeq DEF HubInv, HubType
  <2>3. ASSUME NEW c \in Connections
        PROVE  from[c] <= Hub!Place(c) /\ Hub!Place(c) <= until[c] /\ until[c] <= taken
    BY <2>1, Places DEF HubInv, Stretches
  <2> QED
    BY <2>1, <2>2, <2>3 DEF DashboardTypeOK, HubInv, HubType, DashboardInv, PageInv, Past
<1> QED
  BY <1>1, Invariance, PTL

\* The page's map differs from the engine's memory only by messages that it has
\* not handled, for any number of lost connections and dead processes.
THEOREM OnlyLosses == DashboardSpec => []PageErrsOnlyByLosses
<1>1. DashboardInv => PageErrsOnlyByLosses
  <2> SUFFICES ASSUME DashboardInv PROVE PageErrsOnlyByLosses
    OBVIOUS
  <2>1. DOMAIN sent = 1..Len(sent)
    BY SentSeq DEF DashboardInv, EngineInv
  <2>2. ASSUME NEW i \in OpenIds({"saveIncident", "announce"})
        PROVE  i \in Shown \/ Unhandled("alert", i, Len(sent))
    <3>1. PICK q \in Keys : Open(q) /\ ~(Firing /\ q = k) /\ i = active[q].id
      BY DEF OpenIds, Firing
    <3>2. Announced(sent, i) /\ Unsaid(sent, "alert_resolved", i)
      BY <3>1 DEF DashboardInv, EngineInv, NoticeInv, EntriesAnnounced, Open
    <3>3. PICK n \in DOMAIN sent : sent[n].type = "alert" /\ sent[n].id = i
      BY <3>2 DEF Announced, Message
    <3>4. CASE Handled(n)
      BY <3>2, <3>3, <3>4 DEF DashboardInv, PageInv, Kept, Unsaid
    <3>5. CASE ~Handled(n)
      BY <2>1, <3>3, <3>5 DEF Unhandled
    <3> QED
      BY <3>4, <3>5
  <2>3. ASSUME NEW i \in Shown
        PROVE  i \in OpenIds({}) \/ Unhandled("alert_resolved", i, Len(sent))
    <3>1. Pursued(i) \/ Ended(i)
      BY DEF DashboardInv, EngineInv, Followed, PageInv, NotOver, Told
    <3>2. CASE Pursued(i)
      BY <3>2 DEF Pursued, OpenIds
    <3>3. CASE Ended(i)
      BY <2>1, <3>3 DEF Ended, Unhandled, DashboardInv, PageInv, NotOver
    <3> QED
      BY <3>1, <3>2, <3>3
  <2> QED
    BY <2>2, <2>3 DEF PageErrsOnlyByLosses
<1> QED
  BY <1>1, Invariance, PTL
=============================================================================
