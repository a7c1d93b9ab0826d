------------------------------ MODULE Dashboard ------------------------------
(***************************************************************************)
(* A page of static/dashboard.html behind the hub, in front of the alert   *)
(* engine.  The engine is AlertEngine; the hub is what PubSub promises of  *)
(* it, for the connections the page makes one after another; the page is   *)
(* the map openIncidents and the three message handlers that change it.    *)
(*                                                                         *)
(* A connection may end at any time, because of the network, an eviction   *)
(* or the death of the process; the page connects again.  It keeps its map *)
(* meanwhile and asks the server for nothing it may have missed.           *)
(***************************************************************************)
EXTENDS AlertEngine

CONSTANT MaxConnections  \* bound: the connections made to one process

ASSUME ConnectionsAssumption == MaxConnections \in Nat

Connections == 1..MaxConnections

VARIABLES
  taken,         \* how many of the messages in sent the hub has taken
  from, given, until, stage,  \* the hub's clients: PubSub
  connection,    \* the page's last connection to this process, or 0
  socket,        \* whether it is open at the page's end
  openIncidents  \* the map: alert number -> entry

hubVars  == <<taken, from, given, until, stage>>
pageVars == <<connection, socket, openIncidents>>
dashboardVars == <<vars, hubVars, pageVars>>

Hub == INSTANCE PubSub WITH
  Messages <- [type : {"alert", "alert_resolved", "ai_response"},
               id : Nat, analysed : BOOLEAN],
  Subscribers <- Connections,
  log <- SubSeq(sent, 1, taken)

\* "run" tells which process the alert came from; the page cannot know.
Entry == [run : Nat, analysed : BOOLEAN]

NewHub ==
  /\ taken' = 0
  /\ from' = [c \in Connections |-> 0]
  /\ given' = [c \in Connections |-> <<>>]
  /\ until' = [c \in Connections |-> 0]
  /\ stage' = [c \in Connections |-> "new"]

DashboardInit ==
  /\ Init
  /\ taken = 0 /\ Hub!Init
  /\ connection = 0 /\ socket = "closed"
  /\ openIncidents = [i \in {} |-> NULL]

-----------------------------------------------------------------------------
(* The engine and the hub. *)

Engine ==
  /\ Evaluate \/ Analyze \/ Refresh \/ Tick
  /\ UNCHANGED <<hubVars, pageVars>>

HubTakes ==
  /\ taken < Len(sent) /\ taken' = taken + 1
  /\ UNCHANGED <<vars, from, given, until, stage, pageVars>>

HubOffers ==
  /\ UNCHANGED <<vars, taken, pageVars>>
  /\ \E c \in Connections : Hub!Offer(c)

\* The hub evicts the page; what is in the queue is still sent.
HubEvicts ==
  /\ UNCHANGED <<vars, taken, pageVars>>
  /\ \E c \in Connections : Hub!Leave(c)

-----------------------------------------------------------------------------
(* The page. *)

\* connectWS, at once or when the timer of onclose fires; the map is kept.
ConnectWS ==
  /\ socket = "closed" /\ connection < MaxConnections
  /\ connection' = connection + 1 /\ socket' = "open"
  /\ UNCHANGED <<vars, taken, openIncidents>>
  /\ Hub!Join(connection')

\* The connection ends and what was on its way is lost.
OnClose ==
  /\ socket = "open" /\ socket' = "closed"
  /\ UNCHANGED <<vars, taken, connection, openIncidents>>
  /\ Hub!Lose(connection)

\* Mutant of OnAlert: an alert whose number is shown already is not set again.
OnAlertOnce(id) ==
  IF id \in DOMAIN openIncidents
    THEN openIncidents
    ELSE Put(openIncidents, id, [run |-> run, analysed |-> FALSE])

OnAlert(id) ==
  Put(openIncidents, id, [run |-> run, analysed |-> FALSE])

\* Mutant of OnAiResp: an answer is shown whether or not its alert is.
OnAiRespAnyway(id, analysed) ==
  Put(openIncidents, id, [run |-> run, analysed |-> analysed])

OnAiResp(id, analysed) ==
  IF id \in DOMAIN openIncidents
    THEN [openIncidents EXCEPT ![id].analysed = analysed]
    ELSE openIncidents

OnResolved(id) ==
  [i \in DOMAIN openIncidents \ {id} |-> openIncidents[i]]

HandleMsg ==
  LET c == connection
      message == sent[Hub!Place(c) + 1] IN
  /\ socket = "open" /\ Hub!Place(c) < until[c]
  /\ openIncidents' =
       CASE message.type = "alert" -> OnAlert(message.id)
         [] message.type = "ai_response" -> OnAiResp(message.id, message.analysed)
         [] message.type = "alert_resolved" -> OnResolved(message.id)
  /\ UNCHANGED <<vars, taken, connection, socket>>
  /\ Hub!Give(c)

\* The process dies and its connections with it; the page stays.
Crash ==
  /\ Restart /\ NewHub
  /\ connection' = 0 /\ socket' = "closed"
  /\ UNCHANGED openIncidents

DashboardNext ==
  \/ Engine \/ HubTakes \/ HubOffers \/ HubEvicts
  \/ ConnectWS \/ OnClose \/ HandleMsg \/ Crash

DashboardSpec == DashboardInit /\ [][DashboardNext]_dashboardVars

\* The engine's fairness, the hub's promise to members, and a browser that
\* handles what arrives.  No connection has to be made, or to last.
DashboardFairness ==
  /\ WF_dashboardVars(Evaluate /\ UNCHANGED <<hubVars, pageVars>>)
  /\ WF_dashboardVars(Analyze /\ UNCHANGED <<hubVars, pageVars>>)
  /\ WF_dashboardVars(Tick /\ UNCHANGED <<hubVars, pageVars>>)
  /\ WF_dashboardVars(HubTakes) /\ WF_dashboardVars(HubOffers)
  /\ WF_dashboardVars(HandleMsg)

FairDashboardSpec == DashboardSpec /\ DashboardFairness

-----------------------------------------------------------------------------
(* Properties *)

\* The alerts of this process that the page shows as open.
Shown == {i \in DOMAIN openIncidents : openIncidents[i].run = run}

Handled(n) == \E c \in Connections : from[c] < n /\ n <= Hub!Place(c)

\* The page has not handled the message of that type about alert i, among the
\* first messages of this process.
Unhandled(type, i, first) ==
  \E n \in 1..first : sent[n].type = type /\ sent[n].id = i /\ ~Handled(n)

\* Type invariant of the hub as this page sees it, and of the page.
DashboardTypeOK ==
  /\ TypeOK
  /\ taken \in 0..Len(sent)
  /\ connection \in 0..MaxConnections /\ socket \in {"open", "closed"}
  /\ \A c \in Connections :
       from[c] <= Hub!Place(c) /\ Hub!Place(c) <= until[c] /\ until[c] <= taken
  /\ \A i \in DOMAIN openIncidents : i \in Nat /\ openIncidents[i] \in Entry

\* Whatever connections break, the page's idea of what is open differs from the
\* engine's memory only by messages it has not handled: an open alert is missing
\* only if its alert did not arrive (yet), and a closed one is shown only if its
\* resolution did not, or if it is one of an earlier process.
PageErrsOnlyByLosses ==
  /\ \A i \in OpenIds({"saveIncident", "announce"}) :
       i \in Shown \/ Unhandled("alert", i, Len(sent))
  /\ \A i \in Shown :
       i \in OpenIds({}) \/ Unhandled("alert_resolved", i, Len(sent))

Connected == connection # 0 /\ socket = "open" /\ stage[connection] = "member"

\* Lost before the present connection was made.
Lost(type, i) == connection # 0 /\ Unhandled(type, i, from[connection])

\* From the metric to the screen: a lasting breach ends up open on a page that
\* stays connected, and after a lasting recovery the page ends up showing
\* nothing, but for what was lost before it connected.
PageFollowsMetrics ==
  /\ \A key \in Keys :
       <>[](Connected /\ Breached(key)) =>
         <>[](Open(key) /\ (active[key].id \in Shown \/ Lost("alert", active[key].id)))
  /\ <>[](Connected /\ \A key \in Keys : ~Breached(key)) =>
       <>[](\A i \in Shown : Lost("alert_resolved", i))
=============================================================================
