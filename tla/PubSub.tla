-------------------------------- MODULE PubSub --------------------------------
(***************************************************************************)
(* What the WebSocket hub promises its clients, without pumps, channels    *)
(* and evictions: there is one log of broadcasts, and every client is      *)
(* given a stretch of it, in order and without a gap, from the moment it   *)
(* joined.  A client that is still a member is given the log to its end.   *)
(* One that has left, whoever ended it, may still be given what was        *)
(* under way, and that may be cut short.                                   *)
(***************************************************************************)
EXTENDS Naturals, Sequences

CONSTANTS
  Messages,     \* what may be broadcast
  Subscribers   \* the clients

VARIABLES
  log,    \* the broadcasts in their order
  from,   \* per client Len(log) when it joined, or 0
  given,  \* per client the messages it was given
  until,  \* per client the last place of the log it may still be given
  stage   \* per client "new", "member" or "left"

vars == <<log, from, given, until, stage>>

\* The place in the log of the last message c was given.
Place(c) == from[c] + Len(given[c])

Behind(c) == stage[c] = "member" /\ Place(c) < Len(log)

Init ==
  /\ log = <<>>
  /\ from = [c \in Subscribers |-> 0]
  /\ given = [c \in Subscribers |-> <<>>]
  /\ until = [c \in Subscribers |-> 0]
  /\ stage = [c \in Subscribers |-> "new"]

Broadcast ==
  /\ \E message \in Messages : log' = Append(log, message)
  /\ UNCHANGED <<from, given, until, stage>>

Join(c) ==
  /\ stage[c] = "new"
  /\ stage' = [stage EXCEPT ![c] = "member"]
  /\ from' = [from EXCEPT ![c] = Len(log)]
  /\ until' = [until EXCEPT ![c] = Len(log)]
  /\ UNCHANGED <<log, given>>

\* The next message of the log is on its way to a member.
Offer(c) ==
  /\ stage[c] = "member" /\ until[c] < Len(log)
  /\ until' = [until EXCEPT ![c] = @ + 1]
  /\ UNCHANGED <<log, from, given, stage>>

Give(c) ==
  /\ stage[c] # "new" /\ Place(c) < until[c]
  /\ given' = [given EXCEPT ![c] = Append(@, log[Place(c) + 1])]
  /\ UNCHANGED <<log, from, until, stage>>

\* The client is no member any more.
Leave(c) ==
  /\ stage[c] = "member"
  /\ stage' = [stage EXCEPT ![c] = "left"]
  /\ UNCHANGED <<log, from, given, until>>

\* What was on its way to c is lost; a member it happens to is bound to leave.
Lose(c) ==
  /\ stage[c] # "new"
  /\ until' = [until EXCEPT ![c] = Place(c)]
  /\ stage' = [stage EXCEPT ![c] = "left"]
  /\ UNCHANGED <<log, from, given>>

Next ==
  \/ Broadcast
  \/ \E c \in Subscribers :
       Join(c) \/ Offer(c) \/ Give(c) \/ Leave(c) \/ Lose(c)

Spec == Init /\ [][Next]_vars

\* A member that is behind is given more, or ceases to be a member.
Served == \A c \in Subscribers : []<>~Behind(c)
=============================================================================
