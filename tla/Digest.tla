------------------------------- MODULE Digest -------------------------------
(***************************************************************************)
(* The DigestRunner of digest.go: a loop on a one-minute ticker starts a   *)
(* goroutine on Mondays at 09:00, which mails every user who has an        *)
(* enabled monitor.                                                        *)
(*                                                                         *)
(* Time is the minutes around 09:00 on successive Mondays, Span of them a  *)
(* week; what happens in between changes nothing.  A minute may see two    *)
(* ticks or none, since the wall clock is adjusted while the ticker's is   *)
(* not.  The statistics and the text of a mail are left out.               *)
(***************************************************************************)
EXTENDS Naturals, Sequences

CONSTANTS
  Users,      \* the users
  Weeks,      \* bound: the number of Mondays
  Span,       \* the minutes modelled around 09:00; 09:00 is the second
  MaxTicks,   \* bound: ticks in a minute
  MaxFaults   \* bound: how many statements or mails fail

VARIABLES
  now,        \* the minute
  ticks,      \* how often the ticker has fired in this minute
  tick,       \* ticker.C: the minute of a tick not yet received, or 0
  runner,     \* Run: "off", "loop" or "done"
  lastFired,  \* the Monday of the last digest this process started, or 0
  sends,      \* the goroutines of send, in the order of their start
  watched,    \* the users with an enabled monitor
  db,         \* the store is "open" or "closed"
  cancelled,  \* the context of Run
  faults,     \* counts the failures (bound)
  due,        \* the last Monday whose 09:00 tick was delivered, or 0 (history)
  mailed      \* per user and Monday the mails this process sent (history)

loop    == <<tick, runner, lastFired>>
history == <<due, mailed>>
clock   == <<now, ticks>>
store   == <<watched, db, cancelled>>

\* Of a goroutine of send the field listed (history) has the users that its
\* query returned, and failed (history) those whose statement or mail failed.

NoMails == [x \in Users \X (1..Weeks) |-> 0]

Week(t)     == ((t - 1) \div Span) + 1
InWindow(t) == ((t - 1) % Span) + 1 = 2
Window(w)   == (w - 1) * Span + 2

Init ==
  /\ now = 1 /\ ticks = 0 /\ tick = 0 /\ runner = "off" /\ lastFired = 0
  /\ sends = <<>> /\ watched = Users /\ db = "closed" /\ cancelled = FALSE
  /\ faults = 0 /\ due = 0 /\ mailed = NoMails

\* The ticker fires.  Its channel holds one tick; another is dropped.
Tick ==
  /\ runner = "loop" /\ ticks < MaxTicks /\ ticks' = ticks + 1
  /\ IF tick = 0 THEN /\ tick' = now
                      /\ due' = IF InWindow(now) THEN Week(now) ELSE due
                 ELSE UNCHANGED <<tick, due>>
  /\ UNCHANGED <<now, runner, lastFired, sends, store, faults, mailed>>

\* A minute of the wall clock passes, with a tick in it or without.
Minute ==
  /\ now < Weeks * Span
  /\ now' = now + 1 /\ ticks' = 0
  /\ UNCHANGED <<loop, sends, store, faults, history>>

\* Mutant of FiresAt: lastFired is not looked at.
FiresAtEach(t) == InWindow(t)

\* Mutant of FiresAt: lastFired is a flag that nobody resets.
FiresAtOnce(t) == InWindow(t) /\ lastFired = 0

\* Monday, 09:00, and not yet sent today.
FiresAt(t) == InWindow(t) /\ lastFired # Week(t)

\* Run receives a tick.
Receive ==
  /\ runner = "loop" /\ tick # 0 /\ tick' = 0
  /\ IF FiresAt(tick)
       THEN /\ lastFired' = Week(tick)
            /\ sends' = Append(sends, [stage |-> "list", week |-> Week(tick)])
       ELSE UNCHANGED <<lastFired, sends>>
  /\ UNCHANGED <<clock, runner, store, faults, history>>

\* Run sees ctx.Done; a tick may be ready as well, then select chooses.
Stop ==
  /\ runner = "loop" /\ cancelled /\ runner' = "done"
  /\ UNCHANGED <<clock, tick, lastFired, sends, store, faults, history>>

SendGoes(j, next) == sends' = [sends EXCEPT ![j] = next]

Fault == faults < MaxFaults /\ faults' = faults + 1

\* A statement fails: by a fault, or since the store is closed.
StatementFails ==
  IF db = "closed" THEN UNCHANGED faults ELSE Fault

StatementSucceeds == db = "open" /\ UNCHANGED faults

\* send: GetAllUsersWithMonitors.
ListUsers(j) ==
  LET q == sends[j]
      done == [stage |-> "done", week |-> q.week, listed |-> {}, failed |-> {}] IN
  /\ q.stage = "list"
  /\ \/ /\ StatementSucceeds
        /\ SendGoes(j, [stage |-> "users", week |-> q.week, todo |-> watched,
                        listed |-> watched, failed |-> {}])
     \/ StatementFails /\ SendGoes(j, done)
  /\ UNCHANGED <<clock, loop, store, history>>

\* Mutant of Rest: a failure ends the whole digest.
RestUnless(q, u, fails) == IF fails THEN {} ELSE q.todo \ {u}

\* The users that are left after u.
Rest(q, u, fails) == q.todo \ {u}

\* sendForUser is done with u.
UserDone(j, u, fails) ==
  LET q == sends[j] IN
  SendGoes(j, [stage |-> "users", week |-> q.week, todo |-> Rest(q, u, fails),
               listed |-> q.listed,
               failed |-> IF fails THEN q.failed \cup {u} ELSE q.failed])

\* sendForUser: GetMonitorsByUser, and the statistics of enabled monitors.
UserMonitors(j, u) ==
  LET q == sends[j] IN
  /\ q.stage = "users" /\ u \in q.todo
  /\ \/ StatementFails /\ UserDone(j, u, TRUE)
     \/ StatementSucceeds /\ u \notin watched /\ UserDone(j, u, FALSE)
     \/ /\ StatementSucceeds /\ u \in watched
        /\ SendGoes(j, [stage |-> "mail", week |-> q.week, todo |-> q.todo,
                        listed |-> q.listed, failed |-> q.failed, user |-> u])
  /\ UNCHANGED <<clock, loop, store, history>>

\* sendForUser: SendWeeklyDigest.
Mail(j) ==
  LET q == sends[j] IN
  /\ q.stage = "mail"
  /\ \/ /\ mailed' = [mailed EXCEPT ![<<q.user, q.week>>] = @ + 1]
        /\ UserDone(j, q.user, FALSE) /\ UNCHANGED faults
     \/ Fault /\ UserDone(j, q.user, TRUE) /\ UNCHANGED mailed
  /\ UNCHANGED <<clock, loop, store, due>>

SendEnds(j) ==
  LET q == sends[j] IN
  /\ q.stage = "users" /\ q.todo = {}
  /\ SendGoes(j, [stage |-> "done", week |-> q.week, listed |-> q.listed,
                  failed |-> q.failed])
  /\ UNCHANGED <<clock, loop, store, faults, history>>

\* A user's monitors go (DeleteAccount).
Leave(u) ==
  /\ db = "open" /\ u \in watched /\ watched' = watched \ {u}
  /\ UNCHANGED <<clock, loop, sends, db, cancelled, faults, history>>

Send(j) ==
  \/ ListUsers(j) \/ Mail(j) \/ SendEnds(j)
  \/ \E u \in Users : UserMonitors(j, u)

Next ==
  \/ Tick \/ Minute \/ Receive \/ Stop
  \/ \E j \in DOMAIN sends : Send(j)
  \/ \E u \in Users : Leave(u)

TypeOK ==
  /\ now \in 1..(Weeks * Span) /\ ticks \in 0..MaxTicks /\ tick \in 0..now
  /\ runner \in {"off", "loop", "done"} /\ lastFired \in 0..Weeks
  /\ watched \subseteq Users /\ db \in {"open", "closed"}
  /\ due \in 0..Weeks
  /\ \A j \in DOMAIN sends :
       /\ sends[j].week \in 1..Weeks
       /\ sends[j].stage # "list" => sends[j].listed \subseteq Users
=============================================================================
