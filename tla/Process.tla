------------------------------ MODULE Process ------------------------------
(***************************************************************************)
(* The life of the process, main.go: it opens the store (Migration), then  *)
(* serves HTTP and runs the weekly digest (Digest), and on a signal shuts  *)
(* down: no new requests, up to 30 seconds for those in flight, the store  *)
(* is closed, and main returns, which ends every goroutine.  It may die at *)
(* any moment, and it is started again; the database survives.             *)
(*                                                                         *)
(* Requests are those that use the store, and matter only at shutdown.     *)
(* WebSockets are hijacked, and Shutdown does not wait for them.           *)
(***************************************************************************)
EXTENDS Naturals, Sequences

CONSTANTS
  OldUsers,     \* the users a database has before it has slugs
  Users,        \* the users with monitors
  Weeks,        \* bound: the number of Mondays
  Span,         \* the minutes modelled around 09:00 on a Monday
  MaxTicks,     \* bound: ticks in a minute
  MaxFaults,    \* bound: how many statements or mails fail
  MaxRequests,  \* bound: requests in flight
  MaxLives      \* bound: how often the process is started

ASSUME ProcessAssumption ==
  /\ Weeks \in Nat \ {0} /\ Span \in Nat \ {0, 1} /\ MaxTicks \in Nat
  /\ MaxFaults \in Nat /\ MaxRequests \in Nat /\ MaxLives \in Nat

VARIABLES
  columns, slugless, open, skipped,            \* see Migration
  now, ticks, tick, runner, lastFired, sends,      \* see Digest
  watched, db, cancelled, due, mailed,
  faults,    \* of both
  pc,        \* where main is
  life,      \* how often the process was started
  inflight,  \* the number of requests in flight since the signal
  timedOut   \* Shutdown gave up waiting for them

M == INSTANCE Migration
D == INSTANCE Digest

migration == <<columns, slugless, open, skipped>>
digest    == <<now, ticks, tick, runner, lastFired, sends, watched, due, mailed>>
process   == <<pc, life, inflight, timedOut>>
vars      == <<migration, digest, db, cancelled, faults, process>>

Init ==
  /\ M!Init /\ D!Init
  /\ pc = "exited" /\ life = 0 /\ inflight = 0 /\ timedOut = FALSE

Start ==
  /\ pc = "exited" /\ life < MaxLives /\ life' = life + 1
  /\ pc' = "opening" /\ open' = [stage |-> "schema"]
  /\ UNCHANGED <<columns, slugless, skipped, digest, db, cancelled, faults,
                 inflight, timedOut>>

OpenStep ==
  /\ pc = "opening" /\ M!Open
  /\ UNCHANGED <<digest, db, cancelled, process>>

\* Mutant of Opened: a step of the migration that fails is logged.
OpenedAnyway == open.stage \in {"open", "failed"}

\* Open has returned a store.
Opened == open.stage = "open"

\* The goroutines are started, those of the digest and the server included.
Serve ==
  /\ pc = "opening" /\ Opened
  /\ pc' = "serving" /\ db' = "open" /\ runner' = "loop"
  /\ UNCHANGED <<migration, now, ticks, tick, lastFired, sends, watched,
                 due, mailed, cancelled, faults, life, inflight,
                 timedOut>>

\* SIGTERM or an interrupt, while some requests are in flight.
Signal ==
  /\ pc = "serving" /\ pc' = "draining" /\ cancelled' = TRUE
  /\ inflight' \in 0..MaxRequests
  /\ UNCHANGED <<migration, digest, db, faults, life, timedOut>>

Respond ==
  /\ inflight > 0 /\ inflight' = inflight - 1
  /\ UNCHANGED <<migration, digest, db, cancelled, faults, pc, life, timedOut>>

\* Mutant of Drained: Shutdown only closes the listener.
DrainedAtOnce == TRUE

\* No request is in flight.
Drained == inflight = 0

\* srv.Shutdown returns: nothing is in flight, or the 30 seconds are over.
Shutdown ==
  /\ pc = "draining" /\ pc' = "closing"
  /\ \/ Drained /\ UNCHANGED timedOut
     \/ timedOut' = TRUE
  /\ UNCHANGED <<migration, digest, db, cancelled, faults, life, inflight>>

CloseStore ==
  /\ pc = "closing" /\ pc' = "returning" /\ db' = "closed"
  /\ UNCHANGED <<migration, digest, cancelled, faults, life, inflight, timedOut>>

\* The process ends and with it all that is not in the database: main returns,
\* os.Exit is called because Open or ListenAndServe fails, or it is killed.
Exit ==
  /\ pc # "exited" /\ pc' = "exited" /\ M!Die
  /\ tick' = 0 /\ ticks' = 0 /\ due' = 0 /\ mailed' = D!NoMails
  /\ runner' = "off" /\ lastFired' = 0 /\ sends' = <<>>
  /\ db' = "closed" /\ cancelled' = FALSE /\ inflight' = 0 /\ timedOut' = FALSE
  /\ UNCHANGED <<now, watched, life>>

\* Open is over within the minute.
DigestStep == pc # "opening" /\ D!Next /\ UNCHANGED <<migration, process>>

Next ==
  \/ Start \/ OpenStep \/ Serve \/ Signal \/ Respond
  \/ Shutdown \/ CloseStore \/ Exit
  \/ DigestStep

Spec == Init /\ [][Next]_vars

-----------------------------------------------------------------------------
(* Properties *)

\* Type invariant.
TypeOK ==
  /\ M!TypeOK /\ D!TypeOK
  /\ pc \in {"exited", "opening", "serving", "draining", "closing", "returning"}
  /\ life \in 0..MaxLives /\ inflight \in 0..MaxRequests
  /\ timedOut \in BOOLEAN /\ cancelled = (pc \in {"draining", "closing", "returning"})

\* README.md:16, "Clean shutdown with proper resource cleanup": the store is
\* not closed under a request, unless the 30 seconds were over.
RequestsHaveTheStore == (inflight > 0 /\ db = "closed") => timedOut

\* Whatever version and whatever crash the database comes from, a store that is
\* in use has all the columns that the statements name.
SchemaBeforeService == db = "open" => M!Columns \subseteq columns

\* Wherever an earlier process died, the migration goes on from there: Open
\* gives up only when a statement has failed.
OpenGivesUpOnlyOnFaults == open.stage = "failed" => faults > 0

\* Once the store is in use, the users without a slug are those whose own UPDATE
\* failed or never came, as the process died or the SELECT failed before it.
\* (They are not taken up again: the next process finds the column.)
BackfillIsComplete == db = "open" => slugless \subseteq skipped

\* However often the ticker fires at 09:00, however late a tick is received, and
\* whatever digests of two Mondays overlap, a process mails a user at most once
\* for a Monday.  (A process started within 09:00 begins anew: lastFired is not
\* in the database.)
MailsAreBounded == \A x \in DOMAIN mailed : mailed[x] <= 1

\* A 09:00 tick that finds Run on time (the one before received) starts the
\* digest of that Monday, once Run has received it.
NoMondayMissed ==
  runner = "loop" => lastFired >= due \/ tick = D!Window(due)

\* When a digest ends, this process has mailed each user that the query listed,
\* but for those whose monitors are gone and those whose own statement or mail
\* failed: nobody goes without for what happened to another.
NobodyIsForgotten ==
  \A j \in DOMAIN sends : sends[j].stage = "done" =>
    \A u \in sends[j].listed :
      mailed[<<u, sends[j].week>>] > 0 \/ u \in sends[j].failed \/ u \notin watched
=============================================================================
