--------------------------- MODULE ProcessProofs ---------------------------
(***************************************************************************)
(* Proofs about Process: the migration across crashes, the weekly digest   *)
(* across restarts, and the store under the requests at shutdown.          *)
(***************************************************************************)
EXTENDS Process, TLAPS

-----------------------------------------------------------------------------
(* The steps of the migration. *)

StepColumns(n) == M!ToSet(M!Migrations[n])

LEMMA Steps == DOMAIN M!Migrations = 1..7 /\ Len(M!Migrations) = 7
<1> DEFINE m1 == <<"slug">>
           m2 == <<"ssl_expiry">>
           m3 == <<"keyword">>
           m4 == <<"dns_ms", "connect_ms", "ttfb_ms">>
           m5 == <<"latency_threshold_ms", "latency_alert_sent_at">>
           m6 == <<"max_monitors">>
           m7 == <<"method", "request_body">>
<1>1. M!Migrations = <<m1, m2, m3, m4, m5, m6, m7>>
  BY Zenon DEF M!Migrations
<1> HIDE DEF m1, m2, m3, m4, m5, m6, m7
<1> QED
  BY <1>1

\* The column slug is the first step, and the whole of it.
LEMMA SlugStep ==
  /\ StepColumns(1) = {"slug"}
  /\ \A n \in 1..7 : \A i \in DOMAIN M!Migrations[n] :
       M!Migrations[n][i] = "slug" => n = 1
<1>1. StepColumns(1) = {"slug"}
  BY DEF StepColumns, M!Migrations, M!ToSet
<1>2. ASSUME NEW n \in 1..7, NEW i \in DOMAIN M!Migrations[n], M!Migrations[n][i] = "slug"
      PROVE  n = 1
  BY <1>2 DEF M!Migrations
<1> QED
  BY <1>1, <1>2

LEMMA ColumnsOfSteps ==
  /\ \A c : c \in M!Columns <=> \E n \in 1..7 : c \in StepColumns(n)
  /\ "slug" \in M!Columns
<1>1. M!Columns = UNION {StepColumns(n) : n \in 1..7}
  BY Steps DEF M!Columns, StepColumns
<1> QED
  BY <1>1, SlugStep

\* What a version left behind is a part of the columns.
LEMMA VersionColumns ==
  ASSUME NEW n \in 0..7
  PROVE  M!Version(n) \subseteq M!Columns /\ ("slug" \in M!Version(n) => n # 0)
<1>1. M!Version(n) = UNION {StepColumns(i) : i \in 1..n}
  BY DEF M!Version, StepColumns
<1> QED
  BY <1>1, ColumnsOfSteps

-----------------------------------------------------------------------------
(* The migration. *)

StepsDone(n) == \A i \in 1..n : StepColumns(i) \subseteq columns

Stages == {"closed", "failed", "schema", "open", "read", "select", "add", "fill"}

\* Where Open is says which steps are done ...
Progress ==
  /\ open.stage \in {"read", "add"} => StepsDone(open.m - 1)
  /\ open.stage \in {"select", "fill"} => StepsDone(open.m)
  /\ open.stage = "open" => M!Columns \subseteq columns

\* ... what the process has seen is there, and it has seen all of it unless a
\* statement failed ...
Seen ==
  open.stage = "add" =>
    /\ open.has \subseteq columns
    /\ faults = 0 => StepColumns(open.m) \cap columns \subseteq open.has

\* ... and whose slug is still missing although the column is there.
Filling ==
  "slug" \in columns =>
    /\ open.stage \notin {"select", "fill"} => slugless \subseteq skipped
    /\ open.stage = "fill" => slugless \subseteq skipped \cup open.todo

MigrationInv ==
  /\ M!TypeOK
  /\ Progress /\ Seen /\ Filling
  /\ OpenGivesUpOnlyOnFaults

LEMMA OpenFacts ==
  ASSUME M!TypeOK
  PROVE  /\ open.stage \in Stages
         /\ open.stage \in {"read", "select", "add", "fill"} => open.m \in 1..7
         /\ open.stage = "add" => open \in [stage : {"add"}, m : 1..7, has : SUBSET M!Columns]
         /\ open.stage = "fill" => open \in [stage : {"fill"}, m : 1..7, todo : SUBSET OldUsers]
BY Steps DEF M!TypeOK, M!Closed, M!Failed, Stages

LEMMA CountFaults == M!TypeOK => faults \in Nat
BY DEF M!TypeOK

\* On to the next step, or out of Open.
LEMMA ReadOn ==
  ASSUME NEW n \in 1..8, StepsDone(n - 1), open' = M!Read(n),
         columns' = columns, slugless' = slugless, skipped' = skipped, faults' = faults,
         M!TypeOK, "slug" \in columns => slugless \subseteq skipped
  PROVE  MigrationInv'
<1>1. CASE n \in 1..7
  <2>1. open' = [stage |-> "read", m |-> n]
    BY <1>1, Steps DEF M!Read
  <2>2. open'.stage = "read" /\ open'.m = n
    BY <2>1
  <2>3. M!TypeOK'
    BY <1>1, <2>1, Steps DEF M!TypeOK
  <2> QED
    BY <2>2, <2>3 DEF MigrationInv, Progress, Seen, Filling, OpenGivesUpOnlyOnFaults, StepsDone
<1>2. CASE n = 8
  <2>1. open' = [stage |-> "open"]
    BY <1>2, Steps DEF M!Read
  <2>2. open'.stage = "open"
    BY <2>1
  <2>3. M!TypeOK'
    BY <2>1 DEF M!TypeOK
  <2>4. M!Columns \subseteq columns
    BY <1>2, ColumnsOfSteps DEF StepsDone
  <2> QED
    BY <2>2, <2>3, <2>4 DEF MigrationInv, Progress, Seen, Filling, OpenGivesUpOnlyOnFaults
<1> QED
  BY <1>1, <1>2

\* Open gives up.
LEMMA GivesUp ==
  ASSUME MigrationInv, open' = M!Failed, columns' = columns, slugless' = slugless,
         skipped' = skipped, faults' \in 0..MaxFaults, faults' > 0,
         open.stage \notin {"select", "fill"}
  PROVE  MigrationInv'
<1>1. open'.stage = "failed"
  BY DEF M!Failed
<1>2. M!TypeOK'
  BY DEF MigrationInv, M!TypeOK
<1> QED
  BY <1>1, <1>2 DEF MigrationInv, Progress, Seen, Filling, OpenGivesUpOnlyOnFaults

LEMMA FaultCounts ==
  ASSUME M!TypeOK, M!Fault
  PROVE  faults' \in 0..MaxFaults /\ faults' > 0
BY ProcessAssumption DEF M!TypeOK, M!Fault

LEMMA MigrationCreateTables ==
  ASSUME MigrationInv, M!CreateTables
  PROVE  MigrationInv'
<1>1. open.stage = "schema" /\ UNCHANGED <<columns, slugless, skipped>>
  BY DEF M!CreateTables, M!database
<1>2. CASE M!Goes(M!Read(1)) /\ UNCHANGED faults
  BY <1>1, <1>2, ReadOn DEF MigrationInv, M!Goes, StepsDone, Filling
<1>3. CASE M!Goes(M!Failed) /\ M!Fault
  BY <1>1, <1>3, FaultCounts, GivesUp DEF MigrationInv, M!Goes
<1> QED
  BY <1>2, <1>3 DEF M!CreateTables

LEMMA MigrationTableInfo ==
  ASSUME MigrationInv, M!TableInfo
  PROVE  MigrationInv'
<1> DEFINE n == open.m
           own == StepColumns(n) \cap columns
<1>1. /\ open.stage = "read" /\ n \in 1..7 /\ UNCHANGED <<columns, slugless, skipped>>
      /\ StepsDone(n - 1)
  BY OpenFacts DEF M!TableInfo, M!database, MigrationInv, Progress
<1>2. PICK part \in SUBSET own :
        /\ open' = [stage |-> "add", m |-> n, has |-> part]
        /\ \/ faults' = faults /\ part = own
           \/ faults' \in 0..MaxFaults /\ faults' > 0
  BY FaultCounts DEF M!TableInfo, M!Goes, MigrationInv, StepColumns
<1>3. open'.stage = "add" /\ open'.m = n /\ open'.has = part
  BY <1>2
<1>4. M!TypeOK'
  <2>1. part \subseteq M!Columns
    BY <1>2 DEF MigrationInv, M!TypeOK
  <2> QED
    BY <1>1, <1>2, <2>1, Steps DEF MigrationInv, M!TypeOK
<1>5. faults' = 0 => own \subseteq part
  BY <1>2
<1> QED
  BY <1>1, <1>2, <1>3, <1>4, <1>5
     DEF MigrationInv, Progress, Seen, Filling, OpenGivesUpOnlyOnFaults, StepsDone

LEMMA MigrationAddColumn ==
  ASSUME MigrationInv, M!AddColumn
  PROVE  MigrationInv'
<1> DEFINE n == open.m
<1>1. /\ open.stage = "add" /\ n \in 1..7 /\ UNCHANGED <<slugless, skipped>>
      /\ open \in [stage : {"add"}, m : 1..7, has : SUBSET M!Columns]
      /\ StepsDone(n - 1)
  BY OpenFacts DEF M!AddColumn, MigrationInv, Progress
<1>2. PICK i \in DOMAIN M!Migrations[n] :
        LET c == M!Migrations[n][i] IN
        /\ M!FirstMissing(n, open.has, i)
        /\ \/ /\ c \notin columns
              /\ columns' = columns \cup {c}
              /\ M!Goes(IF c = "slug" THEN [stage |-> "select", m |-> n]
                                      ELSE [open EXCEPT !.has = @ \cup {c}])
              /\ UNCHANGED faults
           \/ c \in columns /\ M!Goes(M!Failed) /\ UNCHANGED <<columns, faults>>
           \/ M!Goes(M!Failed) /\ M!Fault /\ UNCHANGED columns
  BY DEF M!AddColumn
<1> DEFINE c == M!Migrations[n][i]
<1>3. c \in StepColumns(n) /\ c \notin open.has /\ c \in M!Columns
  BY <1>1, <1>2, ColumnsOfSteps DEF M!FirstMissing, M!Missing, StepColumns, M!ToSet
<1>4. c = "slug" => n = 1
  BY <1>1, SlugStep
<1> HIDE DEF c
<1>5. CASE M!Goes(M!Failed) /\ M!Fault /\ UNCHANGED columns
  BY <1>1, <1>5, FaultCounts, GivesUp DEF MigrationInv, M!Goes
<1>6. CASE c \in columns /\ M!Goes(M!Failed) /\ UNCHANGED <<columns, faults>>
  <2>1. faults \in 0..MaxFaults /\ faults > 0
    BY <1>1, <1>3, <1>6 DEF MigrationInv, Seen, M!TypeOK
  <2> QED
    BY <1>1, <1>6, <2>1, GivesUp DEF M!Goes
<1>7. CASE /\ columns' = columns \cup {c} /\ c = "slug" /\ UNCHANGED faults
           /\ open' = [stage |-> "select", m |-> n]
  <2>1. open'.stage = "select" /\ open'.m = n
    BY <1>7
  <2>2. M!TypeOK'
    BY <1>1, <1>3, <1>7, Steps DEF MigrationInv, M!TypeOK
  <2>3. StepsDone(n)'
    BY <1>4, <1>7, SlugStep DEF StepsDone
  <2> QED
    BY <2>1, <2>2, <2>3
       DEF MigrationInv, Progress, Seen, Filling, OpenGivesUpOnlyOnFaults, StepsDone
<1>8. CASE /\ columns' = columns \cup {c} /\ c # "slug" /\ UNCHANGED faults
           /\ open' = [open EXCEPT !.has = @ \cup {c}]
  <2>1. open'.stage = "add" /\ open'.m = n /\ open'.has = open.has \cup {c}
        /\ open' \in [stage : {"add"}, m : 1..7, has : SUBSET M!Columns]
    BY <1>1, <1>3, <1>8
  <2>2. M!TypeOK'
    BY <1>1, <1>3, <1>8, <2>1, Steps DEF MigrationInv, M!TypeOK
  <2>3. StepsDone(n - 1)'
    BY <1>1, <1>8 DEF StepsDone
  <2>4. Seen'
    BY <1>1, <1>8, <2>1 DEF MigrationInv, Seen
  <2>5. Filling'
    BY <1>1, <1>8, <2>1 DEF MigrationInv, Filling
  <2> QED
    BY <2>1, <2>2, <2>3, <2>4, <2>5 DEF MigrationInv, Progress, OpenGivesUpOnlyOnFaults, StepsDone
<1> QED
  BY <1>2, <1>5, <1>6, <1>7, <1>8 DEF M!Goes, c

LEMMA MigrationNext ==
  ASSUME MigrationInv, M!NextMigration
  PROVE  MigrationInv'
<1> DEFINE n == open.m
<1>1. /\ open.stage = "add" /\ n \in 1..7 /\ UNCHANGED <<columns, slugless, skipped, faults>>
      /\ StepsDone(n - 1) /\ open' = M!Read(n + 1)
  BY OpenFacts DEF M!NextMigration, M!Goes, M!database, MigrationInv, Progress
<1>2. StepColumns(n) \subseteq columns
  BY <1>1 DEF M!NextMigration, M!Missing, MigrationInv, Seen, StepColumns
<1>3. StepsDone((n + 1) - 1)
  BY <1>1, <1>2 DEF StepsDone
<1> QED
  BY <1>1, <1>3, ReadOn DEF MigrationInv, Filling

LEMMA MigrationSelectPending ==
  ASSUME MigrationInv, M!SelectPending
  PROVE  MigrationInv'
<1> DEFINE n == open.m
<1>1. /\ open.stage = "select" /\ n \in 1..7 /\ UNCHANGED <<columns, slugless>>
      /\ StepsDone(n)
  BY OpenFacts DEF M!SelectPending, M!database, MigrationInv, Progress
<1>2. PICK part \in SUBSET slugless :
        /\ open' = [stage |-> "fill", m |-> n, todo |-> part]
        /\ slugless \subseteq skipped' \cup part /\ skipped' \subseteq skipped \cup slugless
        /\ \/ faults' = faults
           \/ faults' \in 0..MaxFaults
  BY FaultCounts DEF M!SelectPending, M!Goes, M!Pending, MigrationInv
<1>3. open'.stage = "fill" /\ open'.m = n /\ open'.todo = part
  BY <1>2
<1>4. M!TypeOK'
  BY <1>1, <1>2, Steps DEF MigrationInv, M!TypeOK
<1> QED
  BY <1>1, <1>2, <1>3, <1>4
     DEF MigrationInv, Progress, Seen, Filling, OpenGivesUpOnlyOnFaults, StepsDone

LEMMA MigrationBackfill ==
  ASSUME MigrationInv, M!Backfill
  PROVE  MigrationInv'
<1>1. /\ open.stage = "fill" /\ UNCHANGED columns /\ StepsDone(open.m)
      /\ open \in [stage : {"fill"}, m : 1..7, todo : SUBSET OldUsers]
  BY OpenFacts DEF M!Backfill, MigrationInv, Progress
<1>2. PICK u \in open.todo :
        /\ open' = [open EXCEPT !.todo = @ \ {u}]
        /\ \/ slugless' = slugless \ {u} /\ UNCHANGED <<faults, skipped>>
           \/ M!Fault /\ skipped' = skipped \cup {u} /\ UNCHANGED slugless
  BY DEF M!Backfill, M!Goes
<1>3. /\ open'.stage = "fill" /\ open'.m = open.m /\ open'.todo = open.todo \ {u}
      /\ open' \in [stage : {"fill"}, m : 1..7, todo : SUBSET OldUsers]
  BY <1>1, <1>2
<1>4. faults' \in 0..MaxFaults
  BY <1>2, FaultCounts DEF MigrationInv, M!TypeOK
<1>5. M!TypeOK'
  BY <1>1, <1>2, <1>3, <1>4, Steps DEF MigrationInv, M!TypeOK
<1>6. Filling'
  BY <1>1, <1>2, <1>3 DEF MigrationInv, Filling
<1> QED
  BY <1>1, <1>3, <1>5, <1>6 DEF MigrationInv, Progress, Seen, OpenGivesUpOnlyOnFaults, StepsDone

LEMMA MigrationFilled ==
  ASSUME MigrationInv, M!Filled
  PROVE  MigrationInv'
<1> DEFINE n == open.m
<1>1. /\ open.stage = "fill" /\ n \in 1..7 /\ UNCHANGED <<columns, slugless, skipped, faults>>
      /\ StepsDone(n) /\ open' = M!Read(n + 1) /\ open.todo = {}
  BY OpenFacts DEF M!Filled, M!Goes, M!database, MigrationInv, Progress
<1>2. StepsDone((n + 1) - 1)
  BY <1>1 DEF StepsDone
<1> QED
  BY <1>1, <1>2, ReadOn DEF MigrationInv, Filling

LEMMA MigrationDie ==
  ASSUME MigrationInv, M!Die
  PROVE  MigrationInv'
<1>1. open'.stage = "closed" /\ UNCHANGED <<columns, slugless, faults>>
  BY DEF M!Die, M!Goes, M!Closed, M!database
<1>2. /\ open.stage = "select" => skipped' = slugless
      /\ open.stage = "fill" => skipped' = skipped \cup open.todo
      /\ open.stage \notin {"select", "fill"} => skipped' = skipped
  BY DEF M!Die
<1>3. M!TypeOK'
  <2>1. skipped' \subseteq OldUsers
    BY <1>2, OpenFacts DEF MigrationInv, M!TypeOK
  <2> QED
    BY <1>1, <2>1 DEF MigrationInv, M!TypeOK, M!Die, M!Goes
<1> QED
  BY <1>1, <1>2, <1>3 DEF MigrationInv, Progress, Seen, Filling, OpenGivesUpOnlyOnFaults

LEMMA MigrationStart ==
  ASSUME MigrationInv, UNCHANGED <<columns, slugless, skipped, faults>>,
         open' = [stage |-> "schema"], open.stage = "closed"
  PROVE  MigrationInv'
<1>1. open'.stage = "schema"
  OBVIOUS
<1>2. M!TypeOK'
  BY DEF MigrationInv, M!TypeOK
<1> QED
  BY <1>1, <1>2 DEF MigrationInv, Progress, Seen, Filling, OpenGivesUpOnlyOnFaults

\* What the others do does not disturb it; they can only fail.
LEMMA MigrationStays ==
  ASSUME MigrationInv, UNCHANGED migration, faults' \in 0..MaxFaults, faults <= faults'
  PROVE  MigrationInv'
<1>1. M!TypeOK'
  BY DEF MigrationInv, M!TypeOK, migration
<1>2. faults' = 0 => faults = 0
  BY DEF MigrationInv, M!TypeOK
<1>3. faults > 0 => faults' > 0
  BY DEF MigrationInv, M!TypeOK
<1> QED
  BY <1>1, <1>2, <1>3
     DEF MigrationInv, Progress, Seen, Filling, OpenGivesUpOnlyOnFaults, StepsDone, migration

LEMMA MigrationInit == M!Init => MigrationInv
<1> SUFFICES ASSUME M!Init PROVE MigrationInv
  OBVIOUS
<1>1. open = M!Closed /\ open.stage = "closed" /\ faults = 0 /\ skipped = {}
  BY DEF M!Init, M!Closed
<1>2. columns \subseteq M!Columns /\ slugless \subseteq OldUsers
      /\ ("slug" \in columns => slugless = {})
  <2>1. CASE M!New
    <3>1. "keyword" \in StepColumns(3)
      BY DEF StepColumns, M!Migrations, M!ToSet
    <3> QED
      BY <2>1, <3>1, ColumnsOfSteps DEF M!New
  <2>2. CASE M!Old
    BY <2>2, VersionColumns, Steps DEF M!Old
  <2> QED
    BY <2>1, <2>2 DEF M!Init
<1>3. M!TypeOK
  BY <1>1, <1>2, ProcessAssumption DEF M!TypeOK
<1> QED
  BY <1>1, <1>2, <1>3 DEF MigrationInv, Progress, Seen, Filling, OpenGivesUpOnlyOnFaults

LEMMA StepOpen == MigrationInv /\ M!Open => MigrationInv'
BY MigrationCreateTables, MigrationTableInfo, MigrationAddColumn, MigrationNext,
   MigrationSelectPending, MigrationBackfill, MigrationFilled DEF M!Open

-----------------------------------------------------------------------------
(* The clock: Mondays and their 09:00. *)

\* Later minutes do not belong to earlier weeks.
LEMMA WeekMonotone ==
  ASSUME NEW s \in Nat, NEW t \in Nat, s <= t
  PROVE  D!Week(s) <= D!Week(t)
BY ProcessAssumption DEF D!Week

LEMMA WeekRange ==
  ASSUME NEW t \in 1..(Weeks * Span)
  PROVE  D!Week(t) \in 1..Weeks
BY ProcessAssumption DEF D!Week

\* 09:00 of a week is its only 09:00.
LEMMA WindowOfWeek ==
  /\ \A t \in Nat \ {0} : D!InWindow(t) => t = D!Window(D!Week(t))
  /\ \A w \in Nat \ {0} : /\ D!Window(w) \in Nat \ {0}
                          /\ D!InWindow(D!Window(w)) /\ D!Week(D!Window(w)) = w
BY ProcessAssumption DEF D!Week, D!InWindow, D!Window

-----------------------------------------------------------------------------
(* The digest. *)

SendState ==
  [stage : {"list"}, week : 1..Weeks]
    \cup [stage : {"users"}, week : 1..Weeks, todo : SUBSET Users,
          listed : SUBSET Users, failed : SUBSET Users]
    \cup [stage : {"mail"}, week : 1..Weeks, todo : SUBSET Users,
          listed : SUBSET Users, failed : SUBSET Users, user : Users]
    \cup [stage : {"done"}, week : 1..Weeks, listed : SUBSET Users,
          failed : SUBSET Users]

\* A goroutine may still mail u ...
MayMail(q, u) == q.stage = "list" \/ (q.stage \in {"users", "mail"} /\ u \in q.todo)

\* ... or u has been mailed, or there was a reason not to; m are the mails that
\* were sent, and w the users with a monitor.
Served(q, u, m, w) == m[<<u, q.week>>] > 0 \/ u \in q.failed \/ u \notin w

Attends(q, m, w) ==
  /\ q.stage = "mail" => q.user \in q.todo
  /\ q.stage # "list" => \A u \in q.listed : MayMail(q, u) \/ Served(q, u, m, w)

DigestTypeOK ==
  /\ D!TypeOK /\ sends \in Seq(SendState) /\ mailed \in [Users \X (1..Weeks) -> Nat]
  /\ runner = "off" => tick = 0 /\ lastFired = 0 /\ due = 0 /\ sends = <<>>

\* lastFired never lies ahead of the clock, or of a tick not yet received.
Mondays ==
  /\ lastFired <= D!Week(now)
  /\ tick # 0 => lastFired <= D!Week(tick)
  /\ due # 0 /\ lastFired < due => tick = D!Window(due)

\* There is one goroutine for each Monday that was fired.
OnePerMonday ==
  \A j \in DOMAIN sends :
    /\ sends[j].week <= lastFired
    /\ \A i \in DOMAIN sends : sends[i].week = sends[j].week => i = j

\* A process sends no mail twice: neither those that its goroutines have before
\* them, nor those of the Mondays to come, has it sent yet.
MailsAhead ==
  \A u \in Users, w \in 1..Weeks :
    /\ mailed[<<u, w>>] <= 1
    /\ lastFired < w => mailed[<<u, w>>] = 0
    /\ \A j \in DOMAIN sends :
         sends[j].week = w /\ MayMail(sends[j], u) => mailed[<<u, w>>] = 0

Attending == \A j \in DOMAIN sends : Attends(sends[j], mailed, watched)

DigestInv == DigestTypeOK /\ Mondays /\ OnePerMonday /\ MailsAhead /\ Attending

\* The process.
ProcessInv ==
  /\ pc \in {"exited", "opening", "serving", "draining", "closing", "returning"}
  /\ life \in 0..MaxLives /\ inflight \in 0..MaxRequests /\ timedOut \in BOOLEAN
  /\ cancelled \in BOOLEAN
  /\ cancelled <=> pc \in {"draining", "closing", "returning"}
  /\ pc \in {"exited", "opening"} => runner = "off"
  /\ db = (IF pc \in {"serving", "draining", "closing"} THEN "open" ELSE "closed")
  /\ pc \notin {"exited", "opening"} => open.stage = "open"
  /\ pc = "exited" => open.stage = "closed"
  /\ inflight > 0 => pc \in {"draining", "closing", "returning"}
  /\ inflight > 0 /\ pc \in {"closing", "returning"} => timedOut

Inv == MigrationInv /\ DigestInv /\ ProcessInv

LEMMA DigestFacts ==
  ASSUME DigestInv
  PROVE  /\ Weeks \in Nat /\ Span \in Nat /\ now \in 1..(Weeks * Span) /\ tick \in 0..now
         /\ now \in Nat /\ tick \in Nat /\ lastFired \in 0..Weeks /\ due \in 0..Weeks
         /\ sends \in Seq(SendState) /\ DOMAIN sends = 1..Len(sends) /\ Len(sends) \in Nat
         /\ \A j \in DOMAIN sends :
              /\ sends[j] \in SendState /\ sends[j].week \in 1..Weeks
              /\ sends[j].stage \in {"list", "users", "mail", "done"}
         /\ mailed \in [Users \X (1..Weeks) -> Nat]
         /\ D!Week(now) \in 1..Weeks /\ (tick # 0 => D!Week(tick) \in 1..Weeks)
         /\ (tick # 0 => D!Week(tick) <= D!Week(now))
<1>1. now \in 1..(Weeks * Span) /\ tick \in 0..now /\ Weeks \in Nat /\ Span \in Nat
  BY ProcessAssumption DEF DigestInv, DigestTypeOK, D!TypeOK
<1>2. now \in Nat /\ tick \in Nat /\ (tick # 0 => tick \in 1..(Weeks * Span))
  BY <1>1
<1>3. /\ lastFired \in 0..Weeks /\ due \in 0..Weeks /\ sends \in Seq(SendState)
      /\ mailed \in [Users \X (1..Weeks) -> Nat]
  BY DEF DigestInv, DigestTypeOK, D!TypeOK
<1>4. \A q \in SendState : q.week \in 1..Weeks /\ q.stage \in {"list", "users", "mail", "done"}
  BY DEF SendState
<1>5. DOMAIN sends = 1..Len(sends) /\ Len(sends) \in Nat /\ \A j \in DOMAIN sends : sends[j] \in SendState
  BY <1>3
<1>6. /\ D!Week(now) \in 1..Weeks /\ (tick # 0 => D!Week(tick) \in 1..Weeks)
      /\ (tick # 0 => D!Week(tick) <= D!Week(now))
  BY <1>1, <1>2, WeekRange, WeekMonotone
<1> QED
  BY <1>1, <1>2, <1>3, <1>4, <1>5, <1>6

\* What the goroutines of earlier Mondays do leaves the loop alone.
LoopStays == UNCHANGED <<now, ticks, tick, runner, lastFired, due>>

\* One of them goes on, and no mail is sent.
LEMMA SendMoves ==
  ASSUME DigestInv, LoopStays, UNCHANGED <<mailed, watched, db>>,
         NEW j \in DOMAIN sends, NEW q \in SendState, sends' = [sends EXCEPT ![j] = q],
         q.week = sends[j].week, Attends(q, mailed, watched),
         \A u \in Users : MayMail(q, u) => MayMail(sends[j], u)
  PROVE  DigestInv'
<1>1. /\ sends' \in Seq(SendState) /\ DOMAIN sends' = DOMAIN sends
      /\ sends'[j] = q /\ \A i \in DOMAIN sends \ {j} : sends'[i] = sends[i]
  BY DigestFacts
<1>2. \A i \in DOMAIN sends : sends'[i].week = sends[i].week
  BY <1>1
<1>3. DigestTypeOK'
  <2>1. runner # "off"
    BY DEF DigestInv, DigestTypeOK
  <2>2. \A r \in SendState : /\ r.week \in 1..Weeks
                             /\ r.stage # "list" => r.listed \subseteq Users
    BY DEF SendState
  <2>3. \A i \in DOMAIN sends' : sends'[i] \in SendState
    BY <1>1
  <2> QED
    BY <1>1, <2>1, <2>2, <2>3 DEF DigestInv, DigestTypeOK, D!TypeOK, LoopStays
<1>4. Mondays'
  BY DEF DigestInv, Mondays, LoopStays
<1>5. OnePerMonday'
  BY <1>1, <1>2 DEF DigestInv, OnePerMonday, LoopStays
<1>6. MailsAhead'
  <2>1. \A i \in DOMAIN sends, u \in Users : MayMail(sends'[i], u) => MayMail(sends[i], u)
    BY <1>1
  <2>2. ASSUME NEW u \in Users, NEW w \in 1..Weeks
        PROVE  /\ mailed[<<u, w>>] <= 1
               /\ lastFired < w => mailed[<<u, w>>] = 0
               /\ \A i \in DOMAIN sends :
                    sends'[i].week = w /\ MayMail(sends'[i], u) => mailed[<<u, w>>] = 0
    BY <1>2, <2>1 DEF DigestInv, MailsAhead
  <2> QED
    BY <1>1, <2>2 DEF MailsAhead, LoopStays
<1>7. Attending'
  BY <1>1 DEF DigestInv, Attending
<1> QED
  BY <1>3, <1>4, <1>5, <1>6, <1>7 DEF DigestInv

\* The variables of the process that the digest leaves alone.
Outside == UNCHANGED <<pc, life, inflight, timedOut, open>>

LEMMA DigestListUsers ==
  ASSUME DigestInv, Outside, NEW j \in DOMAIN sends, D!ListUsers(j)
  PROVE  DigestInv'
<1>1. LoopStays /\ UNCHANGED <<mailed, watched, db>> /\ sends[j].stage = "list"
  BY DEF D!ListUsers, Outside, LoopStays, D!clock, D!loop, D!store, D!history
<1>2. sends[j].week \in 1..Weeks /\ watched \subseteq Users
  BY DigestFacts DEF DigestInv, DigestTypeOK, D!TypeOK
<1>3. \A u \in Users : MayMail(sends[j], u)
  BY <1>1 DEF MayMail
<1> DEFINE q1 == [stage |-> "users", week |-> sends[j].week, todo |-> watched,
                  listed |-> watched, failed |-> {}]
           q2 == [stage |-> "done", week |-> sends[j].week, listed |-> {}, failed |-> {}]
<1>4. /\ q1 \in SendState /\ q1.week = sends[j].week /\ Attends(q1, mailed, watched)
      /\ q2 \in SendState /\ q2.week = sends[j].week /\ Attends(q2, mailed, watched)
  BY <1>2 DEF SendState, Attends, Served, MayMail
<1>5. sends' = [sends EXCEPT ![j] = q1] \/ sends' = [sends EXCEPT ![j] = q2]
  BY DEF D!ListUsers, D!SendGoes
<1> HIDE DEF q1, q2
<1> QED
  BY <1>1, <1>3, <1>4, <1>5, SendMoves

\* The shapes of a goroutine's state.
LEMMA SendShapes ==
  ASSUME NEW q \in SendState
  PROVE  /\ q.stage = "users" =>
              q \in [stage : {"users"}, week : 1..Weeks, todo : SUBSET Users,
                     listed : SUBSET Users, failed : SUBSET Users]
         /\ q.stage = "mail" =>
              q \in [stage : {"mail"}, week : 1..Weeks, todo : SUBSET Users,
                     listed : SUBSET Users, failed : SUBSET Users, user : Users]
BY DEF SendState

\* sendForUser has dealt with u: mailed, or found without a monitor, or failed,
\* then fails is {u}.
After(q, u, fails) ==
  [stage |-> "users", week |-> q.week, todo |-> q.todo \ {u}, listed |-> q.listed,
   failed |-> q.failed \cup fails]

LEMMA AfterUser ==
  ASSUME NEW q \in SendState, q.stage \in {"users", "mail"}, NEW u \in Users,
         NEW fails \in SUBSET {u}
  PROVE  LET r == After(q, u, fails) IN
         /\ r \in SendState /\ r.week = q.week /\ r.stage = "users"
         /\ r.listed = q.listed /\ fails \subseteq r.failed /\ q.failed \subseteq r.failed
         /\ \A v : MayMail(r, v) <=> v \in q.todo /\ v # u
         /\ \A v : MayMail(q, v) <=> v \in q.todo
<1> DEFINE r == After(q, u, fails)
<1>1. /\ q.week \in 1..Weeks /\ q.todo \subseteq Users /\ q.listed \subseteq Users
      /\ q.failed \subseteq Users
  BY SendShapes
<1>2. r \in SendState
  BY <1>1 DEF SendState, After
<1>3. /\ r.week = q.week /\ r.stage = "users" /\ r.listed = q.listed
      /\ fails \subseteq r.failed /\ q.failed \subseteq r.failed
  BY DEF After
<1>4. /\ \A v : MayMail(r, v) <=> v \in q.todo /\ v # u
      /\ \A v : MayMail(q, v) <=> v \in q.todo
  BY DEF MayMail, After
<1> QED
  BY <1>2, <1>3, <1>4

LEMMA DigestUserMonitors ==
  ASSUME DigestInv, Outside, NEW j \in DOMAIN sends, NEW u \in Users, D!UserMonitors(j, u)
  PROVE  DigestInv'
<1> DEFINE q == sends[j]
           r == [stage |-> "mail", week |-> q.week, todo |-> q.todo, listed |-> q.listed,
                 failed |-> q.failed, user |-> u]
<1>1. /\ LoopStays /\ UNCHANGED <<mailed, watched, db>>
      /\ q.stage = "users" /\ u \in q.todo
      /\ \/ sends' = [sends EXCEPT ![j] = After(q, u, {u})]
         \/ sends' = [sends EXCEPT ![j] = After(q, u, {})] /\ u \notin watched
         \/ sends' = [sends EXCEPT ![j] = r]
  BY DEF D!UserMonitors, D!UserDone, D!SendGoes, D!Rest, After, Outside, LoopStays, D!clock,
     D!loop, D!store, D!history
<1>2. q \in SendState /\ Attends(q, mailed, watched)
  BY DigestFacts DEF DigestInv, Attending
<1>3. ASSUME NEW fails \in SUBSET {u}, u \in fails \/ u \notin watched
      PROVE  Attends(After(q, u, fails), mailed, watched)
  <2>1. PICK p \in SendState : p = After(q, u, fails)
    BY <1>1, <1>2, AfterUser
  <2>2. /\ p.stage = "users" /\ p.week = q.week /\ p.listed = q.listed
        /\ fails \subseteq p.failed /\ q.failed \subseteq p.failed
        /\ \A v : MayMail(q, v) => MayMail(p, v) \/ v = u
    BY <1>1, <1>2, <2>1, AfterUser
  <2>3. Served(p, u, mailed, watched) /\ \A v : Served(q, v, mailed, watched) => Served(p, v, mailed, watched)
    BY <1>3, <2>2 DEF Served
  <2>4. \A v \in p.listed : MayMail(q, v) \/ Served(q, v, mailed, watched)
    BY <1>1, <1>2, <2>2 DEF Attends
  <2> QED
    BY <2>1, <2>2, <2>3, <2>4 DEF Attends
<1>4. ASSUME NEW fails \in SUBSET {u}, u \in fails \/ u \notin watched,
             sends' = [sends EXCEPT ![j] = After(q, u, fails)]
      PROVE  DigestInv'
  <2>1. /\ After(q, u, fails) \in SendState /\ After(q, u, fails).week = q.week
        /\ \A v : MayMail(After(q, u, fails), v) => MayMail(q, v)
    BY <1>1, <1>2, AfterUser
  <2> QED
    BY <1>1, <1>3, <1>4, <2>1, SendMoves
<1>5. /\ r \in SendState /\ r.week = q.week /\ Attends(r, mailed, watched)
      /\ \A v : MayMail(r, v) => MayMail(q, v)
  <2>1. /\ q.week \in 1..Weeks /\ q.todo \subseteq Users /\ q.listed \subseteq Users
        /\ q.failed \subseteq Users
    BY <1>1, <1>2, SendShapes
  <2>2. r \in SendState
    BY <2>1 DEF SendState
  <2>3. \A v : MayMail(r, v) <=> MayMail(q, v)
    BY <1>1 DEF MayMail
  <2> QED
    BY <1>1, <1>2, <2>2, <2>3 DEF Attends, Served
<1> HIDE DEF r
<1>6. CASE sends' = [sends EXCEPT ![j] = r]
  BY <1>1, <1>5, <1>6, SendMoves
<1> QED
  BY <1>1, <1>4, <1>6

LEMMA DigestSendEnds ==
  ASSUME DigestInv, Outside, NEW j \in DOMAIN sends, D!SendEnds(j)
  PROVE  DigestInv'
<1> DEFINE q == sends[j]
           r == [stage |-> "done", week |-> q.week, listed |-> q.listed,
                 failed |-> q.failed]
<1>1. /\ LoopStays /\ UNCHANGED <<mailed, watched, db>>
      /\ q.stage = "users" /\ q.todo = {} /\ sends' = [sends EXCEPT ![j] = r]
  BY DEF D!SendEnds, D!SendGoes, Outside, LoopStays, D!clock, D!loop, D!store, D!history
<1>2. q \in SendState /\ Attends(q, mailed, watched)
  BY DigestFacts DEF DigestInv, Attending
<1>3. r \in SendState /\ r.week = q.week /\ Attends(r, mailed, watched) /\ \A v : ~MayMail(r, v)
  <2>1. q.week \in 1..Weeks /\ q.listed \subseteq Users /\ q.failed \subseteq Users
    BY <1>1, <1>2, SendShapes
  <2>2. r \in SendState
    BY <2>1 DEF SendState
  <2>3. \A v \in q.listed : Served(q, v, mailed, watched)
    BY <1>1, <1>2 DEF Attends, MayMail
  <2> QED
    BY <2>2, <2>3 DEF Attends, MayMail, Served
<1> HIDE DEF r
<1> QED
  BY <1>1, <1>3, SendMoves

\* A mail is sent, to a user who has had none this week from this process.
LEMMA DigestMail ==
  ASSUME DigestInv, Outside, NEW j \in DOMAIN sends, D!Mail(j)
  PROVE  DigestInv'
<1> DEFINE q == sends[j]
           u == q.user
           w == q.week
<1>1. /\ LoopStays /\ UNCHANGED <<watched, db>> /\ q.stage = "mail"
      /\ \/ /\ sends' = [sends EXCEPT ![j] = After(q, u, {u})] /\ mailed' = mailed
         \/ /\ sends' = [sends EXCEPT ![j] = After(q, u, {})]
            /\ mailed' = [mailed EXCEPT ![<<u, w>>] = @ + 1]
  BY DEF D!Mail, D!UserDone, D!SendGoes, D!Rest, After, Outside, LoopStays, D!clock, D!loop,
     D!store, D!history
<1>2. q \in SendState /\ Attends(q, mailed, watched) /\ u \in Users /\ w \in 1..Weeks /\ u \in q.todo
  BY <1>1, DigestFacts, SendShapes DEF DigestInv, Attending, Attends
<1>3. \A v \in q.todo : MayMail(q, v)
  BY <1>1 DEF MayMail
<1>4. CASE sends' = [sends EXCEPT ![j] = After(q, u, {u})] /\ mailed' = mailed
  <2>1. PICK p \in SendState : p = After(q, u, {u})
    BY <1>1, <1>2, AfterUser
  <2>2. /\ p.stage = "users" /\ p.week = q.week /\ p.listed = q.listed
        /\ u \in p.failed /\ q.failed \subseteq p.failed
        /\ \A v : MayMail(q, v) => MayMail(p, v) \/ v = u
        /\ \A v : MayMail(p, v) => MayMail(q, v)
    BY <1>1, <1>2, <2>1, AfterUser
  <2>3. Served(p, u, mailed, watched) /\ \A v : Served(q, v, mailed, watched) => Served(p, v, mailed, watched)
    BY <2>2 DEF Served
  <2>4. \A v \in p.listed : MayMail(q, v) \/ Served(q, v, mailed, watched)
    BY <1>1, <1>2, <2>2 DEF Attends
  <2>5. Attends(p, mailed, watched)
    BY <2>2, <2>3, <2>4 DEF Attends
  <2> QED
    BY <1>1, <1>4, <2>1, <2>2, <2>5, SendMoves
<1>5. CASE /\ sends' = [sends EXCEPT ![j] = After(q, u, {})]
           /\ mailed' = [mailed EXCEPT ![<<u, w>>] = @ + 1]
  <2>1. PICK r \in SendState : r = After(q, u, {})
    BY <1>1, <1>2, AfterUser
  <2>2. /\ r.week = w /\ r.stage = "users"
        /\ r.listed = q.listed /\ q.failed \subseteq r.failed
        /\ \A v : MayMail(r, v) <=> v \in q.todo /\ v # u
        /\ \A v : MayMail(q, v) <=> v \in q.todo
    BY <1>1, <1>2, <2>1, AfterUser
  <2>3. /\ sends' \in Seq(SendState) /\ DOMAIN sends' = DOMAIN sends
        /\ sends'[j] = r /\ \A i \in DOMAIN sends \ {j} : sends'[i] = sends[i]
    BY <1>5, <2>1, DigestFacts
  <2>4. \A i \in DOMAIN sends : sends'[i].week = sends[i].week
    BY <2>2, <2>3
  <2>5. /\ mailed' \in [Users \X (1..Weeks) -> Nat]
        /\ mailed'[<<u, w>>] = mailed[<<u, w>>] + 1
        /\ \A v \in Users, x \in 1..Weeks :
             v # u \/ x # w => mailed'[<<v, x>>] = mailed[<<v, x>>]
        /\ \A v \in Users, x \in 1..Weeks : mailed[<<v, x>>] \in Nat
    <3>1. mailed \in [Users \X (1..Weeks) -> Nat] /\ <<u, w>> \in Users \X (1..Weeks)
      BY <1>2, DigestFacts
    <3>2. \A x \in Users \X (1..Weeks) : mailed[x] \in Nat
      BY <3>1
    <3>3. mailed[<<u, w>>] + 1 \in Nat
      BY <3>1, <3>2
    <3>4. mailed' \in [Users \X (1..Weeks) -> Nat]
      BY <1>5, <3>1, <3>3
    <3>5. \A x \in Users \X (1..Weeks) :
            mailed'[x] = IF x = <<u, w>> THEN mailed[<<u, w>>] + 1 ELSE mailed[x]
      BY <1>5, <3>1
    <3> QED
      BY <3>1, <3>2, <3>4, <3>5
  <2>6. DigestTypeOK'
    <3>1. runner # "off"
      BY DEF DigestInv, DigestTypeOK
    <3>2. \A s \in SendState : /\ s.week \in 1..Weeks
                               /\ s.stage # "list" => s.listed \subseteq Users
      BY DEF SendState
    <3>3. \A i \in DOMAIN sends' : sends'[i] \in SendState
      BY <2>3
    <3> QED
      BY <1>1, <2>3, <2>5, <3>1, <3>2, <3>3 DEF DigestInv, DigestTypeOK, D!TypeOK, LoopStays
  <2>7. Mondays'
    BY <1>1 DEF DigestInv, Mondays, LoopStays
  <2>8. OnePerMonday'
    BY <1>1, <2>3, <2>4 DEF DigestInv, OnePerMonday, LoopStays
  <2>9. w <= lastFired /\ \A i \in DOMAIN sends : sends[i].week = w => i = j
    BY DEF DigestInv, OnePerMonday
  <2>10. mailed[<<u, w>>] = 0
    BY <1>2, <1>3 DEF DigestInv, MailsAhead
  <2>11. MailsAhead'
    <3>1. ASSUME NEW v \in Users, NEW x \in 1..Weeks
          PROVE  /\ mailed'[<<v, x>>] <= 1
                 /\ lastFired < x => mailed'[<<v, x>>] = 0
                 /\ \A i \in DOMAIN sends :
                      sends'[i].week = x /\ MayMail(sends'[i], v) => mailed'[<<v, x>>] = 0
      <4>1. CASE v = u /\ x = w
        <5>1. mailed'[<<v, x>>] <= 1
          BY <1>2, <2>5, <2>10, <4>1
        <5>2. ~(lastFired < x)
          BY <2>9, <4>1, DigestFacts
        <5>3. \A i \in DOMAIN sends : sends'[i].week = x => i = j
          BY <2>4, <2>9, <4>1
        <5>4. ~MayMail(r, v)
          BY <2>2, <4>1
        <5> QED
          BY <2>3, <5>1, <5>2, <5>3, <5>4
      <4>2. CASE v # u \/ x # w
        <5>1. mailed'[<<v, x>>] = mailed[<<v, x>>]
          BY <2>5, <4>2
        <5>2. \A i \in DOMAIN sends : MayMail(sends'[i], v) => MayMail(sends[i], v)
          BY <2>2, <2>3
        <5> QED
          BY <2>4, <5>1, <5>2 DEF DigestInv, MailsAhead
      <4> QED
        BY <4>1, <4>2
    <3> QED
      BY <1>1, <2>3, <3>1 DEF MailsAhead, LoopStays
  <2>12. Attending'
    <3>1. \A v \in Users, x \in 1..Weeks :
            mailed[<<v, x>>] > 0 \/ (v = u /\ x = w) => mailed'[<<v, x>>] > 0
      BY <1>2, <2>5
    <3>2. ASSUME NEW i \in DOMAIN sends, i # j
          PROVE  Attends(sends'[i], mailed', watched')
      <4>1. PICK p \in SendState : p = sends[i]
        BY DigestFacts
      <4>2. Attends(p, mailed, watched) /\ p.week \in 1..Weeks
        BY <4>1, DigestFacts DEF DigestInv, Attending
      <4>3. p.stage # "list" => p.listed \subseteq Users
        BY DEF SendState
      <4>4. Attends(p, mailed', watched)
        BY <3>1, <4>2, <4>3 DEF Attends, Served
      <4> QED
        BY <1>1, <2>3, <3>2, <4>1, <4>4
    <3>3. Attends(r, mailed', watched')
      <4>1. r.listed \subseteq Users
        BY <2>2, SendShapes
      <4>2. \A v \in r.listed : MayMail(q, v) \/ Served(q, v, mailed, watched)
        BY <1>1, <1>2, <2>2 DEF Attends
      <4>3. \A v \in r.listed : MayMail(r, v) \/ Served(r, v, mailed', watched)
        BY <1>2, <2>2, <3>1, <4>1, <4>2 DEF Served
      <4> QED
        BY <1>1, <2>2, <4>3 DEF Attends
    <3> QED
      BY <2>3, <3>2, <3>3 DEF Attending
  <2> QED
    BY <2>6, <2>7, <2>8, <2>11, <2>12 DEF DigestInv
<1> QED
  BY <1>1, <1>4, <1>5

\* The loop.  The process runs as long as the runner does.
LEMMA DigestTick ==
  ASSUME DigestInv, Outside, D!Tick
  PROVE  DigestInv'
<1>1. UNCHANGED <<now, runner, lastFired, sends, watched, db, mailed>>
      /\ runner = "loop" /\ ticks' = ticks + 1 /\ ticks < MaxTicks
  BY DEF D!Tick, D!store, Outside
<1>2. CASE tick # 0
  <2>1. UNCHANGED <<tick, due>>
    BY <1>2 DEF D!Tick
  <2> QED
    BY <1>1, <2>1, ProcessAssumption
       DEF DigestInv, DigestTypeOK, D!TypeOK, Mondays, OnePerMonday, MailsAhead, Attending
<1>3. CASE tick = 0
  <2>1. tick' = now /\ due' = IF D!InWindow(now) THEN D!Week(now) ELSE due
    BY <1>3 DEF D!Tick
  <2>2. now \in Nat \ {0} /\ due' \in 0..Weeks
    BY <2>1, DigestFacts
  <2>3. due # 0 => lastFired >= due
    BY <1>3, DigestFacts, WindowOfWeek DEF DigestInv, Mondays
  <2>4. Mondays'
    <3>1. lastFired <= D!Week(now)
      BY DEF DigestInv, Mondays
    <3>2. CASE D!InWindow(now)
      BY <1>1, <2>1, <2>2, <3>1, <3>2, WindowOfWeek DEF Mondays
    <3>3. CASE ~D!InWindow(now)
      BY <1>1, <2>1, <2>3, <3>1, <3>3, DigestFacts DEF Mondays
    <3> QED
      BY <3>2, <3>3
  <2>5. DigestTypeOK'
    BY <1>1, <2>1, <2>2, ProcessAssumption DEF DigestInv, DigestTypeOK, D!TypeOK
  <2> QED
    BY <1>1, <2>4, <2>5 DEF DigestInv, OnePerMonday, MailsAhead, Attending
<1> QED
  BY <1>2, <1>3

LEMMA DigestMinute ==
  ASSUME DigestInv, Outside, D!Minute
  PROVE  DigestInv'
<1>1. /\ UNCHANGED <<tick, runner, lastFired, sends, watched, db, due, mailed>>
      /\ now < Weeks * Span /\ now' = now + 1 /\ ticks' = 0
  BY DEF D!Minute, D!loop, D!store, D!history, Outside
<1>2. now' \in 1..(Weeks * Span) /\ now <= now' /\ now' \in Nat
  BY <1>1, DigestFacts
<1>3. DigestTypeOK'
  <2>1. tick' \in 0..now'
    BY <1>1, <1>2, DigestFacts
  <2>2. now' \in 1..(Weeks * Span)
    BY <1>2
  <2>3. 0 \in 0..MaxTicks
    BY ProcessAssumption
  <2>4. /\ UNCHANGED <<tick, runner, lastFired, sends, watched, db, due, mailed>>
        /\ ticks' = 0
    BY <1>1
  <2> QED
    BY <2>1, <2>2, <2>3, <2>4 DEF DigestInv, DigestTypeOK, D!TypeOK
<1>4. Mondays'
  <2>1. D!Week(now) <= D!Week(now)' /\ D!Week(now) \in Nat /\ D!Week(now)' \in Nat
    BY <1>2, DigestFacts, WeekMonotone, WeekRange
  <2> QED
    BY <1>1, <2>1, DigestFacts DEF DigestInv, Mondays
<1> QED
  BY <1>1, <1>3, <1>4 DEF DigestInv, OnePerMonday, MailsAhead, Attending

LEMMA DigestStop ==
  ASSUME DigestInv, Outside, D!Stop
  PROVE  DigestInv'
BY DEF D!Stop, D!clock, D!store, D!history, Outside, DigestInv, DigestTypeOK, D!TypeOK, Mondays,
   OnePerMonday, MailsAhead, Attending

\* Who leaves need not be mailed.
LEMMA DigestLeave ==
  ASSUME DigestInv, Outside, NEW u \in Users, D!Leave(u)
  PROVE  DigestInv'
<1>1. /\ UNCHANGED <<now, ticks, tick, runner, lastFired, sends, db, due, mailed>>
      /\ watched' \subseteq watched
  BY DEF D!Leave, D!clock, D!loop, D!history
<1>2. DigestTypeOK' /\ Mondays' /\ OnePerMonday' /\ MailsAhead'
  BY <1>1 DEF DigestInv, DigestTypeOK, D!TypeOK, Mondays, OnePerMonday, MailsAhead
<1>3. Attending'
  BY <1>1 DEF DigestInv, Attending, Attends, Served
<1> QED
  BY <1>2, <1>3 DEF DigestInv

\* A Monday is fired at most once, and then no earlier one.
LEMMA DigestReceive ==
  ASSUME DigestInv, Outside, D!Receive
  PROVE  DigestInv'
<1> DEFINE w == D!Week(tick)
           q == [stage |-> "list", week |-> w]
<1>1. /\ UNCHANGED <<now, ticks, runner, watched, db, due, mailed>>
      /\ runner = "loop" /\ tick # 0 /\ tick' = 0
  BY DEF D!Receive, D!clock, D!store, D!history, Outside
<1>2. /\ w \in 1..Weeks /\ w <= D!Week(now) /\ lastFired <= w /\ w \in Nat
      /\ tick \in Nat \ {0} /\ lastFired \in Nat /\ due \in Nat /\ D!Week(now) \in Nat
  BY <1>1, DigestFacts DEF DigestInv, Mondays
<1>3. due # 0 /\ lastFired < due => D!InWindow(tick) /\ w = due
  BY <1>1, <1>2, WindowOfWeek DEF DigestInv, Mondays
<1>4. q \in SendState /\ q.week = w /\ \A m, x : Attends(q, m, x)
  BY <1>2 DEF SendState, Attends
<1> HIDE DEF w, q
<1>5. CASE D!FiresAt(tick)
  <2>1. lastFired' = w /\ sends' = Append(sends, q) /\ w # lastFired
    BY <1>5 DEF D!Receive, D!FiresAt, w, q
  <2>2. /\ sends' \in Seq(SendState) /\ DOMAIN sends' = DOMAIN sends \cup {Len(sends) + 1}
        /\ sends'[Len(sends) + 1] = q /\ \A i \in DOMAIN sends : sends'[i] = sends[i]
    BY <1>4, <2>1, DigestFacts
  <2>3. DigestTypeOK'
    <3>1. \A s \in SendState : /\ s.week \in 1..Weeks
                               /\ s.stage # "list" => s.listed \subseteq Users
      BY DEF SendState
    <3>2. \A i \in DOMAIN sends' : sends'[i] \in SendState
      BY <1>4, <2>2, DigestFacts
    <3>3. tick' \in 0..now'
      BY <1>1, DigestFacts
    <3> QED
      BY <1>1, <1>2, <2>1, <2>2, <3>1, <3>2, <3>3 DEF DigestInv, DigestTypeOK, D!TypeOK
  <2>4. Mondays'
    BY <1>1, <1>2, <1>3, <2>1 DEF Mondays
  <2>5. \A i \in DOMAIN sends : sends[i].week \in Nat /\ sends[i].week < w
    BY <1>2, <2>1, DigestFacts DEF DigestInv, OnePerMonday
  <2>6. OnePerMonday'
    BY <1>2, <1>4, <2>1, <2>2, <2>5 DEF DigestInv, OnePerMonday
  <2>7. MailsAhead'
    <3>1. ASSUME NEW u \in Users, NEW x \in 1..Weeks
          PROVE  /\ mailed[<<u, x>>] <= 1
                 /\ w < x => mailed[<<u, x>>] = 0
                 /\ q.week = x => mailed[<<u, x>>] = 0
                 /\ \A i \in DOMAIN sends :
                      sends[i].week = x /\ MayMail(sends[i], u) => mailed[<<u, x>>] = 0
      <4>1. lastFired < w
        BY <1>2, <2>1
      <4>2. w <= x => lastFired < x
        BY <1>2, <4>1
      <4> QED
        BY <1>2, <1>4, <4>2 DEF DigestInv, MailsAhead
    <3>2. ASSUME NEW u \in Users, NEW x \in 1..Weeks, NEW i \in DOMAIN sends',
                 sends'[i].week = x, MayMail(sends'[i], u)
          PROVE  mailed[<<u, x>>] = 0
      <4>1. CASE i \in DOMAIN sends
        BY <2>2, <3>1, <3>2, <4>1
      <4>2. CASE i = Len(sends) + 1
        BY <2>2, <3>1, <3>2, <4>2
      <4> QED
        BY <2>2, <4>1, <4>2
    <3>3. mailed' = mailed /\ lastFired' = w
      BY <1>1, <2>1
    <3> QED
      BY <3>1, <3>2, <3>3 DEF MailsAhead
  <2>8. Attending'
    BY <1>1, <1>4, <2>2 DEF DigestInv, Attending
  <2> QED
    BY <2>3, <2>4, <2>6, <2>7, <2>8 DEF DigestInv
<1>6. CASE ~D!FiresAt(tick)
  <2>1. UNCHANGED <<lastFired, sends>>
    BY <1>6 DEF D!Receive
  <2>2. due # 0 => due <= lastFired
    BY <1>2, <1>3, <1>6 DEF D!FiresAt, w
  <2>3. Mondays'
    BY <1>1, <1>2, <2>1, <2>2 DEF DigestInv, Mondays
  <2>4. DigestTypeOK'
    <3>1. tick' \in 0..now'
      BY <1>1, DigestFacts
    <3> QED
      BY <1>1, <2>1, <3>1 DEF DigestInv, DigestTypeOK, D!TypeOK
  <2> QED
    BY <1>1, <2>1, <2>3, <2>4 DEF DigestInv, OnePerMonday, MailsAhead, Attending
<1> QED
  BY <1>5, <1>6

LEMMA DigestSteps ==
  ASSUME DigestInv, Outside, D!Next
  PROVE  DigestInv'
<1>1. ASSUME NEW j \in DOMAIN sends, D!Send(j) PROVE DigestInv'
  BY <1>1, DigestListUsers, DigestMail, DigestSendEnds, DigestUserMonitors DEF D!Send
<1> QED
  BY <1>1, DigestTick, DigestMinute, DigestReceive, DigestStop, DigestLeave DEF D!Next

-----------------------------------------------------------------------------
(* The process. *)

LEMMA InitProcess == Init => Inv
<1> SUFFICES ASSUME Init PROVE Inv
  OBVIOUS
<1>1. MigrationInv /\ open.stage = "closed"
  BY MigrationInit DEF Init, M!Init, M!Closed
<1>2. /\ now = 1 /\ ticks = 0 /\ tick = 0 /\ runner = "off" /\ lastFired = 0 /\ sends = <<>>
      /\ watched = Users /\ db = "closed" /\ cancelled = FALSE /\ due = 0
      /\ mailed = [x \in Users \X (1..Weeks) |-> 0]
      /\ pc = "exited" /\ life = 0 /\ inflight = 0 /\ timedOut = FALSE
  BY DEF Init, D!Init, D!NoMails
<1>3. sends \in Seq(SendState) /\ DOMAIN sends = {}
  BY <1>2
<1>4. DigestTypeOK
  <2>1. 1 \in 1..(Weeks * Span)
    BY ProcessAssumption
  <2> QED
    <3>1. D!TypeOK
      <4>1. 0 \in 0..MaxTicks /\ 0 \in 0..1 /\ 0 \in 0..Weeks
        BY ProcessAssumption
      <4>2. now \in 1..(Weeks * Span) /\ ticks \in 0..MaxTicks /\ tick \in 0..now
        BY ONLY <1>2, <2>1, <4>1
      <4>3. runner \in {"off", "loop", "done"} /\ db \in {"open", "closed"}
        BY ONLY <1>2
      <4>4. lastFired \in 0..Weeks /\ due \in 0..Weeks /\ watched \subseteq Users
        BY ONLY <1>2, <4>1
      <4> QED
        BY ONLY <1>3, <4>2, <4>3, <4>4 DEF D!TypeOK
    <3>2. mailed \in [Users \X (1..Weeks) -> Nat]
      BY <1>2
    <3> QED
      BY <1>2, <1>3, <3>1, <3>2 DEF DigestTypeOK
<1>5. Mondays
  <2>1. D!Week(1) \in Nat
    BY ProcessAssumption DEF D!Week
  <2> QED
    BY <1>2, <2>1 DEF Mondays
<1>6. \A u \in Users, w \in 1..Weeks : mailed[<<u, w>>] = 0
  BY <1>2
<1>7. DigestInv
  BY <1>2, <1>3, <1>4, <1>5, <1>6 DEF DigestInv, OnePerMonday, MailsAhead, Attending
<1>8. ProcessInv
  <2>1. life \in 0..MaxLives /\ inflight \in 0..MaxRequests
    BY <1>2, ProcessAssumption
  <2>2. ~(inflight > 0)
    BY <1>2
  <2>3. timedOut \in BOOLEAN /\ cancelled \in BOOLEAN /\ ~cancelled
    BY <1>2
  <2> QED
    BY <1>1, <1>2, <2>1, <2>2, <2>3 DEF ProcessInv
<1> QED
  BY <1>1, <1>7, <1>8 DEF Inv

\* The digest, as long as the process neither starts nor ends.
LEMMA DigestStays ==
  ASSUME DigestInv, UNCHANGED <<now, ticks, tick, runner, lastFired, sends, watched, due, mailed>>,
         db' \in {"open", "closed"}
  PROVE  DigestInv'
<1>1. DigestTypeOK' /\ Mondays' /\ OnePerMonday' /\ MailsAhead'
  BY DEF DigestInv, DigestTypeOK, D!TypeOK, Mondays, OnePerMonday, MailsAhead
<1>2. Attending'
  BY DEF DigestInv, Attending
<1> QED
  BY <1>1, <1>2 DEF DigestInv

LEMMA StepStart == Inv /\ Start => Inv'
<1> SUFFICES ASSUME Inv, Start PROVE Inv'
  OBVIOUS
<1>1. /\ pc = "exited" /\ pc' = "opening" /\ life < MaxLives /\ life' = life + 1
      /\ open' = [stage |-> "schema"] /\ open'.stage = "schema"
      /\ UNCHANGED <<columns, slugless, skipped, digest, db, cancelled, faults, inflight, timedOut>>
  BY DEF Start
<1>2. MigrationInv'
  BY <1>1, MigrationStart DEF Inv, ProcessInv
<1>3. ProcessInv'
  <2>1. life' \in 0..MaxLives /\ inflight' \in 0..MaxRequests /\ ~(inflight' > 0)
    BY <1>1, ProcessAssumption DEF Inv, ProcessInv
  <2>2. timedOut' \in BOOLEAN /\ cancelled' \in BOOLEAN /\ ~cancelled'
    BY <1>1 DEF Inv, ProcessInv
  <2>3. runner' = "off" /\ db' = "closed"
    BY <1>1 DEF Inv, ProcessInv, digest
  <2> QED
    BY <1>1, <2>1, <2>2, <2>3 DEF ProcessInv
<1>4. DigestInv'
  BY <1>1, DigestStays DEF Inv, digest, DigestInv, DigestTypeOK, D!TypeOK
<1> QED
  BY <1>2, <1>3, <1>4 DEF Inv

LEMMA StepOpening == Inv /\ OpenStep => Inv'
<1> SUFFICES ASSUME Inv, OpenStep PROVE Inv'
  OBVIOUS
<1>1. /\ pc = "opening" /\ M!Open /\ UNCHANGED <<digest, db, cancelled, process>>
  BY DEF OpenStep
<1>2. MigrationInv'
  BY <1>1, StepOpen DEF Inv
<1>3. ProcessInv'
  BY <1>1 DEF Inv, ProcessInv, process, digest
<1>4. DigestInv'
  BY <1>1, DigestStays DEF Inv, process, digest, DigestInv, DigestTypeOK, D!TypeOK
<1> QED
  BY <1>2, <1>3, <1>4 DEF Inv

LEMMA StepServe == Inv /\ Serve => Inv'
<1> SUFFICES ASSUME Inv, Serve PROVE Inv'
  OBVIOUS
<1>1. /\ pc = "opening" /\ pc' = "serving" /\ open.stage = "open" /\ db' = "open"
      /\ runner' = "loop"
      /\ UNCHANGED <<migration, now, ticks, tick, lastFired, sends, watched, due, mailed,
                     cancelled, faults, life, inflight, timedOut>>
  BY DEF Serve, Opened
<1>2. MigrationInv'
  BY <1>1, MigrationStays DEF Inv, MigrationInv, M!TypeOK
<1>3. ProcessInv'
  BY <1>1 DEF Inv, ProcessInv, migration
<1>4. DigestInv'
  BY <1>1 DEF Inv, DigestInv, DigestTypeOK, D!TypeOK, Mondays, OnePerMonday, MailsAhead, Attending
<1> QED
  BY <1>2, <1>3, <1>4 DEF Inv

LEMMA StepShutdown == Inv /\ (Signal \/ Respond \/ Shutdown \/ CloseStore) => Inv'
<1> SUFFICES ASSUME Inv, Signal \/ Respond \/ Shutdown \/ CloseStore PROVE Inv'
  OBVIOUS
<1>1. UNCHANGED <<migration, digest, faults, life>>
  BY DEF Signal, Respond, Shutdown, CloseStore
<1>2. MigrationInv'
  BY <1>1, MigrationStays DEF Inv, MigrationInv, M!TypeOK
<1>3. ProcessInv'
  <2>1. CASE Signal
    BY <1>1, <2>1 DEF Inv, ProcessInv, Signal, migration, digest
  <2>2. CASE Respond
    <3>1. /\ inflight > 0 /\ inflight' \in 0..MaxRequests
          /\ UNCHANGED <<open, runner, db, cancelled, pc, life, timedOut>>
      BY <1>1, <2>2, ProcessAssumption DEF Inv, ProcessInv, Respond, migration, digest
    <3> QED
      BY <3>1 DEF Inv, ProcessInv
  <2>3. CASE Shutdown
    <3>1. /\ pc = "draining" /\ pc' = "closing"
          /\ UNCHANGED <<open, runner, db, cancelled, life, inflight>>
          /\ (inflight = 0 /\ timedOut' = timedOut) \/ timedOut' = TRUE
      BY <1>1, <2>3 DEF Shutdown, Drained, migration, digest
    <3>2. timedOut' \in BOOLEAN /\ (inflight' > 0 => timedOut')
      <4>1. inflight \in Nat /\ timedOut \in BOOLEAN
        BY ProcessAssumption DEF Inv, ProcessInv
      <4>2. inflight = 0 => ~(inflight' > 0)
        BY <3>1
      <4> QED
        BY <3>1, <4>1, <4>2
    <3> QED
      BY <3>1, <3>2 DEF Inv, ProcessInv
  <2>4. CASE CloseStore
    BY <1>1, <2>4 DEF Inv, ProcessInv, CloseStore, migration, digest
  <2> QED
    BY <2>1, <2>2, <2>3, <2>4
<1>4. DigestInv'
  <2>1. db' \in {"open", "closed"}
    BY <1>1 DEF Inv, DigestInv, DigestTypeOK, D!TypeOK, Signal, Respond, Shutdown, CloseStore, digest
  <2> QED
    BY <1>1, <2>1, DigestStays DEF Inv, digest
<1> QED
  BY <1>2, <1>3, <1>4 DEF Inv

LEMMA StepExit == Inv /\ Exit => Inv'
<1> SUFFICES ASSUME Inv, Exit PROVE Inv'
  OBVIOUS
<1>1. /\ pc' = "exited" /\ tick' = 0 /\ ticks' = 0 /\ due' = 0
      /\ mailed' = [x \in Users \X (1..Weeks) |-> 0]
      /\ runner' = "off" /\ lastFired' = 0 /\ sends' = <<>> /\ db' = "closed"
      /\ cancelled' = FALSE /\ inflight' = 0 /\ timedOut' = FALSE
      /\ UNCHANGED <<now, watched, life>>
  BY DEF Exit, D!NoMails
<1>2. MigrationInv' /\ open'.stage = "closed"
  BY MigrationDie DEF Inv, Exit, M!Die, M!Goes, M!Closed
<1>3. ProcessInv'
  <2>1. life' \in 0..MaxLives /\ inflight' \in 0..MaxRequests /\ ~(inflight' > 0)
    BY <1>1, ProcessAssumption DEF Inv, ProcessInv
  <2>2. timedOut' \in BOOLEAN /\ cancelled' \in BOOLEAN /\ ~cancelled'
    BY <1>1
  <2> QED
    BY <1>1, <1>2, <2>1, <2>2 DEF ProcessInv
<1>4. DigestInv'
  <2>1. sends' \in Seq(SendState) /\ DOMAIN sends' = {}
    BY <1>1
  <2>2. DigestTypeOK'
    <3>1. 0 \in 0..MaxTicks /\ 0 \in 0..now /\ 0 \in 0..Weeks
      BY DigestFacts, ProcessAssumption DEF Inv
    <3> QED
      BY <1>1, <2>1, <3>1 DEF Inv, DigestInv, DigestTypeOK, D!TypeOK
  <2>3. Mondays'
    BY <1>1, DigestFacts DEF Inv, Mondays
  <2> QED
    BY <1>1, <2>1, <2>2, <2>3 DEF Inv, DigestInv, OnePerMonday, MailsAhead, Attending
<1> QED
  BY <1>2, <1>3, <1>4 DEF Inv

LEMMA StepDigest == Inv /\ DigestStep => Inv'
<1> SUFFICES ASSUME Inv, DigestStep PROVE Inv'
  OBVIOUS
<1>1. D!Next /\ UNCHANGED <<migration, process>> /\ pc # "opening"
  BY DEF DigestStep
<1>2. /\ faults' = faults \/ (faults < MaxFaults /\ faults' = faults + 1)
      /\ UNCHANGED <<db, cancelled>>
      /\ runner' = runner \/ runner = "loop"
  BY <1>1 DEF D!Next, D!Tick, D!Minute, D!Receive, D!Stop, D!Leave, D!Send, D!ListUsers, D!Mail,
     D!SendEnds, D!UserMonitors, D!StatementFails, D!StatementSucceeds, D!Fault, D!clock, D!loop,
     D!store, D!history
<1>3. MigrationInv'
  <2>1. faults' \in 0..MaxFaults /\ faults <= faults'
    BY <1>2, ProcessAssumption DEF Inv, MigrationInv, M!TypeOK
  <2> QED
    BY <1>1, <2>1, MigrationStays DEF Inv
<1>4. ProcessInv'
  BY <1>1, <1>2 DEF Inv, ProcessInv, migration, process
<1>5. DigestInv'
  BY <1>1, DigestSteps DEF Inv, ProcessInv, Outside, migration, process
<1> QED
  BY <1>3, <1>4, <1>5 DEF Inv

LEMMA StepInv == Inv /\ [Next]_vars => Inv'
<1>1. Inv /\ UNCHANGED vars => Inv'
  <2> SUFFICES ASSUME Inv, UNCHANGED vars PROVE Inv'
    OBVIOUS
  <2>1. UNCHANGED <<migration, digest, db, cancelled, faults, process>>
    BY DEF vars
  <2>2. MigrationInv'
    BY <2>1, MigrationStays DEF Inv, MigrationInv, M!TypeOK
  <2>3. ProcessInv'
    BY <2>1 DEF Inv, ProcessInv, migration, digest, process
  <2>4. DigestInv'
    BY <2>1, DigestStays DEF Inv, DigestInv, DigestTypeOK, D!TypeOK, digest, process
  <2> QED
    BY <2>2, <2>3, <2>4 DEF Inv
<1> QED
  BY <1>1, StepStart, StepOpening, StepServe, StepShutdown, StepExit, StepDigest DEF Next

\* What the theorems below rest on: every state of the process, of its migration
\* and of its digest satisfies the inductive invariant.
THEOREM Invariance == Spec => []Inv
BY InitProcess, StepInv, PTL DEF Spec

-----------------------------------------------------------------------------
(* The theorems. *)

\* Type correctness of the migration, of the digest and of main.
THEOREM TypeCorrect == Spec => []TypeOK
<1>1. Inv => TypeOK
  BY DEF Inv, MigrationInv, DigestInv, DigestTypeOK, ProcessInv, TypeOK
<1> QED
  BY <1>1, Invariance, PTL

\* The store is not closed under a request before the 30 seconds are over.
THEOREM StoreForRequests == Spec => []RequestsHaveTheStore
<1>1. Inv => RequestsHaveTheStore
  BY DEF Inv, ProcessInv, RequestsHaveTheStore
<1> QED
  BY <1>1, Invariance, PTL

\* Whatever version and whatever crashes the database comes from, a store in use
\* has all the columns.
THEOREM SchemaFirst == Spec => []SchemaBeforeService
<1>1. Inv => SchemaBeforeService
  BY DEF Inv, ProcessInv, MigrationInv, Progress, SchemaBeforeService
<1> QED
  BY <1>1, Invariance, PTL

\* Wherever an earlier process died, Open gives up only when a statement failed.
THEOREM OpenGoesOn == Spec => []OpenGivesUpOnlyOnFaults
<1>1. Inv => OpenGivesUpOnlyOnFaults
  BY DEF Inv, MigrationInv
<1> QED
  BY <1>1, Invariance, PTL

\* Once the store is in use, whoever has no slug was skipped by a failure or a crash.
THEOREM SlugsAreFilled == Spec => []BackfillIsComplete
<1>1. Inv => BackfillIsComplete
  BY ColumnsOfSteps DEF Inv, ProcessInv, MigrationInv, Progress, Filling, BackfillIsComplete
<1> QED
  BY <1>1, Invariance, PTL

\* A process mails a user at most once for a Monday, however often the ticker
\* fires, the clock is adjusted and sends of several Mondays overlap.
THEOREM OneMailAWeek == Spec => []MailsAreBounded
<1>1. Inv => MailsAreBounded
  <2> SUFFICES ASSUME Inv, NEW x \in DOMAIN mailed PROVE mailed[x] <= 1
    BY DEF MailsAreBounded
  <2>1. PICK u \in Users, w \in 1..Weeks : x = <<u, w>>
    BY DigestFacts DEF Inv
  <2> QED
    BY <2>1 DEF Inv, DigestInv, MailsAhead
<1> QED
  BY <1>1, Invariance, PTL

\* A 09:00 tick that Run received in time has started the digest of its Monday.
THEOREM MondaysAreFired == Spec => []NoMondayMissed
<1>1. Inv => NoMondayMissed
  BY DigestFacts DEF Inv, DigestInv, Mondays, NoMondayMissed
<1> QED
  BY <1>1, Invariance, PTL

\* A digest that has ended has mailed everyone it listed, but for those without
\* a monitor and those whose own statement or mail failed.
THEOREM EveryoneIsServed == Spec => []NobodyIsForgotten
<1>1. Inv => NobodyIsForgotten
  BY DEF Inv, DigestInv, Attending, Attends, MayMail, Served, NobodyIsForgotten
<1> QED
  BY <1>1, Invariance, PTL
===========================================================================
