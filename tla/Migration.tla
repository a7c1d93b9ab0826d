----------------------------- MODULE Migration -----------------------------
(***************************************************************************)
(* Open in store.go: the tables are created if they are missing, then the  *)
(* columns that later versions added are added one by one.  Each ALTER is  *)
(* guarded by a look at PRAGMA table_info; nothing is in a transaction, so *)
(* that a process may die between any two statements and the next one      *)
(* starts over.  Adding users.slug also fills it for the rows that exist.  *)
(*                                                                         *)
(* A database is the set of its added columns and of the users without a   *)
(* slug.                                                                   *)
(***************************************************************************)
EXTENDS Naturals, Sequences, SequencesExt

CONSTANTS
  OldUsers,   \* the users of a database that has no column slug yet
  MaxFaults   \* bound: how many statements fail

VARIABLES
  columns,      \* the added columns the database has
  slugless,     \* the users whose slug is NULL
  open,         \* where Open is
  faults,       \* counts the failed statements (bound)
  skipped       \* the users whose backfill failed or never came (history variable)

database == <<columns, slugless>>

\* The columns in the order of the code; those of one step share a look at
\* table_info.
Migrations ==
  << <<"slug">>, <<"ssl_expiry">>, <<"keyword">>,
     <<"dns_ms", "connect_ms", "ttfb_ms">>,
     <<"latency_threshold_ms", "latency_alert_sent_at">>,
     <<"max_monitors">>, <<"method", "request_body">> >>

Columns == UNION {ToSet(Migrations[m]) : m \in DOMAIN Migrations}

\* What version n of the program left behind.
Version(n) == UNION {ToSet(Migrations[m]) : m \in 1..n}

\* A new database has the tables as schema creates them.
New == columns = {"keyword"} /\ slugless = {}

Old == \E n \in 0..Len(Migrations) :
         columns = Version(n) /\ slugless = IF n = 0 THEN OldUsers ELSE {}

Closed == [stage |-> "closed"]

Init == (New \/ Old) /\ open = Closed /\ faults = 0 /\ skipped = {}

Goes(next) == open' = next

\* On to step m, or out of Open.
Read(m) == IF m \in DOMAIN Migrations THEN [stage |-> "read", m |-> m]
                                      ELSE [stage |-> "open"]

Failed == [stage |-> "failed"]

Fault == faults < MaxFaults /\ faults' = faults + 1

\* db.Exec(schema): CREATE TABLE IF NOT EXISTS.
CreateTables ==
  /\ open.stage = "schema"
  /\ \/ Goes(Read(1)) /\ UNCHANGED faults
     \/ Goes(Failed) /\ Fault
  /\ UNCHANGED <<database, skipped>>

\* PRAGMA table_info.  A query that fails, at once or between two rows, is
\* taken for a table without the columns that were not read.
TableInfo ==
  LET m == open.m
      own == ToSet(Migrations[m]) \cap columns IN
  /\ open.stage = "read"
  /\ \/ Goes([stage |-> "add", m |-> m, has |-> own]) /\ UNCHANGED faults
     \/ /\ Fault
        /\ \E part \in SUBSET own : Goes([stage |-> "add", m |-> m, has |-> part])
  /\ UNCHANGED <<database, skipped>>

\* Mutant of Missing: the column keyword is added without a look.
MissingAlways(m, has) == (ToSet(Migrations[m]) \ has) \cup (ToSet(Migrations[m]) \cap {"keyword"})

\* The columns of step m that the process has not seen.
Missing(m, has) == ToSet(Migrations[m]) \ has

FirstMissing(m, has, i) ==
  /\ Migrations[m][i] \in Missing(m, has)
  /\ \A j \in 1..(i - 1) : Migrations[m][j] \notin Missing(m, has)

\* ALTER TABLE ADD COLUMN; it fails when the column exists.
AddColumn ==
  LET q == open IN
  /\ q.stage = "add"
  /\ \E i \in DOMAIN Migrations[q.m] :
       LET c == Migrations[q.m][i] IN
       /\ FirstMissing(q.m, q.has, i)
       /\ \/ /\ c \notin columns
             /\ columns' = columns \cup {c}
             /\ Goes(IF c = "slug" THEN [stage |-> "select", m |-> q.m]
                                   ELSE [q EXCEPT !.has = @ \cup {c}])
             /\ UNCHANGED faults
          \/ c \in columns /\ Goes(Failed) /\ UNCHANGED <<columns, faults>>
          \/ Goes(Failed) /\ Fault /\ UNCHANGED columns
  /\ UNCHANGED <<slugless, skipped>>

NextMigration ==
  /\ open.stage = "add" /\ Missing(open.m, open.has) = {}
  /\ Goes(Read(open.m + 1))
  /\ UNCHANGED <<database, faults, skipped>>

\* Mutant of Pending: the condition is slug = '', which NULL does not satisfy.
PendingEmpty == {}

\* SELECT id, email FROM users WHERE slug IS NULL
Pending == slugless

SelectPending ==
  LET m == open.m IN
  /\ open.stage = "select"
  /\ \/ /\ Goes([stage |-> "fill", m |-> m, todo |-> Pending])
        /\ UNCHANGED <<faults, skipped>>
     \/ /\ Fault
        /\ \E part \in SUBSET Pending :
             /\ Goes([stage |-> "fill", m |-> m, todo |-> part])
             /\ skipped' = skipped \cup (slugless \ part)
  /\ UNCHANGED database

\* UPDATE users SET slug; its error is ignored.
Backfill ==
  /\ open.stage = "fill"
  /\ \E u \in open.todo :
       /\ Goes([open EXCEPT !.todo = @ \ {u}])
       /\ \/ slugless' = slugless \ {u} /\ UNCHANGED <<faults, skipped>>
          \/ Fault /\ skipped' = skipped \cup {u} /\ UNCHANGED slugless
  /\ UNCHANGED columns

Filled ==
  /\ open.stage = "fill" /\ open.todo = {}
  /\ Goes(Read(open.m + 1))
  /\ UNCHANGED <<database, faults, skipped>>

Open ==
  \/ CreateTables \/ TableInfo \/ AddColumn \/ NextMigration
  \/ SelectPending \/ Backfill \/ Filled

\* The process ends, in the midst of Open or later.
Die ==
  /\ Goes(Closed)
  /\ skipped' = CASE open.stage = "select" -> slugless
                  [] open.stage = "fill" -> skipped \cup open.todo
                  [] OTHER -> skipped
  /\ UNCHANGED <<database, faults>>

TypeOK ==
  /\ columns \subseteq Columns /\ slugless \subseteq OldUsers
  /\ faults \in 0..MaxFaults /\ skipped \subseteq OldUsers
  /\ open \in {Closed, Failed, [stage |-> "schema"], [stage |-> "open"]}
       \cup [stage : {"read", "select"}, m : DOMAIN Migrations]
       \cup [stage : {"add"}, m : DOMAIN Migrations, has : SUBSET Columns]
       \cup [stage : {"fill"}, m : DOMAIN Migrations, todo : SUBSET OldUsers]
=============================================================================
