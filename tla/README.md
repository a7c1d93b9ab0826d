# A verification development of Resilo

Resilo is one Go process: it simulates (or probes) infrastructure metrics,
raises alerts on them, has an AI explain each alert, stores alerts, incidents,
accounts and monitors in SQLite, and shows everything on a WebSocket dashboard.
This directory holds TLA+ models of its parts, TLC configurations that check
them on small instances, and TLAPS proofs for all instances. Everything below is
read off the source; names in `code` are the source's.

## 1. Inventory

| Component | State | Operations | Talks to | What is hard | What makes it correct |
|---|---|---|---|---|---|
| Alert engine, `alerts.go` | `alertSeq`, `activeAlerts`, two counters | `Run`/`evaluate`, `analyzeWithClaude` (one goroutine per alert), `ActiveCount`, `GetAlertStats` | reads `Simulator.Current`; writes the store; calls `Hub.broadcastJSON` while holding its mutex | AI goroutines write rows `evaluate` is resolving; every statement may fail and is never retried; the process may die anywhere, and alert numbers start again at 1 | episodes of a metric are disjoint and a cooldown apart; memory and both tables agree; messages come in order; lasting breaches open and lasting recoveries close |
| Alert and incident tables, `store.go` | tables `alerts`, `incidents` | `SaveAlert`, `ResolveAlert`, `SaveIncident`, `ResolveIncident`, `UpdateAIResponse` | called by the engine and its goroutines | conflict clauses (`OR IGNORE`, `DO UPDATE`, `resolved_at IS NULL`) carry the whole weight of idempotence | stored rows keep identity and resolution |
| WebSocket hub, `hub.go`, `/ws` in `server.go` | `clients`, channels `register`, `unregister`, `broadcast`, per client `send` | `run`, `broadcastJSON`, `readPump`, `writePump`, the upgrade handler | producers are the metrics relay of `main.go`, the alert engine and the AI goroutines | a full queue evicts the client while its pumps run; a client can leave on three paths; producers block | no double close, no send on a closed channel; gapless streams; slow clients delay nobody; lost clients are released |
| Rate limiter, `server.go` | `buckets` (a `sync.Map`), one locked bucket per IP | `allow` (request goroutines), `cleanup` (its own goroutine) | wraps the HTTP handlers | load-then-lock, judge-then-delete | never more than a token bucket admits; `Retry-After` suffices |
| Accounts and sessions, `server.go` 322-511 and 1018-1205, `store.go`, `auth.go` | tables `users`, `sessions`, `password_resets` | sign-up, log-in, log-out, forgot/reset password, slug, e-mail, password, delete | HTTP handlers run concurrently over one store | every handler is check-then-act over separate statements | single-use reset tokens; unique public slugs; no half-deleted account |
| Simulator, `simulator.go` | `trigger`, `current`, the emit channel | `refresh` every tick, `SetTrigger`, `Reset`, `probePing`, `Run` | probes its own `/ping`; feeds the engine and the relay | trigger is read by the probe handler and by `refresh` at different times; `refresh` waits for probes | each snapshot has its reason in flags or server of that moment; after a reset no more spikes are relayed than were on their way |
| Weekly digest, `digest.go` | `lastFired` | `Run` (ticker), `send`, `sendForUser` | store, AI, mailer | a one-minute window met by a drifting ticker; restarts | at most one digest per week, and one if the process is up |
| Schema migrations, `store.go` 122-325 | the schema and the slug column | `Open` | before everything else | a crash between two statements | after `Open` every user has a slug |
| Process life cycle, `main.go` | - | start order, signal, shutdown | all | goroutines outlive the store | no statement on a closed store |
| Reports: status page, incidents page, digest numbers, facts for the AI; `server.go` 831-1015, `store.go` 749-1058, `outages.go` | none of their own; they read `monitors`, `monitor_results`, `outages` | `statusDataHandler`, `incidentsHandler`, `askHandler`, `sendForUser` | the store; `DeleteAccount` removes the rows under them | many statements without a transaction or a common clock; times compared as text; errors ignored | the parts of one report agree, bars are whole days, weeks meet, pages partition the list |
| Dashboard page, `static/dashboard.html` | the map `openIncidents`, one WebSocket | `connectWS`, `handleMsg` and the handlers of three messages | receives what the hub sends | connections break and are made again; the page outlives the process, and keeps its map | what it shows differs from the engine only by what it was not given |
| Monitors and outages, `outages.go`, `checker.go` | tables `monitors`, `monitor_results`, `outages` | create, resolve, analyse | - | the checker was removed: the writers of results and outages have no caller at this commit | - |
| AI client, `claude.go`; mailer, `mailer.go`; configuration, `config.go`; Prometheus simulator and client; the other static pages | little or none | HTTP calls, formatting, parsing | - | I/O | - |

Remarks on this commit. `server.go:787` calls `sim.FetchJobSnapshot`, which
no file defines, so the tree as committed does not build; the models read the
other code as it stands. `newPromClient`, the functions that create results and
outages, and `ReloadConfig` have no callers.
`store.go:132` sets a connection's idle time to 300, meaning five minutes; the
argument is a `time.Duration`, so it is 300 nanoseconds, and idle connections
are not kept. No model depends on it.

The hazards - what can go wrong and a test would hardly reach - are listed in
`PROJECT.json` at the line where each bites, with the properties that cover it.

## 2. Plan

Written, in this order:

1. `IncidentLifecycle` (abstract), `AlertEngine`, `AlertEngineProofs`
2. `Hub`, `HubProofs`
3. `RateLimiter`, `RateLimiterProofs`
4. `Accounts`, `AccountsProofs`
5. `Migration` and `Digest`, composed by `Process`; `ProcessProofs`
6. `Simulator`, `SimulatorProofs`
7. `PubSub` (abstract), which `Hub` implements
8. `Dashboard`, which composes `AlertEngine` and `PubSub` with the page;
   `DashboardProofs`
9. `Reports`, `ReportsProofs`

Proved along the way or since (section 7): everything that is not a liveness
property.

There is one run per question, not one per property: each TLC instance checks
everything its bounds reach.

## 3. The models

### AlertEngine, IncidentLifecycle, MCAlertEngine

`evaluate` runs through `Checks` under the engine's mutex. Because the AI
goroutines and the tables do not care about that mutex, every SQL statement and
every broadcast in it is a step: `pc` names the statement it is at, `idx` the
check it has reached, `m` its snapshot argument, `at` the local `now` of the
resolution path.

| Action | Code |
|---|---|
| `StartEvaluate` | `Run`'s ticker, `sim.Current()` |
| `Skip`, `Forget` | the two `continue`s, the deletion of an entry whose cooldown is over (which falls through to firing when the metric is in breach) |
| `ResolveAlert`, `ResolveIncident`, `AnnounceResolved` | the resolution path, in its order |
| `Fire`, `SaveIncident`, `Announce` | the firing path; `Announce` starts the goroutine |
| `AnalysisUnavailable`, `UpdateAIResponse`, `SaveAnalysis`, `AnnounceAnalysis` | `analyzeWithClaude` |
| `Refresh` | any next snapshot of the simulator |
| `Restart` | the process dies: memory, goroutines and unsent messages are lost, tables stay |

The SQL statements are operators on tables, functions from alert number to row:
`InsertAlert` is `INSERT OR IGNORE`, `UpsertIncident` is the `ON CONFLICT ... DO
UPDATE` of the AI columns only, `SetIncidentResolved` has its `resolved_at IS
NULL`. `Exec` lets each of them fail at most `MaxFaults` times in all; the code
logs and goes on, and so does the model. A column that the code does not have,
`run`, tells apart two alerts that got the same number from two processes.

Abstractions: a metric value is a number that is compared with two thresholds;
AI texts are one field; times are clock ticks. The tables store times in
RFC 3339, cut to seconds, whereas the cooldown is compared in memory with full
precision; cutting both ends to seconds moves a difference by less than a
second, so the chain of episodes survives for cooldowns of whole seconds, up to
that second. `Tick` is enabled only while a cooldown runs: elapsed time is
looked at nowhere else, so a clock that stands still loses no behaviour.

`IncidentLifecycle` is what a reader of the tables may rely on: a list of
episodes in the order in which they began, in which an episode of a metric begins
a cooldown after the previous one of that metric ended. `Episodes` reads them off
the `alerts` table by their numbers, and `RefinesLifecycle`, the abstract `Spec`
under that mapping, holds as long as no statement fails and nothing restarts.

### Hub, MCHub

`run` is the `select` (`Register`, `Unregister`, `Take`) and the delivery loop
(`Enqueue`, `Evict`), one client at a time in any order, because the write pumps
take messages from the queues between two iterations. `Publish` is
`broadcastJSON` with its blocking send. `Connect` and `StartPumps` are the `/ws`
handler, the `Reader*` and `Writer*`/`Receive` actions the two pumps with their
deferred calls. The WebSocket library is external: a read fails when the
connection is closed at our end or the peer is gone; a write to a closed
connection fails; `PeerLeaves` may happen at any time.

Properties relate `run`'s view (`clients`, `todo`) to the channels' (`closes`)
and the client's stream to the history of all broadcasts since it registered.
Eviction deletes from the map under the read lock, which races with
`ClientCount`; the count only feeds a gauge and is left out.

### PubSub

What a client may rely on, without channels, queues and evictions: one `log` of
broadcasts, of which each client is given a gapless stretch from the moment it
joined (`from`), message by message (`given`). `until` is how far the log is on
its way to the client; `Lose` cuts that short, and then the client is a member
no more. `Served` is the liveness: a member that is behind is given more or
ceases to be one. `Hub` implements it under the mapping in `Promise`: the log is
`history`, a client joins when `run` takes its registration, what is on its way
are its queue and the message in its write pump, and leaving is eviction,
unregistration or the end of its write pump, whichever comes first.

### Dashboard, MCDashboard

`AlertEngine`, the hub as `PubSub` promises it, and one page. The messages in
`sent` are taken by the hub in their order (`HubTakes`), offered to the page's
connection (`HubOffers`), and handled by the page (`HandleMsg` with `OnAlert`,
`OnAiResp`, `OnResolved`), which keeps its map of open incidents. The connection
may end by an eviction (`HubEvicts`), at any time (`OnClose`, which loses what
was on its way) or with the process (`Crash`, `AlertEngine`'s `Restart` with a
new hub); `ConnectWS` makes the next one. The page asks for nothing it missed:
`loadRecent` fills another panel. Each entry records which process sent it,
which the page cannot know; the alerts of a new process have the numbers of the
old one's, and replace their entries.

The metrics messages, which fill the cards and change no incident, are left out;
as every message is delivered or lost in the same way, they only lengthen the
stretches between the others.

### Reports, MCReports

A report is a script of statements per monitor: three for the status page, five
for the digest, six for the facts given to the AI (`Script`). `FindUser`,
`GetMonitorsByUser` and `Query` go through it one statement at a time;
`CountOutages`, `SelectPage` and `NextPage` are `incidentsHandler` as a client
uses it that asks for page after page. `nth` is the monitor and `step` the
statement of the script it has reached. A percentage, an average or a count is
the set of rows it is taken over, kept in `found` with the day of the statement.
`Bars` is the second half of `GetDailyUptime`, which reads Go's clock after
SQLite's.

The store compares times as text. A stored time has a `T` where `datetime('now',
...)` has a blank, so it is the greater of two on the same date: a window of N
days has all of the day it begins in, and `InLast` compares days. This is what
makes every bar whole, and what makes "the last 7 days" up to eight; the
digest's own comment, "days 8-14" (`digest.go:57`), is exact because of it.

`Tick` is time passing, midnight included; `AccountDelete` and `DeleteAccount`
delete the account statement by statement, may fail at each, and may be asked
again. Reports write nothing and so do not meet each other: one at a time is as
good as many. Monitors, results and outages are what earlier versions left,
because nothing writes them at this commit; their initial contents are any of a
constant set. The tables are those of one account, of which `Monitors` lists the
monitors and `Enabled` the enabled ones, both newest first; so a join with
`monitors` gives all rows or none. The overall status, a function of what one
statement returned, the list of recent outages in the facts and SSL expiry are
left out.

### RateLimiter, MCRateLimiter

Tokens are counted in units (`Cost` units a token, `Rate` units a tick), so the
arithmetic is exact; the floating-point rounding of the code is not modelled.
`Load` is `LoadOrStore`, which hands out a bucket *object* (a number in `heap`);
`Admit`/`Reject` are the locked half of `allow`. `StartCleanup`, `Judge` and
`Delete` are `cleanup`: the map deletion is a step of its own because the code
unlocks the bucket first. Three history variables carry the promises: `ideal`, a
bucket per IP that is never deleted and is charged for every admitted request;
`allowance`, what `cleanup` gave away; `promise`, when a `Retry-After` is over.

### Accounts, MCAccounts

The tables `users`, `sessions` and `password_resets` are functions from key to
row. `request[r]` is what the goroutine of one HTTP request holds: the statement
it is about to execute (`stage`) and its local variables, that is, what it read
before and may be stale by now.

| Stages | Code |
|---|---|
| `Signup`, `Candidate`, `InsertUser`, `CreateSession` | `signupHandler`, `CreateUser` with `uniqueSlug` count by count |
| `Login`, `CreateSession`; `Logout` | `loginHandler`, `logoutHandler` |
| `ForgotPassword`, `CreatePasswordReset` | `forgotPasswordHandler`, which lower-cases the address |
| `ResetPassword`, `UpdateForgotten`, `MarkPasswordResetUsed` | `resetPasswordHandler` |
| `ProfileSlug`, `Available`, `UpdateUserSlug` | `profileSlugHandler` |
| `AccountPassword`, `UpdatePassword` | `accountPasswordHandler` |
| `AccountEmail`, `EmailTaken`, `UpdateEmail` | `accountEmailHandler` |
| `AccountDelete`, `DeleteSessions`, `DeleteUser` | `accountDeleteHandler`, `DeleteAccount` |
| `Fail` | a statement fails and the handler gives up |

The first action of a handler holds everything up to and including its first
read. Where the code takes a failed read for an answer - `uniqueSlug` ignores the
error of its count, in `SeedDemoAccount` as in a sign-up, and the e-mail handler
treats any error as "not in use" - the action has that branch, which is charged
to `faults`. A first read that fails, an invalid form, a wrong
password and an expired session or token end the handler without a trace, so they
are just steps nobody takes. Random ids and tokens are numbers never handed out
twice. `CreateUser`'s fallback, a random suffix after 998 candidates, is beyond
the bound. The three deletions in the monitor tables are in `Reports`.

The process begins `Down`. `SeedDemoAccount` and `Serve` are what `main` does
with `DEMO_EMAIL` before it serves: the account is created if no account has its
address at that moment, in particular again after it was deleted or has changed
its address; the monitor limit it sets is a column nothing reads. `Restart` is
the death of the process between two statements of a handler, which leaves what
it had done in the tables; it counts as a fault. Two history variables: `uses`, how
often each token has set a password, and `retired`, for each deleted account the
last session token there was when the deletion was asked for (which its handler
holds in `since`).

### Process, Migration, Digest, MCProcess

`Process` is `main`: it opens the store, starts the goroutines, and on a signal
shuts the server down, closes the store and returns. It instantiates the two
components whose hard cases are those of its life, on the same variables.

`Migration` is `Open`. The database is the set of columns that later versions
added and the users without a slug; it starts as any older version left it, or
new, as `schema` creates it. `CreateTables`, `TableInfo`, `AddColumn`,
`SelectPending` and `Backfill` are its statements, each a step, because nothing
is in a transaction: `Exit` may come between any two, and the next process goes
over all of them again. A `table_info` that fails, at once or between two
rows, looks like a table without some columns, as the code ignores the error. An
`ALTER` of a column that exists fails, and `Open` with it.

`Digest` is `DigestRunner`. Time is counted in the minutes around 09:00 on
successive Mondays. `Tick` and `Receive` are the two ends of `ticker.C`, whose
buffer holds one tick and drops the next; a minute may see two ticks or
none, because the wall clock is adjusted and the ticker's is not, and a tick may
be received in a later minute than it was sent. Each digest is a goroutine
(`sends`), which lists the users and goes on user by user; `Leave` removes a
user's monitors meanwhile, and a statement fails by a fault or because `main`
has closed the store. Three things are history: `due`, the last Monday whose 09:00
tick was delivered; `mailed`, the mails this process has sent; and in a digest the
fields `listed`, whom its query returned, and `failed`, whose statement or mail
failed.

What requests do is left to the other modules; here they are counted from the
signal to the end, because `Shutdown` waits for them and `Close` must.

### Simulator, MCSimulator

`run` says where the goroutine `Run` is: `StartRefresh`, `Probe` (one request of
`probePing` to the process's own `/ping`), `Override` (the second look at the
trigger flags), `StoreCurrent`, and `Emit` into the channel that the relay goroutine of
`main` takes from: `Receive` takes a snapshot into its `hand`, where it stays while
the hub is busy, and `Broadcast` passes it on. `SetTrigger` and `Reset` are the HTTP handlers,
`Listen` and `Shutdown` the server that answers the probes or does not. A snapshot is
the spiked host metrics and how many probes were slow or failed: latency and
error rate are averages over them. `seen` and `basis` record what flags and
server were during the refresh that made the snapshot; `lingering` counts the
spiked snapshots broadcast since a refresh found everything calm.

## 4. The runs

| Run | Instance | What it shows |
|---|---|---|
| `AlertEngine_faultfree` | two metrics, AI on, 3 changes, cooldown 1 | memory, `alerts` and `incidents` agree up to the statement in progress (`TablesMirrorEngine`, `TablesAgree`), whatever AI updates arrive late; messages of an alert come in order and once (`NotificationOrder`); what is announced is stored in both tables (`StoredWhenAnnounced`); `RefinesLifecycle` |
| `AlertEngine_restarts` | one metric, 4 changes, cooldown 2, 1 restart, 2 failed statements, fairness | `CooldownRespected` in spite of failures; `ResolvedIncidentStaysResolved` and `AlertRowsKeepTheirIdentity` although numbers are reused; `SustainedBreachIsOpen`, `SustainedRecoveryIsResolved`, `EveryAlertIsAnswered` |
| `AlertEngine_lostrow` | 1 restart | violated: `AnnouncedAlertHasItsRow` |
| `Dashboard` | one metric, AI on, 3 changes, 1 restart, 2 connections per process, fairness | `PageErrsOnlyByLosses`: an open alert is missing on the page, or a closed one shown, only if its message was not handled (or its process is dead); `PageFollowsMetrics`: on a connection that lasts, the page follows lasting breaches and recoveries, but for what was lost before it |
| `Hub` | two clients, one producer, queues of one, 3 messages, fairness | `NoChannelPanic`, `SlowClientsBlockNobody`; `RefinesPubSub`, and what PubSub promises to happen in `ClientsAreServedOrReleased` |
| `RateLimiter` | one IP, three requests, two cleanups, 10 ticks | `ExcessIsBounded`, `RetryAfterSuffices` |
| `RateLimiter_excess` | one cleanup | violated: `EnforcesTokenBucket` |
| `Accounts` | three addresses with one base, one of them the demo account's; three accounts or two and a reset token; two requests, 1 fault | `EmailsUnique`, `SlugSharingIsBounded`, `ResetUsesAreBounded`, `DeletedStaysDeleted`; `SessionsGoFirst`: of a deleted account, only sessions from log-ins during the deletion are left |
| `Accounts_singleuse` | one account, one token | violated: `ResetsAreSingleUse` |
| `Process` | two processes, two users with monitors and two without a slug, two Mondays of two minutes, 1 failure, 1 request in flight | `SchemaBeforeService`, `OpenGivesUpOnlyOnFaults`, `BackfillIsComplete`; `MailsAreBounded`, `NoMondayMissed`, `NobodyIsForgotten`; `RequestsHaveTheStore` |
| `Reports` | two monitors, one disabled; up to two results on any of four days, or three outages on pages of two; 1 midnight, 1 failed statement | `ReportsAgreeWithThemselves`, `BarsAreWhole`, `WeeksAreComparable`, `PagesPartitionIncidents` |
| `Simulator` | two host metrics, two probes, a channel of two, 3 changes, 3 refreshes | `SnapshotReflectsItsRefresh`; `SpikesFadeOut`: after a reset, dashboards get no more spiked snapshots than the channel and the relay held |

The type invariants of `AlertEngine`, `RateLimiter` and `Simulator` are checked in
the first run of each. Those of `Accounts`, `Hub`, `Process`, `Dashboard` and
`Reports` are in no configuration, because all of them are proved; adding one to the INVARIANTS
checks it, and TLC finds no error.

Bounds. *AlertEngine*: two metrics are what interleaves in one `evaluate`, one
critical and one warning; three changes of the snapshot make a metric fire,
recover and fire again, and let another do so meanwhile; the restart and fault
runs use one metric because both tables are keyed by the number and never by the
metric; cooldown 2 there, so that "too early" and "just in time" differ. *Hub*:
queues of capacity one are full after one message, so every message is a chance
for an eviction; three messages are one delivered, one queued, one blocked, and
two clients let one be evicted while the other is served. *RateLimiter*: IPs
share nothing but `cleanup`'s loop, so one IP is enough (the theorem covers any
number); a token takes three ticks, an idle bucket is refilled (6 ticks, as the
default configuration refills within its ten minutes), two cleanups delete the
bucket twice, and three goroutines hold a bucket while it is deleted and
replaced. *Accounts*: all races are between two requests,
and what a request leaves behind for a third shows after it has ended; three
accounts make a slug shared by more accounts than there are requests, which is
what `SlugSharingIsBounded` excludes; `MaxRows` bounds accounts and tokens
together, for a token concerns one account and a race of sign-ups needs no token; one password makes every password check
succeed and so gives the handlers the most freedom. *Process*: two processes are one that dies and one that goes on
from what it left, in the migration as at 09:00; two Mondays tell "this week"
from "ever"; the two minutes are 08:59 and 09:00, after which comes the next
week, so that a late tick of 09:00 is received outside of it; two ticks a minute
fill the ticker's buffer; two users are one that fails and one after it.
*Dashboard*: two connections to a process are
one that is lost and one that follows; three changes are a breach, a recovery and
a breach again, with the process dying in between; one metric, because the page's
map is keyed by number alone. *Reports*: a week of one day and a month of three
keep the order of the windows that matters (a week begun yesterday fits in the
bars of a month, as 7 and 30 do); four days are one in each window and
one before all; two results are one inside and one outside of a window, or two of
one day; one midnight, as no report lasts a day; three outages on pages of two
are a full page and a part of one. *Simulator*: two host metrics could be
spiked at different moments, so that a mixture is there to be excluded; with two
probes the flags can change between them; three changes are a trigger, a reset and
the server that begins to listen or shuts down; a channel of two makes `Emit` wait
while the relay holds a third snapshot, and all three can be spiked when calm sets
in, so that `SpikesFadeOut` is tight: TLC finds `lingering <= Capacity` violated.

Deadlock is checked for `AlertEngine`, `Dashboard` and `Simulator`, whose `Emit`, `Receive`
and `Broadcast` never end. It is not checked for `Hub`, `RateLimiter`, `Accounts`, `Process` and
`Reports`, whose bounded supply of messages, time, ids, lives and reports runs out.

Each property has a mutant in the module - the definition as a plausible bug
would write it - which makes TLC report that property under the same
configuration.

## 5. Fairness

`AlertEngine`: weak fairness of `Evaluate` (the ticker of `Run` never stops), of
`Analyze` (an HTTP call ends after the client's timeout at the latest) and of
`Tick` (time passes). Nothing obliges a metric to change or a process to die.
`Dashboard`: the same, with weak fairness of `HubTakes` and `HubOffers`, which is
what `Served` promises, and of `HandleMsg`, a browser that handles what has
arrived; no connection has to be made or to last, so `PageFollowsMetrics` speaks
of a page that stays connected.
`Hub`: weak fairness of `run` and of each producer. `SlowClientsBlockNobody`
asks nothing of any client; `ClientsAreServedOrReleased` carries its own assumption,
`PumpFairness`, because the code sets no write deadline: it needs every
`WriteMessage` to return.
`RateLimiter`, `Accounts`, `Process`, `Reports` and `Simulator` have safety
properties only: a goroutine that
is not scheduled changes nothing.

## 6. What the checks show, and where code and comments disagree

The promises the code keeps are the properties of the passing runs. Three runs end
in a violation, each of a sentence in the source:

* `AlertEngine_lostrow`. "SaveAlert inserts a new alert row" (`store.go:334`).
  `nextAlertID` counts from 1 in each process, the table persists: the first
  alert after a restart is `ALT-0001` again, `INSERT OR IGNORE` drops its row, and
  its resolution and analysis then change the old alert's.
* `RateLimiter_excess`. "RateLimiter enforces a token bucket per IP"
  (`server.go:38`). `cleanup` finds a bucket idle, unlocks it, and deletes the key
  afterwards; requests that drain the bucket in between are forgotten with it.
  `ExcessIsBounded` says how much that can be: what the bucket lacked, and the
  requests that still held it.
* `Accounts_singleuse`. A password reset is "a single-use token" (`store.go:685`).
  Lookup and marking are separate statements, so overlapping requests all use it;
  `ResetUsesAreBounded` says how often.

Things the models show without a run of their own:

* For the reason of `AlertEngine_lostrow`, the *initial* `SaveIncident` of a new
  process meets the incident of an old one and writes empty AI columns over its
  analysis.
* A statement of the engine that fails is not repeated, so the tables may differ for
  good: an alert is open in one and resolved in the other, or the late `SaveIncident`
  of the analysis inserts, as open, an incident that was resolved before its first
  insertion had ever succeeded. `TablesAgree` and `TablesMirrorEngine` are stated for
  the time before the first failure, and `AlertEngine_restarts` says what holds
  after one.
* An account that signed up with capitals in its address never gets a reset token,
  because `forgotPasswordHandler` looks up the lower-case form of what
  `signupHandler` stored as it was.
* `DeleteAccount`, which "removes all data belonging to userID" (`store.go:1252`),
  leaves the rows of `password_resets`, as well as any session a concurrent
  log-in adds after the sessions were deleted. `SessionsGoFirst` says that no
  other session is left; such a session opens nothing, because `GetUserBySession`
  joins `users`. A reset token that is left does let `resetPasswordHandler`, which
  joins nothing, begin for the account that is gone: its `UPDATE` changes no row
  (`DeletedStaysDeleted`), the token is marked, and the answer is a success.
* The backfill of `users.slug` is not taken up again after a crash: the next
  process finds the column and skips the step. `BackfillIsComplete` says which
  users that can be.
* `lastFired` lives in memory: a process that is restarted within 09:00 sends the
  digest again, and one that dies during a digest leaves the rest without it.
  `MailsAreBounded` is about the mails of one process for that reason. A Monday
  whose 09:00 sees no tick, or only one that is dropped while `Run` is behind, has
  no digest.
* The page never drops what it missed: an incident whose resolution was lost with a
  connection stays on the screen until the page is reloaded, or until a new process
  hands out its number again. `PageErrsOnlyByLosses` allows exactly that.
* While an account is deleted, or when a statement fails, its status page may show
  100 % and no bars beside a monitor that is down: an error, or no row, counts as
  100 (`store.go:1007`), and the handler ignores the error.
* Probes of a server that does not listen yet, or no longer, count as slow and
  failed: the first snapshot, and the last ones, may look like an outage.

## 7. Proofs

`AlertEngineProofs`, for any metrics, thresholds, cooldown, snapshots, number of
restarts and of failed statements:

* `TypeCorrect`. `TypeOK` is not inductive alone: the statements of the two
  paths dereference `active[k]`. `HandlesOpen` adds that the entry is there and
  open (or resolved, at the end) while `evaluate` is at those statements, and
  that no one else removes it.
* `CooldownHolds`. `CooldownFacts` says that within the first process numbers
  are handed out in increasing order and no row has a larger one; that a metric
  without an entry, or with a cooling one that is over, has no row resolved less
  than a cooldown ago; and that an open entry is the latest of its metric. A
  row that was never marked resolved because its statement failed needs no
  cooldown, which is why faults do no harm.
* `IdentityKept` and `ResolutionKept`, action properties: no statement changes
  another column of an existing alert row, and none the resolution time of a
  resolved incident. They hold across restarts because of the conflict clauses.

The same module, on the messages and the tables:

* `NoticesInOrder`, whatever fails: `NoticeInv` says what has and has not been
  said of every entry (an open one: announced, not resolved; one between its
  number and its message: nothing) and of every alert with a goroutine (announced,
  not answered), and that entries have numbers of their own.
* `TablesMirror`, `OneStory`, `StoredFirst`, while nothing fails: `TablesFacts`
  gives every number its rows but for the incident about to be inserted, every
  entry a row as open as itself but for the resolution in progress, every open row
  its entry, every incident the words of its alert row, every goroutine the
  columns it has written, and every message what it is about. A failed statement
  or a restart is never forgotten (`Disturbed`), so the facts may be assumed.
* `Refinement`: `Spec` implements `IncidentLifecycle` under `Episodes` as long as
  nothing fails. `Fire` is a `Begin`: an open row of the metric would have its
  entry, and `CooldownFacts` puts the resolved ones a cooldown back (`RowsOver`).
  The first statement of a resolution is a `Finish`; `Tick` advances the clock;
  every other statement leaves metrics and times alone, so it is a stutter.

`HubProofs`, for any clients, producers, messages and queue lengths:

* `TypeCorrect`, `NoPanic`: the channel of a client that was registered is open
  exactly while the client is in the map (`ChannelsInv`), and a delivery goes to
  clients in the map only.
* `Refinement`, the safety part of `RefinesPubSub`: `StreamInv` says that what
  was received, the message the pump holds and the queue are one stretch of
  `history` that reaches to its end while the client is in the map, but for the
  message being delivered. The refinement mapping is turned into places in
  `history` (`Offering`, `StageOf`); then each step of the hub moves those of one
  client, as a step of `PubSub` does, or of none.

`DashboardProofs`, for any metrics, failures, restarts and connections:

* `OnlyLosses`: `PageErrsOnlyByLosses`, from `NoticeInv` for the engine,
  `Stretches` for the hub (connections take up stretches of the log one after
  another, so nothing is handled twice or out of order) and `Kept` and `NotOver`
  for the page: it shows what it handled and was not told to remove, and nothing
  whose resolution it handled. `Followed` ties the two: an announced alert has an
  open entry or an announced end.
* `TypeCorrectness` of the composition.

`AccountsProofs`, for any addresses, slugs and requests:

* `TypeCorrect`; `AddressesAreUnique` from `OneEach` (the unique index makes the
  statement fail that the check before it let through); `NoAccountComesBack`.
* `SessionsOfDeletedAccounts`: `DeletionsOnTheirWay` says that a handler that is
  past the statement on sessions has left none of its account but newer ones than
  its `since`; `RetiredBefore` that `retired` names only tokens handed out, so a
  log-in still on its way gets a later one.
* `SlugsAreShared`: `ClaimsAreBounded` counts accounts that have a slug together
  with handlers about to give it to one. Only a check adds a claim, and unless it
  failed it saw no holder, so that those claims are of other handlers in flight;
  there are no more of them than requests.
* `TokensAreUsedUp`: `UsesAreAccounted` charges each use of a token that is not
  marked to a request that will mark it or to a statement that failed to; from
  the moment it is marked only the requests that had read it before can use it.

`ProcessProofs`, for any users, weeks, length of the window, processes and
failures, about `Migration`, `Digest` and `Process` together:

* `SchemaFirst`, `OpenGoesOn`, `SlugsAreFilled`: `Progress` says which steps are
  done by where `Open` is, for the columns a dead process may have left; `Seen`
  that what `Open` read of the table is all of it unless the statement failed,
  which is why no column is added twice; `Filling` who still lacks a slug.
* `OneMailAWeek`: `MailsAhead` says that this process has not sent a mail that a
  goroutine may still send, nor one of a Monday still to come; `OnePerMonday`
  that a Monday has one goroutine, however many of its ticks there are, and
  `Mondays` that `lastFired` is never ahead of the clock, for which a tick of one
  week must not belong to an earlier one.
* `EveryoneIsServed`: `Attending` says at each moment of a digest that every user
  its query listed is still to be dealt with, or has been mailed by this process,
  or has failed, or has no enabled monitor any more.
* `MondaysAreFired`; `StoreForRequests` from `ProcessInv`, which
  relates `main`'s place to the store, the runner and the requests in flight.

`RateLimiterProofs`, for any rate, burst, idle limit, addresses and requests:

* `TypeCorrect`: a bucket holds between nothing and its burst.
* `ExcessHolds`: the invariant `Inv` adds that clock readings lie in the past
  (`InThePast`), that `cleanup` deletes only what is there (`KeysPresent`), that
  addresses never share a bucket (`Separate`), and the heart of it, `Covered`:
  the ideal bucket plus the allowance holds at least what the next request will
  find. The products are hidden behind `RefilledFacts`, so that the steps are
  linear arithmetic.
* `RetryAfterHolds`: `Waits` says that the bucket in the map will hold a token
  when the promised seconds are over. It is not inductive alone: a request that
  had loaded a bucket before `cleanup` deleted it could be told to wait for a
  bucket that is in the map no more. `Whole` says that such a bucket is full as
  long as the deletion gave nothing away, so nobody who holds it is refused, and
  `Apart` that no request of another address takes the token.

`SimulatorProofs`, for any host metrics, number of probes and capacity:

* `TypeCorrect`, which needs to know that a probe is made only while fewer than
  `Probes` were, so that no count exceeds them.
* `SnapshotsExplained`: `Refreshing` says of the refresh under way what
  `SnapshotReflectsItsRefresh` says of a finished one. Whatever it has counted so
  far (`Explained`) has its reason in `seen`, and what the flags and the server are
  now is always in `seen`. Both only grow, which is why no interleaving hurts.
* `SpikesFade`: `Fading` says that all snapshots on the way (in the relay's hand or
  in the channel) but for the first k are calm, and that k and what has lingered are
  at most `Capacity + 1` together. A broadcast takes the first, so it adds at most
  one to `lingering` and takes one from k; what `Emit` adds is `current`, which is
  calm by `SnapshotReflectsItsRefresh`.

`ReportsProofs`, for any monitors, contents of the tables, lengths of week, month
and page, and failed statements:

* `ReportsAgree`, `BarsWhole`, `WeeksMeet`: `AnswersInv` says what an answer means
  long after it was given. Its rows are those that counted on its day, some of
  which may have been deleted since, and no stored row that counted is missing
  (`Counts`, `Exact`). Two answers can then be compared by their days alone.
  `DaysInv` orders the days of one monitor's answers as the script orders the
  statements, for which `ScriptInv` says that what was asked is what comes before
  `nth` and `step`, and that no monitor is listed twice. The digest asks for this
  week before it asks for the one before, and hence loses no check between them.
* `PagesPartition`: `PagesInv` says that the pages so far are the beginning of the
  table, as long as `Offset` reaches, until the table is emptied; what a client
  has then stays in order. `LastPage` is the arithmetic of the rounded-up number
  of pages.
* `TypeCorrect`.

Assumptions are those the modules name: lists name a metric or a monitor once,
`NULL` is no number, there is at least one request (`Accounts`) and one week
(`Process`), the bounds are natural numbers. None of them limits the size of
anything but `TimeAssumption` in `Reports`: a report takes less time than the days
by which a month exceeds a week. A window of a week read first would otherwise
reach further back than one of a month read 23 days later. What the tables hold
initially is typed and sorted as the query sorts it (`TablesAssumption`).

Only model-checked are

* the liveness properties (`SustainedBreachIsOpen`, `SustainedRecoveryIsResolved`,
  `EveryAlertIsAnswered`, `SlowClientsBlockNobody`, `ClientsAreServedOrReleased`,
  `PageFollowsMetrics`): the prover does not handle fairness and `ENABLED`;
* what the runs that expect a violation show.

## 8. Not modelled

Pure I/O and text has no state worth checking: the mailer, the prompts and the
parsing of AI answers, configuration parsing, HTTP decoding, CORS, compression,
logging, and the static pages other than the dashboard's incidents. The Prometheus
simulator is a random walk, clamped under a lock, that nothing in the program
reads; its client has no caller. The functions that create monitors, results and
outages have no callers at this commit, so they are neither run nor modelled; what
they once wrote is an arbitrary initial state of `Reports`. In `Reports` the list
of recent outages, SSL expiry and the overall status are left out, in `Accounts`
expiry and the monitor limit.
