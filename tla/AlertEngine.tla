----------------------------- MODULE AlertEngine -----------------------------
(***************************************************************************)
(* The alert engine of alerts.go together with the two tables it writes    *)
(* (alerts and incidents, store.go) and the AI goroutines it starts.       *)
(*                                                                         *)
(* One goroutine, Run, evaluates the simulator's snapshot again and again. *)
(* evaluate holds the engine's mutex, but each SQL statement and each      *)
(* broadcast in it is a step of its own: the AI goroutines of earlier      *)
(* alerts write the same rows in between, any statement may fail (errors   *)
(* are only logged), and the process may die between any two of them.      *)
(*                                                                         *)
(* Abstractions: a metric value is a number compared with two thresholds;  *)
(* the texts of an AI answer are one field, "analysis", that tells which   *)
(* process run asked for it; the incident category and the similar past    *)
(* incidents only feed the prompt and the payload and are left out.        *)
(***************************************************************************)
EXTENDS Naturals, Sequences, FiniteSets

CONSTANTS
  Checks,       \* the metric keys in the order evaluate checks them
  Readings,     \* the values a metric can take
  Warning,      \* [Keys -> Nat], the configured warning thresholds
  Critical,     \* [Keys -> Nat], the configured critical thresholds
  Cooldown,     \* cooldown_seconds, in clock units
  AIEnabled,    \* whether an AI API key is configured
  NULL,         \* a zero time, an absent map entry, a NULL column
  MaxChanges,   \* bound: how often the simulator's snapshot changes
  MaxRestarts,  \* bound: how often the process dies and restarts
  MaxFaults     \* bound: how many SQL statements fail

Keys == {Checks[i] : i \in DOMAIN Checks}

Severities == {"critical", "warning"}

(***************************************************************************)
(* validateAlertConfig only logs what it rejects, so nothing is assumed    *)
(* about the order of the two thresholds.  The snapshot before the first   *)
(* refresh is the zero Metrics.                                            *)
(***************************************************************************)
ASSUME ChecksAssumption ==
  /\ Checks \in Seq(Keys)
  /\ \A i, j \in DOMAIN Checks : Checks[i] = Checks[j] => i = j

ASSUME ConfigAssumption ==
  /\ Readings \subseteq Nat
  /\ 0 \in Readings
  /\ Warning \in [Keys -> Nat]
  /\ Critical \in [Keys -> Nat]
  /\ Cooldown \in Nat
  /\ AIEnabled \in BOOLEAN

ASSUME BoundsAssumption ==
  MaxChanges \in Nat /\ MaxRestarts \in Nat /\ MaxFaults \in Nat

VARIABLES
  current,    \* the simulator's snapshot
  changes,    \* counts the changes of current (bound)
  now,        \* the clock
  alertSeq,   \* the last alert number handed out by this process
  active,     \* activeAlerts: per key an open or cooling alert, or NULL
  counts,     \* criticalCount and warningCount
  pc,         \* the statement evaluate is about to execute
  idx,        \* the index in Checks evaluate has reached
  m,          \* the Metrics argument of evaluate
  at,         \* the local variable now of the resolution path
  analyses,   \* the running analyzeWithClaude goroutines
  sent,       \* the messages this process handed to the hub, in order
  alerts,     \* table alerts: alert number -> row
  incidents,  \* table incidents: alert number -> row
  run,        \* number of the process run (counts the restarts)
  faults      \* counts the failed statements (bound)

evalVars   == <<pc, idx, m, at>>
memVars    == <<alertSeq, active, counts>>
storeVars  == <<alerts, incidents, faults>>
vars == <<current, changes, now, alertSeq, active, counts, pc, idx, m, at,
          analyses, sent, alerts, incidents, run, faults>>

-----------------------------------------------------------------------------
(* The tables.  "run" is the process run that inserted the row and stands  *)
(* for the identity of the alert: the primary key is the number alone.     *)

AlertRow ==
  [metric : Keys, severity : Severities, firedAt : Nat,
   resolvedAt : Nat \cup {NULL}, analysis : Nat \cup {NULL}, run : Nat]

IncidentRow ==
  [severity : Severities, firedAt : Nat,
   resolvedAt : Nat \cup {NULL}, analysis : Nat \cup {NULL}, run : Nat]

ActiveAlert == [id : Nat, firedAt : Nat, resolvedAt : Nat \cup {NULL}]

ASSUME NullAssumption == NULL \notin Nat \cup ActiveAlert

Analysis ==
  [id : Nat, severity : Severities, firedAt : Nat,
   stage : {"calling", "saveIncident", "broadcast"}]

\* Row r under primary key id, as a one-row extension or replacement.
Put(table, id, r) ==
  [i \in DOMAIN table \cup {id} |-> IF i = id THEN r ELSE table[i]]

\* Mutant of InsertAlert: INSERT OR REPLACE.
InsertAlertReplace(table, id, r) == Put(table, id, r)

\* INSERT OR IGNORE INTO alerts.
InsertAlert(table, id, r) ==
  IF id \in DOMAIN table THEN table ELSE Put(table, id, r)

\* UPDATE alerts SET resolved_at WHERE id.
SetAlertResolved(table, id, t) ==
  IF id \in DOMAIN table
    THEN Put(table, id, [table[id] EXCEPT !.resolvedAt = t])
    ELSE table

\* UPDATE alerts SET root_cause, remediation, confidence WHERE id.
SetAlertAnalysis(table, id, a) ==
  IF id \in DOMAIN table
    THEN Put(table, id, [table[id] EXCEPT !.analysis = a])
    ELSE table

\* Mutants of UpsertIncident: all columns are replaced; a conflict is ignored.
UpsertIncidentReplace(table, id, r) == Put(table, id, r)

UpsertIncidentIgnore(table, id, r) == InsertAlert(table, id, r)

\* INSERT INTO incidents ... ON CONFLICT(id) DO UPDATE of the AI columns only.
UpsertIncident(table, id, r) ==
  IF id \in DOMAIN table
    THEN Put(table, id, [table[id] EXCEPT !.analysis = r.analysis])
    ELSE Put(table, id, r)

\* Mutants of SetIncidentResolved: without "resolved_at IS NULL"; its negation.
SetIncidentResolvedAgain(table, id, t) == SetAlertResolved(table, id, t)

SetIncidentResolvedNever(table, id, t) ==
  IF id \in DOMAIN table /\ table[id].resolvedAt # NULL
    THEN Put(table, id, [table[id] EXCEPT !.resolvedAt = t])
    ELSE table

\* UPDATE incidents SET resolved_at WHERE id AND resolved_at IS NULL.
SetIncidentResolved(table, id, t) ==
  IF id \in DOMAIN table /\ table[id].resolvedAt = NULL
    THEN Put(table, id, [table[id] EXCEPT !.resolvedAt = t])
    ELSE table

\* One SQL statement: it takes effect, or it fails and the error is logged.
Exec(ok) ==
  \/ ok /\ UNCHANGED faults
  \/ ~ok /\ faults < MaxFaults /\ faults' = faults + 1

-----------------------------------------------------------------------------
(* evaluate *)

k == Checks[idx]

Open(key) == active[key] # NULL /\ active[key].resolvedAt = NULL

Resolved(key) == active[key] # NULL /\ active[key].resolvedAt # NULL

\* Mutant of CooldownOver: the elapsed time is not compared.
CooldownOverAtOnce(key) == Resolved(key)

CooldownOver(key) ==
  Resolved(key) /\ now >= active[key].resolvedAt + Cooldown

BelowWarning == m[k] < Warning[k]

SeverityOf(key, value) ==
  IF value >= Critical[key] THEN "critical" ELSE "warning"

ZeroMetrics == [key \in Keys |-> 0]

ActiveCount == Cardinality({key \in Keys : Open(key)})

Message(type, id, analysed) == [type |-> type, id |-> id, analysed |-> analysed]

\* Mutant of NextCheck: the loop runs one check too far.
NextCheckPastEnd ==
  IF idx <= Len(Checks)
    THEN pc' = "check" /\ idx' = idx + 1 /\ at' = 0 /\ UNCHANGED m
    ELSE pc' = "idle" /\ idx' = 1 /\ at' = 0 /\ m' = ZeroMetrics

\* The loop goes on with the next check, or evaluate returns.
NextCheck ==
  IF idx < Len(Checks)
    THEN pc' = "check" /\ idx' = idx + 1 /\ at' = 0 /\ UNCHANGED m
    ELSE pc' = "idle" /\ idx' = 1 /\ at' = 0 /\ m' = ZeroMetrics

GoTo(label) == pc' = label /\ UNCHANGED <<idx, m, at>>

\* The ticker fires and Run calls evaluate(sim.Current()).
StartEvaluate ==
  /\ pc = "idle" /\ Checks # <<>>
  /\ pc' = "check" /\ idx' = 1 /\ m' = current /\ at' = 0
  /\ UNCHANGED <<current, changes, now, memVars, analyses, sent, storeVars, run>>

\* Mutant of Skip: a metric with a resolved entry is never fired again for sure.
SkipResolved ==
  /\ pc = "check"
  /\ IF BelowWarning THEN ~Open(k) ELSE active[k] # NULL
  /\ NextCheck
  /\ UNCHANGED <<current, changes, now, memVars, analyses, sent, storeVars, run>>

\* Nothing to do: already clear, already open, or still cooling down.
Skip ==
  /\ pc = "check"
  /\ IF BelowWarning
       THEN ~Open(k) /\ ~CooldownOver(k)
       ELSE active[k] # NULL /\ ~CooldownOver(k)
  /\ NextCheck
  /\ UNCHANGED <<current, changes, now, memVars, analyses, sent, storeVars, run>>

\* The cooldown of a resolved alert is over: the entry is deleted.
Forget ==
  /\ pc = "check" /\ BelowWarning /\ CooldownOver(k)
  /\ active' = [active EXCEPT ![k] = NULL]
  /\ NextCheck
  /\ UNCHANGED <<current, changes, now, alertSeq, counts, analyses, sent,
                 storeVars, run>>

\* Resolution path: the local now is read, then store.ResolveAlert.
ResolveAlert ==
  /\ pc = "check" /\ BelowWarning /\ Open(k)
  /\ at' = now
  /\ \E ok \in BOOLEAN :
       /\ Exec(ok)
       /\ alerts' = IF ok THEN SetAlertResolved(alerts, active[k].id, now)
                          ELSE alerts
  /\ pc' = "resolveIncident" /\ UNCHANGED <<idx, m>>
  /\ UNCHANGED <<current, changes, now, memVars, analyses, sent, incidents, run>>

\* Mutant of ResolveIncident: the clock is read a second time.
ResolveIncidentReadsClock ==
  /\ pc = "resolveIncident"
  /\ \E ok \in BOOLEAN :
       /\ Exec(ok)
       /\ incidents' = IF ok THEN SetIncidentResolved(incidents, active[k].id, now)
                             ELSE incidents
  /\ GoTo("announceResolved")
  /\ UNCHANGED <<current, changes, now, memVars, analyses, sent, alerts, run>>

\* store.ResolveIncident with the same instant.
ResolveIncident ==
  /\ pc = "resolveIncident"
  /\ \E ok \in BOOLEAN :
       /\ Exec(ok)
       /\ incidents' = IF ok THEN SetIncidentResolved(incidents, active[k].id, at)
                             ELSE incidents
  /\ GoTo("announceResolved")
  /\ UNCHANGED <<current, changes, now, memVars, analyses, sent, alerts, run>>

\* Mutant of AnnounceResolved: the changed copy is not stored back in the map.
AnnounceResolvedOnCopy ==
  /\ pc = "announceResolved"
  /\ sent' = Append(sent, Message("alert_resolved", active[k].id, FALSE))
  /\ NextCheck
  /\ UNCHANGED <<current, changes, now, memVars, analyses, storeVars, run>>

\* broadcastJSON(alert_resolved), and only then the entry starts to cool down.
AnnounceResolved ==
  /\ pc = "announceResolved"
  /\ sent' = Append(sent, Message("alert_resolved", active[k].id, FALSE))
  /\ active' = [active EXCEPT ![k].resolvedAt = at]
  /\ NextCheck
  /\ UNCHANGED <<current, changes, now, alertSeq, counts, analyses, storeVars, run>>

\* Firing path: a number, the map entry, the counter, then store.SaveAlert.
Fire ==
  /\ pc = "check" /\ ~BelowWarning
  /\ active[k] = NULL \/ CooldownOver(k)
  /\ alertSeq' = alertSeq + 1
  /\ active' = [active EXCEPT
       ![k] = [id |-> alertSeq + 1, firedAt |-> now, resolvedAt |-> NULL]]
  /\ counts' = [counts EXCEPT ![SeverityOf(k, m[k])] = @ + 1]
  /\ \E ok \in BOOLEAN :
       /\ Exec(ok)
       /\ alerts' =
            IF ok THEN InsertAlert(alerts, alertSeq + 1,
                         [metric |-> k, severity |-> SeverityOf(k, m[k]),
                          firedAt |-> now, resolvedAt |-> NULL,
                          analysis |-> NULL, run |-> run])
                  ELSE alerts
  /\ GoTo("saveIncident")
  /\ UNCHANGED <<current, changes, now, analyses, sent, incidents, run>>

\* store.SaveIncident with empty AI columns.
SaveIncident ==
  /\ pc = "saveIncident"
  /\ \E ok \in BOOLEAN :
       /\ Exec(ok)
       /\ incidents' =
            IF ok THEN UpsertIncident(incidents, active[k].id,
                         [severity |-> SeverityOf(k, m[k]),
                          firedAt |-> active[k].firedAt, resolvedAt |-> NULL,
                          analysis |-> NULL, run |-> run])
                  ELSE incidents
  /\ GoTo("announce")
  /\ UNCHANGED <<current, changes, now, memVars, analyses, sent, alerts, run>>

\* broadcastJSON(alert), then go analyzeWithClaude.
Announce ==
  /\ pc = "announce"
  /\ sent' = Append(sent, Message("alert", active[k].id, FALSE))
  /\ analyses' = analyses \cup
       {[id |-> active[k].id, severity |-> SeverityOf(k, m[k]),
         firedAt |-> active[k].firedAt, stage |-> "calling"]}
  /\ NextCheck
  /\ UNCHANGED <<current, changes, now, memVars, storeVars, run>>

Evaluate ==
  \/ StartEvaluate \/ Skip \/ Forget
  \/ ResolveAlert \/ ResolveIncident \/ AnnounceResolved
  \/ Fire \/ SaveIncident \/ Announce

-----------------------------------------------------------------------------
(* analyzeWithClaude: one goroutine per fired alert.  a is its record.     *)

\* Mutant of AnalysisUnavailable: the goroutine returns without an answer.
AnalysisGivenUp(a) ==
  /\ a.stage = "calling"
  /\ analyses' = analyses \ {a}
  /\ UNCHANGED <<current, changes, now, memVars, evalVars, sent, storeVars, run>>

\* No client is configured, or the API call fails: a canned answer is sent.
AnalysisUnavailable(a) ==
  /\ a.stage = "calling"
  /\ sent' = Append(sent, Message("ai_response", a.id, FALSE))
  /\ analyses' = analyses \ {a}
  /\ UNCHANGED <<current, changes, now, memVars, evalVars, storeVars, run>>

\* The API answers, then store.UpdateAIResponse.
UpdateAIResponse(a) ==
  /\ AIEnabled /\ a.stage = "calling"
  /\ \E ok \in BOOLEAN :
       /\ Exec(ok)
       /\ alerts' = IF ok THEN SetAlertAnalysis(alerts, a.id, run) ELSE alerts
  /\ analyses' = (analyses \ {a}) \cup {[a EXCEPT !.stage = "saveIncident"]}
  /\ UNCHANGED <<current, changes, now, memVars, evalVars, sent, incidents, run>>

\* store.SaveIncident again, now with the AI columns.
SaveAnalysis(a) ==
  /\ a.stage = "saveIncident"
  /\ \E ok \in BOOLEAN :
       /\ Exec(ok)
       /\ incidents' =
            IF ok THEN UpsertIncident(incidents, a.id,
                         [severity |-> a.severity, firedAt |-> a.firedAt,
                          resolvedAt |-> NULL, analysis |-> run, run |-> run])
                  ELSE incidents
  /\ analyses' = (analyses \ {a}) \cup {[a EXCEPT !.stage = "broadcast"]}
  /\ UNCHANGED <<current, changes, now, memVars, evalVars, sent, alerts, run>>

AnnounceAnalysis(a) ==
  /\ a.stage = "broadcast"
  /\ sent' = Append(sent, Message("ai_response", a.id, TRUE))
  /\ analyses' = analyses \ {a}
  /\ UNCHANGED <<current, changes, now, memVars, evalVars, storeVars, run>>

Analyze ==
  \E a \in analyses :
    \/ AnalysisUnavailable(a) \/ UpdateAIResponse(a)
    \/ SaveAnalysis(a) \/ AnnounceAnalysis(a)

-----------------------------------------------------------------------------
(* The environment. *)

\* The simulator stores another snapshot.
Refresh ==
  /\ changes < MaxChanges
  /\ changes' = changes + 1
  /\ current' \in [Keys -> Readings] \ {current}
  /\ UNCHANGED <<now, memVars, evalVars, analyses, sent, storeVars, run>>

\* Time is only compared with the end of a cooldown, so the clock is left
\* alone while no cooldown is running.
Tick ==
  /\ \E key \in Keys : Resolved(key) /\ ~CooldownOver(key)
  /\ now' = now + 1
  /\ UNCHANGED <<current, changes, memVars, evalVars, analyses, sent,
                 storeVars, run>>

\* The process dies and a new one starts: alertSeq, activeAlerts and the
\* counters start from zero, the goroutines and the queued messages are
\* gone, the tables stay.
Restart ==
  /\ run < MaxRestarts
  /\ run' = run + 1
  /\ alertSeq' = 0
  /\ active' = [key \in Keys |-> NULL]
  /\ counts' = [s \in Severities |-> 0]
  /\ pc' = "idle" /\ idx' = 1 /\ m' = ZeroMetrics /\ at' = 0
  /\ analyses' = {} /\ sent' = <<>>
  /\ current' = ZeroMetrics
  /\ UNCHANGED <<changes, now, storeVars>>

Init ==
  /\ current = ZeroMetrics /\ changes = 0 /\ now = 0
  /\ alertSeq = 0
  /\ active = [key \in Keys |-> NULL]
  /\ counts = [s \in Severities |-> 0]
  /\ pc = "idle" /\ idx = 1 /\ m = ZeroMetrics /\ at = 0
  /\ analyses = {} /\ sent = <<>>
  /\ alerts = [i \in {} |-> NULL] /\ incidents = [i \in {} |-> NULL]
  /\ run = 0 /\ faults = 0

Next == Evaluate \/ Analyze \/ Refresh \/ Tick \/ Restart

Spec == Init /\ [][Next]_vars

(***************************************************************************)
(* Run's ticker never stops, so the evaluator keeps running; an API call   *)
(* ends after the client's 30 s timeout at the latest, so the goroutines   *)
(* keep running; time passes.  Nothing obliges the metrics to change.      *)
(***************************************************************************)
Fairness == WF_vars(Evaluate) /\ WF_vars(Analyze) /\ WF_vars(Tick)

FairSpec == Spec /\ Fairness

-----------------------------------------------------------------------------
(* Properties *)

\* Type invariant of the engine's memory, of its tables and of its goroutines.
TypeOK ==
  /\ current \in [Keys -> Readings] /\ m \in [Keys -> Readings]
  /\ changes \in Nat /\ now \in Nat /\ alertSeq \in Nat /\ at \in Nat
  /\ run \in Nat /\ faults \in Nat
  /\ active \in [Keys -> ActiveAlert \cup {NULL}]
  /\ counts \in [Severities -> Nat]
  /\ pc \in {"idle", "check", "resolveIncident", "announceResolved",
             "saveIncident", "announce"}
  /\ idx \in 1..Len(Checks) \cup {1}
  /\ pc # "idle" => idx \in DOMAIN Checks
  /\ analyses \subseteq Analysis
  /\ sent \in Seq([type : {"alert", "alert_resolved", "ai_response"},
                   id : Nat, analysed : BOOLEAN])
  /\ DOMAIN alerts \subseteq Nat /\ \A i \in DOMAIN alerts : alerts[i] \in AlertRow
  /\ DOMAIN incidents \subseteq Nat
  /\ \A i \in DOMAIN incidents : incidents[i] \in IncidentRow

OpenRows(table) == {i \in DOMAIN table : table[i].resolvedAt = NULL}

\* The alerts that are open in memory, but for the metric being worked on
\* while evaluate is at one of the statements in labels.
OpenIds(labels) ==
  {active[key].id : key \in {q \in Keys : Open(q) /\ ~(pc \in labels /\ q = k)}}

\* No statement failed and the process never restarted.
Undisturbed == run = 0 /\ faults = 0

\* As long as nothing failed, the open rows of each table are exactly the alerts
\* open in memory (what ActiveCount and /metrics report), up to the statement
\* evaluate is at: no late AI update reopens a resolved incident.  The lifetime
\* counters count the rows.
TablesMirrorEngine ==
  Undisturbed =>
    /\ OpenRows(alerts) = OpenIds({"resolveIncident", "announceResolved"})
    /\ OpenRows(incidents) = OpenIds({"announceResolved", "saveIncident"})
    /\ \A s \in Severities :
         counts[s] = Cardinality({i \in DOMAIN alerts : alerts[i].severity = s})

\* The two tables tell one story, as long as nothing failed: an incident row
\* has its alert row, with the same severity and times; only the resolution in
\* progress may be ahead.
TablesAgree ==
  Undisturbed =>
    \A i \in DOMAIN incidents :
      /\ i \in DOMAIN alerts
      /\ incidents[i].severity = alerts[i].severity
      /\ incidents[i].firedAt = alerts[i].firedAt
      /\ \/ incidents[i].resolvedAt = alerts[i].resolvedAt
         \/ pc = "resolveIncident" /\ active[k].id = i

\* A metric does not fire again before the cooldown after its last resolution
\* is over, whatever statements fail (until a restart forgets the cooldowns).
CooldownRespected ==
  run = 0 =>
    \A i, j \in DOMAIN alerts :
      /\ i < j
      /\ alerts[i].metric = alerts[j].metric
      /\ alerts[i].resolvedAt # NULL
      => alerts[j].firedAt >= alerts[i].resolvedAt + Cooldown

\* A dashboard hears of an alert before it hears of its resolution or of its
\* analysis, and of each of them at most once, although three goroutines of
\* two kinds send the messages.
NotificationOrder ==
  \A p \in DOMAIN sent :
    /\ \A n \in 1..(p - 1) : sent[n].id = sent[p].id => sent[n].type # sent[p].type
    /\ sent[p].type = "alert" \/
         \E n \in 1..(p - 1) : sent[n] = Message("alert", sent[p].id, FALSE)

\* A client that reads the tables on a message finds what the message is about
\* in both of them, now and later, as long as nothing failed: the dashboard
\* reloads the list of recent incidents on every alert_resolved.
StoredWhenAnnounced ==
  Undisturbed =>
    \A n \in DOMAIN sent :
      LET i == sent[n].id IN
      /\ i \in DOMAIN alerts \cap DOMAIN incidents
      /\ sent[n].type = "alert_resolved" =>
           alerts[i].resolvedAt # NULL /\ incidents[i].resolvedAt # NULL
      /\ sent[n].analysed =>
           alerts[i].analysis # NULL /\ incidents[i].analysis # NULL

\* Whatever fails and however often the process restarts and hands out the
\* same numbers again, a resolved incident keeps its resolution time ...
ResolvedIncidentStaysResolved ==
  [][\A i \in DOMAIN incidents :
       incidents[i].resolvedAt # NULL =>
         i \in DOMAIN incidents' /\ incidents'[i].resolvedAt = incidents[i].resolvedAt
    ]_vars

\* ... and no stored alert is rewritten into another one.
AlertRowsKeepTheirIdentity ==
  [][\A i \in DOMAIN alerts :
       /\ i \in DOMAIN alerts'
       /\ alerts'[i].metric = alerts[i].metric
       /\ alerts'[i].severity = alerts[i].severity
       /\ alerts'[i].firedAt = alerts[i].firedAt
    ]_vars

Breached(key) == current[key] >= Warning[key]

\* A metric that stays at or above its warning threshold ends up with an open
\* alert, after the cooldown of the previous one if need be.
SustainedBreachIsOpen ==
  \A key \in Keys : <>[]Breached(key) => <>[]Open(key)

\* A metric that stays below its warning threshold ends up without an open
\* alert and, unless a statement failed or the process died, with all its rows
\* resolved in both tables.
SustainedRecoveryIsResolved ==
  \A key \in Keys : <>[]~Breached(key) =>
    <>[](/\ ~Open(key)
         /\ Undisturbed => \A i \in OpenRows(alerts) \cup OpenRows(incidents) :
                             alerts[i].metric # key)

Answered(id) == \E n \in DOMAIN sent : sent[n].type = "ai_response" /\ sent[n].id = id

\* Every alert that was announced gets an AI answer, if only a canned one,
\* whatever statements fail, unless the process dies: again and again there is
\* none that waits.
EveryAlertIsAnswered ==
  []<>(\A n \in DOMAIN sent : sent[n].type = "alert" => Answered(sent[n].id))

\* store.go:334, "SaveAlert inserts a new alert row": an alert that was
\* announced by this process has a row of its own.
AnnouncedAlertHasItsRow ==
  \A n \in DOMAIN sent :
    sent[n].type = "alert" =>
      sent[n].id \in DOMAIN alerts /\ alerts[sent[n].id].run = run

\* The episodes a reader of the alerts table sees, by the numbers of the alerts.
Episodes ==
  [i \in DOMAIN alerts |->
    [metric |-> alerts[i].metric, start |-> alerts[i].firedAt,
     end |-> alerts[i].resolvedAt]]

Lifecycle ==
  INSTANCE IncidentLifecycle
    WITH Metrics <- Keys, clock <- now, episodes <- Episodes

\* As long as no statement fails and nothing restarts, the alerts table goes
\* through the lists of episodes IncidentLifecycle allows, step by step: those of
\* a metric never overlap, end once, and are a cooldown apart.
RefinesLifecycle == Lifecycle!Spec
=============================================================================
