-------------------------- MODULE AlertEngineProofs --------------------------
(***************************************************************************)
(* Proofs about AlertEngine, for all metrics, thresholds, cooldowns and    *)
(* bounds: first its invariants and action properties, then the order of   *)
(* the messages, and what the two tables hold while nothing fails, which   *)
(* is a list of episodes as IncidentLifecycle has it.                      *)
(***************************************************************************)
EXTENDS AlertEngine, FiniteSetTheorems, SequenceTheorems, TLAPS

AlertsOK(table) ==
  DOMAIN table \subseteq Nat /\ \A i \in DOMAIN table : table[i] \in AlertRow

IncidentsOK(table) ==
  DOMAIN table \subseteq Nat /\ \A i \in DOMAIN table : table[i] \in IncidentRow

-----------------------------------------------------------------------------
(* The table operators. *)

\* Put adds or replaces one row and leaves the others alone.
LEMMA PutRow ==
  ASSUME NEW table, NEW id, NEW r
  PROVE  /\ DOMAIN Put(table, id, r) = DOMAIN table \cup {id}
         /\ Put(table, id, r)[id] = r
         /\ \A i \in DOMAIN table : i # id => Put(table, id, r)[i] = table[i]
BY DEF Put

\* Put keeps the type of either table.
LEMMA PutOK ==
  ASSUME NEW table, NEW id \in Nat
  PROVE  /\ AlertsOK(table) =>
              \A r \in AlertRow : AlertsOK(Put(table, id, r))
         /\ IncidentsOK(table) =>
              \A r \in IncidentRow : IncidentsOK(Put(table, id, r))
<1>1. ASSUME AlertsOK(table), NEW r \in AlertRow
      PROVE  AlertsOK(Put(table, id, r))
  <2> USE <1>1 DEF AlertsOK, Put
  <2>1. DOMAIN Put(table, id, r) = DOMAIN table \cup {id}
    OBVIOUS
  <2>2. ASSUME NEW i \in DOMAIN Put(table, id, r)
        PROVE  Put(table, id, r)[i] \in AlertRow
    BY <2>1, <2>2
  <2> QED BY <2>1, <2>2
<1>2. ASSUME IncidentsOK(table), NEW r \in IncidentRow
      PROVE  IncidentsOK(Put(table, id, r))
  <2> USE <1>2 DEF IncidentsOK, Put
  <2>1. DOMAIN Put(table, id, r) = DOMAIN table \cup {id}
    OBVIOUS
  <2>2. ASSUME NEW i \in DOMAIN Put(table, id, r)
        PROVE  Put(table, id, r)[i] \in IncidentRow
    BY <2>1, <2>2
  <2> QED BY <2>1, <2>2
<1> QED BY <1>1, <1>2

\* The statements on the alerts table keep its type.
LEMMA AlertsTables ==
  ASSUME NEW table, AlertsOK(table), NEW id \in Nat
  PROVE  /\ \A r \in AlertRow : AlertsOK(InsertAlert(table, id, r))
         /\ \A t \in Nat : AlertsOK(SetAlertResolved(table, id, t))
         /\ \A a \in Nat : AlertsOK(SetAlertAnalysis(table, id, a))
<1>1. ASSUME NEW r \in AlertRow PROVE AlertsOK(InsertAlert(table, id, r))
  <2>1. AlertsOK(Put(table, id, r))
    BY <1>1, PutOK
  <2> QED BY <2>1 DEF InsertAlert
<1>2. ASSUME NEW t \in Nat PROVE AlertsOK(SetAlertResolved(table, id, t))
  <2>1. CASE id \in DOMAIN table
    <3> DEFINE r == [table[id] EXCEPT !.resolvedAt = t]
    <3>1. r \in AlertRow
      BY <2>1 DEF AlertsOK, AlertRow
    <3>2. AlertsOK(Put(table, id, r))
      <4> HIDE DEF r
      <4> QED BY <3>1, PutOK
    <3> QED BY <2>1, <3>2 DEF SetAlertResolved
  <2> QED BY <2>1 DEF SetAlertResolved
<1>3. ASSUME NEW a \in Nat PROVE AlertsOK(SetAlertAnalysis(table, id, a))
  <2>1. CASE id \in DOMAIN table
    <3> DEFINE r == [table[id] EXCEPT !.analysis = a]
    <3>1. r \in AlertRow
      BY <2>1 DEF AlertsOK, AlertRow
    <3>2. AlertsOK(Put(table, id, r))
      <4> HIDE DEF r
      <4> QED BY <3>1, PutOK
    <3> QED BY <2>1, <3>2 DEF SetAlertAnalysis
  <2> QED BY <2>1 DEF SetAlertAnalysis
<1> QED BY <1>1, <1>2, <1>3

\* The statements on the incidents table keep its type.
LEMMA IncidentsTables ==
  ASSUME NEW table, IncidentsOK(table), NEW id \in Nat
  PROVE  /\ \A r \in IncidentRow : IncidentsOK(UpsertIncident(table, id, r))
         /\ \A t \in Nat : IncidentsOK(SetIncidentResolved(table, id, t))
<1>1. ASSUME NEW r \in IncidentRow PROVE IncidentsOK(UpsertIncident(table, id, r))
  <2>1. CASE id \in DOMAIN table
    <3> DEFINE s == [table[id] EXCEPT !.analysis = r.analysis]
    <3>1. s \in IncidentRow
      BY <2>1, <1>1 DEF IncidentsOK, IncidentRow
    <3>2. IncidentsOK(Put(table, id, s))
      <4> HIDE DEF s
      <4> QED BY <3>1, PutOK
    <3> QED BY <2>1, <3>2 DEF UpsertIncident
  <2>2. CASE id \notin DOMAIN table
    <3>1. IncidentsOK(Put(table, id, r))
      BY <1>1, PutOK
    <3> QED BY <2>2, <3>1 DEF UpsertIncident
  <2> QED BY <2>1, <2>2
<1>2. ASSUME NEW t \in Nat PROVE IncidentsOK(SetIncidentResolved(table, id, t))
  <2>1. CASE id \in DOMAIN table /\ table[id].resolvedAt = NULL
    <3> DEFINE s == [table[id] EXCEPT !.resolvedAt = t]
    <3>1. s \in IncidentRow
      BY <2>1, <1>2 DEF IncidentsOK, IncidentRow
    <3>2. IncidentsOK(Put(table, id, s))
      <4> HIDE DEF s
      <4> QED BY <3>1, PutOK
    <3> QED BY <2>1, <3>2 DEF SetIncidentResolved
  <2> QED BY <2>1 DEF SetIncidentResolved
<1> QED BY <1>1, <1>2

-----------------------------------------------------------------------------
(* Type correctness. *)

\* Every key that evaluate reads is a key.
LEMMA CurrentKey ==
  ASSUME TypeOK, pc # "idle"
  PROVE  k \in Keys
BY DEF TypeOK, k, Keys

\* NextCheck ends the round or moves on to a check that exists.
LEMMA NextCheckType ==
  ASSUME TypeOK, pc # "idle", NextCheck
  PROVE  /\ pc' \in {"idle", "check"} /\ at' \in Nat
         /\ m' \in [Keys -> Readings]
         /\ idx' \in 1..Len(Checks) \cup {1}
         /\ pc' # "idle" => idx' \in DOMAIN Checks
BY SMTT(30), ChecksAssumption, ConfigAssumption DEF TypeOK, NextCheck, ZeroMetrics

\* An alert message has the type of the messages.
LEMMA SentType ==
  ASSUME TypeOK, NEW i \in Nat, NEW b \in BOOLEAN,
         NEW t \in {"alert", "alert_resolved", "ai_response"},
         sent' = Append(sent, Message(t, i, b))
  PROVE  sent' \in Seq([type : {"alert", "alert_resolved", "ai_response"},
                        id : Nat, analysed : BOOLEAN])
BY DEF TypeOK, Message

LEMMA SeverityType ==
  ASSUME NEW key, NEW value
  PROVE  SeverityOf(key, value) \in Severities
BY DEF SeverityOf, Severities

(* TypeOK alone is not inductive: AnnounceResolved, for one, updates the    *)
(* entry active[k], which must not be absent.  Between the statements of a  *)
(* resolution or of a firing the entry of the key at hand is open.          *)
HandlesOpen ==
  pc \in {"resolveIncident", "announceResolved", "saveIncident", "announce"}
    => Open(k)

TypeInv == TypeOK /\ HandlesOpen

LEMMA OpenEntry ==
  ASSUME TypeOK, NEW key \in Keys, active[key] # NULL
  PROVE  active[key] \in ActiveAlert
BY DEF TypeOK

LEMMA InitType == Init => TypeInv
<1> SUFFICES ASSUME Init PROVE TypeInv
  OBVIOUS
<1> USE ConfigAssumption DEF Init, ZeroMetrics
<1>1. sent \in Seq([type : {"alert", "alert_resolved", "ai_response"},
                   id : Nat, analysed : BOOLEAN])
  OBVIOUS
<1>2. DOMAIN alerts = {} /\ DOMAIN incidents = {}
  OBVIOUS
<1> QED BY <1>1, <1>2 DEF TypeInv, TypeOK, HandlesOpen

USE DEF memVars, evalVars, storeVars

\* The steps of evaluate that write no table.
LEMMA TypeEvaluateMemory ==
  ASSUME TypeInv, StartEvaluate \/ Skip \/ Forget \/ AnnounceResolved \/ Announce
  PROVE  TypeInv'
<1> USE NullAssumption DEF TypeInv
<1>1. CASE StartEvaluate
  BY <1>1, ChecksAssumption DEF StartEvaluate, TypeOK, HandlesOpen
<1>2. CASE Skip
  <2>1. pc # "idle"
    BY <1>2 DEF Skip
  <2> QED BY <1>2, <2>1, NextCheckType DEF Skip, TypeOK, HandlesOpen
<1>3. CASE Forget
  <2>1. pc # "idle" /\ active' \in [Keys -> ActiveAlert \cup {NULL}]
    BY <1>3 DEF Forget, TypeOK
  <2> QED BY <1>3, <2>1, NextCheckType DEF Forget, TypeOK, HandlesOpen
<1>4. CASE AnnounceResolved
  <2>1. pc = "announceResolved" /\ Open(k)
    BY <1>4 DEF AnnounceResolved, HandlesOpen
  <2>2. k \in Keys
    BY <2>1, CurrentKey
  <2>3. active[k] \in ActiveAlert
    BY <2>1, <2>2, OpenEntry DEF Open
  <2>4. [active[k] EXCEPT !.resolvedAt = at] \in ActiveAlert
    BY <2>3 DEF ActiveAlert, TypeOK
  <2>5. active' \in [Keys -> ActiveAlert \cup {NULL}]
    BY <1>4, <2>4 DEF AnnounceResolved, TypeOK
  <2>6. sent' \in Seq([type : {"alert", "alert_resolved", "ai_response"},
                      id : Nat, analysed : BOOLEAN])
    BY <1>4, <2>3, SentType DEF AnnounceResolved, ActiveAlert
  <2>7. pc' \in {"idle", "check"} /\ at' \in Nat
        /\ m' \in [Keys -> Readings]
        /\ idx' \in 1..Len(Checks) \cup {1}
        /\ (pc' # "idle" => idx' \in DOMAIN Checks)
    BY <1>4, <2>1, NextCheckType DEF AnnounceResolved
  <2> QED BY <1>4, <2>5, <2>6, <2>7 DEF AnnounceResolved, TypeOK, HandlesOpen
<1>5. CASE Announce
  <2>1. pc = "announce" /\ Open(k)
    BY <1>5 DEF Announce, HandlesOpen
  <2>2. k \in Keys
    BY <2>1, CurrentKey
  <2>3. active[k] \in ActiveAlert
    BY <2>1, <2>2, OpenEntry DEF Open
  <2>4. analyses' \subseteq Analysis
    BY <1>5, <2>3, SeverityType DEF Announce, TypeOK, ActiveAlert, Analysis
  <2>5. sent' \in Seq([type : {"alert", "alert_resolved", "ai_response"},
                      id : Nat, analysed : BOOLEAN])
    BY <1>5, <2>3, SentType DEF Announce, ActiveAlert
  <2>6. pc' \in {"idle", "check"} /\ at' \in Nat
        /\ m' \in [Keys -> Readings]
        /\ idx' \in 1..Len(Checks) \cup {1}
        /\ (pc' # "idle" => idx' \in DOMAIN Checks)
    BY <1>5, <2>1, NextCheckType DEF Announce
  <2> QED BY <1>5, <2>4, <2>5, <2>6 DEF Announce, TypeOK, HandlesOpen
<1> QED BY <1>1, <1>2, <1>3, <1>4, <1>5

\* A statement that fails leaves the fault counter a number.
LEMMA ExecType ==
  ASSUME TypeOK, NEW ok \in BOOLEAN, Exec(ok)
  PROVE  faults' \in Nat
BY DEF TypeOK, Exec

\* The steps of evaluate that execute a statement.
LEMMA TypeEvaluateStore ==
  ASSUME TypeInv, ResolveAlert \/ ResolveIncident \/ Fire \/ SaveIncident
  PROVE  TypeInv'
<1> USE NullAssumption DEF TypeInv
<1>0. AlertsOK(alerts) /\ IncidentsOK(incidents)
  BY DEF TypeOK, AlertsOK, IncidentsOK
<1>1. pc # "idle" /\ k \in Keys
  <2>1. pc # "idle"
    BY DEF ResolveAlert, ResolveIncident, Fire, SaveIncident
  <2> QED BY <2>1, CurrentKey
<1>2. ASSUME Open(k) PROVE active[k] \in ActiveAlert /\ active[k].id \in Nat
                           /\ active[k].firedAt \in Nat
  BY <1>1, <1>2, OpenEntry DEF Open, ActiveAlert
<1>3. CASE ResolveAlert
  <2>1. Open(k) /\ k' = k
    BY <1>3 DEF ResolveAlert, k
  <2>2. AlertsOK(alerts') /\ faults' \in Nat
    <3>1. PICK ok \in BOOLEAN :
             /\ Exec(ok)
             /\ alerts' = IF ok THEN SetAlertResolved(alerts, active[k].id, now)
                                ELSE alerts
      BY <1>3 DEF ResolveAlert
    <3>2. now \in Nat
      BY DEF TypeOK
    <3> QED BY <1>0, <1>2, <2>1, <3>1, <3>2, AlertsTables, ExecType
  <2> QED BY <1>3, <2>1, <2>2 DEF ResolveAlert, TypeOK, HandlesOpen, Open, AlertsOK
<1>4. CASE ResolveIncident
  <2>1. Open(k) /\ k' = k
    BY <1>4 DEF ResolveIncident, HandlesOpen, GoTo, k
  <2>2. IncidentsOK(incidents') /\ faults' \in Nat
    <3>1. PICK ok \in BOOLEAN :
             /\ Exec(ok)
             /\ incidents' = IF ok
                               THEN SetIncidentResolved(incidents, active[k].id, at)
                               ELSE incidents
      BY <1>4 DEF ResolveIncident
    <3>2. at \in Nat
      BY DEF TypeOK
    <3> QED BY <1>0, <1>2, <2>1, <3>1, <3>2, IncidentsTables, ExecType
  <2> QED BY <1>4, <2>1, <2>2
          DEF ResolveIncident, GoTo, TypeOK, HandlesOpen, Open, IncidentsOK
<1>5. CASE Fire
  <2>1. k' = k
    BY <1>5 DEF Fire, GoTo, k
  <2> DEFINE entry == [id |-> alertSeq + 1, firedAt |-> now, resolvedAt |-> NULL]
  <2>2. entry \in ActiveAlert
    BY DEF ActiveAlert, TypeOK
  <2>3. active' = [active EXCEPT ![k] = entry]
    BY <1>5 DEF Fire
  <2>4. active' \in [Keys -> ActiveAlert \cup {NULL}] /\ active'[k] = entry
    <3> HIDE DEF entry
    <3> QED BY <1>1, <2>2, <2>3 DEF TypeOK
  <2>5. Open(k)'
    BY <2>1, <2>2, <2>4 DEF Open
  <2>6. counts' \in [Severities -> Nat]
    BY <1>5, SeverityType DEF Fire, TypeOK
  <2> DEFINE row == [metric |-> k, severity |-> SeverityOf(k, m[k]),
                     firedAt |-> now, resolvedAt |-> NULL,
                     analysis |-> NULL, run |-> run]
  <2>7. row \in AlertRow
    BY <1>1, SeverityType DEF AlertRow, TypeOK
  <2>8. AlertsOK(alerts') /\ faults' \in Nat
    <3>1. PICK ok \in BOOLEAN : /\ Exec(ok)
                                /\ alerts' = IF ok THEN InsertAlert(alerts, alertSeq + 1, row)
                                                   ELSE alerts
      BY <1>5 DEF Fire
    <3>2. alertSeq + 1 \in Nat
      BY DEF TypeOK
    <3> HIDE DEF row
    <3> QED BY <1>0, <2>7, <3>1, <3>2, AlertsTables, ExecType
  <2>9. alertSeq' \in Nat /\ GoTo("saveIncident")
        /\ UNCHANGED <<current, changes, now, analyses, sent, incidents, run>>
    BY <1>5 DEF Fire, TypeOK
  <2> HIDE DEF entry, row
  <2> QED BY <1>1, <2>4, <2>5, <2>6, <2>8, <2>9 DEF GoTo, TypeOK, HandlesOpen, AlertsOK
<1>6. CASE SaveIncident
  <2>1. Open(k) /\ k' = k
    BY <1>6 DEF SaveIncident, HandlesOpen, GoTo, k
  <2> DEFINE row == [severity |-> SeverityOf(k, m[k]),
                     firedAt |-> active[k].firedAt, resolvedAt |-> NULL,
                     analysis |-> NULL, run |-> run]
  <2>2. row \in IncidentRow
    BY <1>2, <2>1, SeverityType DEF IncidentRow, TypeOK
  <2>3. IncidentsOK(incidents') /\ faults' \in Nat
    <3>1. PICK ok \in BOOLEAN :
             /\ Exec(ok)
             /\ incidents' = IF ok THEN UpsertIncident(incidents, active[k].id, row)
                                   ELSE incidents
      BY <1>6 DEF SaveIncident
    <3> HIDE DEF row
    <3> QED BY <1>0, <1>2, <2>1, <2>2, <3>1, IncidentsTables, ExecType
  <2>4. GoTo("announce")
        /\ UNCHANGED <<current, changes, now, memVars, analyses, sent, alerts, run>>
    BY <1>6 DEF SaveIncident
  <2> HIDE DEF row
  <2> QED BY <1>1, <2>1, <2>3, <2>4
          DEF GoTo, TypeOK, HandlesOpen, Open, IncidentsOK
<1> QED BY <1>3, <1>4, <1>5, <1>6

\* The steps of the AI goroutines.
LEMMA TypeAnalyze ==
  ASSUME TypeInv, Analyze
  PROVE  TypeInv'
<1> USE DEF TypeInv
<1>0. AlertsOK(alerts) /\ IncidentsOK(incidents)
  BY DEF TypeOK, AlertsOK, IncidentsOK
<1>1. PICK a \in analyses : AnalysisUnavailable(a) \/ UpdateAIResponse(a)
                             \/ SaveAnalysis(a) \/ AnnounceAnalysis(a)
  BY DEF Analyze
<1>2. a \in Analysis /\ a.id \in Nat
  BY <1>1 DEF TypeOK, Analysis
<1>3. CASE AnalysisUnavailable(a) \/ AnnounceAnalysis(a)
  <2>1. sent' \in Seq([type : {"alert", "alert_resolved", "ai_response"},
                      id : Nat, analysed : BOOLEAN])
    BY <1>2, <1>3, SentType DEF AnalysisUnavailable, AnnounceAnalysis
  <2> QED BY <1>3, <2>1
          DEF AnalysisUnavailable, AnnounceAnalysis, TypeOK, HandlesOpen, Open, k
<1>4. CASE UpdateAIResponse(a)
  <2>1. AlertsOK(alerts') /\ faults' \in Nat
    BY <1>0, <1>2, <1>4, AlertsTables, ExecType DEF UpdateAIResponse, TypeOK
  <2>2. [a EXCEPT !.stage = "saveIncident"] \in Analysis
    BY <1>2 DEF Analysis
  <2>3. analyses' \subseteq Analysis
    BY <1>4, <2>2 DEF UpdateAIResponse, TypeOK
  <2> QED BY <1>4, <2>1, <2>3
          DEF UpdateAIResponse, TypeOK, HandlesOpen, Open, k, AlertsOK
<1>5. CASE SaveAnalysis(a)
  <2> DEFINE row == [severity |-> a.severity, firedAt |-> a.firedAt,
                     resolvedAt |-> NULL, analysis |-> run, run |-> run]
  <2>1. row \in IncidentRow
    BY <1>2 DEF IncidentRow, Analysis, TypeOK
  <2>2. IncidentsOK(incidents') /\ faults' \in Nat
    <3>1. PICK ok \in BOOLEAN :
             /\ Exec(ok)
             /\ incidents' = IF ok THEN UpsertIncident(incidents, a.id, row)
                                   ELSE incidents
      BY <1>5 DEF SaveAnalysis
    <3> HIDE DEF row
    <3> QED BY <1>0, <1>2, <2>1, <3>1, IncidentsTables, ExecType
  <2>3. [a EXCEPT !.stage = "broadcast"] \in Analysis
    BY <1>2 DEF Analysis
  <2>4. analyses' \subseteq Analysis
    BY <1>5, <2>3 DEF SaveAnalysis, TypeOK
  <2>5. UNCHANGED <<current, changes, now, memVars, evalVars, sent, alerts, run>>
    BY <1>5 DEF SaveAnalysis
  <2> HIDE DEF row
  <2> QED BY <2>2, <2>4, <2>5 DEF TypeOK, HandlesOpen, Open, k, IncidentsOK
<1> QED BY <1>1, <1>3, <1>4, <1>5

\* The steps of the environment and the stuttering steps.
LEMMA TypeEnvironment ==
  ASSUME TypeInv, Refresh \/ Tick \/ Restart \/ UNCHANGED vars
  PROVE  TypeInv'
<1> USE DEF TypeInv
<1>1. CASE Refresh
  BY <1>1 DEF Refresh, TypeOK, HandlesOpen, Open, k
<1>2. CASE Tick
  BY <1>2 DEF Tick, TypeOK, HandlesOpen, Open, k
<1>3. CASE Restart
  <2>1. sent' \in Seq([type : {"alert", "alert_resolved", "ai_response"},
                      id : Nat, analysed : BOOLEAN])
    BY <1>3 DEF Restart
  <2> QED BY <1>3, <2>1, ConfigAssumption
          DEF Restart, TypeOK, HandlesOpen, ZeroMetrics
<1>4. CASE UNCHANGED vars
  BY <1>4 DEF vars, TypeOK, HandlesOpen, Open, k
<1> QED BY <1>1, <1>2, <1>3, <1>4

LEMMA StepType ==
  ASSUME TypeInv, [Next]_vars
  PROVE  TypeInv'
BY TypeEvaluateMemory, TypeEvaluateStore, TypeAnalyze, TypeEnvironment
   DEF Next, Evaluate

\* In every state of every instance the engine's memory, its goroutines, its
\* messages and its tables have their types.
THEOREM TypeCorrect == Spec => []TypeOK
<1>1. Spec => []TypeInv
  BY InitType, StepType, PTL DEF Spec
<1>2. TypeInv => TypeOK
  BY DEF TypeInv
<1> QED BY <1>1, <1>2, PTL

-----------------------------------------------------------------------------
(* The cooldown.  For a process run that started on empty tables (run = 0)  *)
(* the entry of a metric in activeAlerts knows enough about the metric's    *)
(* rows: no row is newer than the entry, a resolved older row ended at      *)
(* least Cooldown before the entry fired, and the entry's own row, once     *)
(* resolved, carries the time the entry carries or is about to.  Without an *)
(* entry every resolved row of the metric ended at least Cooldown ago.      *)

AheadOfEntries(q) ==
  active[q] # NULL =>
    /\ active[q].id <= alertSeq /\ active[q].firedAt <= now
    /\ \A i \in DOMAIN alerts :
         /\ alerts[i].metric = q => i <= active[q].id
         /\ i = active[q].id => alerts[i].metric = q

EntryCoversRow(q, i) ==
  /\ active[q] = NULL => now >= alerts[i].resolvedAt + Cooldown
  /\ active[q] # NULL /\ i # active[q].id
       => active[q].firedAt >= alerts[i].resolvedAt + Cooldown
  /\ active[q] # NULL /\ i = active[q].id
       => \/ active[q].resolvedAt = alerts[i].resolvedAt
          \/ /\ pc \in {"resolveIncident", "announceResolved"}
             /\ q = k /\ at = alerts[i].resolvedAt

RowsRespectCooldown(i, j) ==
  i < j /\ alerts[i].metric = alerts[j].metric /\ alerts[i].resolvedAt # NULL
    => alerts[j].firedAt >= alerts[i].resolvedAt + Cooldown

CooldownFacts ==
  /\ \A i \in DOMAIN alerts : i <= alertSeq
  /\ \A q \in Keys : AheadOfEntries(q)
  /\ \A i \in DOMAIN alerts :
       alerts[i].resolvedAt # NULL => EntryCoversRow(alerts[i].metric, i)
  /\ \A i, j \in DOMAIN alerts : RowsRespectCooldown(i, j)

CooldownInv == TypeInv /\ (run = 0 => CooldownFacts)

\* What the alerts rows look like after an AI update: nothing these facts
\* mention has changed.
RowsKept ==
  /\ DOMAIN alerts' = DOMAIN alerts
  /\ \A i \in DOMAIN alerts :
       /\ alerts'[i].metric = alerts[i].metric
       /\ alerts'[i].firedAt = alerts[i].firedAt
       /\ alerts'[i].resolvedAt = alerts[i].resolvedAt

LEMMA RowFacts ==
  ASSUME TypeInv, NEW i \in DOMAIN alerts
  PROVE  /\ i \in Nat /\ alerts[i].metric \in Keys
         /\ alerts[i].firedAt \in Nat
         /\ alerts[i].resolvedAt # NULL => alerts[i].resolvedAt \in Nat
BY DEF TypeInv, TypeOK, AlertRow

LEMMA EntryFacts ==
  ASSUME TypeInv, NEW q \in Keys, active[q] # NULL
  PROVE  /\ active[q].id \in Nat /\ active[q].firedAt \in Nat
         /\ active[q].resolvedAt # NULL => active[q].resolvedAt \in Nat
<1>1. active[q] \in ActiveAlert
  BY OpenEntry DEF TypeInv
<1> QED BY <1>1 DEF ActiveAlert

LEMMA ScalarFacts ==
  ASSUME TypeInv
  PROVE  /\ now \in Nat /\ alertSeq \in Nat /\ at \in Nat /\ run \in Nat
         /\ Cooldown \in Nat
         /\ active \in [Keys -> ActiveAlert \cup {NULL}]
BY ConfigAssumption DEF TypeInv, TypeOK

\* The update of resolved_at changes that column of that row only.
LEMMA ResolvedRows ==
  ASSUME NEW table, AlertsOK(table), NEW id, NEW t
  PROVE  /\ DOMAIN SetAlertResolved(table, id, t) = DOMAIN table
         /\ \A i \in DOMAIN table :
              /\ SetAlertResolved(table, id, t)[i].metric = table[i].metric
              /\ SetAlertResolved(table, id, t)[i].severity = table[i].severity
              /\ SetAlertResolved(table, id, t)[i].firedAt = table[i].firedAt
              /\ SetAlertResolved(table, id, t)[i].resolvedAt
                   = IF i = id THEN t ELSE table[i].resolvedAt
<1>1. CASE id \in DOMAIN table
  <2> DEFINE r == [table[id] EXCEPT !.resolvedAt = t]
  <2>1. SetAlertResolved(table, id, t) = Put(table, id, r)
    BY <1>1 DEF SetAlertResolved
  <2>2. /\ r.metric = table[id].metric /\ r.severity = table[id].severity
        /\ r.firedAt = table[id].firedAt /\ r.resolvedAt = t
    BY <1>1 DEF AlertsOK, AlertRow
  <2> HIDE DEF r
  <2> QED BY <1>1, <2>1, <2>2 DEF Put
<1>2. CASE id \notin DOMAIN table
  BY <1>2 DEF SetAlertResolved
<1> QED BY <1>1, <1>2

\* The AI update changes neither the identity nor the times of a row.
LEMMA AnalysedRows ==
  ASSUME NEW table, AlertsOK(table), NEW id, NEW a
  PROVE  /\ DOMAIN SetAlertAnalysis(table, id, a) = DOMAIN table
         /\ \A i \in DOMAIN table :
              /\ SetAlertAnalysis(table, id, a)[i].metric = table[i].metric
              /\ SetAlertAnalysis(table, id, a)[i].severity = table[i].severity
              /\ SetAlertAnalysis(table, id, a)[i].firedAt = table[i].firedAt
              /\ SetAlertAnalysis(table, id, a)[i].resolvedAt = table[i].resolvedAt
<1>1. CASE id \in DOMAIN table
  <2> DEFINE r == [table[id] EXCEPT !.analysis = a]
  <2>1. SetAlertAnalysis(table, id, a) = Put(table, id, r)
    BY <1>1 DEF SetAlertAnalysis
  <2>2. /\ r.metric = table[id].metric /\ r.severity = table[id].severity
        /\ r.firedAt = table[id].firedAt /\ r.resolvedAt = table[id].resolvedAt
    BY <1>1 DEF AlertsOK, AlertRow
  <2> HIDE DEF r
  <2> QED BY <1>1, <2>1, <2>2 DEF Put
<1>2. CASE id \notin DOMAIN table
  BY <1>2 DEF SetAlertAnalysis
<1> QED BY <1>1, <1>2

Resolving == pc \in {"resolveIncident", "announceResolved"}

\* Steps that leave rows and entries alone, whatever the clock does.
LEMMA CooldownQuiet ==
  ASSUME TypeInv, CooldownFacts, RowsKept, UNCHANGED <<active, alertSeq>>,
         now' \in Nat, now' >= now,
         Resolving => Resolving' /\ k' = k /\ at' = at
  PROVE  CooldownFacts'
<1> USE ScalarFacts
<1>1. \A i \in DOMAIN alerts' : i <= alertSeq'
  BY DEF CooldownFacts, RowsKept
<1>2. ASSUME NEW q \in Keys PROVE AheadOfEntries(q)'
  <2>1. AheadOfEntries(q)
    BY DEF CooldownFacts
  <2> QED BY <2>1, EntryFacts DEF AheadOfEntries, RowsKept
<1>3. ASSUME NEW i \in DOMAIN alerts', alerts'[i].resolvedAt # NULL
      PROVE  EntryCoversRow(alerts[i].metric, i)'
  <2>1. /\ i \in DOMAIN alerts /\ alerts'[i].metric = alerts[i].metric
        /\ alerts'[i].resolvedAt = alerts[i].resolvedAt
    BY <1>3 DEF RowsKept
  <2>2. EntryCoversRow(alerts[i].metric, i) /\ alerts[i].resolvedAt \in Nat
    BY <1>3, <2>1, RowFacts DEF CooldownFacts
  <2> QED BY <2>1, <2>2 DEF EntryCoversRow, Resolving
<1>4. ASSUME NEW i \in DOMAIN alerts', NEW j \in DOMAIN alerts'
      PROVE  RowsRespectCooldown(i, j)'
  <2>1. i \in DOMAIN alerts /\ j \in DOMAIN alerts /\ RowsRespectCooldown(i, j)
    BY DEF CooldownFacts, RowsKept
  <2> QED BY <2>1 DEF RowsRespectCooldown, RowsKept
<1> QED BY <1>1, <1>2, <1>3, <1>4 DEF CooldownFacts

LEMMA CooldownForget ==
  ASSUME TypeInv, CooldownFacts, Forget
  PROVE  CooldownFacts'
<1> USE ScalarFacts
<1>1. /\ pc = "check" /\ k \in Keys /\ CooldownOver(k)
      /\ active' = [active EXCEPT ![k] = NULL]
      /\ UNCHANGED <<now, alertSeq, alerts>>
  BY CurrentKey DEF Forget, TypeInv
<1>2. active[k] # NULL /\ active[k].resolvedAt # NULL
      /\ now >= active[k].resolvedAt + Cooldown
  BY <1>1 DEF CooldownOver, Resolved
<1>3. ASSUME NEW q \in Keys PROVE AheadOfEntries(q)'
  <2>1. AheadOfEntries(q)
    BY DEF CooldownFacts
  <2>2. active'[q] = IF q = k THEN NULL ELSE active[q]
    BY <1>1
  <2> QED BY <1>1, <2>1, <2>2 DEF AheadOfEntries
<1>4. ASSUME NEW i \in DOMAIN alerts, alerts[i].resolvedAt # NULL
      PROVE  EntryCoversRow(alerts[i].metric, i)'
  <2> DEFINE q == alerts[i].metric
  <2>1. EntryCoversRow(q, i) /\ alerts[i].resolvedAt \in Nat /\ q \in Keys
    BY <1>4, RowFacts DEF CooldownFacts
  <2>2. AheadOfEntries(k) /\ active[k].firedAt \in Nat
    BY <1>1, <1>2, EntryFacts DEF CooldownFacts
  <2>3. CASE q = k
    <3>1. now >= alerts[i].resolvedAt + Cooldown
      BY <1>1, <1>2, <2>1, <2>2, <2>3 DEF EntryCoversRow, AheadOfEntries
    <3> QED BY <1>1, <2>3, <3>1 DEF EntryCoversRow
  <2>4. CASE q # k
    BY <1>1, <2>1, <2>4 DEF EntryCoversRow
  <2> QED BY <2>3, <2>4
<1>5. ASSUME NEW i \in DOMAIN alerts, NEW j \in DOMAIN alerts
      PROVE  RowsRespectCooldown(i, j)'
  BY <1>1 DEF CooldownFacts, RowsRespectCooldown
<1> QED BY <1>1, <1>3, <1>4, <1>5 DEF CooldownFacts

LEMMA CooldownResolveAlert ==
  ASSUME TypeInv, CooldownFacts, ResolveAlert
  PROVE  CooldownFacts'
<1> USE ScalarFacts
<1>1. /\ pc = "check" /\ pc' = "resolveIncident" /\ k' = k /\ at' = now
      /\ k \in Keys /\ Open(k)
      /\ UNCHANGED <<active, now, alertSeq>>
  BY CurrentKey DEF ResolveAlert, TypeInv, k
<1>2. active[k] # NULL /\ active[k].resolvedAt = NULL /\ active[k].id \in Nat
  BY <1>1, EntryFacts DEF Open
<1>3. AheadOfEntries(k)
  BY <1>1 DEF CooldownFacts
<1>4. CASE alerts' = alerts
  BY <1>1, <1>4, CooldownQuiet DEF RowsKept, Resolving
<1>5. CASE alerts' = SetAlertResolved(alerts, active[k].id, now)
  <2>1. /\ DOMAIN alerts' = DOMAIN alerts
        /\ \A i \in DOMAIN alerts :
              /\ alerts'[i].metric = alerts[i].metric
              /\ alerts'[i].firedAt = alerts[i].firedAt
              /\ alerts'[i].resolvedAt
                   = IF i = active[k].id THEN now ELSE alerts[i].resolvedAt
    BY <1>5, ResolvedRows DEF TypeInv, TypeOK, AlertsOK
  <2>2. \A i \in DOMAIN alerts' : i <= alertSeq'
    BY <1>1, <2>1 DEF CooldownFacts
  <2>3. ASSUME NEW q \in Keys PROVE AheadOfEntries(q)'
    <3>1. AheadOfEntries(q)
      BY DEF CooldownFacts
    <3> QED BY <1>1, <2>1, <3>1 DEF AheadOfEntries
  <2>4. ASSUME NEW i \in DOMAIN alerts, alerts'[i].resolvedAt # NULL
        PROVE  EntryCoversRow(alerts[i].metric, i)'
    <3>1. CASE i = active[k].id
      BY <1>1, <1>2, <1>3, <2>1, <3>1 DEF EntryCoversRow, AheadOfEntries
    <3>2. CASE i # active[k].id
      <4>1. EntryCoversRow(alerts[i].metric, i)
        BY <2>1, <2>4, <3>2 DEF CooldownFacts
      <4> QED BY <1>1, <2>1, <3>2, <4>1 DEF EntryCoversRow
    <3> QED BY <3>1, <3>2
  <2>5. ASSUME NEW i \in DOMAIN alerts, NEW j \in DOMAIN alerts
        PROVE  RowsRespectCooldown(i, j)'
    <3>1. CASE i = active[k].id
      <4>1. ~(i < j /\ alerts[i].metric = alerts[j].metric)
        BY <1>2, <1>3, <3>1, RowFacts DEF AheadOfEntries
      <4> QED BY <2>1, <4>1 DEF RowsRespectCooldown
    <3>2. CASE i # active[k].id
      BY <2>1, <3>2 DEF RowsRespectCooldown, CooldownFacts
    <3> QED BY <3>1, <3>2
  <2> QED BY <2>1, <2>2, <2>3, <2>4, <2>5 DEF CooldownFacts
<1> QED BY <1>4, <1>5 DEF ResolveAlert

LEMMA CooldownAnnounceResolved ==
  ASSUME TypeInv, CooldownFacts, AnnounceResolved
  PROVE  CooldownFacts'
<1> USE ScalarFacts
<1>1. /\ pc = "announceResolved" /\ k \in Keys /\ Open(k)
      /\ active' = [active EXCEPT ![k].resolvedAt = at]
      /\ UNCHANGED <<now, alertSeq, alerts>>
  BY CurrentKey DEF AnnounceResolved, TypeInv, HandlesOpen
<1>2. active[k] \in ActiveAlert /\ active[k].resolvedAt = NULL
  BY <1>1, OpenEntry DEF Open, TypeInv
<1>3. /\ active'[k].id = active[k].id /\ active'[k].firedAt = active[k].firedAt
      /\ active'[k].resolvedAt = at /\ active'[k] # NULL
  <2> DEFINE e == [active[k] EXCEPT !.resolvedAt = at]
  <2>1. e \in ActiveAlert /\ e.id = active[k].id /\ e.firedAt = active[k].firedAt
        /\ e.resolvedAt = at
    BY <1>2 DEF ActiveAlert
  <2>2. active'[k] = e
    BY <1>1
  <2> HIDE DEF e
  <2> QED BY <2>1, <2>2, NullAssumption
<1>4. \A q \in Keys : q # k => active'[q] = active[q]
  BY <1>1
<1>5. ASSUME NEW q \in Keys PROVE AheadOfEntries(q)'
  <2>1. AheadOfEntries(q)
    BY DEF CooldownFacts
  <2> QED BY <1>1, <1>3, <1>4, <2>1 DEF AheadOfEntries, Open
<1>6. ASSUME NEW i \in DOMAIN alerts, alerts[i].resolvedAt # NULL
      PROVE  EntryCoversRow(alerts[i].metric, i)'
  <2> DEFINE q == alerts[i].metric
  <2>1. EntryCoversRow(q, i) /\ q \in Keys
    BY <1>6, RowFacts DEF CooldownFacts
  <2>2. CASE q = k
    BY <1>1, <1>2, <1>3, <1>6, <2>1, <2>2 DEF EntryCoversRow, Open
  <2>3. CASE q # k
    BY <1>1, <1>4, <2>1, <2>3 DEF EntryCoversRow
  <2> QED BY <2>2, <2>3
<1>7. ASSUME NEW i \in DOMAIN alerts, NEW j \in DOMAIN alerts
      PROVE  RowsRespectCooldown(i, j)'
  BY <1>1 DEF CooldownFacts, RowsRespectCooldown
<1> QED BY <1>1, <1>5, <1>6, <1>7 DEF CooldownFacts

LEMMA CooldownFire ==
  ASSUME TypeInv, CooldownFacts, Fire
  PROVE  CooldownFacts'
<1> USE ScalarFacts
<1> DEFINE id == alertSeq + 1
           row == [metric |-> k, severity |-> SeverityOf(k, m[k]),
                   firedAt |-> now, resolvedAt |-> NULL,
                   analysis |-> NULL, run |-> run]
<1>1. /\ pc = "check" /\ k \in Keys /\ (active[k] = NULL \/ CooldownOver(k))
      /\ alertSeq' = id /\ now' = now
      /\ active' = [active EXCEPT
           ![k] = [id |-> id, firedAt |-> now, resolvedAt |-> NULL]]
  BY CurrentKey DEF Fire, TypeInv
<1>2. /\ active'[k].id = id /\ active'[k].firedAt = now
      /\ \A q \in Keys : q # k => active'[q] = active[q]
  BY <1>1
<1>3. id \notin DOMAIN alerts /\ \A i \in DOMAIN alerts : i < id
  BY RowFacts DEF CooldownFacts
<1>4. \/ DOMAIN alerts' = DOMAIN alerts
      \/ /\ DOMAIN alerts' = DOMAIN alerts \cup {id}
         /\ alerts'[id].metric = k /\ alerts'[id].firedAt = now
         /\ alerts'[id].resolvedAt = NULL
  <2>1. alerts' = alerts \/ alerts' = InsertAlert(alerts, id, row)
    BY DEF Fire
  <2>2. InsertAlert(alerts, id, row) = Put(alerts, id, row)
    BY <1>3 DEF InsertAlert
  <2> QED BY <2>1, <2>2 DEF Put
<1>5. \A i \in DOMAIN alerts : alerts'[i] = alerts[i]
  <2>1. alerts' = alerts \/ alerts' = InsertAlert(alerts, id, row)
    BY DEF Fire
  <2> HIDE DEF row
  <2> QED BY <1>3, <2>1 DEF InsertAlert, Put
<1> HIDE DEF id, row
<1>6. id \in Nat /\ id > alertSeq
  BY DEF id
<1>7. \A i \in DOMAIN alerts' : i <= alertSeq'
  BY <1>1, <1>3, <1>4, <1>6, RowFacts
<1>8. ASSUME NEW q \in Keys PROVE AheadOfEntries(q)'
  <2>1. AheadOfEntries(q)
    BY DEF CooldownFacts
  <2>2. CASE q = k
    BY <1>1, <1>2, <1>3, <1>4, <1>5, <1>6, <2>2, RowFacts DEF AheadOfEntries
  <2>3. CASE q # k
    <3> SUFFICES ASSUME active[q] # NULL PROVE AheadOfEntries(q)'
      BY <1>2, <2>3 DEF AheadOfEntries
    <3>1. active[q].id < id
      BY <1>6, <2>1, EntryFacts DEF AheadOfEntries
    <3> QED BY <1>1, <1>2, <1>4, <1>5, <1>6, <2>1, <2>3, <3>1, EntryFacts
            DEF AheadOfEntries
  <2> QED BY <2>2, <2>3
<1>9. ASSUME NEW i \in DOMAIN alerts, alerts[i].resolvedAt # NULL,
             alerts[i].metric = k
      PROVE  now >= alerts[i].resolvedAt + Cooldown
  <2>1. EntryCoversRow(k, i) /\ alerts[i].resolvedAt \in Nat
    BY <1>9, RowFacts DEF CooldownFacts
  <2>2. CASE active[k] = NULL
    BY <2>1, <2>2 DEF EntryCoversRow
  <2>3. CASE active[k] # NULL
    <3>1. now >= active[k].resolvedAt + Cooldown
      BY <1>1, <2>3 DEF CooldownOver
    <3>2. active[k].firedAt \in Nat /\ active[k].firedAt <= now
      BY <1>1, <2>3, EntryFacts DEF CooldownFacts, AheadOfEntries
    <3> QED BY <1>1, <2>1, <2>3, <3>1, <3>2 DEF EntryCoversRow
  <2> QED BY <2>2, <2>3
<1>10. ASSUME NEW i \in DOMAIN alerts', alerts'[i].resolvedAt # NULL
       PROVE  EntryCoversRow(alerts[i].metric, i)'
  <2>1. i \in DOMAIN alerts /\ alerts'[i] = alerts[i] /\ i # id
    BY <1>3, <1>4, <1>5, <1>10
  <2> DEFINE q == alerts[i].metric
  <2>2. EntryCoversRow(q, i) /\ q \in Keys
    BY <1>10, <2>1, RowFacts DEF CooldownFacts
  <2>3. CASE q = k
    <3>1. active'[k] # NULL
      <4>1. [id |-> id, firedAt |-> now, resolvedAt |-> NULL] \in ActiveAlert
        BY <1>6 DEF ActiveAlert
      <4> QED BY <1>1, <4>1, NullAssumption
    <3>2. active'[k].firedAt >= alerts[i].resolvedAt + Cooldown
      BY <1>2, <1>9, <1>10, <2>1, <2>3
    <3> QED BY <1>2, <2>1, <2>3, <3>1, <3>2 DEF EntryCoversRow
  <2>4. CASE q # k
    BY <1>1, <1>2, <2>1, <2>2, <2>4 DEF EntryCoversRow
  <2> QED BY <2>3, <2>4
<1>11. ASSUME NEW i \in DOMAIN alerts', NEW j \in DOMAIN alerts'
       PROVE  RowsRespectCooldown(i, j)'
  <2>1. CASE i \in DOMAIN alerts /\ j \in DOMAIN alerts
    <3>1. RowsRespectCooldown(i, j)
      BY <2>1 DEF CooldownFacts
    <3> QED BY <1>5, <2>1, <3>1 DEF RowsRespectCooldown
  <2>2. CASE i \in DOMAIN alerts /\ j = id /\ id \in DOMAIN alerts'
    <3>1. alerts'[j].metric = k /\ alerts'[j].firedAt = now
      BY <1>3, <1>4, <2>2
    <3> QED BY <1>5, <1>9, <2>2, <3>1 DEF RowsRespectCooldown
  <2>3. CASE i = id /\ id \in DOMAIN alerts'
    <3>1. alerts'[i].resolvedAt = NULL
      BY <1>3, <1>4, <2>3
    <3> QED BY <3>1 DEF RowsRespectCooldown
  <2> QED BY <1>4, <2>1, <2>2, <2>3
<1> QED BY <1>7, <1>8, <1>10, <1>11 DEF CooldownFacts

LEMMA CooldownAnalyze ==
  ASSUME TypeInv, CooldownFacts, Analyze
  PROVE  CooldownFacts'
<1> USE ScalarFacts
<1>1. PICK a \in analyses : AnalysisUnavailable(a) \/ UpdateAIResponse(a)
                             \/ SaveAnalysis(a) \/ AnnounceAnalysis(a)
  BY DEF Analyze
<1>2. UNCHANGED <<active, alertSeq, now, pc, k, at>>
  BY <1>1 DEF AnalysisUnavailable, UpdateAIResponse, SaveAnalysis,
              AnnounceAnalysis, k
<1>3. RowsKept
  <2>1. \/ alerts' = alerts
        \/ alerts' = SetAlertAnalysis(alerts, a.id, run)
    BY <1>1 DEF AnalysisUnavailable, UpdateAIResponse, SaveAnalysis,
                AnnounceAnalysis
  <2>2. AlertsOK(alerts)
    BY DEF TypeInv, TypeOK, AlertsOK
  <2>3. CASE alerts' = alerts
    BY <2>3 DEF RowsKept
  <2>4. CASE alerts' = SetAlertAnalysis(alerts, a.id, run)
    BY <2>2, <2>4, AnalysedRows DEF RowsKept
  <2> QED BY <2>1, <2>3, <2>4
<1> QED BY <1>2, <1>3, CooldownQuiet DEF Resolving

\* All the other steps but a restart.
LEMMA CooldownOthers ==
  ASSUME TypeInv, CooldownFacts,
         \/ StartEvaluate \/ Skip \/ ResolveIncident \/ SaveIncident \/ Announce
         \/ Refresh \/ Tick \/ UNCHANGED vars
  PROVE  CooldownFacts'
<1> USE ScalarFacts
<1>1. /\ UNCHANGED <<active, alertSeq, alerts>>
      /\ now' = now \/ now' = now + 1
  BY DEF StartEvaluate, Skip, ResolveIncident, SaveIncident, Announce, Refresh,
         Tick, vars
<1>2. Resolving => Resolving' /\ k' = k /\ at' = at
  BY DEF StartEvaluate, Skip, ResolveIncident, SaveIncident, Announce, Refresh,
         Tick, vars, Resolving, GoTo, k
<1> QED BY <1>1, <1>2, CooldownQuiet DEF RowsKept

LEMMA InitCooldown == Init => CooldownInv
<1> SUFFICES ASSUME Init PROVE CooldownFacts
  BY InitType DEF CooldownInv
<1>1. DOMAIN alerts = {} /\ \A q \in Keys : active[q] = NULL
  BY DEF Init
<1> QED BY <1>1 DEF CooldownFacts, AheadOfEntries

LEMMA StepCooldown ==
  ASSUME CooldownInv, [Next]_vars
  PROVE  CooldownInv'
<1>1. TypeInv /\ TypeInv' /\ (run = 0 => CooldownFacts)
  BY StepType DEF CooldownInv
<1>2. CASE Restart
  <2>1. run' # 0
    BY <1>1, <1>2, ScalarFacts DEF Restart
  <2> QED BY <1>1, <2>1 DEF CooldownInv
<1>3. CASE ~Restart
  <2>1. run' = run
    <3>1. CASE Analyze
      BY <3>1 DEF Analyze, AnalysisUnavailable, UpdateAIResponse, SaveAnalysis,
                  AnnounceAnalysis
    <3>2. CASE ~Analyze
      BY <1>3, <3>2 DEF Next, Evaluate, StartEvaluate, Skip, Forget, ResolveAlert,
         ResolveIncident, AnnounceResolved, Fire, SaveIncident, Announce,
         Refresh, Tick, vars
    <3> QED BY <3>1, <3>2
  <2>2. ASSUME run = 0 PROVE CooldownFacts'
    BY <1>1, <1>3, <2>2, CooldownForget, CooldownResolveAlert, CooldownAnnounceResolved,
       CooldownFire, CooldownAnalyze, CooldownOthers DEF Next, Evaluate
  <2> QED BY <1>1, <2>1, <2>2 DEF CooldownInv
<1> QED BY <1>2, <1>3

\* A metric never fires again before its cooldown is over, for any metrics,
\* thresholds and cooldown, whatever statements fail and however the AI
\* goroutines interleave.
THEOREM CooldownHolds == Spec => []CooldownRespected
<1>1. Spec => []CooldownInv
  BY InitCooldown, StepCooldown, PTL DEF Spec
<1>2. CooldownInv => CooldownRespected
  BY DEF CooldownInv, CooldownFacts, RowsRespectCooldown, CooldownRespected
<1> QED BY <1>1, <1>2, PTL

-----------------------------------------------------------------------------
(* Action properties: what no step, no failed statement and no restart does *)
(* to a row.  Only the statements on the table matter.                      *)

RowKeepsIdentity(i) ==
  /\ i \in DOMAIN alerts'
  /\ alerts'[i].metric = alerts[i].metric
  /\ alerts'[i].severity = alerts[i].severity
  /\ alerts'[i].firedAt = alerts[i].firedAt

\* The alerts table changes by one of three statements, if at all.
LEMMA AlertsWrites ==
  ASSUME [Next]_vars
  PROVE  \/ alerts' = alerts
         \/ \E id, r : alerts' = InsertAlert(alerts, id, r)
         \/ \E id, t : alerts' = SetAlertResolved(alerts, id, t)
         \/ \E id, a : alerts' = SetAlertAnalysis(alerts, id, a)
<1>1. CASE ResolveAlert
  BY <1>1 DEF ResolveAlert
<1>2. CASE Fire
  BY <1>2 DEF Fire
<1>3. CASE Analyze
  BY <1>3 DEF Analyze, AnalysisUnavailable, UpdateAIResponse, SaveAnalysis,
              AnnounceAnalysis
<1>4. CASE ~(ResolveAlert \/ Fire \/ Analyze)
  BY <1>4 DEF Next, Evaluate, StartEvaluate, Skip, Forget, ResolveIncident,
     AnnounceResolved, SaveIncident, Announce, Refresh, Tick, Restart, vars
<1> QED BY <1>1, <1>2, <1>3, <1>4

\* No stored alert is ever rewritten into another one, although a restarted
\* process hands out the same numbers again.
THEOREM IdentityKept == Spec => AlertRowsKeepTheirIdentity
<1>1. ASSUME TypeInv, [Next]_vars, NEW i \in DOMAIN alerts
      PROVE  RowKeepsIdentity(i)
  <2>1. AlertsOK(alerts)
    BY <1>1 DEF TypeInv, TypeOK, AlertsOK
  <2>2. CASE alerts' = alerts
    BY <2>2 DEF RowKeepsIdentity
  <2>3. ASSUME NEW id, NEW r, alerts' = InsertAlert(alerts, id, r)
        PROVE  RowKeepsIdentity(i)
    BY <2>3 DEF InsertAlert, Put, RowKeepsIdentity
  <2>4. ASSUME NEW id, NEW t, alerts' = SetAlertResolved(alerts, id, t)
        PROVE  RowKeepsIdentity(i)
    BY <2>1, <2>4, ResolvedRows DEF RowKeepsIdentity
  <2>5. ASSUME NEW id, NEW a, alerts' = SetAlertAnalysis(alerts, id, a)
        PROVE  RowKeepsIdentity(i)
    BY <2>1, <2>5, AnalysedRows DEF RowKeepsIdentity
  <2> QED BY <1>1, <2>2, <2>3, <2>4, <2>5, AlertsWrites
<1>2. TypeInv /\ [Next]_vars => [\A i \in DOMAIN alerts : RowKeepsIdentity(i)]_vars
  BY <1>1
<1>3. AlertRowsKeepTheirIdentity <=> [][\A i \in DOMAIN alerts : RowKeepsIdentity(i)]_vars
  BY DEF AlertRowsKeepTheirIdentity, RowKeepsIdentity
<1> QED BY InitType, StepType, <1>2, <1>3, PTL DEF Spec

IncidentStaysResolved(i) ==
  incidents[i].resolvedAt # NULL =>
    i \in DOMAIN incidents' /\ incidents'[i].resolvedAt = incidents[i].resolvedAt

\* The incidents table changes by one of two statements, if at all.
LEMMA IncidentsWrites ==
  ASSUME [Next]_vars
  PROVE  \/ incidents' = incidents
         \/ \E id, r : incidents' = UpsertIncident(incidents, id, r)
         \/ \E id, t : incidents' = SetIncidentResolved(incidents, id, t)
<1>1. CASE ResolveIncident
  BY <1>1 DEF ResolveIncident
<1>2. CASE SaveIncident
  BY <1>2 DEF SaveIncident
<1>3. CASE Analyze
  BY <1>3 DEF Analyze, AnalysisUnavailable, UpdateAIResponse, SaveAnalysis,
              AnnounceAnalysis
<1>4. CASE ~(ResolveIncident \/ SaveIncident \/ Analyze)
  BY <1>4 DEF Next, Evaluate, StartEvaluate, Skip, Forget, ResolveAlert, Fire,
     AnnounceResolved, Announce, Refresh, Tick, Restart, vars
<1> QED BY <1>1, <1>2, <1>3, <1>4

\* A resolved incident stays resolved, at the same time: neither a late AI
\* update nor an incident of a later process run with the same number reopens
\* it or moves its end.
THEOREM ResolutionKept == Spec => ResolvedIncidentStaysResolved
<1>1. ASSUME TypeInv, [Next]_vars, NEW i \in DOMAIN incidents
      PROVE  IncidentStaysResolved(i)
  <2>1. incidents[i] \in IncidentRow
    BY <1>1 DEF TypeInv, TypeOK
  <2>2. CASE incidents' = incidents
    BY <2>2 DEF IncidentStaysResolved
  <2>3. ASSUME NEW id, NEW r, incidents' = UpsertIncident(incidents, id, r)
        PROVE  IncidentStaysResolved(i)
    <3>1. CASE i = id
      <4>1. incidents'[i] = [incidents[i] EXCEPT !.analysis = r.analysis]
            /\ i \in DOMAIN incidents'
        BY <2>3, <3>1 DEF UpsertIncident, Put
      <4> QED BY <2>1, <4>1 DEF IncidentStaysResolved, IncidentRow
    <3>2. CASE i # id
      BY <2>3, <3>2 DEF UpsertIncident, Put, IncidentStaysResolved
    <3> QED BY <3>1, <3>2
  <2>4. ASSUME NEW id, NEW t, incidents' = SetIncidentResolved(incidents, id, t)
        PROVE  IncidentStaysResolved(i)
    BY <2>4 DEF SetIncidentResolved, Put, IncidentStaysResolved
  <2> QED BY <1>1, <2>2, <2>3, <2>4, IncidentsWrites
<1>2. TypeInv /\ [Next]_vars
        => [\A i \in DOMAIN incidents : IncidentStaysResolved(i)]_vars
  BY <1>1
<1>3. ResolvedIncidentStaysResolved
        <=> [][\A i \in DOMAIN incidents : IncidentStaysResolved(i)]_vars
  BY DEF ResolvedIncidentStaysResolved, IncidentStaysResolved
<1> QED BY InitType, StepType, <1>2, <1>3, PTL DEF Spec

-----------------------------------------------------------------------------
(* Messages. *)

\* The statements between the entry of a new alert and its message.
Firing == pc \in {"saveIncident", "announce"}

\* What a sequence of messages says, and does not say, of an alert.
Announced(msgs, id) == \E n \in DOMAIN msgs : msgs[n] = Message("alert", id, FALSE)

Unsaid(msgs, type, id) ==
  \A n \in DOMAIN msgs : ~(msgs[n].type = type /\ msgs[n].id = id)

Silent(msgs, id) == \A n \in DOMAIN msgs : msgs[n].id # id

\* Every entry has a number of its own.
EntriesNumbered ==
  \A q \in Keys : active[q] # NULL =>
    /\ active[q].id \in 1..alertSeq
    /\ \A p \in Keys : active[p] # NULL /\ active[p].id = active[q].id => p = q

\* What was and what was not said of the entries, and of the alerts that the AI
\* goroutines work on.
EntriesAnnounced ==
  \A q \in Keys : active[q] # NULL =>
    /\ IF Firing /\ q = k
         THEN Silent(sent, active[q].id)
         ELSE Announced(sent, active[q].id)
    /\ Open(q) => Unsaid(sent, "alert_resolved", active[q].id)

AnalysesAnnounced ==
  \A a \in analyses :
    /\ Announced(sent, a.id) /\ Unsaid(sent, "ai_response", a.id)
    /\ \A b \in analyses : b.id = a.id => b = a

NoticeInv ==
  /\ NotificationOrder
  /\ \A n \in DOMAIN sent : sent[n].id \in 1..alertSeq
  /\ EntriesNumbered
  /\ EntriesAnnounced
  /\ AnalysesAnnounced

LEMMA SentSeq ==
  ASSUME TypeInv
  PROVE  /\ sent \in Seq([type : {"alert", "alert_resolved", "ai_response"},
                          id : Nat, analysed : BOOLEAN])
         /\ Len(sent) \in Nat /\ DOMAIN sent = 1..Len(sent)
BY DEF TypeInv, TypeOK

\* One message more.
LEMMA OneMore ==
  ASSUME TypeInv, NEW msg, sent' = Append(sent, msg)
  PROVE  /\ Len(sent) + 1 \notin DOMAIN sent
         /\ DOMAIN sent' = DOMAIN sent \cup {Len(sent) + 1}
         /\ sent'[Len(sent) + 1] = msg
         /\ \A n \in DOMAIN sent : sent'[n] = sent[n] /\ n \in 1..(Len(sent) + 1 - 1)
         /\ \A p \in DOMAIN sent : \A n \in 1..(p - 1) : n \in DOMAIN sent
         /\ \A n \in 1..(Len(sent) + 1 - 1) : n \in DOMAIN sent
BY SentSeq

LEMMA OrderExtends ==
  ASSUME TypeInv, NotificationOrder, NEW msg, sent' = Append(sent, msg),
         Unsaid(sent, msg.type, msg.id), msg.type = "alert" \/ Announced(sent, msg.id)
  PROVE  NotificationOrder'
<1> DEFINE last == Len(sent) + 1
<1>1. /\ DOMAIN sent' = DOMAIN sent \cup {last} /\ sent'[last] = msg
      /\ \A n \in DOMAIN sent : sent'[n] = sent[n] /\ n \in 1..(last - 1)
      /\ \A p \in DOMAIN sent : \A n \in 1..(p - 1) : n \in DOMAIN sent
      /\ \A n \in 1..(last - 1) : n \in DOMAIN sent
  BY OneMore
<1> HIDE DEF last
<1>2. ASSUME NEW p \in DOMAIN sent
      PROVE  /\ \A n \in 1..(p - 1) :
                  sent'[n].id = sent'[p].id => sent'[n].type # sent'[p].type
             /\ \/ sent'[p].type = "alert"
                \/ \E n \in 1..(p - 1) : sent'[n] = Message("alert", sent'[p].id, FALSE)
  <2>1. sent'[p] = sent[p] /\ \A n \in 1..(p - 1) : sent'[n] = sent[n]
    BY <1>1
  <2>2. /\ \A n \in 1..(p - 1) : sent[n].id = sent[p].id => sent[n].type # sent[p].type
        /\ \/ sent[p].type = "alert"
           \/ \E n \in 1..(p - 1) : sent[n] = Message("alert", sent[p].id, FALSE)
    BY DEF NotificationOrder
  <2> QED
    BY <2>1, <2>2
<1>3. \A n \in 1..(last - 1) : sent'[n].id = msg.id => sent'[n].type # msg.type
  BY <1>1 DEF Unsaid
<1>4. \/ msg.type = "alert"
      \/ \E n \in 1..(last - 1) : sent'[n] = Message("alert", msg.id, FALSE)
  BY <1>1 DEF Announced
<1> QED
  BY ZenonT(30), <1>1, <1>2, <1>3, <1>4 DEF NotificationOrder

\* What was said stays said; what is said now is one thing of one alert.
LEMMA SaidStays ==
  ASSUME TypeInv, NEW msg, sent' = Append(sent, msg)
  PROVE  /\ \A i : Announced(sent, i) => Announced(sent', i)
         /\ \A i, t : Unsaid(sent, t, i) /\ ~(t = msg.type /\ i = msg.id)
                        => Unsaid(sent', t, i)
         /\ \A i : msg = Message("alert", i, FALSE) => Announced(sent', i)
         /\ \A i : i # msg.id /\ Silent(sent, i) => Silent(sent', i)
<1> DEFINE last == Len(sent) + 1
<1>1. /\ DOMAIN sent' = DOMAIN sent \cup {last} /\ sent'[last] = msg
      /\ \A n \in DOMAIN sent : sent'[n] = sent[n]
  BY OneMore
<1> HIDE DEF last
<1> QED
  BY <1>1 DEF Announced, Unsaid, Silent

\* Steps that say nothing and begin or end nothing.
NoticeQuiet ==
  /\ UNCHANGED <<sent, alertSeq, active>>
  /\ Firing' = Firing /\ (Firing => k' = k)

LEMMA QuietEntries ==
  ASSUME NoticeInv, NoticeQuiet
  PROVE  /\ NotificationOrder' /\ EntriesNumbered' /\ EntriesAnnounced'
         /\ \A n \in DOMAIN sent' : sent'[n].id \in 1..alertSeq'
<1> USE DEF NoticeInv, NoticeQuiet
<1>1. NotificationOrder'
  BY DEF NotificationOrder
<1>2. EntriesNumbered'
  BY DEF EntriesNumbered
<1>3. EntriesAnnounced'
  <2>1. \A q \in Keys : Open(q)' = Open(q)
    BY DEF Open
  <2> QED
    BY <2>1 DEF EntriesAnnounced
<1> QED
  BY <1>1, <1>2, <1>3

LEMMA NoticeEvaluateQuiet ==
  ASSUME TypeInv, NoticeInv,
         \/ StartEvaluate \/ Skip \/ ResolveAlert \/ ResolveIncident \/ SaveIncident
         \/ Refresh \/ Tick \/ UNCHANGED vars
  PROVE  NoticeInv'
<1>1. NoticeQuiet /\ analyses' = analyses
  BY DEF StartEvaluate, Skip, ResolveAlert, ResolveIncident, SaveIncident, Refresh, Tick,
     vars, memVars, evalVars, storeVars, NextCheck, GoTo, NoticeQuiet, Firing, k
<1>2. AnalysesAnnounced'
  BY <1>1 DEF NoticeInv, NoticeQuiet, AnalysesAnnounced, Announced, Unsaid
<1> QED
  BY <1>1, <1>2, QuietEntries DEF NoticeInv

\* A goroutine goes on without a message.
LEMMA NoticeAnalysisMoves ==
  ASSUME TypeInv, NoticeInv, NEW a \in analyses, UpdateAIResponse(a) \/ SaveAnalysis(a)
  PROVE  NoticeInv'
<1>1. NoticeQuiet
  BY DEF UpdateAIResponse, SaveAnalysis, memVars, evalVars, NoticeQuiet, Firing, k
<1>2. PICK b : analyses' = (analyses \ {a}) \cup {b} /\ b.id = a.id
  <2>1. /\ [a EXCEPT !.stage = "saveIncident"].id = a.id
        /\ [a EXCEPT !.stage = "broadcast"].id = a.id
    BY DEF TypeInv, TypeOK, Analysis
  <2> QED
    BY <2>1 DEF UpdateAIResponse, SaveAnalysis
<1>3. AnalysesAnnounced'
  <2>1. ASSUME NEW c \in analyses'
        PROVE  /\ Announced(sent', c.id) /\ Unsaid(sent', "ai_response", c.id)
               /\ \A d \in analyses' : d.id = c.id => d = c
    <3>1. \A d \in analyses : d.id = a.id => d = a
      BY DEF NoticeInv, AnalysesAnnounced
    <3>2. c = b \/ c \in analyses \ {a}
      BY <1>2
    <3> QED
      BY <1>1, <1>2, <3>1, <3>2 DEF NoticeInv, NoticeQuiet, AnalysesAnnounced
  <2> QED
    BY <2>1 DEF AnalysesAnnounced
<1> QED
  BY <1>1, <1>3, QuietEntries DEF NoticeInv

\* A goroutine sends its answer and ends.
LEMMA NoticeAnalysisEnds ==
  ASSUME TypeInv, NoticeInv, NEW a \in analyses, AnalysisUnavailable(a) \/ AnnounceAnalysis(a)
  PROVE  NoticeInv'
<1>1. PICK msg : sent' = Append(sent, msg) /\ msg.type = "ai_response" /\ msg.id = a.id
  BY DEF AnalysisUnavailable, AnnounceAnalysis, Message
<1>2. /\ UNCHANGED <<alertSeq, active, pc, idx>> /\ analyses' = analyses \ {a}
  BY DEF AnalysisUnavailable, AnnounceAnalysis, memVars, evalVars
<1>3. Announced(sent, a.id) /\ Unsaid(sent, "ai_response", a.id)
  BY DEF NoticeInv, AnalysesAnnounced
<1>4. NotificationOrder'
  BY <1>1, <1>3, OrderExtends DEF NoticeInv
<1>5. \A n \in DOMAIN sent' : sent'[n].id \in 1..alertSeq'
  <2>1. a.id \in 1..alertSeq
    BY <1>3 DEF NoticeInv, Announced, Message
  <2> QED
    BY <1>1, <1>2, <2>1, OneMore DEF NoticeInv
<1>6. EntriesNumbered'
  BY <1>2 DEF NoticeInv, EntriesNumbered
<1>7. EntriesAnnounced'
  <2>1. Firing' = Firing /\ k' = k /\ active' = active /\ \A q \in Keys : Open(q)' = Open(q)
    BY <1>2 DEF Firing, k, Open
  <2>2. ASSUME NEW q \in Keys, active[q] # NULL
        PROVE  /\ IF Firing /\ q = k THEN Silent(sent', active[q].id)
                                     ELSE Announced(sent', active[q].id)
               /\ Open(q) => Unsaid(sent', "alert_resolved", active[q].id)
    <3>1. /\ IF Firing /\ q = k THEN Silent(sent, active[q].id)
                                ELSE Announced(sent, active[q].id)
          /\ Open(q) => Unsaid(sent, "alert_resolved", active[q].id)
      BY <2>2 DEF NoticeInv, EntriesAnnounced
    <3>2. Silent(sent, active[q].id) => a.id # active[q].id
      BY <1>3 DEF Announced, Silent, Message
    <3> QED
      BY <1>1, <3>1, <3>2, SaidStays
  <2> QED
    BY <2>1, <2>2 DEF EntriesAnnounced
<1>8. AnalysesAnnounced'
  <2>1. ASSUME NEW c \in analyses'
        PROVE  /\ Announced(sent', c.id) /\ Unsaid(sent', "ai_response", c.id)
               /\ \A d \in analyses' : d.id = c.id => d = c
    <3>1. c \in analyses /\ c.id # a.id
      BY <1>2 DEF NoticeInv, AnalysesAnnounced
    <3> QED
      BY <1>1, <1>2, <3>1, SaidStays DEF NoticeInv, AnalysesAnnounced
  <2> QED
    BY <2>1 DEF AnalysesAnnounced
<1> QED
  BY <1>4, <1>5, <1>6, <1>7, <1>8 DEF NoticeInv

\* The entry is deleted.
LEMMA NoticeForget ==
  ASSUME TypeInv, NoticeInv, Forget
  PROVE  NoticeInv'
<1>1. /\ UNCHANGED <<sent, alertSeq, analyses>> /\ ~Firing /\ ~Firing'
      /\ active' = [active EXCEPT ![k] = NULL] /\ k \in Keys
  BY CurrentKey DEF Forget, NextCheck, Firing, TypeInv
<1>2. /\ active'[k] = NULL
      /\ \A q \in Keys \ {k} : active'[q] = active[q]
  BY <1>1 DEF TypeInv, TypeOK
<1>3. NotificationOrder' /\ \A n \in DOMAIN sent' : sent'[n].id \in 1..alertSeq'
  BY <1>1 DEF NoticeInv, NotificationOrder
<1>4. EntriesNumbered'
  BY <1>1, <1>2 DEF NoticeInv, EntriesNumbered
<1>5. EntriesAnnounced'
  BY <1>1, <1>2 DEF NoticeInv, EntriesAnnounced, Open
<1>6. AnalysesAnnounced'
  BY <1>1 DEF NoticeInv, AnalysesAnnounced
<1> QED
  BY <1>3, <1>4, <1>5, <1>6 DEF NoticeInv

\* A new number, of which nothing has been said.
LEMMA NoticeFire ==
  ASSUME TypeInv, NoticeInv, Fire
  PROVE  NoticeInv'
<1> DEFINE new == alertSeq + 1
<1>1. /\ UNCHANGED <<sent, analyses>> /\ ~Firing /\ Firing' /\ k' = k /\ k \in Keys
      /\ alertSeq' = new
      /\ active' = [active EXCEPT
           ![k] = [id |-> new, firedAt |-> now, resolvedAt |-> NULL]]
  BY CurrentKey DEF Fire, GoTo, Firing, k, TypeInv
<1>2. /\ active'[k].id = new /\ active'[k] # NULL
      /\ \A q \in Keys \ {k} : active'[q] = active[q]
  <2>1. active'[k] = [id |-> new, firedAt |-> now, resolvedAt |-> NULL]
    BY <1>1 DEF TypeInv, TypeOK
  <2>2. [id |-> new, firedAt |-> now, resolvedAt |-> NULL] \in ActiveAlert
    BY ScalarFacts DEF ActiveAlert
  <2> QED
    BY <1>1, <2>1, <2>2, NullAssumption DEF TypeInv, TypeOK
<1>3. new \in Nat /\ new \notin 1..alertSeq /\ 1..new = 1..alertSeq \cup {new}
  BY ScalarFacts
<1> HIDE DEF new
<1>4. NotificationOrder' /\ \A n \in DOMAIN sent' : sent'[n].id \in 1..alertSeq'
  BY <1>1, <1>3 DEF NoticeInv, NotificationOrder
<1>5. EntriesNumbered'
  BY <1>1, <1>2, <1>3 DEF NoticeInv, EntriesNumbered
<1>6. Silent(sent, new) /\ Unsaid(sent, "alert_resolved", new)
  BY <1>3 DEF NoticeInv, Silent, Unsaid
<1>7. EntriesAnnounced'
  BY <1>1, <1>2, <1>6 DEF NoticeInv, EntriesAnnounced, Open
<1>8. AnalysesAnnounced'
  BY <1>1 DEF NoticeInv, AnalysesAnnounced
<1> QED
  BY <1>4, <1>5, <1>7, <1>8 DEF NoticeInv

\* The new alert is announced, and its goroutine starts.
LEMMA NoticeAnnounce ==
  ASSUME TypeInv, NoticeInv, Announce
  PROVE  NoticeInv'
<1> DEFINE id == active[k].id
           a == [id |-> id, severity |-> SeverityOf(k, m[k]),
                 firedAt |-> active[k].firedAt, stage |-> "calling"]
           msg == Message("alert", id, FALSE)
<1>1. /\ UNCHANGED <<alertSeq, active>> /\ Firing /\ ~Firing' /\ k \in Keys
      /\ sent' = Append(sent, msg) /\ msg.type = "alert" /\ msg.id = id
      /\ analyses' = analyses \cup {a} /\ a.id = id
  BY CurrentKey DEF Announce, NextCheck, Firing, memVars, TypeInv, Message
<1>2. active[k] # NULL /\ Open(k) /\ id \in 1..alertSeq
  <2>1. Open(k)
    BY DEF TypeInv, HandlesOpen, Announce
  <2> QED
    BY <1>1, <2>1 DEF Open, NoticeInv, EntriesNumbered
<1>3. Silent(sent, id)
  BY <1>1, <1>2 DEF NoticeInv, EntriesAnnounced
<1>4. Unsaid(sent, "alert", id) /\ Unsaid(sent, "ai_response", id)
      /\ Unsaid(sent, "alert_resolved", id) /\ ~Announced(sent, id)
  BY <1>3 DEF Silent, Unsaid, Announced, Message
<1> HIDE DEF a, msg
<1>5. NotificationOrder'
  BY <1>1, <1>4, OrderExtends DEF NoticeInv
<1>6. \A n \in DOMAIN sent' : sent'[n].id \in 1..alertSeq'
  BY <1>1, <1>2, OneMore DEF NoticeInv
<1>7. EntriesNumbered'
  BY <1>1 DEF NoticeInv, EntriesNumbered
<1>8. \A q \in Keys : Open(q)' = Open(q)
  BY <1>1 DEF Open
<1>9. ASSUME NEW q \in Keys, active[q] # NULL
      PROVE  /\ Announced(sent', active[q].id)
             /\ Open(q) => Unsaid(sent', "alert_resolved", active[q].id)
  <2>1. CASE q = k
    BY <1>1, <1>4, <2>1, SaidStays DEF msg
  <2>2. CASE q # k
    BY <1>1, <1>9, <2>2, SaidStays DEF NoticeInv, EntriesAnnounced
  <2> QED
    BY <2>1, <2>2
<1>10. EntriesAnnounced'
  BY <1>1, <1>8, <1>9 DEF EntriesAnnounced
<1>11. AnalysesAnnounced'
  <2>1. ASSUME NEW c \in analyses'
        PROVE  /\ Announced(sent', c.id) /\ Unsaid(sent', "ai_response", c.id)
               /\ \A d \in analyses' : d.id = c.id => d = c
    <3>1. \A d \in analyses : d.id # id
      BY <1>4 DEF NoticeInv, AnalysesAnnounced
    <3>2. CASE c = a
      BY <1>1, <1>4, <3>1, <3>2, SaidStays DEF msg
    <3>3. CASE c \in analyses
      BY <1>1, <3>1, <3>3, SaidStays DEF NoticeInv, AnalysesAnnounced
    <3> QED
      BY <1>1, <3>2, <3>3
  <2> QED
    BY <2>1 DEF AnalysesAnnounced
<1> QED
  BY <1>5, <1>6, <1>7, <1>10, <1>11 DEF NoticeInv

\* An open alert is announced as resolved, and then no longer open.
LEMMA NoticeAnnounceResolved ==
  ASSUME TypeInv, NoticeInv, AnnounceResolved
  PROVE  NoticeInv'
<1> DEFINE id == active[k].id
           msg == Message("alert_resolved", id, FALSE)
<1>1. /\ UNCHANGED <<alertSeq, analyses>> /\ ~Firing /\ ~Firing' /\ k \in Keys
      /\ sent' = Append(sent, msg) /\ msg.type = "alert_resolved" /\ msg.id = id
      /\ active' = [active EXCEPT ![k].resolvedAt = at] /\ at \in Nat
  BY CurrentKey, ScalarFacts DEF AnnounceResolved, NextCheck, Firing, TypeInv, Message
<1>2. Open(k) /\ active[k] # NULL /\ id \in 1..alertSeq
  <2>1. Open(k)
    BY DEF TypeInv, HandlesOpen, AnnounceResolved
  <2> QED
    BY <1>1, <2>1 DEF Open, NoticeInv, EntriesNumbered
<1>3. Announced(sent, id) /\ Unsaid(sent, "alert_resolved", id)
  BY <1>1, <1>2 DEF NoticeInv, EntriesAnnounced
<1>4. /\ active'[k].id = id /\ active'[k].resolvedAt = at /\ active'[k] # NULL
      /\ \A q \in Keys \ {k} : active'[q] = active[q]
  <2>1. active[k] \in ActiveAlert
    BY <1>1, <1>2, OpenEntry DEF TypeInv
  <2>2. active'[k] = [active[k] EXCEPT !.resolvedAt = at]
        /\ \A q \in Keys \ {k} : active'[q] = active[q]
    BY <1>1 DEF TypeInv, TypeOK
  <2>3. active'[k] \in ActiveAlert
    BY <1>1, <2>1, <2>2 DEF ActiveAlert
  <2> QED
    BY <2>1, <2>2, <2>3, NullAssumption DEF ActiveAlert
<1> HIDE DEF msg
<1>5. NotificationOrder'
  BY <1>1, <1>3, OrderExtends DEF NoticeInv
<1>6. \A n \in DOMAIN sent' : sent'[n].id \in 1..alertSeq'
  BY <1>1, <1>2, OneMore DEF NoticeInv
<1>7. EntriesNumbered'
  BY <1>1, <1>2, <1>4 DEF NoticeInv, EntriesNumbered
<1>8. \A q \in Keys : Open(q)' => q # k /\ Open(q)
  <2>1. at # NULL
    BY <1>1, NullAssumption
  <2> QED
    BY <1>1, <1>4, <2>1 DEF Open
<1>9. ASSUME NEW q \in Keys \ {k}, active[q] # NULL
      PROVE  /\ Announced(sent', active[q].id)
             /\ Open(q) => Unsaid(sent', "alert_resolved", active[q].id)
  <2>1. active[q].id # id
    BY <1>1, <1>2, <1>9 DEF NoticeInv, EntriesNumbered
  <2> QED
    BY <1>1, <1>9, <2>1, SaidStays DEF NoticeInv, EntriesAnnounced
<1>10. Announced(sent', id)
  BY <1>1, <1>3, SaidStays
<1>11. ASSUME NEW q \in Keys, active'[q] # NULL
       PROVE  /\ Announced(sent', active'[q].id)
              /\ Open(q)' => Unsaid(sent', "alert_resolved", active'[q].id)
  <2>1. CASE q = k
    BY <1>4, <1>8, <1>10, <2>1
  <2>2. CASE q # k
    BY <1>4, <1>8, <1>9, <1>11, <2>2
  <2> QED
    BY <2>1, <2>2
<1>12. EntriesAnnounced'
  BY <1>1, <1>11 DEF EntriesAnnounced
<1>13. AnalysesAnnounced'
  <2>1. ASSUME NEW c \in analyses
        PROVE  Announced(sent', c.id) /\ Unsaid(sent', "ai_response", c.id)
    BY <1>1, SaidStays DEF NoticeInv, AnalysesAnnounced
  <2> QED
    BY <1>1, <2>1 DEF NoticeInv, AnalysesAnnounced
<1> QED
  BY <1>5, <1>6, <1>7, <1>12, <1>13 DEF NoticeInv

LEMMA NoticeRestart ==
  /\ Init => NoticeInv
  /\ Restart => NoticeInv'
<1>1. ASSUME Init PROVE NoticeInv
  <2>1. sent = <<>> /\ DOMAIN sent = {}
    BY <1>1 DEF Init
  <2> QED
    BY <1>1, <2>1 DEF Init, NoticeInv, NotificationOrder, EntriesNumbered,
       EntriesAnnounced, AnalysesAnnounced
<1>2. ASSUME Restart PROVE NoticeInv'
  <2>1. sent' = <<>> /\ DOMAIN sent' = {}
    BY <1>2 DEF Restart
  <2> QED
    BY <1>2, <2>1 DEF Restart, NoticeInv, NotificationOrder, EntriesNumbered,
       EntriesAnnounced, AnalysesAnnounced
<1> QED
  BY <1>1, <1>2

LEMMA StepNotice == TypeInv /\ NoticeInv /\ [Next]_vars => NoticeInv'
<1> SUFFICES ASSUME TypeInv, NoticeInv, [Next]_vars PROVE NoticeInv'
  OBVIOUS
<1>1. CASE Analyze
  BY <1>1, NoticeAnalysisMoves, NoticeAnalysisEnds DEF Analyze
<1> QED
  BY <1>1, NoticeEvaluateQuiet, NoticeForget, NoticeFire, NoticeAnnounce,
     NoticeAnnounceResolved, NoticeRestart DEF Next, Evaluate

\* The dashboards hear of an alert, of its resolution and of its analysis at most
\* once each, and of the alert first, whatever fails and however the goroutines
\* that send the messages interleave.
THEOREM NoticesInOrder == Spec => []NotificationOrder
<1>1. NoticeInv => NotificationOrder
  BY DEF NoticeInv
<1>2. Init => NoticeInv
  BY NoticeRestart
<1> QED
  BY <1>1, <1>2, InitType, StepType, StepNotice, PTL DEF Spec

-----------------------------------------------------------------------------
(* The tables. *)

\* Each statement succeeded, so each number has its rows, but for the incident
\* that is about to be inserted.
RowsComplete ==
  /\ DOMAIN alerts = 1..alertSeq
  /\ DOMAIN incidents =
       IF pc = "saveIncident" THEN (1..alertSeq) \ {active[k].id} ELSE 1..alertSeq

\* The row of an entry is as open as the entry, but for a resolution in progress.
EntriesHaveRows ==
  \A q \in Keys : active[q] # NULL =>
    alerts[active[q].id].resolvedAt =
      IF pc \in {"resolveIncident", "announceResolved"} /\ q = k
        THEN at ELSE active[q].resolvedAt

\* A row that is open has its entry.
OpenRowsHaveEntries ==
  \A i \in DOMAIN alerts : alerts[i].resolvedAt = NULL =>
    \E q \in Keys : active[q] # NULL /\ active[q].id = i

\* The new alert, as its row has it.
NewRow ==
  Firing =>
    /\ alerts[active[k].id].severity = SeverityOf(k, m[k])
    /\ alerts[active[k].id].firedAt = active[k].firedAt

\* An incident row says what its alert row says; a resolution comes second.
IncidentsFollow ==
  \A i \in DOMAIN incidents :
    /\ incidents[i].severity = alerts[i].severity
    /\ incidents[i].firedAt = alerts[i].firedAt
    /\ IF pc = "resolveIncident" /\ active[k].id = i
         THEN incidents[i].resolvedAt = NULL
         ELSE incidents[i].resolvedAt = alerts[i].resolvedAt

\* How far the goroutines have come.
AnalysesHaveRows ==
  \A a \in analyses :
    /\ a.id \in DOMAIN alerts \cap DOMAIN incidents
    /\ a.stage # "calling" => alerts[a.id].analysis # NULL
    /\ a.stage = "broadcast" => incidents[a.id].analysis # NULL

WithSeverity(s) == {i \in DOMAIN alerts : alerts[i].severity = s}

CountsCount == \A s \in Severities : counts[s] = Cardinality(WithSeverity(s))

\* What a message is about.
StoredMessage(msg) ==
  /\ msg.id \in DOMAIN alerts \cap DOMAIN incidents
  /\ msg.type = "alert_resolved" =>
       alerts[msg.id].resolvedAt # NULL /\ incidents[msg.id].resolvedAt # NULL
  /\ msg.analysed => alerts[msg.id].analysis # NULL /\ incidents[msg.id].analysis # NULL

MessagesStored == \A n \in DOMAIN sent : StoredMessage(sent[n])

TablesFacts ==
  /\ RowsComplete /\ EntriesHaveRows /\ OpenRowsHaveEntries /\ NewRow
  /\ IncidentsFollow /\ AnalysesHaveRows /\ CountsCount /\ MessagesStored

TablesInv == Undisturbed => TablesFacts

Resolution == pc \in {"resolveIncident", "announceResolved"}

\* The statements, by the columns they change.
LEMMA AlertColumns ==
  ASSUME NEW table, AlertsOK(table), NEW id \in DOMAIN table, NEW t \in Nat
  PROVE  /\ LET new == SetAlertResolved(table, id, t) IN
            /\ DOMAIN new = DOMAIN table /\ new[id].resolvedAt = t
            /\ \A i \in DOMAIN table \ {id} : new[i].resolvedAt = table[i].resolvedAt
            /\ \A i \in DOMAIN table :
                 /\ new[i].severity = table[i].severity
                 /\ new[i].firedAt = table[i].firedAt
                 /\ new[i].analysis = table[i].analysis
         /\ LET new == SetAlertAnalysis(table, id, t) IN
            /\ DOMAIN new = DOMAIN table /\ new[id].analysis = t
            /\ \A i \in DOMAIN table \ {id} : new[i].analysis = table[i].analysis
            /\ \A i \in DOMAIN table :
                 /\ new[i].severity = table[i].severity
                 /\ new[i].firedAt = table[i].firedAt
                 /\ new[i].resolvedAt = table[i].resolvedAt
<1>1. \A i \in DOMAIN table : table[i] \in AlertRow
  BY DEF AlertsOK
<1>2. /\ DOMAIN SetAlertResolved(table, id, t) = DOMAIN table
      /\ SetAlertResolved(table, id, t)[id] = [table[id] EXCEPT !.resolvedAt = t]
      /\ \A i \in DOMAIN table \ {id} : SetAlertResolved(table, id, t)[i] = table[i]
  <2> DEFINE row == [table[id] EXCEPT !.resolvedAt = t]
  <2>1. SetAlertResolved(table, id, t) = Put(table, id, row)
    BY DEF SetAlertResolved
  <2> HIDE DEF row
  <2>2. /\ DOMAIN Put(table, id, row) = DOMAIN table /\ Put(table, id, row)[id] = row
        /\ \A i \in DOMAIN table \ {id} : Put(table, id, row)[i] = table[i]
    BY DEF Put
  <2> QED
    BY <2>1, <2>2 DEF row
<1>3. /\ DOMAIN SetAlertAnalysis(table, id, t) = DOMAIN table
      /\ SetAlertAnalysis(table, id, t)[id] = [table[id] EXCEPT !.analysis = t]
      /\ \A i \in DOMAIN table \ {id} : SetAlertAnalysis(table, id, t)[i] = table[i]
  <2> DEFINE row == [table[id] EXCEPT !.analysis = t]
  <2>1. SetAlertAnalysis(table, id, t) = Put(table, id, row)
    BY DEF SetAlertAnalysis
  <2> HIDE DEF row
  <2>2. /\ DOMAIN Put(table, id, row) = DOMAIN table /\ Put(table, id, row)[id] = row
        /\ \A i \in DOMAIN table \ {id} : Put(table, id, row)[i] = table[i]
    BY DEF Put
  <2> QED
    BY <2>1, <2>2 DEF row
<1>4. /\ [table[id] EXCEPT !.resolvedAt = t].resolvedAt = t
      /\ [table[id] EXCEPT !.resolvedAt = t].severity = table[id].severity
      /\ [table[id] EXCEPT !.resolvedAt = t].firedAt = table[id].firedAt
      /\ [table[id] EXCEPT !.resolvedAt = t].analysis = table[id].analysis
      /\ [table[id] EXCEPT !.analysis = t].analysis = t
      /\ [table[id] EXCEPT !.analysis = t].severity = table[id].severity
      /\ [table[id] EXCEPT !.analysis = t].firedAt = table[id].firedAt
      /\ [table[id] EXCEPT !.analysis = t].resolvedAt = table[id].resolvedAt
  BY <1>1 DEF AlertRow
<1> QED
  BY <1>2, <1>3, <1>4

LEMMA IncidentColumns ==
  ASSUME NEW table, IncidentsOK(table), NEW id \in DOMAIN table, NEW t \in Nat, NEW r
  PROVE  /\ table[id].resolvedAt = NULL =>
              LET new == SetIncidentResolved(table, id, t) IN
              /\ DOMAIN new = DOMAIN table /\ new[id].resolvedAt = t
              /\ \A i \in DOMAIN table \ {id} : new[i].resolvedAt = table[i].resolvedAt
              /\ \A i \in DOMAIN table :
                   /\ new[i].severity = table[i].severity
                   /\ new[i].firedAt = table[i].firedAt
                   /\ new[i].analysis = table[i].analysis
         /\ LET new == UpsertIncident(table, id, r) IN
            /\ DOMAIN new = DOMAIN table /\ new[id].analysis = r.analysis
            /\ \A i \in DOMAIN table \ {id} : new[i].analysis = table[i].analysis
            /\ \A i \in DOMAIN table :
                 /\ new[i].severity = table[i].severity
                 /\ new[i].firedAt = table[i].firedAt
                 /\ new[i].resolvedAt = table[i].resolvedAt
<1> DEFINE a == r.analysis
<1>1. \A i \in DOMAIN table : table[i] \in IncidentRow
  BY DEF IncidentsOK
<1>2. table[id].resolvedAt = NULL =>
        /\ DOMAIN SetIncidentResolved(table, id, t) = DOMAIN table
        /\ SetIncidentResolved(table, id, t)[id] = [table[id] EXCEPT !.resolvedAt = t]
        /\ \A i \in DOMAIN table \ {id} : SetIncidentResolved(table, id, t)[i] = table[i]
  <2> DEFINE row == [table[id] EXCEPT !.resolvedAt = t]
  <2>1. table[id].resolvedAt = NULL => SetIncidentResolved(table, id, t) = Put(table, id, row)
    BY DEF SetIncidentResolved
  <2> HIDE DEF row
  <2>2. /\ DOMAIN Put(table, id, row) = DOMAIN table /\ Put(table, id, row)[id] = row
        /\ \A i \in DOMAIN table \ {id} : Put(table, id, row)[i] = table[i]
    BY DEF Put
  <2> QED
    BY <2>1, <2>2 DEF row
<1>3. /\ DOMAIN UpsertIncident(table, id, r) = DOMAIN table
      /\ UpsertIncident(table, id, r)[id] = [table[id] EXCEPT !.analysis = a]
      /\ \A i \in DOMAIN table \ {id} : UpsertIncident(table, id, r)[i] = table[i]
  <2> DEFINE row == [table[id] EXCEPT !.analysis = a]
  <2>1. UpsertIncident(table, id, r) = Put(table, id, row)
    BY DEF UpsertIncident
  <2> HIDE DEF row
  <2>2. /\ DOMAIN Put(table, id, row) = DOMAIN table /\ Put(table, id, row)[id] = row
        /\ \A i \in DOMAIN table \ {id} : Put(table, id, row)[i] = table[i]
    BY DEF Put
  <2> QED
    BY <2>1, <2>2 DEF row
<1>4. /\ [table[id] EXCEPT !.resolvedAt = t].resolvedAt = t
      /\ [table[id] EXCEPT !.resolvedAt = t].severity = table[id].severity
      /\ [table[id] EXCEPT !.resolvedAt = t].firedAt = table[id].firedAt
      /\ [table[id] EXCEPT !.resolvedAt = t].analysis = table[id].analysis
      /\ [table[id] EXCEPT !.analysis = a].analysis = a
      /\ [table[id] EXCEPT !.analysis = a].severity = table[id].severity
      /\ [table[id] EXCEPT !.analysis = a].firedAt = table[id].firedAt
      /\ [table[id] EXCEPT !.analysis = a].resolvedAt = table[id].resolvedAt
  BY <1>1 DEF IncidentRow
<1> QED
  BY <1>2, <1>3, <1>4

\* What the facts say of the entries.
LEMMA EntryRow ==
  ASSUME TypeInv, NoticeInv, RowsComplete, EntriesHaveRows,
         NEW q \in Keys, active[q] # NULL
  PROVE  /\ active[q].id \in DOMAIN alerts
         /\ ~(pc = "saveIncident" /\ q = k) => active[q].id \in DOMAIN incidents
         /\ ~Resolution => alerts[active[q].id].resolvedAt = active[q].resolvedAt
         /\ \A p \in Keys : active[p] # NULL /\ active[p].id = active[q].id => p = q
<1>1. /\ active[q].id \in 1..alertSeq
      /\ \A p \in Keys : active[p] # NULL /\ active[p].id = active[q].id => p = q
  BY DEF NoticeInv, EntriesNumbered
<1>2. pc = "saveIncident" => k \in Keys /\ active[k] # NULL
  BY CurrentKey DEF TypeInv, HandlesOpen, Open
<1> QED
  BY <1>1, <1>2 DEF RowsComplete, EntriesHaveRows, Resolution

\* Rows come, and what has been resolved or analysed stays so.
TablesGrow ==
  /\ DOMAIN alerts \subseteq DOMAIN alerts'
  /\ DOMAIN incidents \subseteq DOMAIN incidents'
  /\ \A i \in DOMAIN alerts :
       /\ alerts[i].resolvedAt # NULL => alerts'[i].resolvedAt # NULL
       /\ alerts[i].analysis # NULL => alerts'[i].analysis # NULL
  /\ \A i \in DOMAIN incidents :
       /\ incidents[i].resolvedAt # NULL => incidents'[i].resolvedAt # NULL
       /\ incidents[i].analysis # NULL => incidents'[i].analysis # NULL

LEMMA StoredStays ==
  ASSUME MessagesStored, TablesGrow, UNCHANGED sent
  PROVE  MessagesStored'
BY DEF MessagesStored, StoredMessage, TablesGrow

LEMMA AnalysesStay ==
  ASSUME AnalysesHaveRows, TablesGrow, UNCHANGED analyses
  PROVE  AnalysesHaveRows'
BY DEF AnalysesHaveRows, TablesGrow

\* The tables as they were, and one message more that is about what they hold.
LEMMA StoredExtends ==
  ASSUME TypeInv, MessagesStored, UNCHANGED <<alerts, incidents>>, NEW msg,
         sent' = Append(sent, msg), StoredMessage(msg)
  PROVE  MessagesStored'
<1>1. /\ DOMAIN sent' = DOMAIN sent \cup {Len(sent) + 1} /\ sent'[Len(sent) + 1] = msg
      /\ \A n \in DOMAIN sent : sent'[n] = sent[n]
  BY OneMore
<1> QED
  BY <1>1 DEF MessagesStored, StoredMessage

\* Counters and tables left alone, evaluate not, or still, in the midst of a
\* resolution or of a firing.
TablesQuiet ==
  /\ UNCHANGED <<alerts, incidents, alertSeq, counts>>
  /\ \/ UNCHANGED <<pc, idx, m, at>>
     \/ pc \in {"idle", "check"} /\ pc' \in {"idle", "check"}

LEMMA QuietTables ==
  ASSUME TablesFacts, TablesQuiet, UNCHANGED active
  PROVE  /\ RowsComplete' /\ EntriesHaveRows' /\ OpenRowsHaveEntries' /\ NewRow'
         /\ IncidentsFollow' /\ CountsCount'
<1> USE DEF TablesFacts, TablesQuiet
<1>1. RowsComplete'
  BY DEF RowsComplete, k
<1>2. EntriesHaveRows'
  BY DEF EntriesHaveRows, k
<1>3. OpenRowsHaveEntries'
  BY DEF OpenRowsHaveEntries
<1>4. NewRow'
  BY DEF NewRow, Firing, k
<1>5. IncidentsFollow'
  BY DEF IncidentsFollow, k
<1>6. CountsCount'
  BY DEF CountsCount, WithSeverity
<1> QED
  BY <1>1, <1>2, <1>3, <1>4, <1>5, <1>6

LEMMA Succeeds ==
  ASSUME TypeInv, faults' = 0, NEW ok \in BOOLEAN, Exec(ok)
  PROVE  ok
BY DEF Exec, TypeInv, TypeOK

LEMMA TypeFacts ==
  ASSUME TypeInv
  PROVE  /\ AlertsOK(alerts) /\ IncidentsOK(incidents)
         /\ pc # "idle" => k \in Keys
         /\ NULL \notin Nat
         /\ \A a \in analyses : a.id \in Nat /\ a.stage \in {"calling", "saveIncident", "broadcast"}
         /\ pc \in {"resolveIncident", "announceResolved", "saveIncident", "announce"}
              => active[k] # NULL /\ active[k].resolvedAt = NULL
<1>1. AlertsOK(alerts) /\ IncidentsOK(incidents)
  BY DEF TypeInv, TypeOK, AlertsOK, IncidentsOK
<1>2. NULL \notin Nat
  BY NullAssumption
<1>3. \A a \in analyses : a.id \in Nat /\ a.stage \in {"calling", "saveIncident", "broadcast"}
  BY DEF TypeInv, TypeOK, Analysis
<1> QED
  BY <1>1, <1>2, <1>3, CurrentKey DEF TypeInv, HandlesOpen, Open

\* The steps that change neither the tables nor the entries, and say nothing.
LEMMA TablesStill ==
  ASSUME TypeInv, TablesFacts,
         StartEvaluate \/ Skip \/ Refresh \/ Tick \/ UNCHANGED vars
  PROVE  TablesFacts'
<1>1. TablesQuiet /\ UNCHANGED <<active, sent, analyses>>
  BY DEF StartEvaluate, Skip, Refresh, Tick, vars, NextCheck, memVars, evalVars,
     storeVars, TablesQuiet
<1>2. TablesGrow
  BY <1>1 DEF TablesQuiet, TablesGrow
<1> QED
  BY <1>1, <1>2, QuietTables, StoredStays, AnalysesStay DEF TablesFacts

LEMMA TablesForget ==
  ASSUME TypeInv, NoticeInv, TablesFacts, Forget
  PROVE  TablesFacts'
<1>1. /\ UNCHANGED <<alerts, incidents, alertSeq, counts, sent, analyses>>
      /\ pc = "check" /\ pc' \in {"idle", "check"} /\ k \in Keys
      /\ active' = [active EXCEPT ![k] = NULL]
      /\ active[k] # NULL /\ active[k].resolvedAt # NULL
  BY TypeFacts DEF Forget, NextCheck, storeVars, CooldownOver, Resolved
<1>2. active'[k] = NULL /\ \A q \in Keys \ {k} : active'[q] = active[q]
  BY <1>1 DEF TypeInv, TypeOK
<1>3. TablesGrow
  BY <1>1 DEF TablesGrow
<1>4. RowsComplete' /\ NewRow' /\ IncidentsFollow' /\ CountsCount'
  BY <1>1 DEF TablesFacts, RowsComplete, NewRow, Firing, IncidentsFollow, CountsCount,
     WithSeverity
<1>5. EntriesHaveRows'
  BY <1>1, <1>2 DEF TablesFacts, EntriesHaveRows
<1>6. OpenRowsHaveEntries'
  <2>1. alerts[active[k].id].resolvedAt # NULL
    BY <1>1 DEF TablesFacts, EntriesHaveRows
  <2>2. ASSUME NEW i \in DOMAIN alerts, alerts[i].resolvedAt = NULL
        PROVE  \E q \in Keys : active'[q] # NULL /\ active'[q].id = i
    <3>1. PICK q \in Keys : active[q] # NULL /\ active[q].id = i
      BY <2>2 DEF TablesFacts, OpenRowsHaveEntries
    <3> QED
      BY <1>2, <2>1, <2>2, <3>1
  <2> QED
    BY <1>1, <2>2 DEF OpenRowsHaveEntries
<1> QED
  BY <1>1, <1>3, <1>4, <1>5, <1>6, StoredStays, AnalysesStay DEF TablesFacts

\* The first statement of a resolution: the incident's row is not yet resolved.
LEMMA TablesResolveAlert ==
  ASSUME TypeInv, NoticeInv, TablesFacts, ResolveAlert, faults' = 0
  PROVE  TablesFacts'
<1> DEFINE id == active[k].id
<1>1. /\ UNCHANGED <<incidents, alertSeq, counts, active, sent, analyses>>
      /\ pc = "check" /\ pc' = "resolveIncident" /\ k \in Keys /\ k' = k
      /\ at' = now /\ now \in Nat /\ Open(k)
      /\ alerts' = SetAlertResolved(alerts, id, now)
  BY TypeFacts, ScalarFacts, Succeeds DEF ResolveAlert, memVars, k
<1>2. /\ active[k] # NULL /\ active[k].resolvedAt = NULL
      /\ id \in DOMAIN alerts /\ id \in DOMAIN incidents
      /\ alerts[id].resolvedAt = NULL
      /\ \A q \in Keys : active[q] # NULL /\ active[q].id = id => q = k
  BY <1>1, EntryRow DEF Open, Resolution, TablesFacts
<1>3. /\ DOMAIN alerts' = DOMAIN alerts /\ alerts'[id].resolvedAt = now
      /\ \A i \in DOMAIN alerts \ {id} : alerts'[i].resolvedAt = alerts[i].resolvedAt
      /\ \A i \in DOMAIN alerts :
           /\ alerts'[i].severity = alerts[i].severity
           /\ alerts'[i].firedAt = alerts[i].firedAt
           /\ alerts'[i].analysis = alerts[i].analysis
  BY <1>1, <1>2, TypeFacts, AlertColumns
<1>4. now # NULL /\ at' # NULL
  BY <1>1, TypeFacts
<1> HIDE DEF id
<1>5. TablesGrow
  BY <1>1, <1>3, <1>4 DEF TablesGrow
<1>6. RowsComplete' /\ NewRow' /\ CountsCount'
  BY <1>1, <1>3 DEF TablesFacts, RowsComplete, NewRow, Firing, CountsCount, WithSeverity
<1>7. EntriesHaveRows'
  <2>1. ASSUME NEW q \in Keys, active[q] # NULL
        PROVE  alerts'[active[q].id].resolvedAt = IF q = k THEN at' ELSE active[q].resolvedAt
    <3>1. CASE q = k
      BY <1>1, <1>3, <3>1 DEF id
    <3>2. CASE q # k
      <4>1. /\ active[q].id \in DOMAIN alerts /\ active[q].id # id
            /\ alerts[active[q].id].resolvedAt = active[q].resolvedAt
        BY <1>1, <1>2, <2>1, <3>2, EntryRow DEF TablesFacts, Resolution
      <4> QED
        BY <1>3, <3>2, <4>1
    <3> QED
      BY <3>1, <3>2
  <2> QED
    BY <1>1, <2>1 DEF EntriesHaveRows
<1>8. OpenRowsHaveEntries'
  BY <1>1, <1>3, <1>4 DEF TablesFacts, OpenRowsHaveEntries
<1>9. IncidentsFollow'
  <2>1. DOMAIN incidents \subseteq DOMAIN alerts
    BY <1>1 DEF TablesFacts, RowsComplete
  <2>2. ASSUME NEW i \in DOMAIN incidents
        PROVE  /\ incidents[i].severity = alerts'[i].severity
               /\ incidents[i].firedAt = alerts'[i].firedAt
               /\ IF id = i THEN incidents[i].resolvedAt = NULL
                            ELSE incidents[i].resolvedAt = alerts'[i].resolvedAt
    BY <1>1, <1>2, <1>3, <2>1 DEF TablesFacts, IncidentsFollow
  <2> QED
    BY <1>1, <2>2 DEF IncidentsFollow, id
<1> QED
  BY <1>1, <1>5, <1>6, <1>7, <1>8, <1>9, StoredStays, AnalysesStay DEF TablesFacts

\* The second one.
LEMMA TablesResolveIncident ==
  ASSUME TypeInv, NoticeInv, TablesFacts, ResolveIncident, faults' = 0
  PROVE  TablesFacts'
<1> DEFINE id == active[k].id
<1>1. /\ UNCHANGED <<alerts, alertSeq, counts, active, sent, analyses, m, at>>
      /\ pc = "resolveIncident" /\ pc' = "announceResolved" /\ k \in Keys /\ k' = k
      /\ at \in Nat /\ incidents' = SetIncidentResolved(incidents, id, at)
  BY TypeFacts, ScalarFacts, Succeeds DEF ResolveIncident, GoTo, memVars, k
<1>2. /\ active[k] # NULL /\ id \in DOMAIN alerts /\ id \in DOMAIN incidents
      /\ alerts[id].resolvedAt = at /\ incidents[id].resolvedAt = NULL
  <2>1. active[k] # NULL
    BY <1>1, TypeFacts
  <2>2. id \in DOMAIN alerts /\ id \in DOMAIN incidents
    BY <1>1, <2>1, EntryRow DEF TablesFacts
  <2> QED
    BY <1>1, <2>1, <2>2 DEF TablesFacts, EntriesHaveRows, IncidentsFollow
<1>3. /\ DOMAIN incidents' = DOMAIN incidents /\ incidents'[id].resolvedAt = at
      /\ \A i \in DOMAIN incidents \ {id} :
           incidents'[i].resolvedAt = incidents[i].resolvedAt
      /\ \A i \in DOMAIN incidents :
           /\ incidents'[i].severity = incidents[i].severity
           /\ incidents'[i].firedAt = incidents[i].firedAt
           /\ incidents'[i].analysis = incidents[i].analysis
  BY <1>1, <1>2, TypeFacts, IncidentColumns
<1>4. at # NULL
  BY <1>1, TypeFacts
<1>5. TablesGrow
  BY <1>1, <1>3, <1>4 DEF TablesGrow, id
<1>6. RowsComplete' /\ NewRow' /\ CountsCount' /\ EntriesHaveRows' /\ OpenRowsHaveEntries'
  BY <1>1, <1>3 DEF TablesFacts, RowsComplete, NewRow, Firing, CountsCount, WithSeverity,
     EntriesHaveRows, OpenRowsHaveEntries
<1>7. IncidentsFollow'
  BY <1>1, <1>2, <1>3 DEF TablesFacts, IncidentsFollow
<1> QED
  BY <1>1, <1>5, <1>6, <1>7, StoredStays, AnalysesStay DEF TablesFacts

\* The resolution is announced, and the entry follows the rows.
LEMMA TablesAnnounceResolved ==
  ASSUME TypeInv, NoticeInv, TablesFacts, AnnounceResolved
  PROVE  TablesFacts'
<1> DEFINE id == active[k].id
           msg == Message("alert_resolved", id, FALSE)
<1>1. /\ UNCHANGED <<alerts, incidents, alertSeq, counts, analyses>>
      /\ pc = "announceResolved" /\ pc' \in {"idle", "check"} /\ k \in Keys
      /\ at \in Nat /\ sent' = Append(sent, msg)
      /\ msg.type = "alert_resolved" /\ msg.id = id /\ ~msg.analysed
      /\ active' = [active EXCEPT ![k].resolvedAt = at]
  BY TypeFacts, ScalarFacts DEF AnnounceResolved, NextCheck, storeVars, Message
<1>2. active[k] # NULL /\ active[k] \in ActiveAlert
  BY <1>1, TypeFacts, OpenEntry DEF TypeInv
<1>3. /\ id \in DOMAIN alerts /\ id \in DOMAIN incidents
      /\ alerts[id].resolvedAt = at /\ incidents[id].resolvedAt = at
  <2>1. id \in DOMAIN alerts /\ id \in DOMAIN incidents
    BY <1>1, <1>2, EntryRow DEF TablesFacts
  <2> QED
    BY <1>1, <1>2, <2>1 DEF TablesFacts, EntriesHaveRows, IncidentsFollow
<1>4. at # NULL
  BY <1>1, TypeFacts
<1>5. /\ active'[k].id = id /\ active'[k].resolvedAt = at /\ active'[k] # NULL
      /\ \A q \in Keys \ {k} : active'[q] = active[q]
  <2>1. /\ active'[k] = [active[k] EXCEPT !.resolvedAt = at]
        /\ \A q \in Keys \ {k} : active'[q] = active[q]
    BY <1>1 DEF TypeInv, TypeOK
  <2>2. active'[k] \in ActiveAlert
    BY <1>1, <1>2, <2>1 DEF ActiveAlert
  <2> QED
    BY <1>2, <2>1, <2>2, NullAssumption DEF ActiveAlert
<1>6. RowsComplete' /\ NewRow' /\ CountsCount'
  BY <1>1 DEF TablesFacts, RowsComplete, NewRow, Firing, CountsCount, WithSeverity
<1>7. EntriesHaveRows'
  <2>1. ASSUME NEW q \in Keys, active'[q] # NULL
        PROVE  alerts[active'[q].id].resolvedAt = active'[q].resolvedAt
    BY <1>1, <1>3, <1>5, <2>1 DEF TablesFacts, EntriesHaveRows
  <2> QED
    BY <1>1, <2>1 DEF EntriesHaveRows
<1>8. OpenRowsHaveEntries'
  BY <1>1, <1>5 DEF TablesFacts, OpenRowsHaveEntries
<1>9. IncidentsFollow'
  BY <1>1, <1>3 DEF TablesFacts, IncidentsFollow
<1>10. AnalysesHaveRows'
  BY <1>1 DEF TablesFacts, AnalysesHaveRows
<1>11. StoredMessage(msg)
  BY <1>1, <1>3, <1>4 DEF StoredMessage
<1> HIDE DEF msg
<1>12. MessagesStored'
  BY <1>1, <1>11, StoredExtends DEF TablesFacts
<1> QED
  BY <1>6, <1>7, <1>8, <1>9, <1>10, <1>12 DEF TablesFacts

\* A new number, its alert row, and no incident row yet.
LEMMA TablesFire ==
  ASSUME TypeInv, NoticeInv, TablesFacts, Fire, faults' = 0
  PROVE  TablesFacts'
<1> DEFINE new == alertSeq + 1
           sev == SeverityOf(k, m[k])
           row == [metric |-> k, severity |-> sev, firedAt |-> now, resolvedAt |-> NULL,
                   analysis |-> NULL, run |-> run]
<1>1. /\ UNCHANGED <<incidents, sent, analyses, m>> /\ pc = "check" /\ pc' = "saveIncident"
      /\ k \in Keys /\ k' = k /\ alertSeq' = new /\ now \in Nat
      /\ active[k] = NULL \/ active[k].resolvedAt # NULL
      /\ active' = [active EXCEPT
           ![k] = [id |-> new, firedAt |-> now, resolvedAt |-> NULL]]
      /\ counts' = [counts EXCEPT ![sev] = @ + 1]
      /\ alerts' = InsertAlert(alerts, new, row)
  BY TypeFacts, ScalarFacts, Succeeds DEF Fire, GoTo, CooldownOver, Resolved, k
<1>2. /\ new \in Nat /\ new \notin 1..alertSeq /\ 1..new = 1..alertSeq \cup {new}
      /\ (1..new) \ {new} = 1..alertSeq
  BY ScalarFacts
<1>3. DOMAIN alerts = 1..alertSeq /\ DOMAIN incidents = 1..alertSeq
  BY <1>1 DEF TablesFacts, RowsComplete
<1>4. /\ active'[k].id = new /\ active'[k].resolvedAt = NULL /\ active'[k].firedAt = now
      /\ active'[k] # NULL
      /\ \A q \in Keys \ {k} : active'[q] = active[q]
  <2>1. /\ active'[k] = [id |-> new, firedAt |-> now, resolvedAt |-> NULL]
        /\ \A q \in Keys \ {k} : active'[q] = active[q]
    BY <1>1 DEF TypeInv, TypeOK
  <2>2. [id |-> new, firedAt |-> now, resolvedAt |-> NULL] \in ActiveAlert
    BY <1>1, <1>2 DEF ActiveAlert
  <2> QED
    BY <2>1, <2>2, NullAssumption
<1>5. row.severity = sev /\ row.firedAt = now /\ row.resolvedAt = NULL
  OBVIOUS
<1> HIDE DEF row, sev, new
<1>6. /\ DOMAIN alerts' = DOMAIN alerts \cup {new} /\ alerts'[new] = row
      /\ \A i \in DOMAIN alerts : alerts'[i] = alerts[i]
  BY <1>1, <1>2, <1>3 DEF InsertAlert, Put
<1>7. TablesGrow
  BY <1>1, <1>6 DEF TablesGrow
<1>8. RowsComplete'
  BY <1>1, <1>2, <1>3, <1>4, <1>6 DEF RowsComplete
<1>9. EntriesHaveRows'
  <2>1. ASSUME NEW q \in Keys, active'[q] # NULL
        PROVE  alerts'[active'[q].id].resolvedAt = active'[q].resolvedAt
    <3>1. CASE q = k
      BY <1>4, <1>5, <1>6, <3>1
    <3>2. CASE q # k
      <4>1. /\ active'[q] = active[q] /\ active[q].id \in DOMAIN alerts
            /\ alerts[active[q].id].resolvedAt = active[q].resolvedAt
        BY <1>1, <1>4, <2>1, <3>2, EntryRow DEF TablesFacts, Resolution
      <4> QED
        BY <1>6, <4>1
    <3> QED
      BY <3>1, <3>2
  <2> QED
    BY <1>1, <2>1 DEF EntriesHaveRows
<1>10. OpenRowsHaveEntries'
  <2>1. ASSUME NEW i \in DOMAIN alerts, alerts[i].resolvedAt = NULL
        PROVE  \E q \in Keys : active'[q] # NULL /\ active'[q].id = i
    <3>1. PICK q \in Keys : active[q] # NULL /\ active[q].id = i
      BY <2>1 DEF TablesFacts, OpenRowsHaveEntries
    <3>2. q # k
      BY <1>1, <2>1, <3>1, EntryRow DEF TablesFacts, Resolution
    <3> QED
      BY <1>4, <3>1, <3>2
  <2> QED
    BY <1>1, <1>4, <1>6, <2>1 DEF OpenRowsHaveEntries
<1>11. NewRow'
  BY <1>1, <1>4, <1>5, <1>6 DEF NewRow, sev
<1>12. IncidentsFollow'
  BY <1>1, <1>3, <1>6 DEF TablesFacts, IncidentsFollow
<1>13. CountsCount'
  <2> SUFFICES ASSUME NEW s \in Severities
               PROVE  counts'[s] = Cardinality(WithSeverity(s)')
    BY DEF CountsCount
  <2>1. IsFiniteSet(WithSeverity(s)) /\ new \notin WithSeverity(s)
    <3>1. IsFiniteSet(1..alertSeq) /\ WithSeverity(s) \subseteq 1..alertSeq
      BY <1>3, ScalarFacts, FS_Interval DEF WithSeverity
    <3> QED
      BY <1>2, <3>1, FS_Subset
  <2>2. counts[s] = Cardinality(WithSeverity(s)) /\ counts \in [Severities -> Nat]
    BY DEF TablesFacts, CountsCount, TypeInv, TypeOK
  <2>3. CASE s = sev
    <3>1. WithSeverity(s)' = WithSeverity(s) \cup {new}
      BY <1>5, <1>6, <2>3 DEF WithSeverity
    <3>2. counts'[s] = counts[s] + 1
      BY <1>1, <2>2, <2>3
    <3>3. Cardinality(WithSeverity(s) \cup {new}) = Cardinality(WithSeverity(s)) + 1
      BY <2>1, FS_AddElement
    <3> QED
      BY <2>2, <3>1, <3>2, <3>3
  <2>4. CASE s # sev
    <3>1. WithSeverity(s)' = WithSeverity(s)
      BY <1>3, <1>5, <1>6, <2>4 DEF WithSeverity
    <3> QED
      BY <1>1, <2>2, <2>4, <3>1
  <2> QED
    BY <2>3, <2>4
<1> QED
  BY <1>1, <1>7, <1>8, <1>9, <1>10, <1>11, <1>12, <1>13, StoredStays, AnalysesStay
     DEF TablesFacts

\* The incident row of the new alert.
LEMMA TablesSaveIncident ==
  ASSUME TypeInv, NoticeInv, TablesFacts, SaveIncident, faults' = 0
  PROVE  TablesFacts'
<1> DEFINE id == active[k].id
           row == [severity |-> SeverityOf(k, m[k]), firedAt |-> active[k].firedAt,
                   resolvedAt |-> NULL, analysis |-> NULL, run |-> run]
<1>1. /\ UNCHANGED <<alerts, alertSeq, counts, active, sent, analyses, m, at>>
      /\ pc = "saveIncident" /\ pc' = "announce" /\ k \in Keys /\ k' = k
      /\ incidents' = UpsertIncident(incidents, id, row)
  BY TypeFacts, Succeeds DEF SaveIncident, GoTo, memVars, k
<1>2. /\ active[k] # NULL /\ active[k].resolvedAt = NULL /\ id \in 1..alertSeq
      /\ DOMAIN incidents = (1..alertSeq) \ {id} /\ DOMAIN alerts = 1..alertSeq
  <2>1. active[k] # NULL /\ active[k].resolvedAt = NULL
    BY <1>1, TypeFacts
  <2> QED
    BY <1>1, <2>1 DEF TablesFacts, RowsComplete, NoticeInv, EntriesNumbered
<1>3. /\ row.severity = alerts[id].severity /\ row.firedAt = alerts[id].firedAt
      /\ row.resolvedAt = alerts[id].resolvedAt
  BY <1>1, <1>2 DEF TablesFacts, NewRow, Firing, EntriesHaveRows
<1> HIDE DEF row
<1>4. /\ DOMAIN incidents' = 1..alertSeq /\ incidents'[id] = row
      /\ \A i \in DOMAIN incidents : incidents'[i] = incidents[i]
  BY <1>1, <1>2 DEF UpsertIncident, Put
<1>5. TablesGrow
  BY <1>1, <1>2, <1>4 DEF TablesGrow
<1>6. RowsComplete' /\ NewRow' /\ CountsCount' /\ EntriesHaveRows' /\ OpenRowsHaveEntries'
  BY <1>1, <1>2, <1>4 DEF TablesFacts, RowsComplete, NewRow, Firing, CountsCount,
     WithSeverity, EntriesHaveRows, OpenRowsHaveEntries
<1>7. IncidentsFollow'
  BY <1>1, <1>2, <1>3, <1>4 DEF TablesFacts, IncidentsFollow
<1> QED
  BY <1>1, <1>5, <1>6, <1>7, StoredStays, AnalysesStay DEF TablesFacts

LEMMA TablesAnnounce ==
  ASSUME TypeInv, NoticeInv, TablesFacts, Announce
  PROVE  TablesFacts'
<1> DEFINE id == active[k].id
           a == [id |-> id, severity |-> SeverityOf(k, m[k]),
                 firedAt |-> active[k].firedAt, stage |-> "calling"]
           msg == Message("alert", id, FALSE)
<1>1. /\ UNCHANGED <<alerts, incidents, alertSeq, counts, active>>
      /\ pc = "announce" /\ pc' \in {"idle", "check"} /\ k \in Keys
      /\ sent' = Append(sent, msg) /\ msg.type = "alert" /\ msg.id = id /\ ~msg.analysed
      /\ analyses' = analyses \cup {a} /\ a.id = id /\ a.stage = "calling"
  BY TypeFacts DEF Announce, NextCheck, memVars, storeVars, Message
<1>2. id \in DOMAIN alerts /\ id \in DOMAIN incidents
  <2>1. active[k] # NULL
    BY <1>1, TypeFacts
  <2> QED
    BY <1>1, <2>1, EntryRow DEF TablesFacts
<1> HIDE DEF a, msg
<1>3. /\ RowsComplete' /\ NewRow' /\ CountsCount' /\ EntriesHaveRows'
      /\ OpenRowsHaveEntries' /\ IncidentsFollow'
  BY <1>1 DEF TablesFacts, RowsComplete, NewRow, Firing, CountsCount, WithSeverity,
     EntriesHaveRows, OpenRowsHaveEntries, IncidentsFollow
<1>4. AnalysesHaveRows'
  BY <1>1, <1>2 DEF TablesFacts, AnalysesHaveRows
<1>5. StoredMessage(msg)
  BY <1>1, <1>2 DEF StoredMessage
<1>6. MessagesStored'
  BY <1>1, <1>5, StoredExtends DEF TablesFacts
<1> QED
  BY <1>3, <1>4, <1>6 DEF TablesFacts

\* A goroutine stores its answer with the alert.
LEMMA TablesUpdateAI ==
  ASSUME TypeInv, NoticeInv, TablesFacts, NEW a \in analyses, UpdateAIResponse(a), faults' = 0
  PROVE  TablesFacts'
<1> DEFINE b == [a EXCEPT !.stage = "saveIncident"]
<1>1. /\ UNCHANGED <<incidents, alertSeq, counts, active, sent, pc, idx, m, at>>
      /\ run \in Nat /\ alerts' = SetAlertAnalysis(alerts, a.id, run)
      /\ analyses' = (analyses \ {a}) \cup {b}
  BY Succeeds, ScalarFacts DEF UpdateAIResponse, memVars, evalVars
<1>2. b.id = a.id /\ b.stage = "saveIncident"
  BY DEF TypeInv, TypeOK, Analysis
<1> HIDE DEF b
<1>3. a.id \in DOMAIN alerts /\ a.id \in DOMAIN incidents
  BY DEF TablesFacts, AnalysesHaveRows
<1>4. /\ DOMAIN alerts' = DOMAIN alerts /\ alerts'[a.id].analysis = run
      /\ \A i \in DOMAIN alerts \ {a.id} : alerts'[i].analysis = alerts[i].analysis
      /\ \A i \in DOMAIN alerts :
           /\ alerts'[i].severity = alerts[i].severity
           /\ alerts'[i].firedAt = alerts[i].firedAt
           /\ alerts'[i].resolvedAt = alerts[i].resolvedAt
  BY <1>1, <1>3, TypeFacts, AlertColumns
<1>5. run # NULL
  BY <1>1, TypeFacts
<1>6. k' = k
  BY <1>1 DEF k
<1>7. TablesGrow
  BY <1>1, <1>4, <1>5 DEF TablesGrow
<1>8. DOMAIN incidents \subseteq DOMAIN alerts
  BY DEF TablesFacts, RowsComplete
<1>9. /\ \A q \in Keys : active[q] # NULL => active[q].id \in DOMAIN alerts
      /\ pc # "idle" => k \in Keys
      /\ Firing => active[k] # NULL
  BY EntryRow, TypeFacts DEF TablesFacts, Firing
<1>10. RowsComplete' /\ OpenRowsHaveEntries'
  BY <1>1, <1>4, <1>6 DEF TablesFacts, RowsComplete, OpenRowsHaveEntries
<1>11. EntriesHaveRows'
  <2>1. ASSUME NEW q \in Keys, active[q] # NULL
        PROVE  alerts'[active[q].id].resolvedAt = alerts[active[q].id].resolvedAt
    BY <1>4, <1>9, <2>1
  <2> QED
    BY <1>1, <1>6, <2>1 DEF TablesFacts, EntriesHaveRows
<1>12. NewRow'
  <2>1. Firing => active[k].id \in DOMAIN alerts
    BY <1>9 DEF Firing
  <2> QED
    BY <1>1, <1>4, <1>6, <2>1 DEF TablesFacts, NewRow, Firing
<1>13. IncidentsFollow'
  <2>1. \A i \in DOMAIN incidents :
          /\ alerts'[i].severity = alerts[i].severity
          /\ alerts'[i].firedAt = alerts[i].firedAt
          /\ alerts'[i].resolvedAt = alerts[i].resolvedAt
    BY <1>4, <1>8
  <2> QED
    BY <1>1, <1>6, <2>1 DEF TablesFacts, IncidentsFollow
<1>14. CountsCount'
  <2>1. \A s \in Severities : WithSeverity(s)' = WithSeverity(s)
    BY <1>4 DEF WithSeverity
  <2> QED
    BY <1>1, <2>1 DEF TablesFacts, CountsCount
<1>15. AnalysesHaveRows'
  <2>1. ASSUME NEW c \in analyses \ {a}
        PROVE  /\ c.id \in DOMAIN alerts' \cap DOMAIN incidents'
               /\ c.stage # "calling" => alerts'[c.id].analysis # NULL
               /\ c.stage = "broadcast" => incidents'[c.id].analysis # NULL
    BY <1>7 DEF TablesFacts, AnalysesHaveRows, TablesGrow
  <2> QED
    BY <1>1, <1>2, <1>3, <1>4, <1>5, <2>1 DEF AnalysesHaveRows
<1> QED
  BY <1>1, <1>7, <1>10, <1>11, <1>12, <1>13, <1>14, <1>15, StoredStays DEF TablesFacts

\* ... and then with the incident.
LEMMA TablesSaveAnalysis ==
  ASSUME TypeInv, NoticeInv, TablesFacts, NEW a \in analyses, SaveAnalysis(a), faults' = 0
  PROVE  TablesFacts'
<1> DEFINE b == [a EXCEPT !.stage = "broadcast"]
           row == [severity |-> a.severity, firedAt |-> a.firedAt,
                   resolvedAt |-> NULL, analysis |-> run, run |-> run]
<1>1. /\ UNCHANGED <<alerts, alertSeq, counts, active, sent, pc, idx, m, at>>
      /\ run \in Nat /\ incidents' = UpsertIncident(incidents, a.id, row)
      /\ analyses' = (analyses \ {a}) \cup {b} /\ a.stage = "saveIncident"
  BY Succeeds, ScalarFacts DEF SaveAnalysis, memVars, evalVars
<1>2. b.id = a.id /\ b.stage = "broadcast" /\ row.analysis = run
  BY DEF TypeInv, TypeOK, Analysis
<1> HIDE DEF b, row
<1>3. /\ a.id \in DOMAIN alerts /\ a.id \in DOMAIN incidents
      /\ alerts[a.id].analysis # NULL
  BY <1>1 DEF TablesFacts, AnalysesHaveRows
<1>4. /\ DOMAIN incidents' = DOMAIN incidents /\ incidents'[a.id].analysis = run
      /\ \A i \in DOMAIN incidents \ {a.id} : incidents'[i].analysis = incidents[i].analysis
      /\ \A i \in DOMAIN incidents :
           /\ incidents'[i].severity = incidents[i].severity
           /\ incidents'[i].firedAt = incidents[i].firedAt
           /\ incidents'[i].resolvedAt = incidents[i].resolvedAt
  BY <1>1, <1>2, <1>3, TypeFacts, IncidentColumns
<1>5. run # NULL
  BY <1>1, TypeFacts
<1>6. k' = k
  BY <1>1 DEF k
<1>7. TablesGrow
  BY <1>1, <1>4, <1>5 DEF TablesGrow
<1>8. /\ RowsComplete' /\ EntriesHaveRows' /\ OpenRowsHaveEntries' /\ NewRow'
      /\ IncidentsFollow' /\ CountsCount'
  BY <1>1, <1>4, <1>6 DEF TablesFacts, RowsComplete, EntriesHaveRows, OpenRowsHaveEntries,
     NewRow, Firing, IncidentsFollow, CountsCount, WithSeverity
<1>9. AnalysesHaveRows'
  <2>1. ASSUME NEW c \in analyses \ {a}
        PROVE  /\ c.id \in DOMAIN alerts' \cap DOMAIN incidents'
               /\ c.stage # "calling" => alerts'[c.id].analysis # NULL
               /\ c.stage = "broadcast" => incidents'[c.id].analysis # NULL
    BY <1>7 DEF TablesFacts, AnalysesHaveRows, TablesGrow
  <2> QED
    BY <1>1, <1>2, <1>3, <1>4, <1>5, <2>1 DEF AnalysesHaveRows
<1> QED
  BY <1>1, <1>7, <1>8, <1>9, StoredStays DEF TablesFacts

\* The answer is sent, and what it says has been stored.
LEMMA TablesAnalysisEnds ==
  ASSUME TypeInv, TablesFacts, NEW a \in analyses, AnalysisUnavailable(a) \/ AnnounceAnalysis(a)
  PROVE  TablesFacts'
<1>1. PICK msg : /\ sent' = Append(sent, msg) /\ msg.type = "ai_response" /\ msg.id = a.id
                 /\ msg.analysed => a.stage = "broadcast"
  BY DEF AnalysisUnavailable, AnnounceAnalysis, Message
<1>2. /\ UNCHANGED <<alerts, incidents, alertSeq, counts, active, pc, idx, m, at>>
      /\ analyses' = analyses \ {a}
  BY DEF AnalysisUnavailable, AnnounceAnalysis, memVars, evalVars, storeVars
<1>3. /\ RowsComplete' /\ EntriesHaveRows' /\ OpenRowsHaveEntries' /\ NewRow'
      /\ IncidentsFollow' /\ CountsCount'
  BY <1>2, QuietTables DEF TablesQuiet
<1>4. AnalysesHaveRows'
  BY <1>2 DEF TablesFacts, AnalysesHaveRows
<1>5. StoredMessage(msg)
  BY <1>1 DEF TablesFacts, AnalysesHaveRows, StoredMessage
<1>6. MessagesStored'
  BY <1>1, <1>2, <1>5, StoredExtends DEF TablesFacts
<1> QED
  BY <1>3, <1>4, <1>6 DEF TablesFacts

LEMMA InitTables == Init => TablesInv
<1> SUFFICES ASSUME Init PROVE TablesFacts
  BY DEF TablesInv
<1>1. /\ DOMAIN alerts = {} /\ DOMAIN incidents = {} /\ alertSeq = 0 /\ analyses = {}
      /\ sent = <<>> /\ pc = "idle" /\ \A q \in Keys : active[q] = NULL
      /\ \A s \in Severities : counts[s] = 0
  BY DEF Init
<1>2. \A s \in Severities : WithSeverity(s) = {}
  BY <1>1 DEF WithSeverity
<1>3. Cardinality({}) = 0
  BY FS_EmptySet
<1>4. CountsCount
  BY <1>1, <1>2, <1>3 DEF CountsCount
<1>5. 1..alertSeq = {} /\ DOMAIN sent = {}
  BY <1>1
<1> QED
  BY <1>1, <1>4, <1>5 DEF TablesFacts, RowsComplete, EntriesHaveRows, OpenRowsHaveEntries,
     NewRow, Firing, IncidentsFollow, AnalysesHaveRows, MessagesStored

\* A failed statement is never forgotten, and neither is a restart.
LEMMA Disturbed ==
  ASSUME TypeInv, [Next]_vars, Undisturbed'
  PROVE  Undisturbed /\ ~Restart
<1>1. run \in Nat /\ faults \in Nat
  BY DEF TypeInv, TypeOK
<1>2. ~Restart
  BY <1>1 DEF Restart, Undisturbed
<1>3. ASSUME Evaluate PROVE run' = run /\ (faults' = faults \/ faults' = faults + 1)
  BY <1>3 DEF Evaluate, StartEvaluate, Skip, Forget, ResolveAlert, ResolveIncident,
     AnnounceResolved, Fire, SaveIncident, Announce, Exec, storeVars
<1>4. ASSUME Analyze PROVE run' = run /\ (faults' = faults \/ faults' = faults + 1)
  BY <1>4 DEF Analyze, AnalysisUnavailable, UpdateAIResponse, SaveAnalysis,
     AnnounceAnalysis, Exec, storeVars
<1>5. ASSUME Refresh \/ Tick \/ UNCHANGED vars PROVE run' = run /\ faults' = faults
  BY <1>5 DEF Refresh, Tick, vars, storeVars
<1> QED
  BY <1>1, <1>2, <1>3, <1>4, <1>5 DEF Next, Undisturbed

LEMMA StepTables == TypeInv /\ NoticeInv /\ TablesInv /\ [Next]_vars => TablesInv'
<1> SUFFICES ASSUME TypeInv, NoticeInv, TablesInv, [Next]_vars, Undisturbed'
             PROVE  TablesFacts'
  BY DEF TablesInv
<1>1. TablesFacts /\ faults' = 0 /\ ~Restart
  BY Disturbed DEF TablesInv, Undisturbed
<1>2. CASE Analyze
  BY <1>1, <1>2, TablesUpdateAI, TablesSaveAnalysis, TablesAnalysisEnds DEF Analyze
<1>3. CASE Evaluate
  BY <1>1, <1>3, TablesStill, TablesForget, TablesResolveAlert, TablesResolveIncident,
     TablesAnnounceResolved, TablesFire, TablesSaveIncident, TablesAnnounce DEF Evaluate
<1>4. CASE Refresh \/ Tick \/ UNCHANGED vars
  BY <1>1, <1>4, TablesStill
<1> QED
  BY <1>1, <1>2, <1>3, <1>4 DEF Next

LEMMA Tables == Spec => [](TypeInv /\ NoticeInv /\ TablesInv)
<1>1. Init => TypeInv /\ NoticeInv /\ TablesInv
  BY InitType, NoticeRestart, InitTables
<1> QED
  BY <1>1, StepType, StepNotice, StepTables, PTL DEF Spec

\* As long as nothing failed, an incident row has its alert row and says the same,
\* for every interleaving of evaluate with the AI goroutines.
THEOREM OneStory == Spec => []TablesAgree
<1>1. TypeInv /\ NoticeInv /\ TablesInv => TablesAgree
  <2> SUFFICES ASSUME TypeInv, NoticeInv, TablesFacts, NEW i \in DOMAIN incidents
               PROVE  /\ i \in DOMAIN alerts
                      /\ incidents[i].severity = alerts[i].severity
                      /\ incidents[i].firedAt = alerts[i].firedAt
                      /\ \/ incidents[i].resolvedAt = alerts[i].resolvedAt
                         \/ pc = "resolveIncident" /\ active[k].id = i
    BY DEF TablesInv, TablesAgree
  <2> QED
    BY DEF TablesFacts, RowsComplete, IncidentsFollow
<1> QED
  BY <1>1, Tables, PTL

\* As long as nothing failed, a client that reads the tables on a message finds
\* what the message is about in both of them.
THEOREM StoredFirst == Spec => []StoredWhenAnnounced
<1>1. TablesInv => StoredWhenAnnounced
  BY DEF TablesInv, TablesFacts, MessagesStored, StoredMessage, StoredWhenAnnounced
<1> QED
  BY <1>1, Tables, PTL

\* As long as nothing failed, the open rows of both tables are the alerts that are
\* open in memory, up to the statement evaluate is at, and the counters count the
\* rows, however late the AI goroutines write.
THEOREM TablesMirror == Spec => []TablesMirrorEngine
<1>1. TypeInv /\ NoticeInv /\ TablesInv => TablesMirrorEngine
  <2> SUFFICES ASSUME TypeInv, NoticeInv, TablesFacts
               PROVE  /\ OpenRows(alerts) = OpenIds({"resolveIncident", "announceResolved"})
                      /\ OpenRows(incidents) = OpenIds({"announceResolved", "saveIncident"})
                      /\ \A s \in Severities :
                           counts[s] = Cardinality({i \in DOMAIN alerts : alerts[i].severity = s})
    BY DEF TablesInv, TablesMirrorEngine
  <2> DEFINE resolving == {"resolveIncident", "announceResolved"}
             behind == {"announceResolved", "saveIncident"}
  <2>1. \A s \in Severities :
          counts[s] = Cardinality({i \in DOMAIN alerts : alerts[i].severity = s})
    BY DEF TablesFacts, CountsCount, WithSeverity
  <2>2. /\ \A q \in Keys : active[q] # NULL =>
             /\ active[q].id \in DOMAIN alerts
             /\ \A p \in Keys : active[p] # NULL /\ active[p].id = active[q].id => p = q
        /\ pc # "idle" => k \in Keys
        /\ pc \in {"resolveIncident", "announceResolved", "saveIncident", "announce"}
              => active[k] # NULL /\ active[k].resolvedAt = NULL
        /\ NULL \notin Nat /\ at \in Nat
    BY EntryRow, TypeFacts, ScalarFacts DEF TablesFacts
  <2>3. OpenRows(alerts) = OpenIds(resolving)
    <3>1. ASSUME NEW i \in OpenRows(alerts) PROVE i \in OpenIds(resolving)
      <4>1. i \in DOMAIN alerts /\ alerts[i].resolvedAt = NULL
        BY <3>1 DEF OpenRows
      <4>2. PICK q \in Keys : active[q] # NULL /\ active[q].id = i
        BY <4>1 DEF TablesFacts, OpenRowsHaveEntries
      <4>3. ~(pc \in resolving /\ q = k) /\ Open(q)
        BY <2>2, <4>1, <4>2 DEF TablesFacts, EntriesHaveRows, Open
      <4> QED
        BY <4>2, <4>3 DEF OpenIds
    <3>2. ASSUME NEW i \in OpenIds(resolving) PROVE i \in OpenRows(alerts)
      <4>1. PICK q \in Keys : Open(q) /\ ~(pc \in resolving /\ q = k) /\ active[q].id = i
        BY <3>2 DEF OpenIds
      <4> QED
        BY <2>2, <4>1 DEF TablesFacts, EntriesHaveRows, Open, OpenRows
    <3> QED
      BY <3>1, <3>2
  <2>4. OpenRows(incidents) = OpenIds(behind)
    <3>1. ASSUME NEW i \in OpenRows(incidents) PROVE i \in OpenIds(behind)
      <4>1. i \in DOMAIN incidents /\ incidents[i].resolvedAt = NULL /\ i \in DOMAIN alerts
        BY <3>1 DEF OpenRows, TablesFacts, RowsComplete
      <4>2. CASE pc = "resolveIncident" /\ active[k].id = i
        BY <2>2, <4>2 DEF OpenIds, Open
      <4>3. CASE ~(pc = "resolveIncident" /\ active[k].id = i)
        <5>1. alerts[i].resolvedAt = NULL
          BY <4>1, <4>3 DEF TablesFacts, IncidentsFollow
        <5>2. PICK q \in Keys : active[q] # NULL /\ active[q].id = i
          BY <4>1, <5>1 DEF TablesFacts, OpenRowsHaveEntries
        <5>3. ~(pc \in behind /\ q = k) /\ Open(q)
          BY <2>2, <4>1, <5>1, <5>2 DEF TablesFacts, EntriesHaveRows, RowsComplete, Open
        <5> QED
          BY <5>2, <5>3 DEF OpenIds
      <4> QED
        BY <4>2, <4>3
    <3>2. ASSUME NEW i \in OpenIds(behind) PROVE i \in OpenRows(incidents)
      <4>1. PICK q \in Keys : Open(q) /\ ~(pc \in behind /\ q = k) /\ active[q].id = i
        BY <3>2 DEF OpenIds
      <4>2. active[q] # NULL /\ active[q].resolvedAt = NULL
        BY <4>1 DEF Open
      <4>3. i \in DOMAIN incidents
        BY <4>1, <4>2, EntryRow DEF TablesFacts
      <4>4. CASE pc = "resolveIncident" /\ q = k
        BY <4>1, <4>3, <4>4 DEF TablesFacts, IncidentsFollow, OpenRows
      <4>5. CASE ~(pc = "resolveIncident" /\ q = k)
        <5>1. alerts[i].resolvedAt = NULL
          BY <4>1, <4>2, <4>5 DEF TablesFacts, EntriesHaveRows
        <5>2. ~(pc = "resolveIncident" /\ active[k].id = i)
          BY <2>2, <4>1, <4>2, <4>5
        <5> QED
          BY <4>3, <5>1, <5>2 DEF TablesFacts, IncidentsFollow, OpenRows
      <4> QED
        BY <4>4, <4>5
    <3> QED
      BY <3>1, <3>2
  <2> QED
    BY <2>1, <2>3, <2>4
<1> QED
  BY <1>1, Tables, PTL

-----------------------------------------------------------------------------
(* The refinement of IncidentLifecycle, while nothing fails. *)

\* Every statement that leaves numbers, metrics and times alone leaves the
\* episodes alone.
LEMMA EpisodesKept ==
  ASSUME RowsKept
  PROVE  Episodes' = Episodes
BY DEF RowsKept, Episodes

\* The rows of a metric that may fire are resolved, and a cooldown ago.
LEMMA RowsOver ==
  ASSUME TypeInv, CooldownFacts, EntriesHaveRows, OpenRowsHaveEntries,
         pc = "check", active[k] = NULL \/ CooldownOver(k),
         NEW i \in DOMAIN alerts, alerts[i].metric = k
  PROVE  /\ alerts[i].resolvedAt # NULL
         /\ now >= alerts[i].resolvedAt + Cooldown
<1>1. k \in Keys /\ AheadOfEntries(k)
  BY CurrentKey DEF CooldownFacts, TypeInv
<1>2. alerts[i].resolvedAt # NULL
  <2> SUFFICES ASSUME alerts[i].resolvedAt = NULL PROVE FALSE
    OBVIOUS
  <2>1. PICK q \in Keys : active[q] # NULL /\ active[q].id = i
    BY DEF OpenRowsHaveEntries
  <2>2. q = k
    BY <2>1 DEF CooldownFacts, AheadOfEntries
  <2>3. active[k].resolvedAt = NULL
    BY <2>1, <2>2 DEF EntriesHaveRows
  <2> QED
    BY <2>1, <2>2, <2>3 DEF CooldownOver, Resolved
<1>3. EntryCoversRow(k, i)
  BY <1>2 DEF CooldownFacts
<1>4. CASE active[k] = NULL
  BY <1>2, <1>3, <1>4 DEF EntryCoversRow
<1>5. CASE active[k] # NULL /\ active[k].id = i
  BY <1>2, <1>3, <1>5 DEF EntryCoversRow, CooldownOver
<1>6. CASE active[k] # NULL /\ active[k].id # i
  <2>1. active[k].firedAt \in Nat /\ active[k].firedAt <= now
    BY <1>1, <1>6, EntryFacts DEF AheadOfEntries
  <2> QED
    BY <1>2, <1>3, <1>6, <2>1, RowFacts, ScalarFacts DEF EntryCoversRow
<1> QED
  BY <1>4, <1>5, <1>6

\* A firing begins an episode.
LEMMA FireBegins ==
  ASSUME TypeInv, CooldownFacts, TablesFacts, Fire, faults' = 0
  PROVE  Lifecycle!Begin(k)
<1> DEFINE id == alertSeq + 1
           row == [metric |-> k, severity |-> SeverityOf(k, m[k]), firedAt |-> now,
                   resolvedAt |-> NULL, analysis |-> NULL, run |-> run]
           episode == [metric |-> k, start |-> now, end |-> NULL]
<1>1. pc = "check" /\ (active[k] = NULL \/ CooldownOver(k)) /\ now' = now
  BY DEF Fire
<1>2. alertSeq \in Nat /\ DOMAIN alerts = 1..alertSeq
  BY ScalarFacts DEF TablesFacts, RowsComplete
<1>3. alerts' = Put(alerts, id, row)
  <2>1. alerts' = InsertAlert(alerts, id, row)
    BY Succeeds DEF Fire
  <2> QED
    BY <1>2, <2>1 DEF InsertAlert
<1>4. /\ DOMAIN alerts' = 1..id /\ alerts'[id] = row
      /\ \A i \in 1..alertSeq : alerts'[i] = alerts[i]
  <2> HIDE DEF row
  <2> QED
    BY <1>2, <1>3 DEF Put
<1>5. \A n \in Lifecycle!EpisodesOf(k) :
        Episodes[n].end # NULL /\ now >= Episodes[n].end + Cooldown
  BY <1>1, RowsOver DEF Lifecycle!EpisodesOf, Episodes, TablesFacts
<1>6. Episodes' = Append(Episodes, episode)
  <2>1. /\ DOMAIN Episodes = 1..alertSeq
        /\ Episodes = [i \in 1..alertSeq |-> Episodes[i]]
    BY <1>2 DEF Episodes
  <2>2. Len(Episodes) = alertSeq
    BY <1>2, <2>1
  <2>3. Append(Episodes, episode) =
          [i \in 1..id |-> IF i = id THEN episode ELSE Episodes[i]]
    <3> HIDE DEF episode
    <3> QED
      BY <1>2, <2>1, <2>2
  <2>4. Episodes' = [i \in 1..id |-> [metric |-> alerts'[i].metric,
                       start |-> alerts'[i].firedAt, end |-> alerts'[i].resolvedAt]]
    BY <1>4 DEF Episodes
  <2>5. \A i \in 1..alertSeq : Episodes[i] = [metric |-> alerts'[i].metric,
                       start |-> alerts'[i].firedAt, end |-> alerts'[i].resolvedAt]
    BY <1>2, <1>4 DEF Episodes
  <2>6. episode = [metric |-> alerts'[id].metric,
                   start |-> alerts'[id].firedAt, end |-> alerts'[id].resolvedAt]
    BY <1>4
  <2>7. \A i \in 1..id : i = id \/ i \in 1..alertSeq
    BY <1>2
  <2> HIDE DEF episode
  <2> QED
    BY <2>3, <2>4, <2>5, <2>6, <2>7
<1> QED
  BY <1>1, <1>5, <1>6 DEF Lifecycle!Begin

\* The first statement of a resolution ends one.
LEMMA ResolveFinishes ==
  ASSUME TypeInv, NoticeInv, TablesFacts, ResolveAlert, faults' = 0
  PROVE  \E n \in DOMAIN Episodes : Lifecycle!Finish(n)
<1> DEFINE id == active[k].id
<1>1. /\ pc = "check" /\ k \in Keys /\ active[k] # NULL
      /\ active[k].resolvedAt = NULL /\ now' = now
  BY CurrentKey DEF ResolveAlert, Open, TypeInv
<1>2. id \in DOMAIN alerts /\ alerts[id].resolvedAt = NULL
  BY <1>1, EntryRow DEF TablesFacts, Resolution
<1>3. alerts' = SetAlertResolved(alerts, id, now)
  BY Succeeds DEF ResolveAlert
<1>4. AlertsOK(alerts)
  BY TypeFacts
<1>5. /\ DOMAIN alerts' = DOMAIN alerts
      /\ \A i \in DOMAIN alerts :
           /\ alerts'[i].metric = alerts[i].metric
           /\ alerts'[i].firedAt = alerts[i].firedAt
           /\ alerts'[i].resolvedAt = IF i = id THEN now ELSE alerts[i].resolvedAt
  BY <1>3, <1>4, ResolvedRows
<1>6. Episodes' = [Episodes EXCEPT ![id].end = now]
  <2> DEFINE Ep(i) == [metric |-> alerts[i].metric, start |-> alerts[i].firedAt,
                       end |-> alerts[i].resolvedAt]
             Over(i) == [Ep(i) EXCEPT !.end = now]
  <2>1. Episodes = [i \in DOMAIN alerts |-> Ep(i)]
    BY DEF Episodes
  <2>2. Episodes' = [i \in DOMAIN alerts |-> IF i = id THEN Over(i) ELSE Ep(i)]
    BY <1>5 DEF Episodes
  <2> HIDE DEF Ep, Over, id
  <2>3. [Episodes EXCEPT ![id] = Over(id)] = Episodes'
    BY <1>2, <2>1, <2>2
  <2>4. Over(id) = [Episodes[id] EXCEPT !.end = now]
    BY <1>2, <2>1 DEF Over
  <2> QED
    BY <2>3, <2>4
<1>7. Episodes[id].end = NULL /\ id \in DOMAIN Episodes
  BY <1>2 DEF Episodes
<1>8. Lifecycle!Finish(id)
  BY <1>1, <1>6, <1>7 DEF Lifecycle!Finish
<1> QED
  BY <1>7, <1>8

\* Every other step leaves the episodes alone.
LEMMA StepLifecycle ==
  ASSUME TypeInv, NoticeInv, CooldownFacts, TablesFacts, [Next]_vars, Undisturbed'
  PROVE  [Lifecycle!Next]_Lifecycle!vars
<1>1. CASE Fire
  <2>1. k \in Keys
    BY <1>1, CurrentKey DEF Fire, TypeInv
  <2> QED
    BY <1>1, <2>1, FireBegins DEF Undisturbed, Lifecycle!Next
<1>2. CASE ResolveAlert
  BY <1>2, ResolveFinishes DEF Undisturbed, Lifecycle!Next
<1>3. CASE Tick
  <2>1. now' = now + 1 /\ alerts' = alerts
    BY <1>3 DEF Tick, storeVars
  <2>2. Episodes' = Episodes
    BY <2>1, EpisodesKept DEF RowsKept
  <2> QED
    BY <2>1, <2>2 DEF Lifecycle!Next, Lifecycle!Advance
<1>4. CASE Restart
  <2>1. run' = run + 1 /\ run \in Nat /\ run' = 0
    BY <1>4, ScalarFacts DEF Restart, Undisturbed
  <2> QED
    BY <2>1
<1>5. CASE Analyze
  <2>1. now' = now /\ (alerts' = alerts \/
                         \E id, a : alerts' = SetAlertAnalysis(alerts, id, a))
    BY <1>5 DEF Analyze, AnalysisUnavailable, UpdateAIResponse, SaveAnalysis,
                AnnounceAnalysis, storeVars
  <2>2. RowsKept
    BY <2>1, TypeFacts, AnalysedRows DEF RowsKept
  <2> QED
    BY <2>1, <2>2, EpisodesKept DEF Lifecycle!vars
<1>6. CASE ~(Fire \/ ResolveAlert \/ Tick \/ Restart \/ Analyze)
  <2>1. alerts' = alerts /\ now' = now
    BY <1>6 DEF Next, Evaluate, StartEvaluate, Skip, Forget, ResolveIncident,
       AnnounceResolved, SaveIncident, Announce, Refresh, vars, storeVars
  <2>2. Episodes' = Episodes
    BY <2>1, EpisodesKept DEF RowsKept
  <2> QED
    BY <2>1, <2>2 DEF Lifecycle!vars
<1> QED
  BY <1>1, <1>2, <1>3, <1>4, <1>5, <1>6

\* In the beginning there is no episode.
LEMMA InitLifecycle == Init => Lifecycle!Init
<1> SUFFICES ASSUME Init PROVE Episodes = <<>> /\ now = 0
  BY DEF Lifecycle!Init
<1>1. DOMAIN alerts = {} /\ now = 0
  BY DEF Init
<1>2. DOMAIN Episodes = 1..0 /\ Episodes = [i \in 1..0 |-> Episodes[i]]
  BY <1>1 DEF Episodes
<1>3. Episodes \in Seq({}) /\ Len(Episodes) = 0
  BY <1>2
<1> QED
  BY <1>1, <1>3, EmptySeq

\* As long as nothing fails, the engine implements IncidentLifecycle, for any
\* metrics, thresholds and cooldown: the episodes of a metric in the alerts table
\* never overlap, end once and are a cooldown apart, while evaluate and the AI
\* goroutines write the rows.
THEOREM Refinement == Spec /\ []Undisturbed => RefinesLifecycle
<1>1. Spec => []CooldownInv
  BY InitCooldown, StepCooldown, PTL DEF Spec
<1>2. ASSUME TypeInv, NoticeInv, TablesInv, CooldownInv, Undisturbed, Undisturbed',
             [Next]_vars
      PROVE  [Lifecycle!Next]_Lifecycle!vars
  BY <1>2, StepLifecycle DEF TablesInv, CooldownInv, Undisturbed
<1> QED
  BY <1>1, <1>2, Tables, InitLifecycle, PTL DEF Spec, RefinesLifecycle, Lifecycle!Spec
=============================================================================
