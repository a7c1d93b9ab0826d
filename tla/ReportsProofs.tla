---------------------------- MODULE ReportsProofs ----------------------------
(***************************************************************************)
(* Proofs about Reports, for any monitors, contents of the tables, lengths *)
(* of week, month and page, and number of failed statements.               *)
(***************************************************************************)
EXTENDS Reports, SequenceTheorems, TLAPS

-----------------------------------------------------------------------------
(* The inductive invariant. *)

\* The queries that read monitor_results, and what counts for them.
ResultQueries == Queries \ {"outages7"}

Latencies == {"latency7", "latencyPrev", "latency30", "hourly7"}

Span(query) ==
  IF query \in {"uptime30", "latency30", "daily", "bars"} THEN Month
  ELSE IF query = "latencyPrev" THEN 2 * Week ELSE Week

Counts(query, r, day) ==
  /\ Day(r.at) + Span(query) >= day
  /\ query = "latencyPrev" => Day(r.at) + Week < day
  /\ query = "bars" => Day(r.at) + Month > day
  /\ query \in Latencies => r.check = "up"
  /\ query = "keyword7" => r.check = "keyword"

\* An answer has what counted on its day, and lacks nothing that still does.
Exact(m, query) ==
  LET answer == found[<<m, query>>] IN
  /\ \A r \in answer.rows :
       /\ r \in results \cup erased /\ r.monitor = m
       /\ Counts(query, r, answer.day)
  /\ \A r \in results :
       r.monitor = m /\ Counts(query, r, answer.day) => r \in answer.rows

AnswersInv ==
  /\ \A p \in DOMAIN found : Day(Start) <= found[p].day /\ found[p].day <= Day(now)
  /\ \A m \in MonitorSet, query \in ResultQueries : Found(m, query) => Exact(m, query)

\* The latest result was in the table.
LatestInv ==
  \A i \in DOMAIN listed : \A r \in listed[i].latest :
    r \in results \cup erased /\ r.monitor = listed[i].monitor

\* The report asks one thing after another ...
Asked(i, j) == i < nth \/ (i = nth /\ j < step)

Asks(i, j) == <<listed[i].monitor, Script[kind][j]>>

Scripted == {"status", "digest", "ask"}

ScriptInv ==
  /\ \A i, j \in DOMAIN listed : listed[i].monitor = listed[j].monitor => i = j
  /\ stage = "listing" => kind \in Scripted
  /\ kind \notin Scripted \/ stage = "listing" => DOMAIN found = {}
  /\ stage = "querying" =>
       /\ kind \in Scripted /\ nth \in DOMAIN listed /\ step \in DOMAIN Script[kind]
       /\ \A i \in DOMAIN listed, j \in DOMAIN Script[kind] :
            Asked(i, j) => Asks(i, j) \in DOMAIN found
  /\ \A p \in DOMAIN found :
       \E i \in DOMAIN listed, j \in DOMAIN Script[kind] : Asked(i, j) /\ p = Asks(i, j)

\* ... so the days of the answers about one monitor are in the order of the script.
DaysInv ==
  kind \in Scripted =>
    \A m \in MonitorSet : \A i, j \in DOMAIN Script[kind] :
      LET p == <<m, Script[kind][i]>>
          q == <<m, Script[kind][j]>> IN
      i < j /\ p \in DOMAIN found /\ q \in DOMAIN found => found[p].day <= found[q].day

\* The pages so far are the beginning of the table, until that is emptied.
PagesInv ==
  /\ stage = "idle" => kind = "none"
  /\ kind = "incidents" => stage \in {"counting", "selecting", "next", "done", "refused"}
  /\ kind # "incidents" =>
       stage \notin {"counting", "selecting", "next"} /\ pages = <<>> /\ page = 1
  /\ monitors = {} \/ deleting > 2 => outages = <<>>
  /\ NewestFirst(outages) /\ NewestFirst(pages)
  /\ outages # <<>> =>
       /\ Len(pages) <= Len(outages)
       /\ \A i \in DOMAIN pages : pages[i] = outages[i]
       /\ stage \in {"counting", "selecting", "next"} =>
            Len(pages) = Smaller(Offset(page), Len(outages))
       /\ stage = "selecting" => total = Len(outages)
       /\ kind = "incidents" /\ stage = "done" => Len(pages) = Len(outages)

Inv == TypeOK /\ AnswersInv /\ LatestInv /\ ScriptInv /\ DaysInv /\ PagesInv

-----------------------------------------------------------------------------
(* Days, scripts and queries. *)

LEMMA Days ==
  /\ \A t \in Nat : Day(t) \in Nat
  /\ \A t, u \in Nat : t <= u => Day(t) <= Day(u)
BY DEF Day

\* What TimeAssumption says of a clock within the bounds.
LEMMA Clock ==
  ASSUME NEW t \in Start..MaxNow
  PROVE  /\ t \in Nat /\ Day(t) \in Nat /\ Day(Start) \in Nat
         /\ Day(Start) <= Day(t) /\ Day(t) + Week < Day(Start) + Month
         /\ Week \in Nat \ {0} /\ Month \in Nat
BY TimeAssumption, Days

\* The places of the queries in the scripts.
LEMMA Scripts ==
  ASSUME NEW kd \in Scripted
  PROVE  /\ Len(Script[kd]) \in Nat \ {0} /\ DOMAIN Script[kd] = 1..Len(Script[kd])
         /\ \A j \in DOMAIN Script[kd] : Script[kd][j] \in Queries
         /\ \A i, j \in DOMAIN Script[kd] : Script[kd][i] = Script[kd][j] => i = j
         /\ \A i, j \in DOMAIN Script[kd] :
              /\ Script[kd][i] = "latency7" /\ Script[kd][j] \in {"latencyPrev", "hourly7"}
                   => i < j
              /\ Script[kd][i] = "uptime7" /\ Script[kd][j] = "keyword7" => i < j
         /\ \A j \in DOMAIN Script[kd] :
              Script[kd][j] = "bars" =>
                \E i \in DOMAIN Script[kd] : i < j /\ Script[kd][i] = "daily"
<1>1. CASE kd = "status"
  <2>1. Script[kd] = <<"uptime7", "daily", "bars">>
    BY <1>1 DEF Script
  <2> QED
    BY <2>1 DEF Queries
<1>2. CASE kd = "digest"
  <2>1. Script[kd] = <<"uptime7", "latency7", "latencyPrev", "outages7", "keyword7">>
    BY <1>2 DEF Script
  <2> QED
    BY <2>1 DEF Queries
<1>3. CASE kd = "ask"
  <2>1. Script[kd] = <<"uptime7", "uptime30", "latency7", "latency30", "hourly7", "keyword7">>
    BY <1>3 DEF Script
  <2> QED
    BY <2>1 DEF Queries
<1> QED
  BY <1>1, <1>2, <1>3 DEF Scripted

\* A statement finds the results that count on its day.
LEMMA RowsCount ==
  ASSUME TypeOK, NEW m \in MonitorSet, NEW query \in ResultQueries \ {"bars"}
  PROVE  Rows(m, query) = {r \in results : r.monitor = m /\ Counts(query, r, Day(now))}
<1>1. /\ Week \in Nat \ {0} /\ Month \in Nat /\ Day(now) \in Nat
      /\ \A r \in results : Day(r.at) \in Nat
  <2>1. \A r \in results : r.at \in Nat
    BY DEF TypeOK, Result
  <2> QED
    BY <2>1, Clock, Days DEF TypeOK
<1> USE <1>1 DEF Rows, Since, InLast, Counts, Span, Latencies
<1>2. CASE query = "uptime7"
  BY <1>2 DEF GetUptimePercent
<1>3. CASE query = "uptime30"
  BY <1>3 DEF GetUptimePercent
<1>4. CASE query = "latency7"
  BY <1>4 DEF GetAvgLatencyRange
<1>5. CASE query = "latency30"
  BY <1>5 DEF GetAvgLatencyRange
<1>6. CASE query = "latencyPrev"
  BY <1>6 DEF GetAvgLatencyRange
<1>7. CASE query = "hourly7"
  BY <1>7 DEF GetHourlyLatency
<1>8. CASE query = "keyword7"
  BY <1>8 DEF GetKeywordFailureCount
<1>9. CASE query = "daily"
  BY <1>9 DEF DailyRows
<1> QED
  BY <1>2, <1>3, <1>4, <1>5, <1>6, <1>7, <1>8, <1>9 DEF ResultQueries, Queries

LEMMA RowsType ==
  ASSUME TypeOK, NEW m \in MonitorSet, NEW query \in Queries \ {"bars"}
  PROVE  Rows(m, query) \subseteq Result \cup Outage
<1>1. CASE query = "outages7"
  <2>1. Rows(m, query) = GetOutageCountRange(m, Week)
    BY <1>1 DEF Rows
  <2>2. \A i \in DOMAIN outages : outages[i] \in Outage
    BY DEF TypeOK
  <2> QED
    BY <2>1, <2>2 DEF GetOutageCountRange
<1>2. CASE query # "outages7"
  BY <1>2, RowsCount DEF ResultQueries, TypeOK
<1> QED
  BY <1>1, <1>2

-----------------------------------------------------------------------------
(* Type correctness. *)

\* Answers come one at a time.
LEMMA Kept ==
  ASSUME NEW p, NEW answer, Keep(p, answer)
  PROVE  /\ DOMAIN found' = DOMAIN found \cup {p} /\ found'[p] = answer
         /\ \A q \in DOMAIN found : q # p => found'[q] = found[q]
BY DEF Keep

LEMMA Listed ==
  ASSUME TypeOK
  PROVE  /\ Len(listed) \in Nat /\ DOMAIN listed = 1..Len(listed)
         /\ \A i \in DOMAIN listed :
              listed[i].monitor \in MonitorSet /\ listed[i].latest \subseteq Result
<1> DEFINE Entry == [monitor : MonitorSet, latest : SUBSET Result]
<1>1. listed \in Seq(Entry)
  BY DEF TypeOK
<1>2. \A e \in Entry : e.monitor \in MonitorSet /\ e.latest \subseteq Result
  OBVIOUS
<1> HIDE DEF Entry
<1>3. /\ Len(listed) \in Nat /\ DOMAIN listed = 1..Len(listed)
      /\ \A i \in DOMAIN listed : listed[i] \in Entry
  BY <1>1
<1> QED
  BY <1>2, <1>3

\* What a step of a report asks, and where it goes from there.
LEMMA QueryFacts ==
  ASSUME TypeOK, ScriptInv, Query
  PROVE  LET m == listed[nth].monitor
             query == Script[kind][step]
             daily == found[<<m, "daily">>] IN
         /\ stage = "querying" /\ kind \in Scripted /\ kind' = kind
         /\ nth \in DOMAIN listed /\ step \in DOMAIN Script[kind]
         /\ m \in MonitorSet /\ query \in Queries
         /\ query = "bars" => <<m, "daily">> \in DOMAIN found
         /\ \E answer :
              /\ Keep(<<m, query>>, answer)
              /\ \/ query = "bars" /\ answer = Answer(daily.ok, Bars(daily.rows))
                 \/ query # "bars" /\ answer = Answer(TRUE, Rows(m, query))
                 \/ query # "bars" /\ answer = Answer(FALSE, {})
         /\ nth' \in Nat /\ step' \in Nat
         /\ \A i \in DOMAIN listed, j \in DOMAIN Script[kind] :
              Asked(i, j)' <=> Asked(i, j) \/ (i = nth /\ j = step)
         /\ stage' \in {"querying", "done"}
         /\ stage' = "querying" => nth' \in DOMAIN listed /\ step' \in DOMAIN Script[kind]
<1> DEFINE m == listed[nth].monitor
           script == Script[kind]
           query == script[step]
           daily == found[<<m, "daily">>]
<1>1. /\ stage = "querying" /\ kind \in Scripted /\ kind' = kind
      /\ nth \in DOMAIN listed /\ step \in DOMAIN script
      /\ \A i \in DOMAIN listed, j \in DOMAIN script :
           Asked(i, j) => <<listed[i].monitor, script[j]>> \in DOMAIN found
  BY DEF Query, ScriptInv, Asks
<1>2. /\ Len(script) \in Nat \ {0} /\ DOMAIN script = 1..Len(script) /\ query \in Queries
      /\ query = "bars" => \E j \in DOMAIN script : j < step /\ script[j] = "daily"
  BY <1>1, Scripts
<1>3. /\ m \in MonitorSet /\ Len(listed) \in Nat /\ DOMAIN listed = 1..Len(listed)
  BY <1>1, Listed
<1>4. query = "bars" => <<m, "daily">> \in DOMAIN found
  BY <1>1, <1>2 DEF Asked
<1>5. /\ \/ query = "bars" /\ Keep(<<m, query>>, Answer(daily.ok, Bars(daily.rows)))
         \/ query # "bars" /\ Keep(<<m, query>>, Answer(TRUE, Rows(m, query)))
         \/ query # "bars" /\ Keep(<<m, query>>, Answer(FALSE, {}))
      /\ IF step < Len(script) THEN step' = step + 1 /\ nth' = nth
                               ELSE step' = 1 /\ nth' = nth + 1
      /\ stage' = IF nth = Len(listed) /\ step = Len(script) THEN "done" ELSE "querying"
  BY DEF Query
<1> HIDE DEF script
<1>6. \E answer :
        /\ Keep(<<m, query>>, answer)
        /\ \/ query = "bars" /\ answer = Answer(daily.ok, Bars(daily.rows))
           \/ query # "bars" /\ answer = Answer(TRUE, Rows(m, query))
           \/ query # "bars" /\ answer = Answer(FALSE, {})
  <2> HIDE DEF m, query, daily
  <2> QED
    BY <1>5
<1>7. \A i \in DOMAIN listed, j \in DOMAIN script :
        Asked(i, j)' <=> Asked(i, j) \/ (i = nth /\ j = step)
  BY <1>1, <1>2, <1>3, <1>5 DEF Asked
<1>8. nth' \in Nat /\ step' \in Nat /\ stage' \in {"querying", "done"}
  BY <1>1, <1>2, <1>3, <1>5
<1>9. stage' = "querying" => nth' \in DOMAIN listed /\ step' \in DOMAIN script
  BY <1>1, <1>2, <1>3, <1>5
<1> QED
  BY <1>1, <1>2, <1>3, <1>4, <1>6, <1>7, <1>8, <1>9 DEF script

LEMMA AnswerType ==
  ASSUME TypeOK, NEW ok \in BOOLEAN, NEW rows, rows \subseteq Result \cup Outage
  PROVE  Answer(ok, rows) \in [ok : BOOLEAN, rows : SUBSET (Result \cup Outage), day : Nat]
<1>1. Day(now) \in Nat
  BY Clock DEF TypeOK
<1>2. rows \in SUBSET (Result \cup Outage)
  OBVIOUS
<1> DEFINE All == Result \cup Outage
<1> HIDE DEF All
<1>3. rows \in SUBSET All => Answer(ok, rows) \in [ok : BOOLEAN, rows : SUBSET All, day : Nat]
  BY <1>1 DEF Answer
<1> QED
  BY <1>2, <1>3 DEF All

LEMMA FaultType ==
  ASSUME TypeOK, Fault \/ UNCHANGED faults
  PROVE  faults' \in 0..MaxFaults
BY BoundsAssumption DEF TypeOK, Fault

LEMMA QueryType ==
  ASSUME TypeOK, ScriptInv, Query
  PROVE  TypeOK'
<1> DEFINE m == listed[nth].monitor
           query == Script[kind][step]
           daily == found[<<m, "daily">>]
           Kind == [ok : BOOLEAN, rows : SUBSET (Result \cup Outage), day : Nat]
<1>1. /\ m \in MonitorSet /\ query \in Queries
      /\ query = "bars" => <<m, "daily">> \in DOMAIN found
      /\ nth' \in Nat /\ step' \in Nat /\ stage' \in {"querying", "done"}
  BY QueryFacts
<1>2. PICK answer :
        /\ Keep(<<m, query>>, answer)
        /\ \/ query = "bars" /\ answer = Answer(daily.ok, Bars(daily.rows))
           \/ query # "bars" /\ answer = Answer(TRUE, Rows(m, query))
           \/ query # "bars" /\ answer = Answer(FALSE, {})
  BY QueryFacts
<1>3. \A p \in DOMAIN found : found[p] \in Kind
  BY DEF TypeOK
<1>5. answer \in Kind
  <2>1. CASE query = "bars"
    <3>1. daily \in Kind
      BY <1>1, <1>3, <2>1
    <3>2. daily.ok \in BOOLEAN /\ daily.rows \subseteq Result \cup Outage
      <4> HIDE DEF daily
      <4> QED
        BY <3>1
    <3>3. Bars(daily.rows) \subseteq Result \cup Outage
      BY <3>2 DEF Bars
    <3>4. Answer(daily.ok, Bars(daily.rows)) \in Kind
      BY <3>2, <3>3, AnswerType
    <3> QED
      BY <1>2, <2>1, <3>4
  <2>2. CASE query # "bars"
    <3>1. Rows(m, query) \subseteq Result \cup Outage
      BY <1>1, <2>2, RowsType
    <3>2. Answer(TRUE, Rows(m, query)) \in Kind /\ Answer(FALSE, {}) \in Kind
      BY <3>1, AnswerType
    <3> HIDE DEF m, query, Kind
    <3> QED
      BY <1>2, <2>2, <3>2
  <2> QED
    BY <2>1, <2>2
<1>6. /\ DOMAIN found' = DOMAIN found \cup {<<m, query>>}
      /\ \A p \in DOMAIN found' : found'[p] \in Kind
  <2> HIDE DEF Kind, m, query, daily
  <2>1. Keep(<<m, query>>, answer)
    BY <1>2
  <2>2. /\ DOMAIN found' = DOMAIN found \cup {<<m, query>>} /\ found'[<<m, query>>] = answer
        /\ \A p \in DOMAIN found : p # <<m, query>> => found'[p] = found[p]
    BY <2>1, Kept
  <2> QED
    BY <1>3, <1>5, <2>2
<1>7. faults' \in 0..MaxFaults
  <2>1. Fault \/ UNCHANGED faults
    BY DEF Query
  <2> QED
    BY <2>1, FaultType
<1>8. UNCHANGED <<now, storeVars, deleting, kind, listed, pages, page, total>>
  BY DEF Query
<1>9. DOMAIN found' \subseteq MonitorSet \X Queries
  <2> HIDE DEF m, query
  <2> QED
    BY <1>1, <1>6 DEF TypeOK
<1> QED
  BY <1>1, <1>6, <1>7, <1>8, <1>9 DEF TypeOK, storeVars

LEMMA ListingType ==
  ASSUME TypeOK, GetMonitorsByUser
  PROVE  /\ TypeOK'
         /\ DOMAIN listed' = DOMAIN Shown
         /\ \A i \in DOMAIN Shown :
              listed'[i].monitor = Shown[i] /\ listed'[i].latest = Latest(Shown[i])
         /\ Distinct(Shown)
         /\ stage' = "querying" => 1 \in DOMAIN Shown
<1> DEFINE Entry == [monitor : MonitorSet, latest : SUBSET Result]
           entry(i) == [monitor |-> Shown[i], latest |-> Latest(Shown[i])]
<1>1. Shown \in Seq(MonitorSet) /\ Distinct(Shown)
  BY MonitorsAssumption DEF Shown, Distinct
<1>2. listed' = [i \in DOMAIN Shown |-> entry(i)]
  BY DEF GetMonitorsByUser
<1>3. /\ DOMAIN Shown = 1..Len(Shown) /\ Len(Shown) \in Nat
      /\ \A i \in DOMAIN Shown : Shown[i] \in MonitorSet
      /\ Shown # <<>> => 1 \in DOMAIN Shown
  <2>1. Shown # <<>> => Len(Shown) \in Nat \ {0}
    BY <1>1, EmptySeq
  <2> QED
    BY <1>1, <2>1
<1>4. \A i \in DOMAIN Shown :
        entry(i) \in Entry /\ entry(i).monitor = Shown[i] /\ entry(i).latest = Latest(Shown[i])
  <2>1. \A m : Latest(m) \subseteq Result
    BY DEF Latest, TypeOK
  <2> QED
    BY <1>3, <2>1
<1>5. listed' \in Seq(Entry)
  <2> HIDE DEF Entry, entry
  <2> QED
    BY <1>2, <1>3, <1>4
<1>6. stage' \in {"done", "querying"} /\ (stage' = "querying" => Shown # <<>>)
  BY DEF GetMonitorsByUser
<1>7. TypeOK'
  BY <1>5, <1>6 DEF TypeOK, GetMonitorsByUser, storeVars
<1>8. /\ DOMAIN listed' = DOMAIN Shown
      /\ \A i \in DOMAIN Shown :
           listed'[i].monitor = Shown[i] /\ listed'[i].latest = Latest(Shown[i])
  <2> HIDE DEF entry
  <2> QED
    BY <1>2, <1>4
<1> QED
  BY <1>1, <1>3, <1>6, <1>7, <1>8

\* A statement of DeleteAccount: rows go, into erased those of monitor_results.
LEMMA Deleting ==
  ASSUME TypeOK, DeleteAccount
  PROVE  /\ UNCHANGED <<now, report>>
         /\ account' \in BOOLEAN /\ monitors' \in {MonitorSet, {}}
         /\ deleting' \in 0..5 /\ faults' \in 0..MaxFaults
         /\ results' \subseteq results /\ results' \cup erased' = results \cup erased
         /\ erased \subseteq erased'
         /\ outages' = outages \/ outages' = <<>>
         /\ (monitors = {} \/ deleting > 2 => outages = <<>>) =>
              (monitors' = {} \/ deleting' > 2 => outages' = <<>>)
<1>1. UNCHANGED <<now, report>>
  BY DEF DeleteAccount
<1>2. CASE Fault /\ deleting' = 0 /\ UNCHANGED storeVars
  <2>1. faults' \in 0..MaxFaults
    BY <1>2, FaultType
  <2>2. UNCHANGED <<account, monitors, results, outages, erased>>
    BY <1>2 DEF storeVars
  <2> QED
    BY <1>1, <1>2, <2>1, <2>2 DEF TypeOK
<1>3. CASE /\ Deletes(deleting) /\ UNCHANGED faults
           /\ erased' = erased \cup (results \ results')
           /\ deleting' = (deleting + 1) % 6
  <2>1. deleting \in 1..5
    BY DEF DeleteAccount, TypeOK
  <2>2. /\ results' \subseteq results
        /\ outages' = IF deleting = 2 /\ monitors # {} THEN <<>> ELSE outages
        /\ monitors' = IF deleting = 3 THEN {} ELSE monitors
        /\ account' = IF deleting = 5 THEN FALSE ELSE account
    BY <1>3 DEF Deletes
  <2>3. deleting' = IF deleting = 5 THEN 0 ELSE deleting + 1
    BY <1>3, <2>1
  <2>4. results' \cup erased' = results \cup erased /\ erased \subseteq erased'
    BY <1>3, <2>2
  <2>5. deleting' \in 0..5 /\ faults' \in 0..MaxFaults
    BY <1>3, <2>1, <2>3, FaultType
  <2>6. account' \in BOOLEAN /\ monitors' \in {MonitorSet, {}}
    BY <2>2 DEF TypeOK
  <2>7. (monitors = {} \/ deleting > 2 => outages = <<>>) =>
          (monitors' = {} \/ deleting' > 2 => outages' = <<>>)
    <3>1. deleting' > 2 <=> deleting \in {2, 3, 4}
      BY <2>1, <2>3
    <3>2. monitors' = {} => monitors = {} \/ deleting = 3
      BY <2>2
    <3> QED
      BY <2>1, <2>2, <3>1, <3>2
  <2>8. outages' = outages \/ outages' = <<>>
    BY <2>2
  <2> QED
    BY <1>1, <2>2, <2>4, <2>5, <2>6, <2>7, <2>8
<1> QED
  BY <1>2, <1>3 DEF DeleteAccount

LEMMA SelectType ==
  ASSUME TypeOK, SelectPage
  PROVE  TypeOK'
<1> DEFINE rows == UsersOutages
           first == Offset(page) + 1
           last == Smaller(Offset(page) + PageSize, Len(rows))
<1>1. rows \in Seq(Outage) /\ Len(rows) \in Nat
  BY DEF UsersOutages, TypeOK
<1>2. Offset(page) \in Nat
  <2> DEFINE p == page - 1
  <2>1. p \in Nat /\ PageSize \in Nat
    BY BoundsAssumption DEF TypeOK
  <2>2. p * PageSize \in Nat
    <3> HIDE DEF p
    <3> QED
      BY <2>1
  <2> QED
    BY <2>2 DEF Offset
<1>3. last \in Nat /\ first \in Nat /\ first >= 1 /\ last <= Len(rows)
  BY <1>1, <1>2, BoundsAssumption DEF Smaller
<1>4. SubSeq(rows, first, last) \in Seq(Outage)
  <2> HIDE DEF rows, first, last
  <2> QED
    BY <1>1, <1>3, SubSeqProperties
<1>5. pages' = pages \o SubSeq(rows, first, last)
  BY DEF SelectPage
<1>6. pages' \in Seq(Outage)
  <2> HIDE DEF rows, first, last
  <2> QED
    BY <1>4, <1>5 DEF TypeOK
<1> QED
  BY <1>6 DEF SelectPage, TypeOK, storeVars

LEMMA StepType ==
  ASSUME TypeOK, ScriptInv, [Next]_vars
  PROVE  TypeOK'
<1>1. CASE FindUser
  BY <1>1 DEF FindUser, TypeOK, storeVars
<1>2. CASE GetMonitorsByUser
  BY <1>2, ListingType
<1>3. CASE Query
  BY <1>3, QueryType
<1>4. CASE CountOutages
  <2>1. Len(UsersOutages) \in Nat
    BY DEF UsersOutages, TypeOK
  <2> QED
    BY <1>4, <2>1 DEF CountOutages, TypeOK, storeVars
<1>5. CASE SelectPage
  BY <1>5, SelectType
<1>6. CASE NextPage
  BY <1>6 DEF NextPage, TypeOK, storeVars
<1>7. CASE Refuse
  <2>1. faults' \in 0..MaxFaults
    BY <1>7, FaultType DEF Refuse
  <2> QED
    BY <1>7, <2>1 DEF Refuse, TypeOK, storeVars
<1>8. CASE Tick
  <2>1. now' \in Start..MaxNow
    BY <1>8, TimeAssumption DEF Tick, TypeOK
  <2> QED
    BY <1>8, <2>1 DEF Tick, TypeOK, storeVars, report
<1>9. CASE AccountDelete
  BY <1>9 DEF AccountDelete, TypeOK, storeVars, report
<1>10. CASE DeleteAccount
  <2>1. outages' \in Seq(Outage) /\ results' \subseteq Result /\ erased' \subseteq Result
    <3>1. /\ results' \subseteq results /\ results' \cup erased' = results \cup erased
          /\ outages' = outages \/ outages' = <<>>
      BY <1>10, Deleting
    <3>2. <<>> \in Seq(Outage)
      BY EmptySeq
    <3>3. outages' \in Seq(Outage)
      BY <3>1, <3>2 DEF TypeOK
    <3>4. results \cup erased \subseteq Result
      BY DEF TypeOK
    <3>5. results' \cup erased' \subseteq Result
      BY <3>1, <3>4
    <3> QED
      BY <3>3, <3>5
  <2>2. /\ UNCHANGED <<now, report>>
        /\ account' \in BOOLEAN /\ monitors' \in {MonitorSet, {}}
        /\ deleting' \in 0..5 /\ faults' \in 0..MaxFaults
    BY <1>10, Deleting
  <2>3. UNCHANGED <<now, kind, stage, nth, step, listed, found, pages, page, total>>
    BY <2>2 DEF report
  <2> QED
    BY <2>1, <2>2, <2>3 DEF TypeOK
<1>11. CASE UNCHANGED vars
  BY <1>11 DEF vars, TypeOK, storeVars, report
<1> QED
  BY <1>1, <1>2, <1>3, <1>4, <1>5, <1>6, <1>7, <1>8, <1>9, <1>10, <1>11 DEF Next

-----------------------------------------------------------------------------
(* The other parts of the invariant. *)

\* While no answer comes, the tables may lose rows and the clock may go on.
LEMMA AnswersStay ==
  ASSUME AnswersInv, UNCHANGED found, Day(now) \in Nat, Day(now)' \in Nat,
         Day(now) <= Day(now)', \A p \in DOMAIN found : found[p].day \in Nat,
         results' \subseteq results, results' \cup erased' = results \cup erased
  PROVE  AnswersInv'
<1>1. \A p \in DOMAIN found' : Day(Start) <= found'[p].day /\ found'[p].day <= Day(now)'
  BY DEF AnswersInv
<1>2. ASSUME NEW m \in MonitorSet, NEW query \in ResultQueries, Found(m, query)'
      PROVE  Exact(m, query)'
  <2>1. Exact(m, query)
    BY <1>2 DEF AnswersInv, Found
  <2> QED
    BY <2>1 DEF Exact
<1> QED
  BY <1>1, <1>2 DEF AnswersInv

\* Every step but an answer.
LEMMA Elsewhere ==
  ASSUME TypeOK, [Next]_vars
  PROVE  /\ Query \/ UNCHANGED found
         /\ results' \subseteq results /\ results' \cup erased' = results \cup erased
         /\ erased \subseteq erased'
         /\ now \in Start..MaxNow /\ now' \in Start..MaxNow /\ now <= now'
<1>1. CASE DeleteAccount
  <2>1. /\ UNCHANGED <<now, report>> /\ now \in Start..MaxNow
        /\ results' \subseteq results /\ results' \cup erased' = results \cup erased
        /\ erased \subseteq erased'
    BY <1>1, Deleting DEF TypeOK
  <2> QED
    BY <2>1, TimeAssumption DEF report
<1>2. CASE Tick
  BY <1>2, TimeAssumption DEF Tick, TypeOK, storeVars, report
<1>3. CASE Query
  <2>1. UNCHANGED <<now, results, erased>>
    BY <1>3 DEF Query, storeVars
  <2> QED
    BY <1>3, <2>1, TimeAssumption DEF TypeOK
<1>4. CASE ~(DeleteAccount \/ Tick \/ Query)
  <2>1. UNCHANGED <<now, results, erased, found>>
    BY <1>4 DEF Next, FindUser, GetMonitorsByUser, CountOutages, SelectPage, NextPage, Refuse,
                AccountDelete, vars, storeVars, report
  <2> QED
    BY <2>1, TimeAssumption DEF TypeOK
<1> QED
  BY <1>1, <1>2, <1>3, <1>4

\* The type of an answer.
LEMMA FoundType ==
  ASSUME TypeOK, NEW p \in DOMAIN found
  PROVE  /\ found[p].ok \in BOOLEAN /\ found[p].day \in Nat
         /\ found[p].rows \subseteq Result \cup Outage
<1> DEFINE Kind == [ok : BOOLEAN, rows : SUBSET (Result \cup Outage), day : Nat]
<1>1. found[p] \in Kind
  BY DEF TypeOK
<1>2. \A a \in Kind : a.ok \in BOOLEAN /\ a.day \in Nat /\ a.rows \subseteq Result \cup Outage
  OBVIOUS
<1> HIDE DEF Kind
<1> QED
  BY <1>1, <1>2

LEMMA DayType ==
  ASSUME TypeOK
  PROVE  /\ Day(now) \in Nat /\ Month \in Nat /\ Week \in Nat
         /\ \A r \in results : Day(r.at) \in Nat
         /\ \A r \in erased : Day(r.at) \in Nat
<1>1. \A r \in results \cup erased : r.at \in Nat
  BY DEF TypeOK, Result
<1> QED
  BY <1>1, Clock, Days DEF TypeOK

\* The bars lack nothing, because a shown day lies within those that were read.
LEMMA BarsExact ==
  ASSUME TypeOK, AnswersInv, NEW m \in MonitorSet, Found(m, "daily")
  PROVE  LET rows == Bars(found[<<m, "daily">>].rows) IN
         /\ \A r \in rows : /\ r \in results \cup erased /\ r.monitor = m
                            /\ Counts("bars", r, Day(now))
         /\ \A r \in results :
              r.monitor = m /\ Counts("bars", r, Day(now)) => r \in rows
<1> DEFINE daily == found[<<m, "daily">>]
<1>1. <<m, "daily">> \in DOMAIN found
  BY DEF Found
<1>2. daily.day \in Nat /\ daily.day <= Day(now)
  BY <1>1, FoundType DEF AnswersInv
<1>3. Exact(m, "daily")
  BY DEF AnswersInv, ResultQueries, Queries
<1>4. \A r \in results \cup erased, day \in Nat :
        /\ Counts("daily", r, day) <=> Day(r.at) + Month >= day
        /\ Counts("bars", r, day) <=> Day(r.at) + Month > day
  BY DayType DEF Counts, Span, Latencies
<1>5. /\ \A r \in daily.rows : r \in results \cup erased /\ r.monitor = m
      /\ \A r \in results :
           r.monitor = m /\ Counts("daily", r, daily.day) => r \in daily.rows
  BY <1>3 DEF Exact
<1> HIDE DEF daily
<1>6. \A r \in Bars(daily.rows) :
        r \in results \cup erased /\ r.monitor = m /\ Counts("bars", r, Day(now))
  BY <1>4, <1>5, DayType DEF Bars
<1>7. \A r \in results :
        r.monitor = m /\ Counts("bars", r, Day(now)) => r \in Bars(daily.rows)
  BY <1>2, <1>4, <1>5, DayType DEF Bars
<1> QED
  BY <1>6, <1>7 DEF daily

LEMMA QueryAnswers ==
  ASSUME TypeOK, AnswersInv, ScriptInv, Query
  PROVE  AnswersInv'
<1> DEFINE m == listed[nth].monitor
           query == Script[kind][step]
           daily == found[<<m, "daily">>]
           p == <<m, query>>
<1>1. /\ m \in MonitorSet /\ query \in Queries
      /\ query = "bars" => <<m, "daily">> \in DOMAIN found
  BY QueryFacts
<1>2. PICK answer :
        /\ Keep(p, answer)
        /\ \/ query = "bars" /\ answer = Answer(daily.ok, Bars(daily.rows))
           \/ query # "bars" /\ answer = Answer(TRUE, Rows(m, query))
           \/ query # "bars" /\ answer = Answer(FALSE, {})
  BY QueryFacts
<1>3. /\ DOMAIN found' = DOMAIN found \cup {p} /\ found'[p] = answer
      /\ \A q \in DOMAIN found : q # p => found'[q] = found[q]
  BY <1>2, Kept
<1>4. UNCHANGED <<now, results, erased>>
  BY DEF Query, storeVars
<1>5. answer.day = Day(now)
  BY <1>2 DEF Answer
<1>6. /\ \A q \in DOMAIN found : Day(Start) <= found[q].day /\ found[q].day <= Day(now)
      /\ Day(Start) <= Day(now) /\ Day(now) \in Nat
  BY Clock DEF AnswersInv, TypeOK
<1>7. \A q \in DOMAIN found' : Day(Start) <= found'[q].day /\ found'[q].day <= Day(now)'
  <2> HIDE DEF p, m, query, daily
  <2> QED
    BY <1>3, <1>4, <1>5, <1>6
<1>8. ASSUME NEW n \in MonitorSet, NEW other \in ResultQueries, Found(n, other)'
      PROVE  Exact(n, other)'
  <2>1. CASE <<n, other>> = p
    <3>1. n = m /\ other = query /\ answer.ok
      BY <1>3, <1>8, <2>1 DEF Found
    <3>2. /\ \A r \in answer.rows :
               r \in results \cup erased /\ r.monitor = m /\ Counts(query, r, Day(now))
          /\ \A r \in results :
               r.monitor = m /\ Counts(query, r, Day(now)) => r \in answer.rows
      <4>1. CASE query = "bars"
        <5>1. answer = Answer(daily.ok, Bars(daily.rows))
          BY <1>2, <4>1
        <5>2. answer.ok = daily.ok /\ answer.rows = Bars(daily.rows)
          BY <5>1 DEF Answer
        <5>3. Found(m, "daily")
          BY <1>1, <3>1, <4>1, <5>2 DEF Found
        <5> QED
          BY <1>1, <4>1, <5>2, <5>3, BarsExact
      <4>2. CASE query # "bars"
        <5>1. answer = Answer(TRUE, Rows(m, query)) \/ answer = Answer(FALSE, {})
          BY <1>2, <4>2
        <5>2. answer.rows = Rows(m, query)
          BY <3>1, <5>1 DEF Answer
        <5>3. query \in ResultQueries \ {"bars"}
          BY <1>8, <3>1, <4>2
        <5>4. Rows(m, query) = {r \in results : r.monitor = m /\ Counts(query, r, Day(now))}
          BY <1>1, <5>3, RowsCount
        <5> HIDE DEF m, query
        <5> QED
          BY <5>2, <5>4
      <4> QED
        BY <4>1, <4>2
    <3> HIDE DEF m, query, daily, p
    <3>3. found'[<<n, other>>] = answer
      BY <1>3, <2>1
    <3>4. Exact(n, other)' <=>
            /\ \A r \in answer.rows :
                 r \in results \cup erased /\ r.monitor = n /\ Counts(other, r, answer.day)
            /\ \A r \in results :
                 r.monitor = n /\ Counts(other, r, answer.day) => r \in answer.rows
      BY <1>4, <3>3 DEF Exact
    <3> QED
      BY <1>5, <3>1, <3>2, <3>4
  <2>2. CASE <<n, other>> # p
    <3> HIDE DEF p, m, query, daily
    <3>1. <<n, other>> \in DOMAIN found /\ found'[<<n, other>>] = found[<<n, other>>]
      BY <1>3, <1>8, <2>2 DEF Found
    <3>2. Found(n, other)
      BY <1>8, <3>1 DEF Found
    <3>3. Exact(n, other)
      BY <3>2 DEF AnswersInv
    <3> QED
      BY <1>4, <3>1, <3>3 DEF Exact
  <2> QED
    BY <2>1, <2>2
<1> QED
  BY <1>7, <1>8 DEF AnswersInv

LEMMA StepAnswers ==
  ASSUME TypeOK, AnswersInv, ScriptInv, [Next]_vars
  PROVE  AnswersInv'
<1>1. CASE Query
  BY <1>1, QueryAnswers
<1>2. CASE ~Query
  <2>1. /\ UNCHANGED found
        /\ results' \subseteq results /\ results' \cup erased' = results \cup erased
        /\ now \in Start..MaxNow /\ now' \in Start..MaxNow /\ now <= now'
    BY <1>2, Elsewhere
  <2>2. Day(now) \in Nat /\ Day(now') \in Nat /\ Day(now) <= Day(now')
    BY <2>1, Clock, Days
  <2>3. Day(now)' = Day(now')
    BY DEF Day
  <2>4. \A p \in DOMAIN found : found[p].day \in Nat
    BY FoundType
  <2> QED
    BY <2>1, <2>2, <2>3, <2>4, AnswersStay
<1> QED
  BY <1>1, <1>2

LEMMA StepLatest ==
  ASSUME TypeOK, LatestInv, [Next]_vars
  PROVE  LatestInv'
<1>1. results' \cup erased' = results \cup erased
  BY Elsewhere
<1>2. CASE GetMonitorsByUser
  <2>1. /\ DOMAIN listed' = DOMAIN Shown
        /\ \A i \in DOMAIN Shown :
             listed'[i].monitor = Shown[i] /\ listed'[i].latest = Latest(Shown[i])
    BY <1>2, ListingType
  <2>2. \A i \in DOMAIN Shown : \A r \in Latest(Shown[i]) :
          r \in results \cup erased /\ r.monitor = Shown[i]
    BY DEF Latest
  <2> QED
    BY <1>1, <2>1, <2>2 DEF LatestInv
<1>3. CASE UNCHANGED listed
  BY <1>1, <1>3 DEF LatestInv
<1>4. GetMonitorsByUser \/ UNCHANGED listed
  BY DEF Next, FindUser, Query, CountOutages, SelectPage, NextPage, Refuse, Tick, AccountDelete,
         DeleteAccount, vars, report
<1> QED
  BY <1>2, <1>3, <1>4

\* Steps that do not touch the report leave what is said of it.
LEMMA Untouched ==
  ASSUME UNCHANGED report
  PROVE  /\ ScriptInv => ScriptInv'
         /\ DaysInv => DaysInv'
<1>1. UNCHANGED <<kind, stage, nth, step, listed, found>>
  BY DEF report
<1>2. ScriptInv => ScriptInv'
  BY <1>1 DEF ScriptInv, Asked, Asks
<1>3. DaysInv => DaysInv'
  BY <1>1 DEF DaysInv
<1> QED
  BY <1>2, <1>3

LEMMA QueryScript ==
  ASSUME TypeOK, ScriptInv, Query
  PROVE  ScriptInv'
<1> DEFINE p == Asks(nth, step)
<1>1. /\ kind \in Scripted /\ kind' = kind
      /\ nth \in DOMAIN listed /\ step \in DOMAIN Script[kind]
      /\ \A i \in DOMAIN listed, j \in DOMAIN Script[kind] :
           Asked(i, j)' <=> Asked(i, j) \/ (i = nth /\ j = step)
      /\ stage = "querying" /\ stage' \in {"querying", "done"}
      /\ stage' = "querying" => nth' \in DOMAIN listed /\ step' \in DOMAIN Script[kind]
  BY QueryFacts
<1>2. DOMAIN found' = DOMAIN found \cup {p}
  <2>1. PICK answer : Keep(p, answer)
    BY QueryFacts DEF Asks
  <2> HIDE DEF p
  <2> QED
    BY <2>1, Kept
<1>3. listed' = listed
  BY DEF Query
<1>4. \A i, j : Asks(i, j)' = Asks(i, j)
  BY <1>1, <1>3 DEF Asks
<1>5. ASSUME NEW i \in DOMAIN listed, NEW j \in DOMAIN Script[kind], Asked(i, j)'
      PROVE  Asks(i, j) \in DOMAIN found'
  <2>1. CASE Asked(i, j)
    BY <1>1, <1>2, <2>1 DEF ScriptInv
  <2>2. CASE i = nth /\ j = step
    BY <1>2, <2>2
  <2> QED
    BY <1>1, <1>5, <2>1, <2>2
<1>6. ASSUME NEW q \in DOMAIN found'
      PROVE  \E i \in DOMAIN listed, j \in DOMAIN Script[kind] : Asked(i, j)' /\ q = Asks(i, j)
  <2>1. CASE q = p
    BY <1>1, <2>1
  <2>2. CASE q \in DOMAIN found
    <3>1. PICK i \in DOMAIN listed, j \in DOMAIN Script[kind] : Asked(i, j) /\ q = Asks(i, j)
      BY <2>2 DEF ScriptInv
    <3> QED
      BY <1>1, <3>1
  <2> HIDE DEF p
  <2> QED
    BY <1>2, <2>1, <2>2
<1>7. \A i, j \in DOMAIN listed : listed[i].monitor = listed[j].monitor => i = j
  BY DEF ScriptInv
<1> HIDE DEF p
<1> QED
  BY <1>1, <1>3, <1>4, <1>5, <1>6, <1>7 DEF ScriptInv

LEMMA ListingScript ==
  ASSUME TypeOK, ScriptInv, GetMonitorsByUser
  PROVE  ScriptInv'
<1>1. /\ DOMAIN listed' = DOMAIN Shown
      /\ \A i \in DOMAIN Shown : listed'[i].monitor = Shown[i]
      /\ Distinct(Shown)
      /\ stage' = "querying" => 1 \in DOMAIN Shown
      /\ Shown \in Seq(MonitorSet)
  BY ListingType, MonitorsAssumption DEF Shown
<1>2. /\ stage = "listing" /\ nth' = 1 /\ step' = 1 /\ UNCHANGED <<kind, found>>
      /\ stage' \in {"done", "querying"}
  BY DEF GetMonitorsByUser
<1>3. kind \in Scripted /\ DOMAIN found = {}
  BY <1>2 DEF ScriptInv
<1>4. 1 \in DOMAIN Script[kind] /\ \A j \in DOMAIN Script[kind] : j \in Nat /\ j >= 1
  BY <1>3, Scripts
<1>5. \A i \in DOMAIN listed' : i \in Nat /\ i >= 1
  BY <1>1
<1>6. \A i \in DOMAIN listed', j \in DOMAIN Script[kind] : ~Asked(i, j)'
  BY <1>2, <1>4, <1>5 DEF Asked
<1>7. \A i, j \in DOMAIN listed' : listed'[i].monitor = listed'[j].monitor => i = j
  BY <1>1 DEF Distinct
<1> QED
  BY <1>1, <1>2, <1>3, <1>4, <1>6, <1>7 DEF ScriptInv

LEMMA StepScript ==
  ASSUME TypeOK, ScriptInv, PagesInv, [Next]_vars
  PROVE  ScriptInv'
<1>1. CASE FindUser
  <2>1. /\ stage' \in {"counting", "listing"} /\ kind' \in Scripted \cup {"incidents"}
        /\ stage' = "listing" => kind' # "incidents"
        /\ stage = "idle" /\ UNCHANGED <<nth, step, listed, found>>
    BY <1>1 DEF FindUser, Scripted
  <2>2. DOMAIN found = {}
    BY <2>1 DEF PagesInv, ScriptInv, Scripted
  <2>3. kind' \in Scripted \/ stage' = "counting"
    BY <2>1
  <2> QED
    BY <2>1, <2>2, <2>3 DEF ScriptInv
<1>2. CASE GetMonitorsByUser
  BY <1>2, ListingScript
<1>3. CASE Query
  BY <1>3, QueryScript
<1>4. CASE CountOutages \/ SelectPage \/ NextPage \/ Refuse
  <2>1. /\ stage' \in {"selecting", "next", "done", "counting", "refused"}
        /\ UNCHANGED <<kind, nth, step, listed, found>>
    BY <1>4 DEF CountOutages, SelectPage, NextPage, Refuse
  <2>2. \A i, j : (Asks(i, j)' = Asks(i, j)) /\ (Asked(i, j)' <=> Asked(i, j))
    BY <2>1 DEF Asks, Asked
  <2> QED
    BY <2>1, <2>2 DEF ScriptInv
<1>5. CASE UNCHANGED report
  BY <1>5, Untouched
<1>6. CASE Tick \/ AccountDelete \/ DeleteAccount \/ UNCHANGED vars
  BY <1>5, <1>6 DEF Tick, AccountDelete, DeleteAccount, vars
<1> QED
  BY <1>1, <1>2, <1>3, <1>4, <1>6 DEF Next

\* What is asked now has not been asked before, nor what comes after it.
LEMMA NotYet ==
  ASSUME TypeOK, ScriptInv, stage = "querying",
         NEW j \in DOMAIN Script[kind], step <= j
  PROVE  <<listed[nth].monitor, Script[kind][j]>> \notin DOMAIN found
<1>1. SUFFICES ASSUME <<listed[nth].monitor, Script[kind][j]>> \in DOMAIN found
               PROVE  FALSE
  OBVIOUS
<1>2. kind \in Scripted /\ nth \in DOMAIN listed /\ step \in DOMAIN Script[kind]
  BY DEF ScriptInv
<1>3. PICK i \in DOMAIN listed, k \in DOMAIN Script[kind] :
        Asked(i, k) /\ <<listed[nth].monitor, Script[kind][j]>> = Asks(i, k)
  BY <1>1 DEF ScriptInv
<1>4. listed[i].monitor = listed[nth].monitor /\ Script[kind][k] = Script[kind][j]
  BY <1>3 DEF Asks
<1>5. i = nth /\ k = j
  BY <1>2, <1>4, Scripts DEF ScriptInv
<1>6. nth \in Nat /\ step \in Nat /\ j \in Nat
  BY <1>2, Scripts DEF TypeOK
<1> QED
  BY <1>3, <1>5, <1>6 DEF Asked

LEMMA QueryDays ==
  ASSUME TypeOK, AnswersInv, ScriptInv, DaysInv, Query
  PROVE  DaysInv'
<1> DEFINE m == listed[nth].monitor
           query == Script[kind][step]
           new == <<m, query>>
<1>1. /\ stage = "querying" /\ kind \in Scripted /\ kind' = kind
      /\ step \in DOMAIN Script[kind]
  BY QueryFacts
<1>2. PICK answer : Keep(new, answer) /\ answer.day = Day(now)
  BY QueryFacts DEF Answer
<1>3. /\ DOMAIN found' = DOMAIN found \cup {new} /\ found'[new] = answer
      /\ \A q \in DOMAIN found : q # new => found'[q] = found[q]
  BY <1>2, Kept
<1>4. /\ DOMAIN Script[kind] \subseteq Nat
      /\ \A i, j \in DOMAIN Script[kind] : Script[kind][i] = Script[kind][j] => i = j
  BY <1>1, Scripts
<1>5. SUFFICES ASSUME NEW n \in MonitorSet,
                      NEW i \in DOMAIN Script[kind], NEW j \in DOMAIN Script[kind], i < j,
                      <<n, Script[kind][i]>> \in DOMAIN found',
                      <<n, Script[kind][j]>> \in DOMAIN found'
               PROVE  found'[<<n, Script[kind][i]>>].day <= found'[<<n, Script[kind][j]>>].day
  BY <1>1 DEF DaysInv
<1> DEFINE p == <<n, Script[kind][i]>>
           q == <<n, Script[kind][j]>>
<1>6. p = new => n = m /\ i = step
  BY <1>1, <1>4
<1>7. q = new => n = m /\ j = step
  BY <1>1, <1>4
<1>8. CASE p = new
  <2>1. step <= j
    BY <1>4, <1>5, <1>6, <1>8
  <2>2. <<m, Script[kind][j]>> \notin DOMAIN found
    BY <1>1, <2>1, NotYet
  <2>3. q \notin DOMAIN found
    BY <1>6, <1>8, <2>2
  <2>4. q = new
    BY <1>3, <1>5, <2>3
  <2> QED
    BY <1>4, <1>5, <1>6, <1>7, <1>8, <2>4
<1>9. CASE p # new /\ q = new
  <2> HIDE DEF new
  <2>1. p \in DOMAIN found /\ found'[p] = found[p]
    BY <1>3, <1>5, <1>9
  <2>2. found[p].day <= Day(now)
    BY <2>1 DEF AnswersInv
  <2> QED
    BY <1>2, <1>3, <1>9, <2>1, <2>2
<1>10. CASE p # new /\ q # new
  <2> HIDE DEF new
  <2>1. p \in DOMAIN found /\ found'[p] = found[p] /\ q \in DOMAIN found /\ found'[q] = found[q]
    BY <1>3, <1>5, <1>10
  <2> QED
    BY <1>1, <1>5, <2>1 DEF DaysInv
<1> QED
  BY <1>8, <1>9, <1>10

LEMMA StepDays ==
  ASSUME TypeOK, AnswersInv, ScriptInv, DaysInv, PagesInv, [Next]_vars
  PROVE  DaysInv'
<1>1. CASE FindUser
  <2>1. DOMAIN found' = {}
    BY <1>1 DEF FindUser, PagesInv, ScriptInv, Scripted
  <2> QED
    BY <2>1 DEF DaysInv
<1>2. CASE Query
  BY <1>2, QueryDays
<1>3. CASE UNCHANGED <<kind, found>>
  BY <1>3 DEF DaysInv
<1>4. FindUser \/ Query \/ UNCHANGED <<kind, found>>
  BY DEF Next, GetMonitorsByUser, CountOutages, SelectPage, NextPage, Refuse, Tick, AccountDelete,
         DeleteAccount, vars, report
<1> QED
  BY <1>1, <1>2, <1>3, <1>4

-----------------------------------------------------------------------------
(* The pages of the list of incidents. *)

\* Where pages begin.
LEMMA Offsets ==
  ASSUME NEW p \in Nat \ {0}
  PROVE  /\ Offset(p) \in Nat /\ Offset(p + 1) = Offset(p) + PageSize
         /\ Offset(1) = 0
<1> DEFINE q == p - 1
<1>1. q \in Nat /\ PageSize \in Nat /\ p = q + 1 /\ (p + 1) - 1 = q + 1
  BY BoundsAssumption
<1>2. q * PageSize \in Nat /\ (q + 1) * PageSize = q * PageSize + PageSize
  <2> HIDE DEF q
  <2> QED
    BY <1>1
<1>3. Offset(p) = q * PageSize /\ Offset(p + 1) = (q + 1) * PageSize
  BY <1>1 DEF Offset
<1>4. Offset(1) = 0
  BY <1>1 DEF Offset
<1> QED
  BY <1>1, <1>2, <1>3, <1>4

\* The client is told that there are no more pages only when that is so.
LEMMA LastPage ==
  ASSUME NEW p \in Nat \ {0}, NEW n \in Nat, ~(p < (n + PageSize - 1) \div PageSize)
  PROVE  Offset(p + 1) >= n
<1> DEFINE size == PageSize
           d == (n + size - 1) \div size
<1>1. size \in Nat \ {0}
  BY BoundsAssumption
<1>2. d \in Nat /\ n + size - 1 < (d + 1) * size
  <2> HIDE DEF size
  <2>1. n + size - 1 \in Nat
    BY <1>1
  <2> QED
    BY <1>1, <2>1
<1>3. d <= p
  BY <1>2
<1> HIDE DEF d
<1>4. (d + 1) * size = d * size + size
  <2> HIDE DEF size
  <2> QED
    BY <1>1, <1>2
<1>5. d * size <= p * size
  <2> HIDE DEF size
  <2> QED
    BY <1>1, <1>2, <1>3
<1>6. p * size \in Nat /\ d * size \in Nat
  <2> HIDE DEF size
  <2> QED
    BY <1>1, <1>2
<1>7. p * size >= n
  BY <1>1, <1>2, <1>4, <1>5, <1>6
<1> QED
  BY <1>7 DEF Offset

LEMMA Lengths ==
  ASSUME NEW offset \in Nat, NEW size \in Nat, NEW n \in Nat
  PROVE  LET last == Smaller(offset + size, n) IN
         /\ last \in Nat /\ last <= n /\ Smaller(offset, n) \in Nat
         /\ (IF offset + 1 <= last THEN last - (offset + 1) + 1 ELSE 0) = last - Smaller(offset, n)
         /\ Smaller(offset, n) < last => Smaller(offset, n) = offset
BY DEF Smaller

\* A page that follows the beginning of a table makes a longer beginning of it.
Longer(old, rows, offset) ==
  old \o SubSeq(rows, offset + 1, Smaller(offset + PageSize, Len(rows)))

LEMMA Appended ==
  ASSUME NEW S, NEW rows \in Seq(S), NEW old \in Seq(S),
         NEW offset \in Nat, Len(old) = Smaller(offset, Len(rows)),
         \A i \in DOMAIN old : old[i] = rows[i]
  PROVE  /\ Longer(old, rows, offset) \in Seq(S)
         /\ Len(Longer(old, rows, offset)) = Smaller(offset + PageSize, Len(rows))
         /\ \A i \in DOMAIN Longer(old, rows, offset) :
              Longer(old, rows, offset)[i] = rows[i]
<1> DEFINE size == PageSize
           first == offset + 1
           last == Smaller(offset + size, Len(rows))
           more == SubSeq(rows, first, last)
           new == old \o more
<1>1. /\ Len(rows) \in Nat /\ first \in Nat /\ first >= 1 /\ Len(old) \in Nat
      /\ size \in Nat
  BY BoundsAssumption
<1> HIDE DEF size
<1>2. /\ last \in Nat /\ last <= Len(rows)
      /\ (IF first <= last THEN last - first + 1 ELSE 0) = last - Len(old)
      /\ Len(old) < last => Len(old) = offset
  <2> DEFINE n == Len(rows)
             most == Smaller(offset + size, n)
             least == Smaller(offset, n)
  <2>1. n \in Nat
    BY <1>1
  <2>2. /\ most \in Nat /\ most <= n
        /\ (IF offset + 1 <= most THEN most - (offset + 1) + 1 ELSE 0) = most - least
        /\ least < most => least = offset
    <3> HIDE DEF n
    <3> QED
      BY <1>1, <2>1, Lengths
  <2>3. last = most /\ Len(old) = least
    OBVIOUS
  <2> HIDE DEF most, least, last
  <2> QED
    BY <2>2, <2>3
<1>3. /\ more \in Seq(S) /\ Len(more) = last - Len(old)
      /\ \A i \in 1..Len(more) : more[i] = rows[first + i - 1]
  <2> HIDE DEF first, last
  <2>1. \A i \in first..last : rows[i] \in S
    BY <1>1, <1>2
  <2>2. /\ SubSeq(rows, first, last) \in Seq(S)
        /\ Len(SubSeq(rows, first, last)) = IF first <= last THEN last - first + 1 ELSE 0
        /\ \A i \in 1..last - first + 1 : SubSeq(rows, first, last)[i] = rows[first + i - 1]
    BY <1>1, <1>2, <2>1, SubSeqProperties
  <2> HIDE DEF more
  <2>3. /\ more \in Seq(S) /\ Len(more) = IF first <= last THEN last - first + 1 ELSE 0
        /\ \A i \in 1..last - first + 1 : more[i] = rows[first + i - 1]
    BY <2>2 DEF more
  <2> QED
    BY <1>1, <1>2, <2>3
<1> HIDE DEF more
<1>4. /\ new \in Seq(S) /\ Len(new) = Len(old) + Len(more)
      /\ \A i \in 1..Len(old) + Len(more) :
           new[i] = IF i <= Len(old) THEN old[i] ELSE more[i - Len(old)]
  <2> HIDE DEF last, first
  <2>1. more \in Seq(S)
    BY <1>3
  <2> QED
    BY <2>1, ConcatProperties
<1> HIDE DEF new, last
<1>5. /\ Len(new) = last /\ Len(more) \in Nat /\ Len(new) \in Nat
      /\ DOMAIN new = 1..Len(new) /\ DOMAIN old = 1..Len(old)
  BY <1>1, <1>2, <1>3, <1>4
<1>6. ASSUME NEW i \in DOMAIN new
      PROVE  new[i] = rows[i]
  <2>1. i \in 1..Len(old) + Len(more) /\ i \in 1..last
    BY <1>4, <1>5
  <2>2. CASE i <= Len(old)
    BY <1>1, <1>4, <1>5, <2>1, <2>2
  <2>3. CASE ~(i <= Len(old))
    <3>1. i - Len(old) \in 1..Len(more) /\ new[i] = more[i - Len(old)]
      BY <1>1, <1>4, <1>5, <2>1, <2>3
    <3>2. Len(old) = offset
      BY <1>1, <1>2, <2>1, <2>3
    <3>3. new[i] = rows[first + (i - Len(old)) - 1]
      BY <1>3, <3>1
    <3>4. first + (i - Len(old)) - 1 = i
      BY <1>1, <1>2, <2>1, <3>2
    <3> QED
      BY <3>3, <3>4
  <2> QED
    BY <2>2, <2>3
<1> QED
  BY <1>4, <1>5, <1>6 DEF more, new, last, size, Longer

\* So does its order.
LEMMA Beginning ==
  ASSUME NEW S, NEW rows \in Seq(S), NEW part \in Seq(S), NewestFirst(rows),
         Len(part) <= Len(rows), \A i \in DOMAIN part : part[i] = rows[i]
  PROVE  NewestFirst(part)
<1>1. DOMAIN part \subseteq DOMAIN rows
  OBVIOUS
<1> QED
  BY <1>1 DEF NewestFirst

LEMMA SelectPages ==
  ASSUME TypeOK, PagesInv, SelectPage
  PROVE  PagesInv'
<1>1. /\ stage = "selecting" /\ kind = "incidents" /\ page \in Nat \ {0}
      /\ UNCHANGED <<kind, total>>
      /\ stage' \in {"next", "done"} /\ page' = page + 1
      /\ stage' = "done" => ~(page < (total + PageSize - 1) \div PageSize)
  BY DEF SelectPage, PagesInv, TypeOK
<1>2. UNCHANGED <<monitors, outages, deleting>>
  BY DEF SelectPage, storeVars
<1>3. CASE outages = <<>>
  <2>1. UsersOutages = <<>>
    BY <1>3 DEF UsersOutages
  <2>2. Offset(page) \in Nat /\ PageSize \in Nat
    BY <1>1, Offsets, BoundsAssumption
  <2> DEFINE first == Offset(page) + 1
             last == Smaller(Offset(page) + PageSize, Len(UsersOutages))
  <2>3. first \in Nat /\ last = 0 /\ last < first
    BY <2>1, <2>2 DEF Smaller
  <2>4. pages' = pages \o SubSeq(UsersOutages, first, last)
    BY DEF SelectPage
  <2> HIDE DEF first, last
  <2>5. SubSeq(UsersOutages, first, last) = <<>>
    BY <2>3, SubSeqEmpty
  <2>6. pages' = pages \o <<>>
    BY <2>4, <2>5
  <2>7. pages' = pages
    BY <2>6, ConcatEmptySeq DEF TypeOK
  <2> QED
    BY <1>1, <1>2, <1>3, <2>7 DEF PagesInv
<1>4. CASE outages # <<>>
  <2>1. UsersOutages = outages
    BY <1>4 DEF UsersOutages, PagesInv
  <2>2. /\ Len(pages) = Smaller(Offset(page), Len(outages)) /\ total = Len(outages)
        /\ \A i \in DOMAIN pages : pages[i] = outages[i]
        /\ outages \in Seq(Outage) /\ pages \in Seq(Outage) /\ Len(outages) \in Nat
    BY <1>1, <1>4 DEF PagesInv, TypeOK
  <2>3. /\ Offset(page) \in Nat /\ PageSize \in Nat
        /\ Offset(page') = Offset(page) + PageSize
    BY <1>1, Offsets, BoundsAssumption
  <2>4. pages' = Longer(pages, outages, Offset(page))
    BY <2>1 DEF SelectPage, Longer
  <2>5. /\ pages' \in Seq(Outage) /\ Len(pages') = Smaller(Offset(page'), Len(outages))
        /\ \A i \in DOMAIN pages' : pages'[i] = outages[i]
    <3> DEFINE offset == Offset(page)
               longer == Longer(pages, outages, offset)
    <3>1. /\ offset \in Nat /\ Len(pages) = Smaller(offset, Len(outages))
          /\ outages \in Seq(Outage) /\ pages \in Seq(Outage)
          /\ \A i \in DOMAIN pages : pages[i] = outages[i]
      BY <2>2, <2>3
    <3> HIDE DEF offset
    <3>2. longer \in Seq(Outage)
      BY <3>1, Appended
    <3>3. Len(longer) = Smaller(offset + PageSize, Len(outages))
      BY <3>1, Appended
    <3>4. \A i \in DOMAIN longer : longer[i] = outages[i]
      BY <3>1, Appended
    <3> HIDE DEF longer
    <3> QED
      BY <2>3, <2>4, <3>2, <3>3, <3>4 DEF longer, offset
  <2>6. Len(pages') <= Len(outages)
    BY <2>2, <2>3, <2>5 DEF Smaller
  <2>7. NewestFirst(pages')
    BY <2>2, <2>5, <2>6, Beginning DEF PagesInv
  <2>8. stage' = "done" => Len(pages') = Len(outages)
    <3>1. SUFFICES ASSUME stage' = "done"
                   PROVE  Len(pages') = Len(outages)
      OBVIOUS
    <3>2. ~(page < (Len(outages) + PageSize - 1) \div PageSize)
      BY <1>1, <2>2, <3>1
    <3>3. Offset(page') >= Len(outages)
      BY <1>1, <2>2, <3>2, LastPage
    <3> QED
      BY <2>2, <2>3, <2>5, <3>3 DEF Smaller
  <2> QED
    BY <1>1, <1>2, <1>4, <2>5, <2>6, <2>7, <2>8 DEF PagesInv, NewestFirst
<1> QED
  BY <1>3, <1>4

LEMMA StepPages ==
  ASSUME TypeOK, ScriptInv, PagesInv, [Next]_vars
  PROVE  PagesInv'
<1>1. CASE FindUser
  <2>1. /\ stage = "idle" /\ UNCHANGED <<monitors, outages, deleting, pages, page, total>>
        /\ kind' = "incidents" <=> stage' = "counting"
        /\ kind' # "none" /\ stage' \in {"counting", "listing"}
    BY <1>1 DEF FindUser, storeVars
  <2>2. pages = <<>> /\ page = 1
    BY <2>1 DEF PagesInv
  <2>3. Len(pages) = 0 /\ Offset(page) = 0 /\ Len(outages) \in Nat
    BY <2>2, Offsets DEF TypeOK
  <2> QED
    BY <2>1, <2>2, <2>3 DEF PagesInv, Smaller, NewestFirst
<1>2. CASE GetMonitorsByUser \/ Query
  <2>1. /\ stage \in {"listing", "querying"} /\ stage' \in {"done", "querying"}
        /\ UNCHANGED <<kind, monitors, outages, deleting, pages, page, total>>
    BY <1>2 DEF GetMonitorsByUser, Query, storeVars
  <2>2. kind # "incidents"
    BY <2>1 DEF PagesInv
  <2> QED
    BY <2>1, <2>2 DEF PagesInv, NewestFirst
<1>3. CASE CountOutages
  <2>1. /\ stage = "counting" /\ stage' = "selecting" /\ total' = Len(UsersOutages)
        /\ UNCHANGED <<kind, monitors, outages, deleting, pages, page>>
    BY <1>3 DEF CountOutages, storeVars
  <2>2. outages # <<>> => UsersOutages = outages
    BY DEF UsersOutages, PagesInv
  <2> QED
    BY <2>1, <2>2 DEF PagesInv, NewestFirst
<1>4. CASE SelectPage
  BY <1>4, SelectPages
<1>5. CASE NextPage
  <2>1. /\ stage = "next" /\ stage' \in {"counting", "refused"}
        /\ UNCHANGED <<kind, monitors, outages, deleting, pages, page, total>>
    BY <1>5 DEF NextPage, storeVars
  <2> QED
    BY <2>1 DEF PagesInv, NewestFirst
<1>6. CASE Refuse
  <2>1. /\ stage' = "refused"
        /\ UNCHANGED <<kind, monitors, outages, deleting, pages, page, total>>
    BY <1>6 DEF Refuse, storeVars
  <2> QED
    BY <2>1 DEF PagesInv, NewestFirst
<1>7. CASE AccountDelete \/ Tick \/ UNCHANGED vars
  <2>1. /\ UNCHANGED <<kind, stage, monitors, outages, pages, page, total>>
        /\ deleting' = 1 \/ deleting' = deleting
    BY <1>7 DEF AccountDelete, Tick, vars, storeVars, report
  <2> QED
    BY <2>1 DEF PagesInv, NewestFirst
<1>8. CASE DeleteAccount
  <2>1. /\ UNCHANGED report
        /\ outages' = outages \/ outages' = <<>>
        /\ monitors' = {} \/ deleting' > 2 => outages' = <<>>
    BY <1>8, Deleting DEF PagesInv
  <2>2. UNCHANGED <<kind, stage, pages, page, total>>
    BY <2>1 DEF report
  <2>3. NewestFirst(outages')
    BY <2>1 DEF PagesInv, NewestFirst
  <2> QED
    BY <2>1, <2>2, <2>3 DEF PagesInv, NewestFirst
<1> QED
  BY <1>1, <1>2, <1>3, <1>4, <1>5, <1>6, <1>7, <1>8 DEF Next

-----------------------------------------------------------------------------
(* The theorems. *)

LEMMA InitInv == Init => Inv
<1> SUFFICES ASSUME Init PROVE Inv
  OBVIOUS
<1>1. /\ now = Start /\ account = TRUE /\ monitors = MonitorSet
      /\ erased = {} /\ deleting = 0 /\ faults = 0
      /\ kind = "none" /\ stage = "idle" /\ nth = 0 /\ step = 0
      /\ listed = <<>> /\ DOMAIN found = {}
      /\ pages = <<>> /\ page = 1 /\ total = 0
  BY DEF Init
<1>2. results \subseteq Result /\ outages \in Seq(Outage) /\ NewestFirst(outages)
  BY TablesAssumption DEF Init
<1>3. listed \in Seq([monitor : MonitorSet, latest : SUBSET Result]) /\ pages \in Seq(Outage)
  BY <1>1, EmptySeq
<1>4. now \in Start..MaxNow /\ faults \in 0..MaxFaults
  BY <1>1, TimeAssumption, BoundsAssumption
<1>5. TypeOK
  BY <1>1, <1>2, <1>3, <1>4 DEF TypeOK
<1>6. AnswersInv
  BY <1>1 DEF AnswersInv, Found
<1>7. DOMAIN listed = {}
  BY <1>1
<1>8. LatestInv /\ ScriptInv
  BY <1>1, <1>7 DEF LatestInv, ScriptInv
<1>9. DaysInv
  BY <1>1 DEF DaysInv
<1>10. PagesInv
  <2>1. NewestFirst(pages)
    BY <1>1 DEF NewestFirst
  <2>2. monitors = {} => outages = <<>>
    <3>1. SUFFICES ASSUME monitors = {}, outages # <<>>
                   PROVE  FALSE
      OBVIOUS
    <3>2. outages[1] \in Outage
      BY <1>2, <3>1, EmptySeq
    <3> QED
      BY <1>1, <3>1, <3>2 DEF Outage
  <2>3. Len(pages) = 0 /\ Len(outages) \in Nat
    BY <1>1, <1>2
  <2> QED
    BY <1>1, <1>2, <2>1, <2>2, <2>3 DEF PagesInv
<1> QED
  BY <1>5, <1>6, <1>8, <1>9, <1>10 DEF Inv

LEMMA StepInv == Inv /\ [Next]_vars => Inv'
<1> SUFFICES ASSUME Inv, [Next]_vars PROVE Inv'
  OBVIOUS
<1>1. TypeOK /\ AnswersInv /\ LatestInv /\ ScriptInv /\ DaysInv /\ PagesInv
  BY DEF Inv
<1>2. TypeOK'
  BY <1>1, StepType
<1>3. AnswersInv' /\ LatestInv'
  BY <1>1, StepAnswers, StepLatest
<1>4. ScriptInv' /\ DaysInv' /\ PagesInv'
  BY <1>1, StepScript, StepDays, StepPages
<1> QED
  BY <1>2, <1>3, <1>4 DEF Inv

\* The inductive invariant holds.
THEOREM Invariance == Spec => []Inv
BY InitInv, StepInv, PTL DEF Spec

\* The tables and the report keep their types.
THEOREM TypeCorrect == Spec => []TypeOK
<1>1. Inv => TypeOK
  BY DEF Inv
<1> QED
  BY <1>1, Invariance, PTL

\* Some answers about a monitor never are of a later day than others.
LEMMA Before ==
  ASSUME Inv, NEW m \in MonitorSet, NEW first, NEW second,
         \/ first = "latency7" /\ second \in {"latencyPrev", "hourly7"}
         \/ first = "uptime7" /\ second = "keyword7",
         Found(m, first), Found(m, second)
  PROVE  found[<<m, first>>].day <= found[<<m, second>>].day
<1>1. ScriptInv /\ DaysInv
  BY DEF Inv
<1>2. <<m, first>> \in DOMAIN found /\ <<m, second>> \in DOMAIN found
  BY DEF Found
<1>3. kind \in Scripted
  BY <1>1, <1>2 DEF ScriptInv
<1>4. \A p \in DOMAIN found :
        \E i \in DOMAIN listed, j \in DOMAIN Script[kind] : p = Asks(i, j)
  BY <1>1 DEF ScriptInv
<1>5. PICK i \in DOMAIN Script[kind] : Script[kind][i] = first
  BY <1>2, <1>4 DEF Asks
<1>6. PICK j \in DOMAIN Script[kind] : Script[kind][j] = second
  BY <1>2, <1>4 DEF Asks
<1>7. i < j
  BY <1>3, <1>5, <1>6, Scripts
<1> QED
  BY <1>1, <1>2, <1>3, <1>5, <1>6, <1>7 DEF DaysInv

\* An answer's rows are in another one if what counts for it counts there too.
LEMMA Inside ==
  ASSUME Inv, NEW m \in MonitorSet,
         NEW first \in ResultQueries, NEW second \in ResultQueries,
         Found(m, first) /\ Found(m, second) =>
           \A r \in results : Counts(first, r, found[<<m, first>>].day)
                               => Counts(second, r, found[<<m, second>>].day)
  PROVE  Nested(m, first, second)
<1>1. SUFFICES ASSUME Found(m, first), Found(m, second)
               PROVE  found[<<m, first>>].rows \subseteq found[<<m, second>>].rows \cup erased
  BY DEF Nested
<1>2. Exact(m, first) /\ Exact(m, second)
  BY <1>1 DEF Inv, AnswersInv
<1> QED
  BY <1>1, <1>2 DEF Exact

\* A report takes less time than the days by which a month exceeds a week.
LEMMA Quick ==
  ASSUME Inv, NEW p \in DOMAIN found, NEW q \in DOMAIN found
  PROVE  /\ found[p].day \in Nat /\ found[q].day \in Nat
         /\ found[q].day + Week < found[p].day + Month
<1>1. TypeOK /\ AnswersInv
  BY DEF Inv
<1>2. found[p].day \in Nat /\ found[q].day \in Nat
  BY <1>1, FoundType
<1>3. Day(Start) <= found[p].day /\ found[q].day <= Day(now)
  BY <1>1 DEF AnswersInv
<1>4. /\ Day(now) \in Nat /\ Day(Start) \in Nat /\ Week \in Nat /\ Month \in Nat
      /\ Day(now) + Week < Day(Start) + Month
  BY <1>1, Clock DEF TypeOK
<1> QED
  BY <1>2, <1>3, <1>4

LEMMA Agreement == Inv => ReportsAgreeWithThemselves
<1> SUFFICES ASSUME Inv, NEW m \in MonitorSet
             PROVE  /\ Nested(m, "uptime7", "bars")
                    /\ Nested(m, "uptime7", "uptime30")
                    /\ Nested(m, "latency7", "latency30")
                    /\ Nested(m, "hourly7", "latency7") /\ Nested(m, "keyword7", "uptime7")
                    /\ \A i \in DOMAIN listed :
                         listed[i].monitor = m /\ Found(m, "uptime7") =>
                           \A r \in listed[i].latest :
                             \/ r \in found[<<m, "uptime7">>].rows \cup erased
                             \/ Day(r.at) + Week < found[<<m, "uptime7">>].day
  BY DEF ReportsAgreeWithThemselves
<1>1. TypeOK /\ AnswersInv /\ LatestInv
  BY DEF Inv
<1>2. /\ Week \in Nat /\ Month \in Nat
      /\ \A r \in results : Day(r.at) \in Nat
  BY <1>1, DayType
<1>3. \A query \in ResultQueries : Found(m, query) => found[<<m, query>>].day \in Nat
  BY <1>1, FoundType DEF Found
<1>4. {"uptime7", "bars", "uptime30", "latency7", "latency30", "hourly7", "keyword7"}
        \subseteq ResultQueries
  BY DEF ResultQueries, Queries
<1>5. \A first, second \in ResultQueries :
        Found(m, first) /\ Found(m, second) =>
          found[<<m, second>>].day + Week < found[<<m, first>>].day + Month
  BY Quick DEF Found
<1>6. Nested(m, "uptime7", "bars")
  <2>1. Found(m, "uptime7") /\ Found(m, "bars") =>
          \A r \in results : Counts("uptime7", r, found[<<m, "uptime7">>].day)
                              => Counts("bars", r, found[<<m, "bars">>].day)
    BY <1>2, <1>3, <1>4, <1>5 DEF Counts, Span, Latencies
  <2> QED
    BY <1>4, <2>1, Inside
<1>7. Nested(m, "uptime7", "uptime30")
  <2>1. Found(m, "uptime7") /\ Found(m, "uptime30") =>
          \A r \in results : Counts("uptime7", r, found[<<m, "uptime7">>].day)
                              => Counts("uptime30", r, found[<<m, "uptime30">>].day)
    BY <1>2, <1>3, <1>4, <1>5 DEF Counts, Span, Latencies
  <2> QED
    BY <1>4, <2>1, Inside
<1>8. Nested(m, "latency7", "latency30")
  <2>1. Found(m, "latency7") /\ Found(m, "latency30") =>
          \A r \in results : Counts("latency7", r, found[<<m, "latency7">>].day)
                              => Counts("latency30", r, found[<<m, "latency30">>].day)
    BY <1>2, <1>3, <1>4, <1>5 DEF Counts, Span, Latencies
  <2> QED
    BY <1>4, <2>1, Inside
<1>9. Nested(m, "hourly7", "latency7")
  <2>1. Found(m, "hourly7") /\ Found(m, "latency7") =>
          found[<<m, "latency7">>].day <= found[<<m, "hourly7">>].day
    BY Before
  <2>2. Found(m, "hourly7") /\ Found(m, "latency7") =>
          \A r \in results : Counts("hourly7", r, found[<<m, "hourly7">>].day)
                              => Counts("latency7", r, found[<<m, "latency7">>].day)
    BY <1>2, <1>3, <1>4, <2>1 DEF Counts, Span, Latencies
  <2> QED
    BY <1>4, <2>2, Inside
<1>10. Nested(m, "keyword7", "uptime7")
  <2>1. Found(m, "keyword7") /\ Found(m, "uptime7") =>
          found[<<m, "uptime7">>].day <= found[<<m, "keyword7">>].day
    BY Before
  <2>2. Found(m, "keyword7") /\ Found(m, "uptime7") =>
          \A r \in results : Counts("keyword7", r, found[<<m, "keyword7">>].day)
                              => Counts("uptime7", r, found[<<m, "uptime7">>].day)
    BY <1>2, <1>3, <1>4, <2>1 DEF Counts, Span, Latencies
  <2> QED
    BY <1>4, <2>2, Inside
<1>11. ASSUME NEW i \in DOMAIN listed, listed[i].monitor = m, Found(m, "uptime7"),
              NEW r \in listed[i].latest
       PROVE  \/ r \in found[<<m, "uptime7">>].rows \cup erased
              \/ Day(r.at) + Week < found[<<m, "uptime7">>].day
  <2>1. r \in results \cup erased /\ r.monitor = m
    BY <1>1, <1>11 DEF LatestInv
  <2>2. CASE r \in results
    <3>1. \A row \in results :
            row.monitor = m /\ Counts("uptime7", row, found[<<m, "uptime7">>].day)
              => row \in found[<<m, "uptime7">>].rows
      BY <1>1, <1>4, <1>11 DEF AnswersInv, Exact
    <3>2. \/ Day(r.at) + Week < found[<<m, "uptime7">>].day
          \/ Counts("uptime7", r, found[<<m, "uptime7">>].day)
      BY <1>2, <1>3, <1>4, <1>11, <2>2 DEF Counts, Span, Latencies
    <3> QED
      BY <2>1, <2>2, <3>1, <3>2
  <2> QED
    BY <2>1, <2>2
<1> QED
  BY <1>6, <1>7, <1>8, <1>9, <1>10, <1>11

\* What a report says of a monitor tells one story, whenever midnight passes and
\* however far the deletion of the account is.
THEOREM ReportsAgree == Spec => []ReportsAgreeWithThemselves
BY Agreement, Invariance, PTL

\* No bar of the status page is taken over a part of its day.
THEOREM BarsWhole == Spec => []BarsAreWhole
<1>1. Inv => BarsAreWhole
  <2> SUFFICES ASSUME Inv, NEW m \in MonitorSet, Found(m, "bars")
               PROVE  {r \in results :
                         r.monitor = m /\ Day(r.at) + Month > found[<<m, "bars">>].day}
                        \subseteq found[<<m, "bars">>].rows
    BY DEF BarsAreWhole
  <2>1. Exact(m, "bars")
    BY DEF Inv, AnswersInv, ResultQueries, Queries
  <2>2. found[<<m, "bars">>].day \in Nat
    BY FoundType DEF Inv, Found
  <2>3. Month \in Nat /\ \A r \in results : Day(r.at) \in Nat
    BY DayType DEF Inv
  <2>4. \A r \in results :
          Day(r.at) + Month > found[<<m, "bars">>].day
            => Counts("bars", r, found[<<m, "bars">>].day)
    BY <2>2, <2>3 DEF Counts, Span, Latencies
  <2> QED
    BY <2>1, <2>4 DEF Exact
<1> QED
  BY <1>1, Invariance, PTL

\* The two weeks whose latency the digest compares leave no check out and share
\* only those that midnight moves from one to the other.
THEOREM WeeksMeet == Spec => []WeeksAreComparable
<1>1. Inv => WeeksAreComparable
  <2> DEFINE This(m) == found[<<m, "latency7">>]
             Last(m) == found[<<m, "latencyPrev">>]
  <2> SUFFICES ASSUME Inv, NEW m \in MonitorSet, Found(m, "latency7"), Found(m, "latencyPrev")
               PROVE  /\ \A r \in This(m).rows \cap Last(m).rows :
                           /\ This(m).day <= Day(r.at) + Week
                           /\ Day(r.at) + Week < Last(m).day
                      /\ {r \in results : /\ r.monitor = m /\ r.check = "up"
                                          /\ Day(r.at) + 2 * Week >= Last(m).day}
                           \subseteq This(m).rows \cup Last(m).rows
    BY DEF WeeksAreComparable
  <2>1. Exact(m, "latency7") /\ Exact(m, "latencyPrev")
    BY DEF Inv, AnswersInv, ResultQueries, Queries
  <2>2. This(m).day <= Last(m).day
    BY Before
  <2>3. This(m).day \in Nat /\ Last(m).day \in Nat
    BY FoundType DEF Inv, Found
  <2>4. /\ Week \in Nat
        /\ \A r \in results \cup erased : Day(r.at) \in Nat
    BY DayType DEF Inv
  <2>5. \A r \in results \cup erased :
          /\ Counts("latency7", r, This(m).day)
               <=> Day(r.at) + Week >= This(m).day /\ r.check = "up"
          /\ Counts("latencyPrev", r, Last(m).day)
               <=> /\ Day(r.at) + 2 * Week >= Last(m).day
                   /\ Day(r.at) + Week < Last(m).day /\ r.check = "up"
    BY <2>3, <2>4 DEF Counts, Span, Latencies
  <2>6. /\ \A r \in This(m).rows :
             r \in results \cup erased /\ Counts("latency7", r, This(m).day)
        /\ \A r \in Last(m).rows :
             r \in results \cup erased /\ Counts("latencyPrev", r, Last(m).day)
        /\ \A r \in results :
             r.monitor = m /\ Counts("latency7", r, This(m).day) => r \in This(m).rows
        /\ \A r \in results :
             r.monitor = m /\ Counts("latencyPrev", r, Last(m).day) => r \in Last(m).rows
    BY <2>1 DEF Exact
  <2> HIDE DEF This, Last
  <2> QED
    BY <2>2, <2>3, <2>4, <2>5, <2>6
<1> QED
  BY <1>1, Invariance, PTL

\* The pages a client fetches are a beginning of the list of incidents, and the
\* last of them ends it.
THEOREM PagesPartition == Spec => []PagesPartitionIncidents
<1>1. Inv => PagesPartitionIncidents
  <2> SUFFICES ASSUME Inv
               PROVE  PagesPartitionIncidents
    OBVIOUS
  <2>1. PagesInv /\ pages \in Seq(Outage) /\ outages \in Seq(Outage)
    BY DEF Inv, TypeOK
  <2>2. ASSUME kind = "incidents", stage = "done", NEW i \in DOMAIN outages
        PROVE  \E j \in DOMAIN pages : pages[j] = outages[i]
    <3>1. outages # <<>>
      BY <2>2
    <3>2. Len(pages) = Len(outages) /\ \A j \in DOMAIN pages : pages[j] = outages[j]
      BY <2>1, <2>2, <3>1 DEF PagesInv
    <3> QED
      BY <2>1, <2>2, <3>2
  <2> QED
    BY <2>1, <2>2 DEF PagesInv, PagesPartitionIncidents
<1> QED
  BY <1>1, Invariance, PTL
=============================================================================
