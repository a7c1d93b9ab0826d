-------------------------------- MODULE Reports --------------------------------
(***************************************************************************)
(* What the program reports about an account's monitors: the public status *)
(* page, the weekly digest's numbers, the facts given to the AI when the   *)
(* user asks, and the list of incidents, page by page.                     *)
(*                                                                         *)
(* A report is put together from many SQL statements that share neither a  *)
(* transaction nor a clock: midnight may pass between two of them, any may *)
(* fail, and the account may be deleted meanwhile, statement by statement. *)
(* Reports write nothing, so one at a time is modelled, and no handler     *)
(* writes monitors, results or outages at this commit: the tables hold     *)
(* what earlier versions left.                                             *)
(*                                                                         *)
(* Abstractions: a percentage, an average or a count stands for the set of *)
(* rows it is taken over.  Time is counted in half days, so that a day has *)
(* an earlier and a later result.  The tables hold the rows of one account *)
(* only.  The overall status is a function of what GetMonitorsByUser       *)
(* returned, and the list of recent outages in the facts for the AI is one *)
(* more query; both are left out.                                          *)
(***************************************************************************)
EXTENDS Naturals, Sequences, FiniteSets

CONSTANTS
  Monitors,        \* the account's monitors, newest first: a sequence
  Enabled,         \* those that are enabled, in the same order
  InitialTables,   \* what monitor_results and outages may hold
  Week,            \* 7 days
  Month,           \* 30 days
  PageSize,        \* the limit of a page of incidents
  Start,           \* the half day in which everything begins
  MaxNow,          \* bound: the last half day
  MaxFaults        \* bound: how many statements fail

MonitorSet == {Monitors[i] : i \in DOMAIN Monitors}

Result == [monitor : MonitorSet, at : Nat, check : {"up", "down", "keyword"}]

Outage == [monitor : MonitorSet, at : Nat, id : Nat]

\* No row is there twice, and the newest come first.
NewestFirst(rows) ==
  \A i, j \in DOMAIN rows :
    i < j => rows[i].at >= rows[j].at /\ rows[i].id # rows[j].id

Distinct(seq) == \A i, j \in DOMAIN seq : seq[i] = seq[j] => i = j

ASSUME MonitorsAssumption ==
  /\ Monitors \in Seq(MonitorSet) /\ Distinct(Monitors)
  /\ Enabled \in Seq(MonitorSet) /\ Distinct(Enabled)

ASSUME TablesAssumption ==
  \A tables \in InitialTables :
    /\ tables.results \subseteq Result
    /\ tables.outages \in Seq(Outage) /\ NewestFirst(tables.outages)

Day(t) == t \div 2

(***************************************************************************)
(* The statements of one report take less time than the 23 days by which a *)
(* month exceeds a week.                                                   *)
(***************************************************************************)
ASSUME TimeAssumption ==
  /\ Week \in Nat \ {0} /\ Month \in Nat
  /\ Start \in Nat /\ MaxNow \in Nat /\ Start <= MaxNow
  /\ Day(MaxNow) + Week < Day(Start) + Month

ASSUME BoundsAssumption ==
  PageSize \in Nat \ {0} /\ MaxFaults \in Nat

VARIABLES
  now,       \* the half day
  account,   \* whether the row in users is there
  monitors,  \* table monitors
  results,   \* table monitor_results
  outages,   \* table outages, newest first
  erased,    \* history: the results that were deleted
  deleting,  \* the statement DeleteAccount is about to execute, or 0
  kind,      \* what is being reported
  stage,     \* how far the report is
  nth,       \* the place in listed of the monitor it is at
  step,      \* the statement about that monitor it is about to execute
  listed,    \* what GetMonitorsByUser returned
  found,     \* what the statements returned: <<monitor, query>> -> answer
  pages,     \* the incidents of the pages fetched so far
  page,      \* the number of the page being fetched
  total,     \* the local variable of GetOutagesByUser
  faults     \* counts the failed statements (bound)

storeVars == <<account, monitors, results, outages, erased>>
report == <<kind, stage, nth, step, listed, found, pages, page, total>>
vars == <<now, storeVars, deleting, report, faults>>

-----------------------------------------------------------------------------
(* The queries.  Times are compared as text: the stored 2006-01-02T15:04:05Z
   with datetime('now', '-N days'), which has a blank where that has a T.  So
   all of the day that the window begins in counts as inside.               *)

\* checked_at >= datetime('now', '-days days')
InLast(days, row) == Day(row.at) + days >= Day(now)

Since(m, days) == {r \in results : r.monitor = m /\ InLast(days, r)}

\* Mutant of GetUptimePercent: twice the days.
GetUptimePercentOfTwice(m, days) == Since(m, 2 * days + 2)

GetUptimePercent(m, days) == Since(m, days)

\* Mutant of GetAvgLatencyRange: the windows share the day between them.
GetAvgLatencyRangeClosed(m, daysAgo, daysEnd) ==
  {r \in Since(m, daysAgo) :
     r.check = "up" /\ (daysEnd = 0 \/ Day(r.at) + daysEnd <= Day(now))}

GetAvgLatencyRange(m, daysAgo, daysEnd) ==
  {r \in Since(m, daysAgo) :
     r.check = "up" /\ (daysEnd = 0 \/ ~InLast(daysEnd, r))}

GetHourlyLatency(m, days) == {r \in Since(m, days) : r.check = "up"}

GetKeywordFailureCount(m, days) == {r \in Since(m, days) : r.check = "keyword"}

GetOutageCountRange(m, days) ==
  {outages[i] : i \in {j \in DOMAIN outages :
                         outages[j].monitor = m /\ InLast(days, outages[j])}}

\* Mutant of DailyRows: the 7 days of the uptime beside it.
DailyRowsOfAWeek(m) == Since(m, Week)

\* The rows GetDailyUptime groups by their day ...
DailyRows(m) == Since(m, Month)

\* ... and those in one of the Month bars that end with today, by the clock it
\* reads afterwards.
Bars(rows) == {r \in rows : Day(r.at) + Month > Day(now)}

\* Per monitor, the queries of a report in their order.
Script ==
  [status |-> <<"uptime7", "daily", "bars">>,
   digest |-> <<"uptime7", "latency7", "latencyPrev", "outages7", "keyword7">>,
   ask |-> <<"uptime7", "uptime30", "latency7", "latency30", "hourly7", "keyword7">>]

Rows(m, query) ==
  CASE query = "uptime7"     -> GetUptimePercent(m, Week)
    [] query = "uptime30"    -> GetUptimePercent(m, Month)
    [] query = "latency7"    -> GetAvgLatencyRange(m, Week, 0)
    [] query = "hourly7"     -> GetHourlyLatency(m, Week)
    [] query = "latency30"   -> GetAvgLatencyRange(m, Month, 0)
    [] query = "latencyPrev" -> GetAvgLatencyRange(m, 2 * Week, Week)
    [] query = "outages7"    -> GetOutageCountRange(m, Week)
    [] query = "keyword7"    -> GetKeywordFailureCount(m, Week)
    [] query = "daily"       -> DailyRows(m)

\* The newest result of a monitor, as a set of at most one.
Latest(m) ==
  LET rows == {r \in results : r.monitor = m} IN
  {r \in rows : \A q \in rows : q.at <= r.at}

-----------------------------------------------------------------------------
(* The reports. *)

Answer(ok, rows) == [ok |-> ok, rows |-> rows, day |-> Day(now)]

Found(m, query) == <<m, query>> \in DOMAIN found /\ found[<<m, query>>].ok

Fault == faults < MaxFaults /\ faults' = faults + 1

\* GetUserBySlug, currentUser or the digest's list of users finds the account.
FindUser ==
  /\ stage = "idle" /\ account
  /\ kind' \in {"status", "digest", "ask", "incidents"}
  /\ stage' = IF kind' = "incidents" THEN "counting" ELSE "listing"
  /\ UNCHANGED <<now, storeVars, deleting, nth, step, listed, found, pages, page, total,
                 faults>>

\* Only the answer to a question looks at disabled monitors.
Shown ==
  IF monitors = {} THEN <<>> ELSE IF kind = "ask" THEN Monitors ELSE Enabled

GetMonitorsByUser ==
  /\ stage = "listing"
  /\ listed' = [i \in DOMAIN Shown |-> [monitor |-> Shown[i], latest |-> Latest(Shown[i])]]
  /\ stage' = IF Shown = <<>> THEN "done" ELSE "querying"
  /\ nth' = 1 /\ step' = 1
  /\ UNCHANGED <<now, storeVars, deleting, kind, found, pages, page, total, faults>>

Keep(p, answer) ==
  found' = [q \in DOMAIN found \cup {p} |-> IF q = p THEN answer ELSE found[q]]

\* The next statement; errors are ignored.
Query ==
  LET script == Script[kind]
      m      == listed[nth].monitor
      query  == script[step]
      daily  == found[<<m, "daily">>] IN
  /\ stage = "querying"
  /\ \/ query = "bars" /\ UNCHANGED faults
        /\ Keep(<<m, query>>, Answer(daily.ok, Bars(daily.rows)))
     \/ query # "bars" /\ UNCHANGED faults
        /\ Keep(<<m, query>>, Answer(TRUE, Rows(m, query)))
     \/ query # "bars" /\ Fault /\ Keep(<<m, query>>, Answer(FALSE, {}))
  /\ IF step < Len(script)
       THEN step' = step + 1 /\ UNCHANGED nth
       ELSE step' = 1 /\ nth' = nth + 1
  /\ stage' = IF nth = Len(listed) /\ step = Len(script) THEN "done" ELSE "querying"
  /\ UNCHANGED <<now, storeVars, deleting, kind, listed, pages, page, total>>

-----------------------------------------------------------------------------
(* The list of incidents: a client asks for the pages one after another.   *)

\* JOIN monitors: those go all at once, so all rows have theirs or none.
UsersOutages == IF monitors = {} THEN <<>> ELSE outages

\* GetOutagesByUser: SELECT COUNT(*).
CountOutages ==
  /\ stage = "counting"
  /\ total' = Len(UsersOutages)
  /\ stage' = "selecting"
  /\ UNCHANGED <<now, storeVars, deleting, kind, nth, step, listed, found, pages, page, faults>>

\* Mutant of Offset: pages are counted from zero.
OffsetFromZero(p) == p * PageSize

Offset(p) == (p - 1) * PageSize

Smaller(a, b) == IF a <= b THEN a ELSE b

\* SELECT ... ORDER BY started_at DESC LIMIT OFFSET, and the response tells
\* the client whether to go on.
SelectPage ==
  LET rows == UsersOutages IN
  /\ stage = "selecting"
  /\ pages' = pages \o
       SubSeq(rows, Offset(page) + 1, Smaller(Offset(page) + PageSize, Len(rows)))
  /\ page' = page + 1
  /\ stage' = IF page < (total + PageSize - 1) \div PageSize THEN "next" ELSE "done"
  /\ UNCHANGED <<now, storeVars, deleting, kind, nth, step, listed, found, total, faults>>

\* The next request; currentUser finds the account by a session, which may be
\* gone.
NextPage ==
  /\ stage = "next"
  /\ \/ account /\ stage' = "counting"
     \/ stage' = "refused"
  /\ UNCHANGED <<now, storeVars, deleting, kind, nth, step, listed, found, pages, page,
                 total, faults>>

\* A statement fails and the handler answers with an error.
Refuse ==
  /\ stage \in {"listing", "counting", "selecting"} /\ Fault
  /\ stage' = "refused"
  /\ UNCHANGED <<now, storeVars, deleting, kind, nth, step, listed, found, pages, page, total>>

-----------------------------------------------------------------------------
(* The environment. *)

Tick ==
  /\ now < MaxNow /\ now' = now + 1
  /\ UNCHANGED <<storeVars, deleting, report, faults>>

\* accountDeleteHandler calls DeleteAccount, again if it has failed before.
AccountDelete ==
  /\ account /\ deleting = 0
  /\ deleting' = 1
  /\ UNCHANGED <<now, storeVars, report, faults>>

\* The statements of DeleteAccount; sessions are the fourth.
Deletes(i) ==
  /\ results' = IF i = 1 THEN {r \in results : r.monitor \notin monitors} ELSE results
  /\ outages' = IF i = 2 /\ monitors # {} THEN <<>> ELSE outages
  /\ monitors' = IF i = 3 THEN {} ELSE monitors
  /\ account' = IF i = 5 THEN FALSE ELSE account

DeleteAccount ==
  /\ deleting # 0
  /\ \/ /\ Deletes(deleting) /\ UNCHANGED faults
        /\ erased' = erased \cup (results \ results')
        /\ deleting' = (deleting + 1) % 6
     \/ /\ Fault /\ deleting' = 0
        /\ UNCHANGED storeVars
  /\ UNCHANGED <<now, report>>

Init ==
  /\ now = Start /\ account = TRUE
  /\ monitors = MonitorSet
  /\ \E old \in InitialTables : results = old.results /\ outages = old.outages
  /\ erased = {} /\ deleting = 0
  /\ kind = "none" /\ stage = "idle" /\ nth = 0 /\ step = 0
  /\ listed = <<>> /\ found = [p \in {} |-> {}]
  /\ pages = <<>> /\ page = 1 /\ total = 0
  /\ faults = 0

Next ==
  \/ FindUser \/ GetMonitorsByUser \/ Query
  \/ CountOutages \/ SelectPage \/ NextPage \/ Refuse
  \/ Tick \/ AccountDelete \/ DeleteAccount

Spec == Init /\ [][Next]_vars
-----------------------------------------------------------------------------
(* Properties *)

Queries ==
  {"uptime7", "uptime30", "latency7", "latencyPrev", "latency30", "hourly7",
   "outages7", "keyword7", "daily", "bars"}

\* Type invariant of the tables and of the report.
TypeOK ==
  /\ now \in Start..MaxNow /\ account \in BOOLEAN /\ monitors \in {MonitorSet, {}}
  /\ results \subseteq Result /\ erased \subseteq Result /\ outages \in Seq(Outage)
  /\ deleting \in 0..5 /\ faults \in 0..MaxFaults
  /\ kind \in {"none", "status", "digest", "ask", "incidents"}
  /\ stage \in {"idle", "listing", "querying", "counting", "selecting", "next",
                "done", "refused"}
  /\ nth \in Nat /\ step \in Nat /\ page \in Nat \ {0} /\ total \in Nat
  /\ listed \in Seq([monitor : MonitorSet, latest : SUBSET Result])
  /\ DOMAIN found \subseteq MonitorSet \X Queries
  /\ \A p \in DOMAIN found :
       found[p] \in [ok : BOOLEAN, rows : SUBSET (Result \cup Outage), day : Nat]
  /\ pages \in Seq(Outage)

\* The rows of the first answer are in the second one too, or were deleted.
Nested(m, first, second) ==
  Found(m, first) /\ Found(m, second) =>
    found[<<m, first>>].rows \subseteq found[<<m, second>>].rows \cup erased

\* The parts of a report tell one story although midnight and the deletion of
\* the account may come between their statements: what lowers the uptime of the
\* status page shows in a bar, the check behind UP or DOWN counts in the uptime
\* unless it is too old, and in an answer to the user the short windows lie
\* within the long ones.
ReportsAgreeWithThemselves ==
  \A m \in MonitorSet :
    /\ Nested(m, "uptime7", "bars")
    /\ Nested(m, "uptime7", "uptime30")
    /\ Nested(m, "latency7", "latency30")
    /\ Nested(m, "hourly7", "latency7") /\ Nested(m, "keyword7", "uptime7")
    /\ \A i \in DOMAIN listed :
         listed[i].monitor = m /\ Found(m, "uptime7") =>
           \A r \in listed[i].latest :
             \/ r \in found[<<m, "uptime7">>].rows \cup erased
             \/ Day(r.at) + Week < found[<<m, "uptime7">>].day

\* No bar of the status page is taken over a part of its day, even if midnight
\* passes between the statement that reads the rows and the clock that names
\* the days: a failed check of a shown day is in its bar or was deleted.
BarsAreWhole ==
  \A m \in MonitorSet :
    Found(m, "bars") =>
      {r \in results : r.monitor = m /\ Day(r.at) + Month > found[<<m, "bars">>].day}
        \subseteq found[<<m, "bars">>].rows

\* The digest compares this week's latency with that of the week before.  No
\* successful check of the fortnight is left out of both, and none is in both
\* but for those of as many days as midnight passed between the statements.
WeeksAreComparable ==
  \A m \in MonitorSet :
    Found(m, "latency7") /\ Found(m, "latencyPrev") =>
      LET this == found[<<m, "latency7">>]
          last == found[<<m, "latencyPrev">>] IN
      /\ \A r \in this.rows \cap last.rows :
           this.day <= Day(r.at) + Week /\ Day(r.at) + Week < last.day
      /\ {r \in results : /\ r.monitor = m /\ r.check = "up"
                          /\ Day(r.at) + 2 * Week >= last.day}
           \subseteq this.rows \cup last.rows

\* A client that fetches page after page is given every incident once, newest
\* first, and has them all when it is told that there are no more pages, even if
\* the account is being deleted meanwhile.
PagesPartitionIncidents ==
  /\ NewestFirst(pages)
  /\ kind = "incidents" /\ stage = "done" =>
       \A i \in DOMAIN outages : \E j \in DOMAIN pages : pages[j] = outages[i]
=============================================================================
