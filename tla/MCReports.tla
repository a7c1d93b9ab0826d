------------------------------ MODULE MCReports ------------------------------
(* The instance of Reports for TLC: two monitors, of which the older one is   *)
(* disabled and has one result and one outage.                                *)
EXTENDS Reports

CONSTANTS new, old

TwoMonitors == <<new, old>>

OnlyNew == <<new>>

Row(m, at, check) == [monitor |-> m, at |-> at, check |-> check]

\* At most two results of the new monitor, one on each earlier day or two today.
FewResults ==
  LET Some == {Row(new, at, check) : at \in {1, 3, 5, 6, 7}, check \in {"up", "down", "keyword"}}
      Pairs == {{r, q} : r \in Some, q \in Some} IN
  {rows \cup {Row(old, 2, "up")} :
     rows \in {{}} \cup {pair \in Pairs : \A r, q \in pair : r.at = q.at => r = q}}

Out(m, at, id) == [monitor |-> m, at |-> at, id |-> id]

\* Two outages began at the same time.
ThreeOutages == <<Out(new, 6, 3), Out(old, 2, 2), Out(new, 2, 1)>>

FewTables ==
  {[results |-> rows, outages |-> <<>>] : rows \in FewResults} \cup
  {[results |-> {Row(old, 2, "up")}, outages |-> ThreeOutages]}
=============================================================================
