----------------------------- MODULE MCDashboard -----------------------------
(* The instance of Dashboard for TLC: one metric, whose breach is critical.  *)
EXTENDS Dashboard

CONSTANT cpu

OneCheck == <<cpu>>

\* Below and above the warning threshold.
TwoReadings == {0, 2}

WarningOne == [key \in Keys |-> 1]

CriticalTwo == [key \in Keys |-> 2]
=============================================================================
