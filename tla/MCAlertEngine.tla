---------------------------- MODULE MCAlertEngine ----------------------------
(***************************************************************************)
(* Instances of AlertEngine for TLC.                                       *)
(***************************************************************************)
EXTENDS AlertEngine

CONSTANTS cpu, mem

OneCheck == <<cpu>>
TwoChecks == <<cpu, mem>>

\* Below and above the warning threshold.
TwoReadings == {0, 2}

WarningOne == [key \in Keys |-> 1]

\* A breach of cpu is critical, a breach of mem is a warning.
CriticalByMetric == [key \in Keys |-> IF key = cpu THEN 2 ELSE 3]
=============================================================================
