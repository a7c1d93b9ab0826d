-------------------------- MODULE IncidentLifecycle --------------------------
(***************************************************************************)
(* What the alert engine promises to the readers of its tables: a list of  *)
(* episodes, in the order in which they began, in which those of a metric  *)
(* form a chain.  They never overlap, an episode ends once, and the next   *)
(* one starts no earlier than Cooldown after the end of the previous one.  *)
(* AlertEngine implements this (it gives the refinement mapping).          *)
(***************************************************************************)
EXTENDS Naturals, Sequences

CONSTANTS Metrics, Cooldown, NULL

VARIABLES
  episodes,  \* the episodes of all metrics, the oldest first
  clock

vars == <<episodes, clock>>

Episode == [metric : Metrics, start : Nat, end : Nat \cup {NULL}]

TypeOK == episodes \in Seq(Episode) /\ clock \in Nat

EpisodesOf(metric) == {n \in DOMAIN episodes : episodes[n].metric = metric}

Init == episodes = <<>> /\ clock = 0

Begin(metric) ==
  /\ \A n \in EpisodesOf(metric) :
       episodes[n].end # NULL /\ clock >= episodes[n].end + Cooldown
  /\ episodes' = Append(episodes, [metric |-> metric, start |-> clock, end |-> NULL])
  /\ UNCHANGED clock

Finish(n) ==
  /\ episodes[n].end = NULL
  /\ episodes' = [episodes EXCEPT ![n].end = clock]
  /\ UNCHANGED clock

Advance == clock' = clock + 1 /\ UNCHANGED episodes

Next ==
  \/ Advance
  \/ \E metric \in Metrics : Begin(metric)
  \/ \E n \in DOMAIN episodes : Finish(n)

Spec == Init /\ [][Next]_vars
=============================================================================
