----------------------------- MODULE Simulator -----------------------------
(***************************************************************************)
(* simulator.go with the handlers it works with in server.go: /api/trigger *)
(* and /api/reset set the trigger flags, refresh makes a snapshot of the   *)
(* metrics out of the host's and of a few probes of the process's own      *)
(* /ping, and Run emits the snapshot to the relay of main.go.              *)
(*                                                                         *)
(* The flags are read at several moments of one refresh: by /ping in each  *)
(* probe, and by refresh itself after the probes.  A snapshot is the       *)
(* spiked host metrics and the number of slow and of failed probes, of     *)
(* which latency and error rate are the averages.                          *)
(***************************************************************************)
EXTENDS Naturals, Sequences, SequencesExt

CONSTANTS
  Host,        \* the host metrics that have a flag: "cpu", "memory"
  Probes,      \* the probes of one refresh (5 in the code)
  Capacity,    \* the capacity of the channel of Run (8 in the code)
  MaxChanges,  \* bound: how often the flags or the server change
  MaxRefreshes \* bound: how many refreshes there are

Flags == Host \cup {"latency", "error_rate"}

ASSUME SimulatorAssumption ==
  /\ Host \cap {"latency", "error_rate"} = {}
  /\ Probes \in Nat \ {0} /\ Capacity \in Nat \ {0}
  /\ MaxChanges \in Nat /\ MaxRefreshes \in Nat

VARIABLES
  trigger,   \* Simulator.trigger: the flags that are set
  up,        \* the server answers
  current,   \* Simulator.current
  run,       \* where Run is, and refresh's local variables
  ch,        \* the channel from Run to the relay
  hand,      \* what the relay has received and not yet broadcast: at most one
  lingering, \* the spiked snapshots broadcast since calm set in (history)
  made,      \* counts the refreshes (bound)
  changes,   \* counts the changes (bound)
  seen,      \* <<trigger, up>> as they were during this refresh (history)
  basis      \* seen, when current was stored (history variable)

vars == <<trigger, up, current, run, ch, hand, lingering, made, changes, seen, basis>>

Snapshot == [host : SUBSET Host, slow : 0..Probes, failed : 0..Probes]

\* The zero value of Metrics.
NoSnapshot == [host |-> {}, slow |-> 0, failed |-> 0]

\* A snapshot shows a trigger or a server that does not answer.
Spiky(m) == m.host # {} \/ m.slow > 0 \/ m.failed > 0

\* A refresh that saw only S found no flag set and the server answering.
Calm(S) == S = {<<{}, TRUE>>}

Init ==
  /\ trigger = {} /\ up = FALSE /\ current = NoSnapshot
  /\ run = [stage |-> "first"] /\ ch = <<>> /\ hand = <<>>
  /\ lingering = 0 /\ made = 0 /\ changes = 0 /\ seen = {} /\ basis = {}

-----------------------------------------------------------------------------
(* The outside: the handlers, and the server as main.go starts and stops it *)

Changes(newTrigger, newUp) ==
  /\ changes < MaxChanges /\ changes' = changes + 1
  /\ trigger' = newTrigger /\ up' = newUp
  /\ seen' = seen \cup {<<newTrigger, newUp>>}
  /\ UNCHANGED <<current, run, ch, hand, lingering, made, basis>>

SetTrigger(t) == up /\ t # trigger /\ Changes(t, up)

Reset == up /\ trigger # {} /\ Changes({}, up)

\* ListenAndServe begins to answer, Shutdown stops it.
Listen   == ~up /\ changes = 0 /\ Changes(trigger, TRUE)
Shutdown == up /\ Changes(trigger, FALSE)

-----------------------------------------------------------------------------
(* Run *)

Goes(next) == run' = next

\* refresh begins: the first one at once, then with refreshTick.
StartRefresh ==
  /\ run.stage \in {"first", "loop"} /\ made < MaxRefreshes /\ made' = made + 1
  /\ Goes([stage |-> "probe", n |-> 0, slow |-> 0, failed |-> 0,
           first |-> run.stage = "first"])
  /\ seen' = {<<trigger, up>>}
  /\ UNCHANGED <<trigger, up, current, ch, hand, lingering, changes, basis>>

\* /ping as one probe sees it: it is slow, it fails.  Without an answer a probe
\* counts as slow (5000 ms) and failed; with the flag 40% fail.
Ping(slow, failed) ==
  IF up THEN /\ slow = ("latency" \in trigger)
             /\ failed => "error_rate" \in trigger
        ELSE slow /\ failed

\* Mutant of MoreProbes: off by one.
MoreProbesByOne == run.n <= Probes

MoreProbes == run.n < Probes

\* One probe of probePing.
Probe ==
  /\ run.stage = "probe" /\ MoreProbes
  /\ \E slow, failed \in BOOLEAN :
       /\ Ping(slow, failed)
       /\ Goes([run EXCEPT !.n = @ + 1,
                           !.slow = @ + (IF slow THEN 1 ELSE 0),
                           !.failed = @ + (IF failed THEN 1 ELSE 0)])
  /\ UNCHANGED <<trigger, up, current, ch, hand, lingering, made, changes, seen, basis>>

\* Mutant of Spiked: a metric that was spiked remains so.
SpikedStill == current.host \cup (trigger \cap Host)

\* The host metrics that refresh overrides.
Spiked == trigger \cap Host

\* The flags are read once more.
Override ==
  /\ run.stage = "probe" /\ ~MoreProbes
  /\ Goes([stage |-> "store", host |-> Spiked, slow |-> run.slow,
           failed |-> run.failed, first |-> run.first])
  /\ UNCHANGED <<trigger, up, current, ch, hand, lingering, made, changes, seen, basis>>

\* Mutant of Stored: the latency is smoothed with what was measured before.
StoredSmoothed ==
  [host |-> run.host, failed |-> run.failed,
   slow |-> IF current.slow > run.slow THEN current.slow ELSE run.slow]

Stored == [host |-> run.host, slow |-> run.slow, failed |-> run.failed]

\* s.current = m.  The first snapshot is emitted before the tickers start.
StoreCurrent ==
  /\ run.stage = "store"
  /\ current' = Stored
  /\ Goes([stage |-> IF run.first THEN "emit" ELSE "loop"])
  /\ basis' = seen /\ lingering' = IF Calm(seen) THEN lingering ELSE 0
  /\ UNCHANGED <<trigger, up, ch, hand, made, changes, seen>>

\* ch <- s.Current(), which blocks while the channel is full: Run refreshes
\* nothing meanwhile, so that what it sends is still current.
Emit ==
  /\ run.stage \in {"emit", "loop"} /\ Len(ch) < Capacity
  /\ ch' = Append(ch, current)
  /\ Goes([stage |-> "loop"])
  /\ UNCHANGED <<trigger, up, current, hand, lingering, made, changes, seen, basis>>

\* The relay of main.go takes a snapshot, and broadcasts it when the hub does.
Receive ==
  /\ hand = <<>> /\ ch # <<>>
  /\ hand' = <<Head(ch)>> /\ ch' = Tail(ch)
  /\ UNCHANGED <<trigger, up, current, run, lingering, made, changes, seen, basis>>

Broadcast ==
  /\ hand # <<>> /\ hand' = <<>>
  /\ lingering' = IF Calm(basis) /\ Spiky(Head(hand)) THEN lingering + 1 ELSE lingering
  /\ UNCHANGED <<trigger, up, current, run, ch, made, changes, seen, basis>>

Run == StartRefresh \/ Probe \/ Override \/ StoreCurrent \/ Emit

Next ==
  \/ \E t \in SUBSET Flags : SetTrigger(t)
  \/ Reset \/ Listen \/ Shutdown
  \/ Run \/ Receive \/ Broadcast

Spec == Init /\ [][Next]_vars

-----------------------------------------------------------------------------
(* Properties *)

\* Type invariant; a snapshot never counts more probes than were made.
TypeOK ==
  /\ trigger \subseteq Flags /\ up \in BOOLEAN
  /\ current \in Snapshot /\ ch \in Seq(Snapshot) /\ Len(ch) <= Capacity
  /\ hand \in Seq(Snapshot) /\ Len(hand) <= 1
  /\ made \in 0..MaxRefreshes /\ lingering \in Nat /\ changes \in 0..MaxChanges
  /\ run \in [stage : {"first", "emit", "loop"}]
       \cup [stage : {"probe"}, n : 0..Probes, slow : 0..Probes,
             failed : 0..Probes, first : BOOLEAN]
       \cup [stage : {"store"}, host : SUBSET Host, slow : 0..Probes,
             failed : 0..Probes, first : BOOLEAN]
  /\ seen \in SUBSET ((SUBSET Flags) \X BOOLEAN)
  /\ basis \in SUBSET ((SUBSET Flags) \X BOOLEAN)

\* A snapshot shows nothing but what was so during its own refresh, and shows
\* what was so all the time: its host metrics are those of one moment, and its
\* slow (failed) probes have flags or a silent server to explain them, as do
\* the others.  So the second refresh after a reset is clean of the trigger,
\* and the first may show any mixture.
SnapshotReflectsItsRefresh ==
  basis # {} =>
    /\ \E b \in basis : current.host = b[1] \cap Host
    /\ current.slow > 0 => \E b \in basis : ~b[2] \/ "latency" \in b[1]
    /\ current.slow < Probes => \E b \in basis : b[2] /\ "latency" \notin b[1]
    /\ current.failed > 0 => \E b \in basis : ~b[2] \/ "error_rate" \in b[1]
    /\ current.failed < Probes => \E b \in basis : b[2]

\* An old spike fades out.  From the refresh that found every flag reset and
\* the server answering, until one that does not, dashboards get no more spiked
\* snapshots than the channel held and the relay had in hand: however long the
\* hub keeps the relay waiting and Emit with it, however often the flags change
\* between refreshes, and whatever is emitted again while no refresh comes.
SpikesFadeOut == lingering <= Capacity + 1
=============================================================================
